---------------------------- MODULE ToolQuietProofs ----------------------------
(***************************************************************************)
(* Proofs about ToolController, continued: a worker that nobody will call  *)
(* again works from the Tool as it is, whatever the number of Tools; if    *)
(* there is one Tool, whoever is left alone is installed; every Tool lives *)
(* the life of module ToolLifecycle, and every release has a Tool that     *)
(* will uninstall it.                                                      *)
(***************************************************************************)
EXTENDS ToolProofs

\* What has changed is ahead of the cache.
LEMMA CacheBehind ==
  ASSUME TypeOK, Copies, DeletingHasFinalizer, [Next]_vars, NEW t \in Tools,
         cache'[t] = cache[t], cache'[t] = tools'[t]
  PROVE  tools'[t] = tools[t]
<1>1. Follows(cache[t], tools[t]) /\ cache[t].rv \in Nat /\ tools[t].rv \in Nat
  BY TypedFacts DEF Copies
<1>2. tools'[t] = tools[t] \/ tools'[t].rv = tools[t].rv + 1
  BY ToolSteps DEF Steps
<1>3. QED
  BY <1>1, <1>2 DEF Follows

\* The worker goes from one call to the next.
LEMMA GoingOnIsCurrent ==
  ASSUME ToolInv, WorkerIsCurrent, [Next]_vars,
         NEW pc \in ToolPCs, tw.pc # "idle", tw'.pc = pc, tw'.name = tw.name,
         tw'.obj = tw.obj, cache' = cache, queue' = queue,
         \/ pc # "start" /\ tw.pc # "start" /\ tw'.final = tw.final
         \/ pc # "start" /\ tw.pc = "start" /\ tw'.final = tw.obj.deleting
         \/ tw.pc = pc /\ tw'.final = tw.final
  PROVE  WorkerIsCurrent'
<1> SUFFICES ASSUME cache'[tw'.name] = me', tw'.name \notin queue'
             PROVE  /\ tw'.obj = me'
                    /\ tw'.pc # "start" => (tw'.final <=> me'.deleting)
  BY DEF WorkerIsCurrent
<1>1. me' = tools'[tw.name] /\ me = tools[tw.name] /\ tw.name \in Tools
  BY TypedFacts DEF me, ToolInv
<1>2. me' = me
  BY <1>1, CacheBehind DEF ToolInv
<1>3. cache[tw.name] = me /\ tw.name \notin queue
  BY <1>1, <1>2
<1>4. tw.obj = me /\ (tw.pc # "start" => (tw.final <=> me.deleting))
  BY <1>3 DEF WorkerIsCurrent
<1>5. tw'.final \in BOOLEAN /\ me.deleting \in BOOLEAN
  BY NextTypes, TypedFacts DEF ToolInv, TypeOK, ToolWorkerType
<1>6. QED
  BY <1>2, <1>4, <1>5

LEMMA WorkerCurrentInductive ==
  ASSUME ToolInv, WorkerIsCurrent, [Next]_vars
  PROVE  WorkerIsCurrent'
<1>t. /\ TypeOK /\ Copies /\ DeletingHasFinalizer /\ WorkerKnows
      /\ tw.name \in Tools /\ tw.pc \in ToolPCs /\ me = tools[tw.name]
      /\ me' = tools'[tw'.name] /\ TypeOK'
  BY TypedFacts, NextTypes DEF ToolInv, me
<1>i. ASSUME tw'.pc = "idle" PROVE WorkerIsCurrent'
  BY <1>i DEF WorkerIsCurrent
<1>1. CASE tw' = tw /\ cache' = cache /\ queue' = queue
  BY <1>1, <1>i, <1>t, GoingOnIsCurrent
<1>2. ASSUME NEW u \in Tools, SyncTool(u) PROVE WorkerIsCurrent'
  <2>1. CASE u = tw.name
    BY <1>2, <2>1 DEF SyncTool, WorkerIsCurrent
  <2>2. CASE u # tw.name
    <3>1. /\ tw' = tw /\ tools' = tools /\ cache'[tw.name] = cache[tw.name]
          /\ (tw.name \in queue' <=> tw.name \in queue)
      BY <1>2, <1>t, <2>2 DEF SyncTool, TypeOK
    <3>2. QED
      BY <1>t, <3>1 DEF WorkerIsCurrent
  <2>3. QED
    BY <2>1, <2>2
<1>3. CASE Done \/ Retry
  BY <1>3, <1>i, <1>t, IdleTyped DEF Done, Retry
<1>4. ASSUME NEW u \in Tools, ToolGet(u) PROVE WorkerIsCurrent'
  <2>1. tw.pc = "idle" /\ cache' = cache
    BY <1>4 DEF ToolGet, OnlyWorker
  <2>2. tw'.pc = "idle" \/ (tw'.obj = cache[tw'.name] /\ tw'.pc = "start")
    BY <2>1, HandSteps, <1>t DEF GoesOn, DropsIt, TakesOne, PatchesIt
  <2>3. QED
    BY <1>i, <2>1, <2>2 DEF WorkerIsCurrent
<1>5. CASE BeginDeletion
  <2>1. /\ tw'.pc \in {"uninstall", "unfinalize"} /\ tw'.obj = tw.obj /\ tw'.final
        /\ tw'.name = tw.name /\ tw'.final \in BOOLEAN
    BY <1>5, <1>t DEF BeginDeletion, TypeOK, ToolWorkerType
  <2>2. tw'.final = tw.obj.deleting
    BY <1>5, <2>1, TypedFacts, <1>t DEF BeginDeletion
  <2>3. tw'.pc \in ToolPCs /\ tw'.pc # "start"
    BY <2>1 DEF ToolPCs
  <2>4. QED
    BY <1>5, <1>t, <2>1, <2>2, <2>3, GoingOnIsCurrent DEF BeginDeletion, OnlyWorker
<1>6. CASE AddFinalizer
  <2>1. CASE me.live
    <3> DEFINE new == IF me.fin THEN me ELSE [me EXCEPT !.fin = TRUE, !.rv = @ + 1]
    <3>1. /\ tw' = [tw EXCEPT !.pc = "service", !.obj = new]
          /\ tools' = [tools EXCEPT ![tw.name] = new]
      BY <1>6, <2>1, Zenon DEF AddFinalizer
    <3>2. new.fin
      BY <2>1, <1>t, FinalizerTyped DEF ToolObject
    <3> HIDE DEF new
    <3>3. tw'.name = tw.name /\ tools'[tw.name] = new
      BY <1>t, <3>1 DEF ToolWorkerType, TypeOK
    <3>4. tw.pc = "start" /\ ~tw.obj.fin /\ cache' = cache /\ queue' = queue
      BY <1>6, <2>1 DEF AddFinalizer, OnlyTools
    <3>5. ~(cache'[tw'.name] = me' /\ tw'.name \notin queue')
      <4> SUFFICES ASSUME cache'[tw'.name] = me', tw'.name \notin queue' PROVE FALSE
        OBVIOUS
      <4>1. tools'[tw.name] = tools[tw.name]
        BY <1>t, <3>3, <3>4, CacheBehind
      <4>2. tw.obj = me
        BY <1>t, <3>3, <3>4, <4>1 DEF WorkerIsCurrent
      <4>3. QED
        BY <1>t, <3>2, <3>3, <3>4, <4>1, <4>2
    <3>6. QED
      BY <3>5 DEF WorkerIsCurrent
  <2>2. CASE ~me.live
    BY <1>3, <1>6, <2>2 DEF AddFinalizer
  <2>3. QED
    BY <2>1, <2>2
<1>7. CASE HasFinalizer
  <2>1. "service" \in ToolPCs /\ Goto("service") /\ tw.pc = "start" /\ ~tw.obj.deleting
        /\ cache' = cache /\ queue' = queue
    BY <1>7 DEF HasFinalizer, ToolPCs, Goto, OnlyWorker
  <2>2. tw'.pc = "service" /\ tw'.obj = tw.obj /\ tw'.final = tw.final
    BY <1>t, <2>1, GotoFields
  <2>3. ~tw.final /\ tw.final \in BOOLEAN /\ tw.obj.deleting \in BOOLEAN
    BY <1>t, <2>1, TypedFacts DEF WorkerKnows, Uninstalling
  <2>4. tw'.name = tw.name
    BY <1>t, <2>1 DEF Goto, TypeOK, ToolWorkerType
  <2>5. QED
    BY <2>1, <2>2, <2>3, <2>4, GoingOnIsCurrent
<1>8. ASSUME NEW pc \in ToolPCs \ {"start"}, Goto(pc), tw.pc \notin {"idle", "start"},
             cache' = cache
      PROVE  WorkerIsCurrent'
  <2>1. /\ tw'.pc = pc /\ tw'.obj = tw.obj /\ tw'.final = tw.final /\ tw'.name = tw.name
        /\ queue' = queue
    BY <1>8, <1>t DEF Goto, TypeOK, ToolWorkerType
  <2>2. QED
    BY <1>8, <2>1, GoingOnIsCurrent
<1>9. CASE \/ ChooseService \/ EnsureNamespace \/ HelmInstall
           \/ HelmUpgrade \/ HelmSucceeds \/ NoRelease \/ HelmUninstall
           \/ HelmPurge \/ DeleteNamespace \/ HistoryUnread
  <2>1. PICK pc \in ToolPCs \ {"start"} : Goto(pc)
    BY <1>9
       DEF ChooseService, EnsureNamespace, HelmInstall, HelmUpgrade, HelmSucceeds,
           NoRelease, HelmUninstall, HelmPurge, DeleteNamespace, HistoryUnread,
           AfterHelm, AfterUninstall, ToolPCs
  <2>2. cache' = cache /\ tw.pc \notin {"idle", "start"}
    BY <1>9
       DEF ChooseService, EnsureNamespace, HelmInstall, HelmUpgrade, HelmSucceeds,
           NoRelease, HelmUninstall, HelmPurge, DeleteNamespace, HistoryUnread,
           OnlyWorker, OnlyHelm, OnlyNs
  <2>3. QED
    BY <1>8, <2>1, <2>2
<1>10. CASE CheckHealth
  <2>1. /\ tw.pc = "health" /\ tw'.pc = "status" /\ tw'.obj = tw.obj
        /\ tw'.final = tw.final /\ tw'.name = tw.name /\ queue' = queue /\ cache' = cache
    BY <1>10, <1>t DEF CheckHealth, OnlyWorker, TypeOK, ToolWorkerType
  <2>2. "status" \in ToolPCs
    BY DEF ToolPCs
  <2>3. QED
    BY <2>1, <2>2, GoingOnIsCurrent
<1>11. CASE Restart
  BY <1>11, <1>i, IdleTyped, AnyToolIsOne DEF Restart
<1>12. ASSUME NEW u \in Tools, Resync(u) PROVE WorkerIsCurrent'
  BY <1>12, <1>i DEF Resync
<1>13. CASE User \/ UNCHANGED vars
  BY <1>1, <1>13, UserLeaves DEF vars
<1>14. ASSUME NEW n \in Namespaces, WorkloadReady(n) \/ WorkloadBreaks(n) \/ NamespaceGone(n)
       PROVE  WorkerIsCurrent'
  BY <1>1, <1>14 DEF WorkloadReady, WorkloadBreaks, NamespaceGone
<1>15. CASE \/ UnsupportedType \/ HelmRefuses \/ HelmTimesOut \/ RemoveFinalizer
            \/ UpdateStatus \/ CallFails
  BY <1>3, <1>15
     DEF UnsupportedType, HelmRefuses, HelmTimesOut, RemoveFinalizer, UpdateStatus,
         CallFails
<1>16. QED
  BY <1>2, <1>4, <1>5, <1>6, <1>7, <1>9, <1>10, <1>11, <1>12, <1>13, <1>14, <1>15
     DEF Next, Kubernetes, WorkerStep

\* A reconciliation whose key is not in the queue works from the Tool as it is,
\* and is a deletion just if the Tool is marked deleted, although the Tool was
\* read from a cache and its finalizer patched without a version.
THEOREM WorkerIsCurrentHolds == Spec => []WorkerIsCurrent
<1>1. Init => ToolInv /\ WorkerIsCurrent
  BY InitInv, IdleTyped, AnyToolIsOne DEF Init, WorkerIsCurrent
<1>2. ToolInv /\ WorkerIsCurrent /\ [Next]_vars => (ToolInv /\ WorkerIsCurrent)'
  BY NextInv, WorkerCurrentInductive
<1>3. QED
  BY <1>1, <1>2, PTL DEF Spec
-----------------------------------------------------------------------------
(***************************************************************************)
(* The life of a Tool.                                                     *)
(***************************************************************************)

\* What the worker goes on with once it has begun, and how it has begun: with a
\* deletion, with a Tool it found protected, or with one it has just patched.
HasBegun ==
  /\ tw'.obj = tw.obj /\ tw'.name = tw.name
  /\ \/ tw.pc \notin {"idle", "start"} /\ tw'.final = tw.final
     \/ tw.pc = "start" /\ tw.obj.deleting /\ tw'.final
     \/ tw.pc = "start" /\ ~tw.obj.deleting /\ tw.obj.fin /\ tw'.final = tw.final

LEMMA WorkSteps ==
  ASSUME TypeOK, [Next]_vars, tw'.pc \notin {"idle", "start"}
  PROVE  HasBegun \/ PatchesIt
<1>t. tw \in ToolWorkerType /\ tw.name \in Tools
  BY TypedFacts DEF TypeOK
<1>1. CASE tw' = tw
  BY <1>1 DEF HasBegun
<1>2. CASE Done \/ Retry
  BY <1>2, <1>t, IdleTyped DEF Done, Retry
<1>3. ASSUME NEW pc, Goto(pc), tw.pc \notin {"idle", "start"} PROVE HasBegun
  BY <1>3, <1>t DEF Goto, ToolWorkerType, HasBegun
<1>4. ASSUME NEW t \in Tools, ToolGet(t) PROVE FALSE
  <2>1. tw.pc = "idle"
    BY <1>4 DEF ToolGet
  <2>2. QED
    BY <2>1, HandSteps DEF GoesOn, DropsIt, TakesOne, PatchesIt
<1>5. CASE BeginDeletion
  BY <1>5, <1>t DEF BeginDeletion, ToolWorkerType, HasBegun
<1>6. CASE AddFinalizer
  BY <1>2, <1>6, PatchHolds DEF AddFinalizer
<1>7. CASE HasFinalizer
  BY <1>7, <1>t DEF HasFinalizer, Goto, ToolWorkerType, HasBegun
<1>8. CASE \/ ChooseService \/ EnsureNamespace \/ HelmInstall
           \/ HelmUpgrade \/ HelmSucceeds \/ NoRelease \/ HelmUninstall
           \/ HelmPurge \/ DeleteNamespace \/ HistoryUnread
  BY <1>3, <1>8
     DEF ChooseService, EnsureNamespace, HelmInstall, HelmUpgrade, HelmSucceeds,
         NoRelease, HelmUninstall, HelmPurge, DeleteNamespace, HistoryUnread
<1>9. CASE \/ UnsupportedType \/ HelmRefuses \/ HelmTimesOut \/ RemoveFinalizer
           \/ UpdateStatus \/ CallFails
  BY <1>2, <1>9
     DEF UnsupportedType, HelmRefuses, HelmTimesOut, RemoveFinalizer, UpdateStatus, CallFails
<1>10. CASE CheckHealth
  BY <1>10, <1>t DEF CheckHealth, ToolWorkerType, HasBegun
<1>11. CASE Restart
  BY <1>11, IdleTyped, AnyToolIsOne DEF Restart
<1>12. CASE User \/ Kubernetes \/ \E t \in Tools : Resync(t)
  BY <1>1, <1>12, UserLeaves
     DEF Kubernetes, SyncTool, WorkloadReady, WorkloadBreaks, NamespaceGone, Resync
<1>13. QED
  BY <1>1, <1>4, <1>5, <1>6, <1>7, <1>8, <1>9, <1>10, <1>11, <1>12
     DEF Next, WorkerStep, vars

LEMMA MarkedInductive ==
  ASSUME TypeOK, Copies, DeletingHasFinalizer, WorkerKnows, DeletionIsMarked, TypeOK',
         WorkerKnows', [Next]_vars
  PROVE  DeletionIsMarked'
<1>t. tw.name \in Tools /\ tw'.name \in Tools /\ me' = tools'[tw'.name]
      /\ me = tools[tw.name]
  BY TypedFacts DEF TypeOK, ToolWorkerType, me
<1>s. ASSUME NEW t \in Tools PROVE Steps(t) /\ CacheStays(t)
  BY ToolSteps, CacheSteps
<1>k. ASSUME NEW t \in Tools, NEW o, Marked(o, tools[t]), ~Finalized(t)
      PROVE  Marked(o, tools'[t])
  BY <1>k, <1>s DEF Steps, Kept, Bare, Marked
<1>1. ASSUME NEW t \in Tools PROVE Marked(cache'[t], tools'[t])
  <2>1. CASE cache'[t] = cache[t]
    <3>1. CASE Finalized(t)
      BY <1>t, <2>1, <3>1 DEF Finalized, Marked, DeletionIsMarked, DeletingHasFinalizer
    <3>2. CASE ~Finalized(t)
      BY <1>k, <2>1, <3>2 DEF DeletionIsMarked
    <3>3. QED
      BY <3>1, <3>2
  <2>2. CASE cache'[t] = tools[t] /\ tools' = tools
    BY <2>2 DEF Marked
  <2>3. QED
    BY <1>s, <2>1, <2>2 DEF CacheStays
<1>2. ASSUME tw'.pc # "idle" PROVE Marked(tw'.obj, me')
  <2>1. CASE GoesOn
    <3>1. Marked(tw.obj, me)
      BY <1>2, <2>1 DEF GoesOn, DeletionIsMarked
    <3>2. CASE Finalized(tw.name)
      BY <2>1, <3>2 DEF GoesOn, Finalized, Marked
    <3>3. CASE ~Finalized(tw.name)
      BY <1>k, <1>t, <2>1, <3>1, <3>3 DEF GoesOn
    <3>4. QED
      BY <3>2, <3>3
  <2>2. CASE TakesOne
    BY <1>t, <2>2 DEF TakesOne, DeletionIsMarked
  <2>3. CASE PatchesIt
    BY <1>t, <2>3 DEF PatchesIt, Marked
  <2>4. QED
    BY <1>2, <2>1, <2>2, <2>3, HandSteps DEF DropsIt
<1>c. ASSUME tw.pc # "idle", tw.pc = "start" \/ tw.final
      PROVE  Marked(tw.obj, cache'[tw.name])
  <2>1. Marked(tw.obj, cache[tw.name]) /\ Marked(tw.obj, tools[tw.name])
    BY <1>c, <1>t DEF DeletionIsMarked
  <2>2. QED
    BY <1>s, <1>t, <2>1 DEF CacheStays
<1>3. ASSUME tw'.pc # "idle", tw'.pc = "start" \/ tw'.final
      PROVE  Marked(tw'.obj, cache'[tw'.name])
  <2>1. CASE tw'.pc = "start"
    <3>1. CASE tw' = tw
      BY <1>c, <2>1, <3>1
    <3>2. CASE TakesOne
      BY <3>2 DEF TakesOne, Marked
    <3>3. QED
      BY <2>1, <3>1, <3>2, StartsOnce
  <2>2. CASE tw'.pc # "start"
    <3>1. tw'.final /\ tw'.pc # "service"
      BY <1>3, <2>2 DEF WorkerKnows, Uninstalling
    <3>2. HasBegun
      BY <1>3, <2>2, <3>1, WorkSteps DEF PatchesIt
    <3>3. QED
      BY <1>c, <3>1, <3>2 DEF HasBegun, WorkerKnows
  <2>3. QED
    BY <2>1, <2>2
<1>4. ASSUME tw'.pc = "start", ~tw'.obj.deleting, ~tw'.obj.fin,
             cache'[tw'.name].live, cache'[tw'.name].deleting
      PROVE  me'.live /\ me'.deleting
  <2>1. CASE tw' = tw
    <3>1. CASE cache'[tw.name] = cache[tw.name]
      <4>1. me.live /\ me.deleting /\ me.fin
        BY <1>4, <1>t, <2>1, <3>1 DEF DeletionIsMarked, DeletingHasFinalizer
      <4>2. QED
        BY <1>4, <1>s, <1>t, <2>1, <4>1 DEF Steps, Kept, Bare, Finalized
    <3>2. CASE cache'[tw.name] = tools[tw.name] /\ tools' = tools
      BY <1>4, <1>t, <2>1, <3>2
    <3>3. QED
      BY <1>s, <1>t, <3>1, <3>2 DEF CacheStays
  <2>2. CASE TakesOne
    BY <1>4, <2>2 DEF TakesOne
  <2>3. QED
    BY <1>4, <2>1, <2>2, StartsOnce
<1>5. QED
  BY <1>1, <1>2, <1>3, <1>4 DEF DeletionIsMarked

\* A step changes the life of one Tool at most, and as the lifecycle allows.
LEMMA OneTouched ==
  ASSUME TypeOK, [Next]_vars
  PROVE  \E u \in Tools : \A t \in Tools \ {u} : tools'[t] = tools[t]
<1>t. tools \in [Tools -> ToolObject] /\ tw.name \in Tools
  BY TypedFacts DEF TypeOK
<1>1. ASSUME NEW u \in Tools, NEW new, tools' = [tools EXCEPT ![u] = new]
      PROVE  \E v \in Tools : \A t \in Tools \ {v} : tools'[t] = tools[t]
  BY <1>1, <1>t
<1>2. CASE tools' = tools
  BY <1>2, <1>t
<1>3. CASE User
  <2>1. ASSUME NEW u \in Tools, NEW new, UserWrites(u, new)
        PROVE  tools' = [tools EXCEPT ![u] = new]
    BY <2>1 DEF UserWrites
  <2>2. PICK u \in Tools :
          (\E spec \in ToolSpecs : CreateTool(u, spec) \/ EditTool(u, spec)) \/ DeleteTool(u)
    BY <1>3 DEF User
  <2>3. \E new : UserWrites(u, new)
    <3>1. ASSUME NEW spec, CreateTool(u, spec) \/ EditTool(u, spec)
          PROVE  \E new : UserWrites(u, new)
      BY <3>1, Zenon DEF CreateTool, EditTool
    <3>2. CASE DeleteTool(u)
      BY <3>2, Zenon DEF DeleteTool
    <3>3. QED
      BY <2>2, <3>1, <3>2
  <2>4. QED
    BY <1>1, <2>1, <2>3
<1>4. CASE AddFinalizer \/ UnsupportedType \/ RemoveFinalizer \/ UpdateStatus
  <2>1. tools' = tools \/ \E new : tools' = [tools EXCEPT ![tw.name] = new]
    BY <1>4, Zenon DEF AddFinalizer, UnsupportedType, RemoveFinalizer, UpdateStatus
  <2>2. QED
    BY <1>1, <1>2, <1>t, <2>1
<1>5. CASE WorkerStep
  BY <1>2, <1>4, <1>5
     DEF WorkerStep, ToolGet, BeginDeletion, HasFinalizer, ChooseService,
         EnsureNamespace, HelmInstall, HelmUpgrade, HelmRefuses, HelmSucceeds,
         HelmTimesOut, NoRelease, HelmUninstall, HelmPurge, DeleteNamespace,
         CheckHealth, OnlyWorker, OnlyHelm, OnlyNs
<1>6. QED
  BY <1>2, <1>3, <1>5
     DEF Next, vars, Kubernetes, SyncTool, WorkloadReady, WorkloadBreaks,
         NamespaceGone, Resync, CallFails, HistoryUnread, Restart

LEMMA LifeSteps ==
  ASSUME TypeOK, Copies, DeletingHasFinalizer, WorkerKnows, DeletionIsMarked, TypeOK',
         [Next]_vars, NEW t \in Tools
  PROVE  \/ Life(tools'[t]) = Life(tools[t])
         \/ Life(tools[t]) = "absent" /\ Life(tools'[t]) = "bare"
         \/ Life(tools[t]) = "bare" /\ Life(tools'[t]) \in {"absent", "protected"}
         \/ Life(tools[t]) = "protected" /\ Life(tools'[t]) = "leaving"
         \/ Life(tools[t]) = "leaving" /\ Life(tools'[t]) = "absent"
<1>t. /\ tools[t].live \in BOOLEAN /\ tools[t].fin \in BOOLEAN
      /\ tools[t].deleting \in BOOLEAN
      /\ tools'[t].live \in BOOLEAN /\ tools'[t].fin \in BOOLEAN
      /\ tools'[t].deleting \in BOOLEAN
  BY DEF TypeOK, ToolObject
<1>d. tools[t].deleting => tools[t].fin
  BY DEF DeletingHasFinalizer
<1>1. CASE tools'[t] = tools[t]
  BY <1>1
<1>2. CASE Kept(t)
  BY <1>2, <1>t, <1>d DEF Kept, Life
<1>3. CASE Bare(t) /\ (~tools[t].live \/ ~tools[t].fin)
  <2>1. Life(tools[t]) = IF tools[t].live THEN "bare" ELSE "absent"
    BY <1>3, <1>t, <1>d DEF Life
  <2>2. Life(tools'[t]) = IF tools'[t].live THEN "bare" ELSE "absent"
    BY <1>3, <1>t DEF Bare, Life
  <2>3. QED
    BY <1>t, <2>1, <2>2
<1>4. CASE Bare(t) /\ tools[t].live /\ tools[t].fin
  <2>1. /\ tw.pc = "unfinalize" /\ t = tw.name
        /\ tools[t].deleting => ~tools'[t].live
    BY <1>4 DEF Bare
  <2>2. tw.obj.live /\ tw.obj.deleting /\ Marked(tw.obj, tools[t])
    BY <2>1 DEF WorkerKnows, DeletionIsMarked, me
  <2>3. tools[t].deleting
    BY <1>4, <2>2 DEF Marked
  <2>4. QED
    BY <1>4, <1>t, <2>1, <2>3 DEF Life
<1>5. CASE Finalized(t)
  BY <1>5, <1>t, <1>d DEF Finalized, Life
<1>6. QED
  BY <1>1, <1>2, <1>3, <1>4, <1>5, ToolSteps DEF Steps, Bare

\* Every step of the system is a step in the life of one Tool, or of none.
LEMMA LifeNext ==
  ASSUME ToolInv, DeletionIsMarked, [Next]_vars
  PROVE  ToolLife!Next \/ UNCHANGED [t \in Tools |-> Life(tools[t])]
<1> DEFINE life == [t \in Tools |-> Life(tools[t])]
<1>t. TypeOK /\ Copies /\ DeletingHasFinalizer /\ WorkerKnows /\ TypeOK'
  BY NextTypes DEF ToolInv
<1>1. PICK u \in Tools : \A t \in Tools \ {u} : tools'[t] = tools[t]
  BY <1>t, OneTouched
<1>2. life' = [life EXCEPT ![u] = life'[u]]
  BY <1>1
<1>3. CASE life'[u] = life[u]
  <2>1. life' = life
    BY <1>2, <1>3
  <2>2. QED
    BY <2>1
<1>4. CASE life'[u] # life[u]
  <2>1. \/ life[u] = "absent" /\ life'[u] = "bare"
        \/ life[u] = "bare" /\ life'[u] \in {"absent", "protected"}
        \/ life[u] = "protected" /\ life'[u] = "leaving"
        \/ life[u] = "leaving" /\ life'[u] = "absent"
    BY <1>t, <1>4, LifeSteps
  <2>2. ASSUME NEW from, NEW to, life[u] = from, life'[u] = to
        PROVE  ToolLife!Becomes(u, from, to)
    BY <1>2, <2>2 DEF ToolLife!Becomes
  <2> HIDE DEF life
  <2>3. \/ ToolLife!Create(u) \/ ToolLife!Drop(u) \/ ToolLife!Protect(u)
        \/ ToolLife!Mark(u) \/ ToolLife!Leave(u)
    BY <2>1, <2>2
       DEF ToolLife!Create, ToolLife!Drop, ToolLife!Protect, ToolLife!Mark, ToolLife!Leave
  <2>4. QED
    BY <2>3 DEF ToolLife!Next
<1>5. QED
  BY <1>3, <1>4
-----------------------------------------------------------------------------
(***************************************************************************)
(* Whose release it is.                                                    *)
(***************************************************************************)
LEMMA InstallsKnownInductive ==
  ASSUME TypeOK, InstallsKnown, [Next]_vars
  PROVE  InstallsKnown'
<1> SUFFICES ASSUME tw'.pc \in Installing PROVE tw'.obj.spec.known
  BY DEF InstallsKnown, Installing
<1>i. Installing = {"ensurens", "helm", "wait"} /\ "idle" \notin Installing
  BY DEF Installing
<1>1. HasBegun \/ PatchesIt
  BY <1>i, WorkSteps
<1>2. CASE tw.pc \in Installing
  BY <1>1, <1>i, <1>2 DEF InstallsKnown, HasBegun, PatchesIt
<1>3. CASE tw.pc \notin Installing
  <2>t. tw \in ToolWorkerType /\ tw.name \in Tools
    BY TypedFacts DEF TypeOK
  <2>1. CASE tw' = tw
    BY <1>3, <2>1
  <2>2. CASE Done \/ Retry
    BY <1>i, <2>2, <2>t, IdleTyped DEF Done, Retry
  <2>3. ASSUME NEW pc, Goto(pc), pc \notin Installing PROVE FALSE
    BY <2>3, <2>t DEF Goto, ToolWorkerType
  <2>4. CASE ChooseService
    BY <2>t, <2>4 DEF ChooseService, Goto, ToolWorkerType
  <2>5. CASE BeginDeletion \/ CheckHealth
    BY <1>i, <2>t, <2>5 DEF BeginDeletion, CheckHealth, ToolWorkerType
  <2>6. CASE AddFinalizer
    BY <1>i, <2>2, <2>6, PatchHolds DEF AddFinalizer, PatchesIt
  <2>7. ASSUME NEW t \in Tools, ToolGet(t) PROVE FALSE
    BY <1>1, <2>7 DEF ToolGet, HasBegun, PatchesIt
  <2>8. CASE EnsureNamespace \/ HelmInstall \/ HelmUpgrade \/ HelmSucceeds
    BY <1>3, <1>i, <2>3, <2>8
       DEF EnsureNamespace, HelmInstall, HelmUpgrade, HelmSucceeds
  <2>9. CASE \/ HasFinalizer \/ NoRelease \/ HelmUninstall \/ HelmPurge
             \/ DeleteNamespace \/ HistoryUnread
    BY <1>i, <2>3, <2>9
       DEF HasFinalizer, NoRelease, HelmUninstall, HelmPurge, DeleteNamespace,
           HistoryUnread, AfterHelm, AfterUninstall
  <2>10. CASE \/ UnsupportedType \/ HelmRefuses \/ HelmTimesOut \/ RemoveFinalizer
              \/ UpdateStatus \/ CallFails
    BY <2>2, <2>10
       DEF UnsupportedType, HelmRefuses, HelmTimesOut, RemoveFinalizer, UpdateStatus,
           CallFails
  <2>11. CASE Restart
    BY <1>i, <2>11, IdleTyped, AnyToolIsOne DEF Restart
  <2>12. CASE User \/ Kubernetes \/ \E t \in Tools : Resync(t)
    BY <2>1, <2>12, UserLeaves
       DEF Kubernetes, SyncTool, WorkloadReady, WorkloadBreaks, NamespaceGone, Resync
  <2>13. QED
    BY <2>1, <2>4, <2>5, <2>6, <2>7, <2>8, <2>9, <2>10, <2>11, <2>12
       DEF Next, WorkerStep, vars
<1>4. QED
  BY <1>2, <1>3

\* The Tool behind a copy stays the one that means its release.
LEMMA GuardStays ==
  ASSUME NEW t \in Tools, NEW obj, Guards(obj, t), Steps(t), budget'.moves = 0,
         ~(tw.pc = "unfinalize" /\ t = tw.name)
  PROVE  tools'[t].live /\ tools'[t].fin /\ SameRelease(tools'[t], obj)
BY DEF Guards, Steps, Kept, Bare, Finalized, SameRelease

LEMMA InstallationInductive ==
  ASSUME ToolInv, DeletionIsMarked, InstallationKnows, ToolInv', [Next]_vars
  PROVE  InstallationKnows'
<1> SUFFICES ASSUME budget'.moves = 0
             PROVE  /\ \A t \in Tools :
                         cache'[t].live /\ cache'[t].fin /\ ~cache'[t].deleting =>
                           Guards(cache[t], t)'
                    /\ tw'.pc = "start" /\ tw'.obj.fin /\ ~tw'.obj.deleting =>
                         Guards(tw.obj, tw.name)'
                    /\ tw'.pc \notin {"idle", "start"} /\ ~tw'.final =>
                         Guards(tw.obj, tw.name)'
  BY DEF InstallationKnows
<1>t. /\ TypeOK /\ Copies /\ DeletingHasFinalizer /\ WorkerKnows
      /\ tw.name \in Tools /\ tw'.name \in Tools
  BY TypedFacts DEF ToolInv, TypeOK, ToolWorkerType
<1>s. ASSUME NEW t \in Tools PROVE Steps(t) /\ CacheStays(t)
  BY <1>t, ToolSteps, CacheSteps
<1>b. budget.moves = 0
  BY <1>t, MovesGrow
<1> USE DEF Guards
<1>1. ASSUME NEW t \in Tools, cache'[t].live, cache'[t].fin, ~cache'[t].deleting
      PROVE  Guards(cache[t], t)'
  <2>1. CASE cache'[t] = cache[t]
    <3>1. Guards(cache[t], t)
      BY <1>1, <1>b, <2>1 DEF InstallationKnows
    <3>2. ~(tw.pc = "unfinalize" /\ t = tw.name)
      <4> SUFFICES ASSUME tw.pc = "unfinalize", t = tw.name PROVE FALSE
        OBVIOUS
      <4>1. tw.final /\ tw.obj.live /\ tw.obj.deleting
        BY <1>t DEF WorkerKnows
      <4>2. QED
        BY <1>1, <2>1, <4>1 DEF DeletionIsMarked, Marked
    <3>3. QED
      BY <1>s, <2>1, <3>1, <3>2, GuardStays
  <2>2. CASE cache'[t] = tools[t] /\ tools' = tools
    BY <1>1, <2>2 DEF SameRelease
  <2>3. QED
    BY <1>s, <2>1, <2>2 DEF CacheStays
<1>2. ASSUME tw'.pc = "start", tw'.obj.fin, ~tw'.obj.deleting
      PROVE  Guards(tw.obj, tw.name)'
  <2>1. CASE tw' = tw
    <3>1. Guards(tw.obj, tw.name)
      BY <1>2, <1>b, <2>1 DEF InstallationKnows
    <3>2. QED
      BY <1>2, <1>s, <1>t, <2>1, <3>1, GuardStays
  <2>2. CASE TakesOne
    BY <1>2, <1>b, <2>2 DEF TakesOne, InstallationKnows
  <2>3. QED
    BY <1>2, <1>t, <2>1, <2>2, StartsOnce
<1>3. ASSUME tw'.pc \notin {"idle", "start"}, ~tw'.final
      PROVE  Guards(tw.obj, tw.name)'
  <2>1. CASE HasBegun
    <3>1. tw'.obj = tw.obj /\ tw'.name = tw.name
      BY <2>1 DEF HasBegun
    <3>2. Guards(tw.obj, tw.name) /\ tw.pc # "unfinalize"
      BY <1>3, <1>b, <1>t, <2>1 DEF HasBegun, InstallationKnows, WorkerKnows
    <3>3. QED
      BY <1>s, <1>t, <3>1, <3>2, GuardStays
  <2>2. CASE PatchesIt
    BY <2>2 DEF PatchesIt, SameRelease
  <2>3. QED
    BY <1>3, <1>t, <2>1, <2>2, WorkSteps
<1>4. QED
  BY <1>1, <1>2, <1>3

\* A release appears when helm installs it, or upgrades one that was taken for
\* gone, and in no other way.
LEMMA ReleaseAppears ==
  ASSUME TypeOK, [Next]_vars, NEW n \in Namespaces, Uninstalled(n), ~Uninstalled(n)'
  PROVE  tw.pc = "helm" /\ n = ns /\ tools' = tools
<1>t. /\ releases \in [Namespaces -> ReleaseStates] /\ ns \in Namespaces
      /\ missed \in SUBSET Namespaces
  BY TypedFacts DEF TypeOK
<1>n. releases'[n] # "none" /\ n \notin missed' /\ (releases[n] = "none" \/ n \in missed)
  BY DEF Uninstalled
<1>1. releases' # releases \/ missed' # missed
  BY <1>n
<1>2. ASSUME NEW m \in Namespaces, NamespaceGone(m) PROVE FALSE
  BY <1>2, <1>t, <1>n DEF NamespaceGone
<1>3. CASE WorkerStep
  <2>1. \/ HelmInstall \/ HelmUpgrade \/ HelmSucceeds \/ HelmTimesOut \/ HelmUninstall
        \/ HelmPurge
    BY <1>1, <1>3
       DEF WorkerStep, ToolGet, BeginDeletion, AddFinalizer, HasFinalizer,
           UnsupportedType, ChooseService, EnsureNamespace, HelmRefuses, NoRelease,
           DeleteNamespace, RemoveFinalizer, CheckHealth, UpdateStatus,
           OnlyWorker, OnlyTools, OnlyNs
  <2>2. CASE HelmInstall \/ HelmUpgrade
    BY <1>t, <1>n, <2>2 DEF HelmInstall, HelmUpgrade, OnlyHelm
  <2>3. CASE HelmSucceeds \/ HelmTimesOut
    BY <1>t, <1>n, <2>3 DEF HelmSucceeds, HelmTimesOut
  <2>4. CASE HelmUninstall \/ HelmPurge
    BY <1>t, <1>n, <2>4 DEF HelmUninstall, HelmPurge
  <2>5. QED
    BY <2>1, <2>2, <2>3, <2>4
<1>4. CASE User
  BY <1>1, <1>4, UserLeaves
<1>5. CASE HistoryUnread
  BY <1>n, <1>5 DEF HistoryUnread
<1>6. QED
  BY <1>1, <1>2, <1>3, <1>4, <1>5
     DEF Next, vars, Kubernetes, SyncTool, WorkloadReady, WorkloadBreaks, Resync,
         CallFails, Restart

LEMMA GuardedInductive ==
  ASSUME SharedInv, [Next]_vars
  PROVE  ReleasesGuarded'
<1>t. /\ TypeOK /\ Copies /\ DeletingHasFinalizer /\ WorkerKnows /\ DeletionKnows
      /\ InstallsKnown /\ InstallationKnows /\ ReleasesGuarded /\ tw.name \in Tools
      /\ me = tools[tw.name]
  BY TypedFacts DEF SharedInv, ToolInv, me
<1> SUFFICES ASSUME budget'.moves = 0, NEW n \in Namespaces, ~Uninstalled(n)'
             PROVE  \E t \in Tools :
                      /\ tools'[t].live /\ tools'[t].fin /\ tools'[t].spec.known
                      /\ Resolved(tools'[t].spec) = n
  BY DEF ReleasesGuarded, Resolved
<1>b. budget.moves = 0
  BY <1>t, MovesGrow
<1>1. CASE Uninstalled(n)
  <2>1. tw.pc = "helm" /\ n = ns /\ tools' = tools
    BY <1>1, <1>t, ReleaseAppears
  <2>2. tw.obj.spec.known /\ ~tw.final
    BY <1>t, <2>1 DEF InstallsKnown, Installing, WorkerKnows, Uninstalling
  <2>3. Guards(tw.obj, tw.name)
    BY <1>b, <1>t, <2>1, <2>2 DEF InstallationKnows
  <2>4. QED
    BY <1>t, <2>1, <2>2, <2>3 DEF Guards, SameRelease, ns, Resolved
<1>2. CASE ~Uninstalled(n)
  <2>1. PICK t \in Tools : /\ tools[t].live /\ tools[t].fin /\ tools[t].spec.known
                           /\ Resolved(tools[t].spec) = n
    BY <1>2, <1>b, <1>t DEF ReleasesGuarded
  <2>2. ~(tw.pc = "unfinalize" /\ t = tw.name)
    <3> SUFFICES ASSUME tw.pc = "unfinalize", t = tw.name PROVE FALSE
      OBVIOUS
    <3>1. tw.obj.deleting
      BY <1>t DEF WorkerKnows
    <3>2. SameRelease(tools[t], tw.obj)
      BY <1>b, <1>t, <2>1, <3>1 DEF DeletionKnows
    <3>3. ns = n /\ tw.obj.spec.known
      BY <2>1, <3>2 DEF SameRelease, ns, Resolved
    <3>4. QED
      BY <1>2, <1>t, <3>3 DEF WorkerKnows
  <2>3. Guards(tools[t], t)
    BY <2>1 DEF Guards, SameRelease
  <2>4. tools'[t].live /\ tools'[t].fin /\ SameRelease(tools'[t], tools[t])
    BY <1>t, <2>2, <2>3, ToolSteps, GuardStays
  <2>5. QED
    BY <2>1, <2>4 DEF SameRelease, Resolved
<1>3. QED
  BY <1>1, <1>2

LEMMA InitShared == Init => SharedInv
<1> SUFFICES ASSUME Init PROVE SharedInv
  OBVIOUS
<1>1. /\ tw.pc = "idle" /\ ~tw.final
      /\ \A t \in Tools : ~cache[t].deleting /\ ~cache[t].live
      /\ \A n \in Namespaces : releases[n] = "none"
  BY IdleTyped, AnyToolIsOne, NoToolTyped DEF Init
<1>2. DeletionIsMarked
  BY <1>1 DEF DeletionIsMarked, Marked
<1>3. InstallsKnown /\ InstallationKnows /\ ReleasesGuarded
  BY <1>1 DEF InstallsKnown, Installing, InstallationKnows, ReleasesGuarded, Uninstalled
<1>4. QED
  BY <1>2, <1>3, InitInv DEF SharedInv

LEMMA NextShared ==
  ASSUME SharedInv, [Next]_vars
  PROVE  SharedInv'
<1>1. ToolInv /\ ToolInv' /\ DeletionIsMarked /\ InstallationKnows /\ InstallsKnown
  BY NextInv DEF SharedInv
<1>2. DeletionIsMarked'
  BY <1>1, MarkedInductive DEF ToolInv
<1>3. InstallsKnown'
  BY <1>1, InstallsKnownInductive DEF ToolInv
<1>4. InstallationKnows'
  BY <1>1, InstallationInductive
<1>5. ReleasesGuarded'
  BY GuardedInductive
<1>6. QED
  BY <1>1, <1>2, <1>3, <1>4, <1>5 DEF SharedInv

\* The inductive invariant of Tools that may share a release: who has read one
\* that is marked deleted finds it so, who installs one finds it protected and,
\* while none is moved, in the namespace it installs to.
THEOREM SharedInvariant == Spec => []SharedInv
<1>1. SharedInv /\ [Next]_vars => SharedInv'
  BY NextShared
<1>2. QED
  BY <1>1, InitShared, PTL DEF Spec

\* No release is orphaned but one whose history an uninstall could not read: as
\* long as no Tool is moved, any other, be it half installed, has a protected
\* Tool to uninstall it, for any number of Tools and namespaces (AddFinalizer
\* before EnsureInstalled, EnsureUninstalled before RemoveFinalizer).
THEOREM ReleasesGuardedHolds == Spec => []ReleasesGuarded
<1>1. SharedInv => ReleasesGuarded
  BY DEF SharedInv
<1>2. QED
  BY <1>1, SharedInvariant, PTL

\* The Tool controller implements the life of a Tool, for any number of Tools,
\* moved or not: no Tool is robbed of its finalizer (handleDeletion) and left
\* alive, by whatever copy of it the worker decided.
THEOREM ToolsKeepLifecycleHolds == Spec => ToolsKeepLifecycle
<1>1. Init => ToolLife!Init
  BY NoToolTyped DEF Init, ToolLife!Init, Life
<1>2. SharedInv /\ [Next]_vars => [ToolLife!Next]_[t \in Tools |-> Life(tools[t])]
  BY LifeNext DEF SharedInv
<1>3. QED
  BY <1>1, <1>2, SharedInvariant, PTL DEF Spec, ToolsKeepLifecycle, ToolLife!Spec
-----------------------------------------------------------------------------
(***************************************************************************)
(* One Tool.                                                               *)
(***************************************************************************)
OneTool == \A t, u \in Tools : t = u

\* The release of a spec is as the spec wants it.
AsAsked(spec) ==
  LET n == Resolved(spec)
  IN  IF spec.enabled THEN releases[n] = "deployed" /\ nss[n] = "active"
                      ELSE Uninstalled(n)

Settled(t) ==
  /\ ~tools[t].deleting /\ tools[t].fin
  /\ tools[t].healthy /\ tools[t].installed = tools[t].spec.enabled
  /\ AsAsked(tools[t].spec)

\* What no step has touched is as it was; a namespace that goes takes nothing
\* that is asked for.
LEMMA AskedStays ==
  ASSUME TypeOK, NEW obj \in ToolObject, AsAsked(obj.spec),
         \/ UNCHANGED <<releases, nss, missed>>
         \/ \E n \in Namespaces : NamespaceGone(n)
  PROVE  LET n == Resolved(obj.spec)
         IN  IF obj.spec.enabled THEN releases'[n] = "deployed" /\ nss'[n] = "active"
                                 ELSE releases'[n] = "none" \/ n \in missed'
<1> DEFINE n == Resolved(obj.spec)
<1>1. n \in Namespaces
  BY ResolvedTyped
<1>2. IF obj.spec.enabled THEN releases[n] = "deployed" /\ nss[n] = "active"
                          ELSE releases[n] = "none" \/ n \in missed
  BY DEF AsAsked, Uninstalled
<1> HIDE DEF n
<1>3. ASSUME NEW m \in Namespaces, NamespaceGone(m)
      PROVE  IF obj.spec.enabled THEN releases'[n] = "deployed" /\ nss'[n] = "active"
                                 ELSE releases'[n] = "none" \/ n \in missed'
  BY <1>1, <1>2, <1>3 DEF NamespaceGone, TypeOK
<1>4. IF obj.spec.enabled THEN releases'[n] = "deployed" /\ nss'[n] = "active"
                          ELSE releases'[n] = "none" \/ n \in missed'
  BY <1>2, <1>3
<1>5. QED
  BY <1>4 DEF n

LEMMA QuietBefore ==
  ASSUME ToolInv, QuietIsInstalled, [Next]_vars, NEW t \in Tools,
         cache' = cache, queue' = queue, tw' = tw, Quiet(t)',
         \/ UNCHANGED <<releases, nss, missed>>
         \/ \E n \in Namespaces : NamespaceGone(n)
  PROVE  Settled(t)'
<1>1. TypeOK /\ Copies /\ DeletingHasFinalizer /\ tools[t] \in ToolObject
  BY TypedFacts DEF ToolInv
<1>2. tools'[t] = tools[t]
  BY <1>1, CacheBehind DEF Quiet
<1>3. Quiet(t)
  BY <1>2 DEF Quiet
<1>4. Settled(t)
  BY <1>3 DEF QuietIsInstalled, Settled, AsAsked
<1>5. QED
  BY <1>1, <1>2, <1>4, AskedStays DEF Settled, AsAsked, Uninstalled, Resolved

\* The last step of a reconciliation that does not put the key back.
LEMMA DoneIsInstalled ==
  ASSUME OneTool, ToolInv, WorkerIsCurrent, [Next]_vars, NEW t \in Tools, Quiet(t)',
         UnsupportedType \/ RemoveFinalizer \/ UpdateStatus, Done
  PROVE  Settled(t)'
<1>t. /\ TypeOK /\ Copies /\ DeletingHasFinalizer /\ WorkerKnows
      /\ tw.name = t /\ me = tools[t] /\ tw.obj \in ToolObject
      /\ me \in ToolObject /\ tools[t] \in ToolObject /\ tools \in [Tools -> ToolObject]
  BY TypedFacts DEF ToolInv, OneTool, me, TypeOK
<1>q. cache'[t] = tools'[t] /\ t \notin queue' /\ tools'[t].live /\ tools'[t].spec.known
  BY DEF Quiet
<1>c. /\ cache' = cache /\ UNCHANGED <<releases, nss, missed>> /\ queue' = queue
      /\ tw.pc \in {"service", "unfinalize", "status"}
  BY DEF UnsupportedType, RemoveFinalizer, UpdateStatus, OnlyTools, Done
<1>r. Done => ~Retry
  BY <1>t, <1>c, <1>q DEF Done, Retry
<1>s. tools'[t] = tools[t]
  BY <1>t, <1>q, <1>c, CacheBehind
<1>m. tw.obj = me /\ (tw.final <=> me.deleting)
  BY <1>t, <1>q, <1>c, <1>s DEF WorkerIsCurrent
<1>1. CASE UnsupportedType
  BY <1>1, <1>m, <1>q, <1>s, <1>t DEF UnsupportedType
<1>2. CASE RemoveFinalizer
  <2>1. me.deleting
    BY <1>2, <1>m, <1>t DEF RemoveFinalizer, WorkerKnows
  <2>2. me.live
    BY <1>2, <1>r DEF RemoveFinalizer
  <2>3. tools'[t] = GoneTool(me)
    BY <1>2, <1>t, <2>1, <2>2 DEF RemoveFinalizer
  <2>4. QED
    BY <1>q, <1>t, <2>3, GoneFields
<1>3. CASE UpdateStatus
  <2> DEFINE new == [tw.obj EXCEPT !.installed = tw.obj.spec.enabled, !.healthy = tw.healthy]
  <2>1. CanWrite /\ tw.healthy /\ tw.pc = "status"
    BY <1>3, <1>r DEF UpdateStatus
  <2>2. tools' = [tools EXCEPT ![t] = Stored(new)]
    BY <1>3, <1>t, <2>1, Zenon DEF UpdateStatus
  <2>3. tw.obj.spec.enabled \in BOOLEAN /\ tw.healthy \in BOOLEAN
    BY <1>t, TypedFacts DEF ToolSpecType
  <2>4. new.installed = tw.obj.spec.enabled /\ new.healthy = tw.healthy
    BY <1>t, <2>3 DEF ToolObject
  <2>5. Stored(new).installed = tw.obj.spec.enabled /\ Stored(new).healthy = tw.healthy
    <3>1. new \in ToolObject
      BY <1>t, <2>3, WritesTyped
    <3>2. QED
      BY <2>4, <3>1 DEF Stored, ToolObject
  <2> HIDE DEF new
  <2>6. tools[t].installed = tools[t].spec.enabled /\ tools[t].healthy
    BY <1>m, <1>s, <1>t, <2>1, <2>2, <2>5
  <2>7. ~tw.final /\ tw.obj.fin
    BY <1>t, <2>1 DEF WorkerKnows, Uninstalling
  <2>8. AsAsked(tw.obj.spec)
    BY <1>t, <2>1 DEF WorkerKnows, Reporting, AsAsked, ns
  <2>9. Settled(t)
    BY <1>m, <1>t, <2>6, <2>7, <2>8 DEF Settled
  <2>10. QED
    BY <1>c, <1>s, <1>t, <2>9, AskedStays DEF Settled, AsAsked, Uninstalled, Resolved
<1>4. QED
  BY <1>1, <1>2, <1>3

LEMMA QuietInductive ==
  ASSUME OneTool, QuietInv, [Next]_vars
  PROVE  QuietIsInstalled'
<1>t. /\ ToolInv /\ WorkerIsCurrent /\ QuietIsInstalled /\ TypeOK /\ tw.name \in Tools
  BY TypedFacts DEF QuietInv, ToolInv
<1> SUFFICES ASSUME NEW t \in Tools, Quiet(t)'
             PROVE  Settled(t)'
  BY DEF QuietIsInstalled, Settled, AsAsked
<1>o. \A u \in Tools : u = t
  BY DEF OneTool
<1>q. tw'.pc = "idle" /\ t \notin queue' /\ tools'[t].live /\ cache'[t] = tools'[t]
  BY DEF Quiet
<1>1. CASE cache' = cache /\ queue' = queue /\ tw' = tw
           /\ (UNCHANGED <<releases, nss, missed>> \/ \E n \in Namespaces : NamespaceGone(n))
  BY <1>1, <1>t, QuietBefore
<1>2. ASSUME NEW u \in Tools, SyncTool(u) \/ Resync(u) PROVE FALSE
  BY <1>2, <1>o, <1>q DEF SyncTool, Resync
<1>3. CASE Retry
  BY <1>3, <1>o, <1>q, <1>t DEF Retry
<1>4. ASSUME NEW u \in Tools, ToolGet(u) PROVE FALSE
  <2>1. cache' = cache /\ tools' = tools /\ u = t
    BY <1>4, <1>o DEF ToolGet, OnlyWorker
  <2>2. cache[t].live
    BY <1>q, <2>1
  <2>3. tw' = [Idle(t) EXCEPT !.pc = "start", !.obj = cache[t]]
    BY <1>4, <2>1, <2>2, Zenon DEF ToolGet
  <2>4. tw'.pc = "start"
    BY <2>3 DEF Idle
  <2>5. QED
    BY <1>q, <2>4
<1>5. ASSUME NEW pc, Goto(pc), pc # "idle" PROVE FALSE
  BY <1>5, <1>q, <1>t DEF Goto, TypeOK, ToolWorkerType
<1>6. CASE BeginDeletion \/ CheckHealth
  <2>1. tw \in ToolWorkerType
    BY <1>t DEF TypeOK
  <2>2. CASE BeginDeletion
    <3>1. tw'.pc = IF tw.obj.spec.known THEN "uninstall" ELSE "unfinalize"
      BY <2>1, <2>2 DEF BeginDeletion, ToolWorkerType
    <3>2. QED
      BY <1>q, <3>1
  <2>3. CASE CheckHealth
    <3>1. tw'.pc = "status"
      BY <2>1, <2>3 DEF CheckHealth, ToolWorkerType
    <3>2. QED
      BY <1>q, <3>1
  <2>4. QED
    BY <1>6, <2>2, <2>3
<1>7. CASE AddFinalizer
  <2>1. CASE me.live
    <3>1. PICK new : tw' = [tw EXCEPT !.pc = "service", !.obj = new]
      BY <1>7, <2>1, Zenon DEF AddFinalizer
    <3>2. QED
      BY <1>q, <1>t, <3>1 DEF TypeOK, ToolWorkerType
  <2>2. CASE ~me.live
    BY <1>3, <1>7, <2>2 DEF AddFinalizer
  <2>3. QED
    BY <2>1, <2>2
<1>8. CASE \/ HasFinalizer \/ ChooseService \/ EnsureNamespace \/ HelmInstall
           \/ HelmUpgrade \/ HelmSucceeds \/ NoRelease \/ HelmUninstall
           \/ HelmPurge \/ DeleteNamespace \/ HistoryUnread
  BY <1>5, <1>8
     DEF HasFinalizer, ChooseService, EnsureNamespace, HelmInstall, HelmUpgrade,
         HelmSucceeds, NoRelease, HelmUninstall, HelmPurge, DeleteNamespace,
         HistoryUnread, AfterHelm, AfterUninstall
<1>9. CASE UnsupportedType \/ RemoveFinalizer \/ UpdateStatus
  <2>1. Done \/ Retry
    BY <1>9 DEF UnsupportedType, RemoveFinalizer, UpdateStatus
  <2>2. QED
    BY <1>3, <1>9, <1>t, <2>1, DoneIsInstalled
<1>10. CASE Restart
  BY <1>10, <1>q DEF Restart
<1>11. CASE HelmRefuses \/ HelmTimesOut \/ CallFails
  BY <1>3, <1>11 DEF HelmRefuses, HelmTimesOut, CallFails
<1>12. CASE WorkerStep
  BY <1>4, <1>6, <1>7, <1>8, <1>9, <1>11, <1>12 DEF WorkerStep
<1>13. CASE Kubernetes
  BY <1>1, <1>2, <1>13 DEF Kubernetes, WorkloadReady, WorkloadBreaks, NamespaceGone
<1>14. CASE User \/ UNCHANGED vars
  BY <1>1, <1>14, UserLeaves DEF vars
<1>15. QED
  BY <1>2, <1>8, <1>10, <1>11, <1>12, <1>13, <1>14 DEF Next

\* If there is one Tool, then whenever it is not about to be looked at it is as
\* its status says: enabled, with its release deployed, or disabled after an
\* uninstall (UpdateStatus and the requeues of ToolReconciler.Reconcile), for any
\* number of namespaces, writes and faults.
THEOREM QuietIsInstalledHolds == OneTool => (Spec => []QuietIsInstalled)
<1> SUFFICES ASSUME OneTool PROVE Spec => []QuietIsInstalled
  OBVIOUS
<1>1. Init => QuietInv
  <2> SUFFICES ASSUME Init PROVE QuietInv
    OBVIOUS
  <2>1. tw.pc = "idle" /\ \A t \in Tools : ~tools[t].live
    BY IdleTyped, AnyToolIsOne, NoToolTyped DEF Init
  <2>2. QED
    BY <2>1, InitInv DEF QuietInv, WorkerIsCurrent, QuietIsInstalled, Quiet
<1>2. QuietInv /\ [Next]_vars => QuietInv'
  BY NextInv, WorkerCurrentInductive, QuietInductive DEF QuietInv
<1>3. QuietInv => QuietIsInstalled
  BY DEF QuietInv
<1>4. QED
  BY <1>1, <1>2, <1>3, PTL DEF Spec
=============================================================================

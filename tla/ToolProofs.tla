------------------------------ MODULE ToolProofs ------------------------------
(***************************************************************************)
(* Proofs about ToolController, for any number of Tools and namespaces:    *)
(* the inductive invariant ToolInv, and with it ReleasedClean and          *)
(* NamedNamespaceStays.                                                    *)
(***************************************************************************)
EXTENDS ToolController, TLAPS

USE ToolsAssumption, DefaultNsAssumption, OmittedAssumption, ToolSpecsAssumption,
    ToolBoundsAssumption

LEMMA AnyToolIsOne == AnyTool \in Tools
BY DEF AnyTool

LEMMA NoToolTyped == NoTool \in ToolObject /\ ~NoTool.live /\ ~NoTool.deleting
BY DEF NoTool, NoSpec, ToolObject, ToolSpecType

LEMMA IdleTyped ==
  \A t \in Tools : /\ Idle(t) \in ToolWorkerType /\ Idle(t).pc = "idle"
                   /\ Idle(t).name = t /\ Idle(t).obj = NoTool /\ ~Idle(t).final
BY NoToolTyped DEF Idle, ToolWorkerType, ToolPCs

\* Where a spec wants its release is a namespace.
LEMMA ResolvedTyped ==
  \A obj \in ToolObject : Resolved(obj.spec) \in Namespaces
BY DEF Resolved, ToolObject, ToolSpecType

\* Facts about a state of the right type that every step uses.
LEMMA TypedFacts ==
  ASSUME TypeOK
  PROVE  /\ tw.pc \in ToolPCs /\ tw.name \in Tools /\ tw.obj \in ToolObject
         /\ me \in ToolObject /\ ns \in Namespaces
         /\ tw.final \in BOOLEAN /\ tw.healthy \in BOOLEAN
         /\ \A t \in Tools : tools[t] \in ToolObject /\ cache[t] \in ToolObject
         /\ \A o \in ToolObject :
              o.rv \in Nat /\ o.live \in BOOLEAN /\ o.deleting \in BOOLEAN
              /\ o.fin \in BOOLEAN /\ o.spec \in ToolSpecType
         /\ budget.moves \in Nat /\ budget.edits \in Nat
<1>1. /\ tw.pc \in ToolPCs /\ tw.name \in Tools /\ tw.obj \in ToolObject
      /\ tw.final \in BOOLEAN /\ tw.healthy \in BOOLEAN
  BY DEF TypeOK, ToolWorkerType
<1>2. /\ me \in ToolObject
      /\ \A t \in Tools : tools[t] \in ToolObject /\ cache[t] \in ToolObject
      /\ budget.moves \in Nat /\ budget.edits \in Nat
  BY <1>1 DEF TypeOK, me
<1>3. ns \in Namespaces
  BY <1>1, ResolvedTyped DEF ns
<1>4. \A o \in ToolObject :
        o.rv \in Nat /\ o.live \in BOOLEAN /\ o.deleting \in BOOLEAN
        /\ o.fin \in BOOLEAN /\ o.spec \in ToolSpecType
  BY DEF ToolObject
<1>5. QED
  BY <1>1, <1>2, <1>3, <1>4

\* The user writes to Tools and nothing else.
LEMMA UserLeaves ==
  ASSUME User
  PROVE  UNCHANGED <<cache, queue, releases, nss, ready, tw, missed>>
<1>1. ASSUME NEW t, NEW new, UserWrites(t, new)
      PROVE  UNCHANGED <<cache, queue, releases, nss, ready, tw, missed>>
  BY <1>1 DEF UserWrites
<1>2. \E t, new : UserWrites(t, new)
  <2>1. PICK t \in Tools :
          (\E spec \in ToolSpecs : CreateTool(t, spec) \/ EditTool(t, spec)) \/ DeleteTool(t)
    BY DEF User
  <2>2. ASSUME NEW spec, CreateTool(t, spec) \/ EditTool(t, spec)
        PROVE  \E new : UserWrites(t, new)
    BY <2>2, Zenon DEF CreateTool, EditTool
  <2>3. CASE DeleteTool(t)
    BY <2>3, Zenon DEF DeleteTool
  <2>4. QED
    BY <2>1, <2>2, <2>3
<1>3. QED
  BY <1>1, <1>2
-----------------------------------------------------------------------------
(***************************************************************************)
(* Type correctness.                                                       *)
(***************************************************************************)

\* The objects the steps write are Tools.
LEMMA WritesTyped ==
  ASSUME NEW o \in ToolObject, NEW r \in Nat, NEW b \in BOOLEAN, NEW c \in BOOLEAN
  PROVE  /\ [o EXCEPT !.deleting = b, !.rv = r] \in ToolObject
         /\ [o EXCEPT !.fin = b, !.rv = r] \in ToolObject
         /\ [o EXCEPT !.fin = b] \in ToolObject
         /\ [o EXCEPT !.failed = b] \in ToolObject
         /\ [o EXCEPT !.installed = b, !.healthy = c] \in ToolObject
         /\ [o EXCEPT !.rv = r] \in ToolObject
         /\ GoneTool(o) \in ToolObject
         /\ \A spec \in ToolSpecs :
              /\ [o EXCEPT !.spec = spec, !.rv = r] \in ToolObject
              /\ [NoTool EXCEPT !.live = TRUE, !.rv = r, !.spec = spec] \in ToolObject
<1>1. /\ [o EXCEPT !.deleting = b, !.rv = r] \in ToolObject
      /\ [o EXCEPT !.fin = b, !.rv = r] \in ToolObject
      /\ [o EXCEPT !.installed = b, !.healthy = c] \in ToolObject
  BY Zenon DEF ToolObject
<1>2. /\ [o EXCEPT !.fin = b] \in ToolObject
      /\ [o EXCEPT !.failed = b] \in ToolObject
      /\ [o EXCEPT !.rv = r] \in ToolObject
  BY DEF ToolObject
<1>3. GoneTool(o) \in ToolObject
  BY NoToolTyped DEF ToolObject, GoneTool
<1>4. ASSUME NEW spec \in ToolSpecs
      PROVE  /\ [o EXCEPT !.spec = spec, !.rv = r] \in ToolObject
             /\ [NoTool EXCEPT !.live = TRUE, !.rv = r, !.spec = spec] \in ToolObject
  <2>1. spec \in ToolSpecType
    OBVIOUS
  <2>2. QED
    BY <2>1, NoToolTyped, Zenon DEF ToolObject
<1>5. QED
  BY <1>1, <1>2, <1>3, <1>4

LEMMA StoredTyped ==
  ASSUME TypeOK, NEW o \in ToolObject
  PROVE  Stored(o) \in ToolObject
<1>1. me \in ToolObject /\ me.rv + 1 \in Nat
  BY TypedFacts
<1>2. [o EXCEPT !.rv = me.rv + 1] \in ToolObject
  BY <1>1 DEF ToolObject
<1>3. QED
  BY <1>1, <1>2 DEF Stored

LEMMA FinalizerTyped ==
  ASSUME TypeOK
  PROVE  me \in ToolObject /\ [me EXCEPT !.fin = TRUE, !.rv = @ + 1] \in ToolObject
<1>1. me \in ToolObject /\ me.rv + 1 \in Nat
  BY TypedFacts
<1>2. QED
  BY <1>1, Zenon DEF ToolObject

LEMMA InitTypes == Init => TypeOK
BY NoToolTyped, IdleTyped, AnyToolIsOne DEF Init, TypeOK, ReleaseStates

\* The user and the cluster.
LEMMA OutsideTypes ==
  ASSUME TypeOK, User \/ Kubernetes \/ \E t \in Tools : Resync(t)
  PROVE  TypeOK'
<1>1. ASSUME NEW t \in Tools, NEW new \in ToolObject, UserWrites(t, new)
      PROVE  TypeOK'
  <2>1. tools' \in [Tools -> ToolObject]
    BY <1>1 DEF UserWrites, TypeOK
  <2>2. budget' \in [edits : Nat, moves : Nat, breaks : Nat, faults : Nat]
    <3> DEFINE moves == IF tools[t].live /\ new.live /\ new.spec.ns # tools[t].spec.ns
                          THEN budget.moves + 1 ELSE budget.moves
    <3>1. budget' = [budget EXCEPT !.edits = budget.edits + 1, !.moves = moves]
      BY <1>1, Zenon DEF UserWrites
    <3>2. budget.edits + 1 \in Nat /\ moves \in Nat
      BY TypedFacts
    <3> HIDE DEF moves
    <3>3. QED
      BY <3>1, <3>2, Zenon DEF TypeOK
  <2>3. QED
    BY <1>1, <2>1, <2>2 DEF UserWrites, TypeOK
<1>2. ASSUME User PROVE TypeOK'
  <2>1. PICK t \in Tools :
          (\E spec \in ToolSpecs : CreateTool(t, spec) \/ EditTool(t, spec)) \/ DeleteTool(t)
    BY <1>2 DEF User
  <2>2. /\ tools[t] \in ToolObject
        /\ tools[t].rv + 1 \in Nat /\ GoneTool(tools[t]) \in ToolObject
    <3>1. tools[t] \in ToolObject /\ tools[t].rv + 1 \in Nat
      BY TypedFacts
    <3>2. QED
      BY <3>1, NoToolTyped DEF GoneTool, ToolObject
  <2>3. ASSUME NEW spec \in ToolSpecs, CreateTool(t, spec) PROVE TypeOK'
    <3>1. [NoTool EXCEPT !.live = TRUE, !.rv = tools[t].rv + 1, !.spec = spec] \in ToolObject
      BY <2>2, WritesTyped, Zenon
    <3>2. QED
      BY <1>1, <2>3, <3>1, Zenon DEF CreateTool
  <2>4. ASSUME NEW spec \in ToolSpecs, EditTool(t, spec) PROVE TypeOK'
    <3>1. [tools[t] EXCEPT !.spec = spec, !.rv = @ + 1] \in ToolObject
      BY <2>2, WritesTyped, Zenon
    <3>2. QED
      BY <1>1, <2>4, <3>1, Zenon DEF EditTool
  <2>5. ASSUME DeleteTool(t) PROVE TypeOK'
    <3>1. [tools[t] EXCEPT !.deleting = TRUE, !.rv = @ + 1] \in ToolObject
      BY <2>2, Zenon DEF ToolObject
    <3>2. QED
      BY <1>1, <2>2, <2>5, <3>1, Zenon DEF DeleteTool
  <2>6. QED
    BY <2>1, <2>3, <2>4, <2>5
<1>3. ASSUME Kubernetes PROVE TypeOK'
  <2>1. ASSUME NEW t \in Tools, SyncTool(t) PROVE TypeOK'
    BY <2>1 DEF SyncTool, TypeOK
  <2>2. ASSUME NEW n \in Namespaces, WorkloadReady(n) \/ WorkloadBreaks(n) \/ NamespaceGone(n)
        PROVE  TypeOK'
    <3>1. CASE WorkloadReady(n)
      BY <3>1 DEF WorkloadReady, TypeOK
    <3>2. CASE WorkloadBreaks(n)
      BY <3>2 DEF WorkloadBreaks, TypeOK
    <3>3. CASE NamespaceGone(n)
      BY <3>3 DEF NamespaceGone, TypeOK, ReleaseStates
    <3>4. QED
      BY <2>2, <3>1, <3>2, <3>3
  <2>3. QED
    BY <1>3, <2>1, <2>2 DEF Kubernetes
<1>4. ASSUME NEW t \in Tools, Resync(t) PROVE TypeOK'
  BY <1>4 DEF Resync, TypeOK
<1>5. QED
  BY <1>2, <1>3, <1>4

\* The worker, on its way from one call to the next.
LEMMA GotoTyped ==
  ASSUME TypeOK, NEW pc \in ToolPCs
  PROVE  Goto(pc) => tw' \in ToolWorkerType /\ queue' \in SUBSET Tools
BY DEF TypeOK, Goto, ToolWorkerType

LEMMA DoneTyped ==
  ASSUME TypeOK, Done \/ Retry
  PROVE  tw' \in ToolWorkerType /\ queue' \in SUBSET Tools
BY TypedFacts, IdleTyped DEF TypeOK, Done, Retry

LEMMA PCsAfter ==
  /\ AfterUninstall \in ToolPCs
  /\ AfterHelm \in ToolPCs
BY DEF AfterUninstall, AfterHelm, ToolPCs

LEMMA WorkerTypes ==
  ASSUME TypeOK, WorkerStep
  PROVE  TypeOK'
<1>t. tw' \in ToolWorkerType /\ queue' \in SUBSET Tools
  <2>1. ASSUME NEW t \in Tools, ToolGet(t)
        PROVE  tw' \in ToolWorkerType /\ queue' \in SUBSET Tools
    <3>1. Idle(t) \in ToolWorkerType /\ cache[t] \in ToolObject /\ "start" \in ToolPCs
      BY IdleTyped, TypedFacts DEF ToolPCs
    <3>2. [Idle(t) EXCEPT !.pc = "start", !.obj = cache[t]] \in ToolWorkerType
      BY <3>1, Zenon DEF ToolWorkerType
    <3>3. QED
      BY <2>1, <3>1, <3>2 DEF ToolGet, TypeOK
  <2>2. CASE BeginDeletion
    BY <2>2 DEF BeginDeletion, TypeOK, ToolWorkerType, ToolPCs
  <2>3. CASE AddFinalizer
    <3>1. me \in ToolObject /\ [me EXCEPT !.fin = TRUE, !.rv = @ + 1] \in ToolObject
      BY FinalizerTyped
    <3>2. QED
      BY <2>3, <3>1, DoneTyped DEF AddFinalizer, TypeOK, ToolWorkerType, ToolPCs
  <2>4. CASE \/ HasFinalizer \/ ChooseService \/ EnsureNamespace \/ HelmInstall
             \/ HelmUpgrade \/ HelmSucceeds \/ NoRelease \/ HelmUninstall
             \/ HelmPurge \/ DeleteNamespace
    <3>1. {"service", "ensurens", "uninstall", "helm", "wait", "health", "purge"}
            \subseteq ToolPCs
      BY DEF ToolPCs
    <3>2. QED
      BY <2>4, <3>1, GotoTyped, PCsAfter
         DEF HasFinalizer, ChooseService, EnsureNamespace, HelmInstall, HelmUpgrade,
             HelmSucceeds, NoRelease, HelmUninstall, HelmPurge, DeleteNamespace
  <2>5. CASE \/ UnsupportedType \/ HelmRefuses \/ HelmTimesOut \/ RemoveFinalizer
             \/ UpdateStatus
    BY <2>5, DoneTyped
       DEF UnsupportedType, HelmRefuses, HelmTimesOut, RemoveFinalizer, UpdateStatus
  <2>6. CASE CheckHealth
    BY <2>6, TypedFacts DEF CheckHealth, TypeOK, ToolWorkerType, ToolPCs
  <2>7. QED
    BY <2>1, <2>2, <2>3, <2>4, <2>5, <2>6 DEF WorkerStep
<1>o. tools' \in [Tools -> ToolObject]
  <2>t. tools \in [Tools -> ToolObject] /\ tw.name \in Tools
    BY TypedFacts DEF TypeOK
  <2>1. CASE AddFinalizer
    <3>1. me \in ToolObject /\ [me EXCEPT !.fin = TRUE, !.rv = @ + 1] \in ToolObject
      BY FinalizerTyped
    <3>2. QED
      BY <2>1, <2>t, <3>1 DEF AddFinalizer
  <2>2. CASE UnsupportedType
    <3>1. Stored([tw.obj EXCEPT !.failed = TRUE]) \in ToolObject
      BY StoredTyped, WritesTyped, TypedFacts
    <3>2. QED
      BY <2>2, <2>t, <3>1 DEF UnsupportedType
  <2>3. CASE RemoveFinalizer
    <3>1. GoneTool(me) \in ToolObject /\ Stored([me EXCEPT !.fin = FALSE]) \in ToolObject
      BY StoredTyped, WritesTyped, TypedFacts
    <3>2. QED
      BY <2>3, <2>t, <3>1 DEF RemoveFinalizer
  <2>4. CASE UpdateStatus
    <3>1. tw.obj.spec.enabled \in BOOLEAN
      BY TypedFacts DEF ToolSpecType
    <3>2. Stored([tw.obj EXCEPT !.installed = tw.obj.spec.enabled, !.healthy = tw.healthy])
            \in ToolObject
      BY <3>1, StoredTyped, WritesTyped, TypedFacts
    <3>3. QED
      BY <2>4, <2>t, <3>2 DEF UpdateStatus
  <2>5. CASE UNCHANGED tools
    BY <2>5, <2>t
  <2>6. QED
    BY <2>1, <2>2, <2>3, <2>4, <2>5
       DEF WorkerStep, ToolGet, BeginDeletion, HasFinalizer, ChooseService,
           EnsureNamespace, HelmInstall, HelmUpgrade, HelmRefuses, HelmSucceeds,
           HelmTimesOut, NoRelease, HelmUninstall, HelmPurge, DeleteNamespace,
           CheckHealth, OnlyWorker, OnlyHelm, OnlyNs
<1>n. /\ releases' \in [Namespaces -> ReleaseStates]
      /\ nss' \in [Namespaces -> {"absent", "active", "terminating"}]
      /\ ready' \in [Namespaces -> BOOLEAN]
      /\ cache' = cache /\ budget' = budget /\ missed' \in SUBSET Namespaces
  BY DEF TypeOK, ReleaseStates, WorkerStep, ToolGet, BeginDeletion, AddFinalizer,
         HasFinalizer, UnsupportedType, ChooseService, EnsureNamespace, HelmInstall,
         HelmUpgrade, HelmRefuses, HelmSucceeds, HelmTimesOut, NoRelease, HelmUninstall,
         HelmPurge, DeleteNamespace, RemoveFinalizer, CheckHealth, UpdateStatus,
         OnlyWorker, OnlyTools, OnlyHelm, OnlyNs
<1>q. QED
  BY <1>t, <1>o, <1>n DEF TypeOK

LEMMA FaultTypes ==
  ASSUME TypeOK, CallFails \/ HistoryUnread \/ Restart
  PROVE  TypeOK'
<1>1. budget' \in [edits : Nat, moves : Nat, breaks : Nat, faults : Nat]
  BY DEF TypeOK, CallFails, HistoryUnread, Restart, SpendFault
<1>2. tw' \in ToolWorkerType /\ queue' \in SUBSET Tools
  BY DoneTyped, GotoTyped, IdleTyped, AnyToolIsOne, PCsAfter
     DEF CallFails, HistoryUnread, Restart
<1>3. missed' \in SUBSET Namespaces
  BY TypedFacts DEF TypeOK, CallFails, HistoryUnread, Restart
<1>4. QED
  BY <1>1, <1>2, <1>3 DEF TypeOK, CallFails, HistoryUnread, Restart

LEMMA NextTypes ==
  ASSUME TypeOK, [Next]_vars
  PROVE  TypeOK'
<1>1. CASE UNCHANGED vars
  BY <1>1 DEF vars, TypeOK
<1>2. QED
  BY <1>1, OutsideTypes, WorkerTypes, FaultTypes DEF Next

\* Tools, copies of them, releases and namespaces are what they should be, for
\* any number of Tools (ToolReconciler and the services it calls).
THEOREM TypeCorrect == Spec => []TypeOK
<1>1. Init => TypeOK
  BY InitTypes
<1>2. TypeOK /\ [Next]_vars => TypeOK'
  BY NextTypes
<1>3. QED
  BY <1>1, <1>2, PTL DEF Spec
-----------------------------------------------------------------------------
(***************************************************************************)
(* What a step does to a Tool.                                             *)
(***************************************************************************)

\* It stays the Tool it was, with its finalizer or without; as long as it has
\* not been moved, it means the same release.
Kept(t) ==
  /\ tools'[t].live = tools[t].live
  /\ tools'[t].fin = tools[t].fin
  /\ tools[t].deleting => tools'[t].deleting
  /\ tools'[t].deleting => tools'[t].fin
  /\ tools'[t].spec.known = tools[t].spec.known
  /\ budget'.moves = 0 => budget.moves = 0 /\ tools'[t].spec.ns = tools[t].spec.ns

\* It has no finalizer: a new Tool, one that has gone, one that lost it.
Bare(t) ==
  /\ ~tools'[t].fin /\ ~tools'[t].deleting
  /\ \/ ~tools[t].live \/ ~tools[t].fin
     \/ /\ tw.pc = "unfinalize" /\ t = tw.name
        /\ tools[t].deleting => ~tools'[t].live
  /\ budget'.moves = budget.moves

\* The worker has given it the finalizer.
Finalized(t) ==
  /\ tw.pc = "start" /\ t = tw.name /\ ~tw.obj.deleting /\ ~tw.obj.fin
  /\ tools[t].live /\ ~tools[t].fin
  /\ tools'[t].live /\ tools'[t].fin
  /\ tools'[t].deleting = tools[t].deleting
  /\ tools'[t].spec = tools[t].spec
  /\ budget'.moves = budget.moves

Steps(t) ==
  \/ tools'[t] = tools[t]
  \/ /\ tools'[t].rv = tools[t].rv + 1
     /\ Kept(t) \/ Bare(t) \/ Finalized(t)

LEMMA GoneFields ==
  ASSUME NEW o \in ToolObject
  PROVE  /\ GoneTool(o).rv = o.rv + 1 /\ ~GoneTool(o).live
         /\ ~GoneTool(o).fin /\ ~GoneTool(o).deleting
BY NoToolTyped DEF GoneTool, NoTool, ToolObject

LEMMA UserSteps ==
  ASSUME TypeOK, DeletingHasFinalizer, User, NEW t \in Tools
  PROVE  Steps(t)
<1>1. PICK u \in Tools :
        (\E spec \in ToolSpecs : CreateTool(u, spec) \/ EditTool(u, spec)) \/ DeleteTool(u)
  BY DEF User
<1>o. tools[u] \in ToolObject /\ tools[u].rv + 1 \in Nat /\ tools \in [Tools -> ToolObject]
  BY TypedFacts DEF TypeOK
<1>m. ASSUME NEW new, UserWrites(u, new)
      PROVE  /\ tools' = [tools EXCEPT ![u] = new]
             /\ tools[u].live /\ new.live /\ budget'.moves = 0 =>
                  budget.moves = 0 /\ new.spec.ns = tools[u].spec.ns
             /\ ~(tools[u].live /\ new.live) \/ new.spec.ns = tools[u].spec.ns =>
                  budget'.moves = budget.moves
  <2> DEFINE moves == IF tools[u].live /\ new.live /\ new.spec.ns # tools[u].spec.ns
                        THEN budget.moves + 1 ELSE budget.moves
  <2>1. budget' = [budget EXCEPT !.edits = budget.edits + 1, !.moves = moves]
        /\ tools' = [tools EXCEPT ![u] = new]
    BY <1>m, Zenon DEF UserWrites
  <2>2. budget'.moves = moves
    <3> HIDE DEF moves
    <3>1. QED
      BY <2>1 DEF TypeOK
  <2>3. QED
    BY <2>1, <2>2, TypedFacts
<1>2. ASSUME NEW spec \in ToolSpecs, CreateTool(u, spec) PROVE Steps(t)
  <2> DEFINE new == [NoTool EXCEPT !.live = TRUE, !.rv = tools[u].rv + 1, !.spec = spec]
  <2>1. new.rv = tools[u].rv + 1 /\ ~new.fin /\ ~new.deleting
    BY DEF NoTool
  <2>2. UserWrites(u, new) /\ ~tools[u].live
    BY <1>2, Zenon DEF CreateTool
  <2> HIDE DEF new
  <2>3. QED
    BY <1>o, <1>m, <2>1, <2>2 DEF Steps, Bare
<1>3. ASSUME NEW spec \in ToolSpecs, EditTool(u, spec) PROVE Steps(t)
  <2> DEFINE new == [tools[u] EXCEPT !.spec = spec, !.rv = @ + 1]
  <2>1. /\ new.rv = tools[u].rv + 1 /\ new.fin = tools[u].fin
        /\ new.live = tools[u].live /\ new.deleting = tools[u].deleting
        /\ new.spec = spec
    BY <1>o DEF ToolObject
  <2>2. UserWrites(u, new) /\ tools[u].live /\ spec.known = tools[u].spec.known
    BY <1>3, Zenon DEF EditTool
  <2> HIDE DEF new
  <2>3. QED
    <3>1. CASE t # u
      BY <1>m, <2>2, <3>1, TypedFacts DEF Steps, TypeOK
    <3>2. CASE t = u
      <4>1. tools'[t] = new
        BY <1>m, <1>o, <2>2, <3>2
      <4>2. /\ tools[u].live /\ new.live
            /\ budget'.moves = 0 => budget.moves = 0 /\ new.spec.ns = tools[u].spec.ns
        BY <1>m, <2>1, <2>2
      <4>3. Kept(t)
        BY <2>1, <2>2, <3>2, <4>1, <4>2 DEF Kept, DeletingHasFinalizer
      <4>4. QED
        BY <2>1, <3>2, <4>1, <4>3 DEF Steps
    <3>3. QED
      BY <3>1, <3>2
<1>4. ASSUME DeleteTool(u), tools[u].fin PROVE Steps(t)
  <2> DEFINE new == [tools[u] EXCEPT !.deleting = TRUE, !.rv = @ + 1]
  <2>1. /\ new.rv = tools[u].rv + 1 /\ new.fin = tools[u].fin
        /\ new.live = tools[u].live /\ new.spec = tools[u].spec
    BY <1>o DEF ToolObject
  <2>2. UserWrites(u, new) /\ tools[u].live /\ ~tools[u].deleting
    BY <1>4, Zenon DEF DeleteTool
  <2>3. new.deleting
    BY <1>o DEF ToolObject
  <2> HIDE DEF new
  <2>4. /\ tools' = [tools EXCEPT ![u] = new]
        /\ budget'.moves = 0 => budget.moves = 0
    BY <1>m, <2>1, <2>2
  <2>5. CASE t = u
    <3>1. tools'[t] = new
      BY <1>o, <2>4, <2>5
    <3>2. Kept(t)
      BY <1>4, <2>1, <2>3, <2>4, <2>5, <3>1 DEF Kept
    <3>3. QED
      BY <2>1, <2>5, <3>1, <3>2 DEF Steps
  <2>6. CASE t # u
    BY <1>o, <2>4, <2>6 DEF Steps
  <2>7. QED
    BY <2>5, <2>6
<1>5. ASSUME DeleteTool(u), ~tools[u].fin PROVE Steps(t)
  <2>1. UserWrites(u, GoneTool(tools[u]))
    BY <1>5 DEF DeleteTool
  <2>2. QED
    BY <1>5, <1>o, <1>m, <2>1, GoneFields DEF Steps, Bare
<1>6. QED
  BY <1>1, <1>2, <1>3, <1>4, <1>5

LEMMA StatusSteps ==
  ASSUME TypeOK, Copies, DeletingHasFinalizer, CanWrite, NEW new \in ToolObject,
         new.live = tw.obj.live, new.fin = tw.obj.fin, new.deleting = tw.obj.deleting,
         new.spec = tw.obj.spec, tools' = [tools EXCEPT ![tw.name] = Stored(new)],
         budget' = budget, NEW t \in Tools
  PROVE  Steps(t)
<1>t. /\ tools \in [Tools -> ToolObject] /\ tw.name \in Tools /\ tw.obj \in ToolObject
      /\ me \in ToolObject
  BY TypedFacts DEF TypeOK
<1>1. tw.obj = me
  BY DEF Copies, CanWrite, Follows
<1>2. Stored(new) = me \/ (/\ Stored(new).rv = me.rv + 1 /\ Stored(new).live = me.live
                           /\ Stored(new).fin = me.fin /\ Stored(new).deleting = me.deleting
                           /\ Stored(new).spec = me.spec)
  BY <1>1, <1>t DEF Stored, ToolObject
<1>3. QED
  BY <1>2, <1>t DEF Steps, Kept, me, DeletingHasFinalizer

LEMMA WorkerSteps ==
  ASSUME TypeOK, Copies, DeletingHasFinalizer, WorkerStep, NEW t \in Tools
  PROVE  Steps(t)
<1>t. /\ tools \in [Tools -> ToolObject] /\ tw.name \in Tools /\ tw.obj \in ToolObject
      /\ me \in ToolObject /\ me = tools[tw.name]
  BY TypedFacts DEF TypeOK, me
<1>1. CASE AddFinalizer
  <2> DEFINE new == [me EXCEPT !.fin = TRUE, !.rv = @ + 1]
  <2>1. CASE ~me.live \/ me.fin
    BY <1>1, <1>t, <2>1 DEF AddFinalizer, Steps
  <2>2. CASE me.live /\ ~me.fin
    <3>1. /\ new.rv = me.rv + 1 /\ new.fin /\ new.live = me.live
          /\ new.deleting = me.deleting /\ new.spec = me.spec
      BY <1>t DEF ToolObject
    <3>2. tools' = [tools EXCEPT ![tw.name] = new] /\ budget' = budget
      BY <1>1, <2>2, Zenon DEF AddFinalizer, OnlyTools
    <3> HIDE DEF new
    <3>3. QED
      BY <1>1, <1>t, <2>2, <3>1, <3>2 DEF AddFinalizer, Steps, Finalized
  <2>3. QED
    BY <2>1, <2>2
<1>2. CASE UnsupportedType
  <2> DEFINE new == [tw.obj EXCEPT !.failed = TRUE]
  <2>1. /\ new \in ToolObject /\ new.live = tw.obj.live /\ new.fin = tw.obj.fin
        /\ new.deleting = tw.obj.deleting /\ new.spec = tw.obj.spec
    BY <1>t DEF ToolObject
  <2>2. CASE CanWrite
    <3>1. tools' = [tools EXCEPT ![tw.name] = Stored(new)] /\ budget' = budget
      BY <1>2, <2>2 DEF UnsupportedType, OnlyTools
    <3> HIDE DEF new
    <3>2. QED
      BY <2>1, <2>2, <3>1, StatusSteps
  <2>3. CASE ~CanWrite
    BY <1>2, <2>3 DEF UnsupportedType, Steps
  <2>4. QED
    BY <2>2, <2>3
<1>3. CASE UpdateStatus
  <2> DEFINE new == [tw.obj EXCEPT !.installed = tw.obj.spec.enabled, !.healthy = tw.healthy]
  <2>e. tw.obj.spec.enabled \in BOOLEAN
    BY TypedFacts DEF ToolSpecType
  <2>1. /\ new \in ToolObject /\ new.live = tw.obj.live /\ new.fin = tw.obj.fin
        /\ new.deleting = tw.obj.deleting /\ new.spec = tw.obj.spec
    <3>1. new \in ToolObject
      BY <2>e, WritesTyped, TypedFacts
    <3>2. QED
      BY <1>t, <3>1 DEF ToolObject
  <2>2. CASE CanWrite
    <3>1. tools' = [tools EXCEPT ![tw.name] = Stored(new)] /\ budget' = budget
      BY <1>3, <2>2 DEF UpdateStatus, OnlyTools
    <3> HIDE DEF new
    <3>2. QED
      BY <2>1, <2>2, <3>1, StatusSteps
  <2>3. CASE ~CanWrite
    BY <1>3, <2>3 DEF UpdateStatus, Steps
  <2>4. QED
    BY <2>2, <2>3
<1>4. CASE RemoveFinalizer
  <2>1. CASE me.live /\ me.deleting
    BY <1>4, <1>t, <2>1, GoneFields DEF RemoveFinalizer, OnlyTools, Steps, Bare
  <2>2. CASE me.live /\ ~me.deleting
    <3>1. \/ Stored([me EXCEPT !.fin = FALSE]) = me
          \/ /\ Stored([me EXCEPT !.fin = FALSE]).rv = me.rv + 1
             /\ ~Stored([me EXCEPT !.fin = FALSE]).fin
             /\ ~Stored([me EXCEPT !.fin = FALSE]).deleting
      BY <1>t, <2>2 DEF Stored, ToolObject
    <3>2. QED
      BY <1>4, <1>t, <2>2, <3>1 DEF RemoveFinalizer, OnlyTools, Steps, Bare
  <2>3. CASE ~me.live
    BY <1>4, <2>3 DEF RemoveFinalizer, Steps
  <2>4. QED
    BY <2>1, <2>2, <2>3
<1>5. CASE UNCHANGED tools
  BY <1>5 DEF Steps
<1>6. QED
  BY <1>1, <1>2, <1>3, <1>4, <1>5
     DEF WorkerStep, ToolGet, BeginDeletion, HasFinalizer, ChooseService,
         EnsureNamespace, HelmInstall, HelmUpgrade, HelmRefuses, HelmSucceeds,
         HelmTimesOut, NoRelease, HelmUninstall, HelmPurge, DeleteNamespace,
         CheckHealth, OnlyWorker, OnlyHelm, OnlyNs

LEMMA ToolSteps ==
  ASSUME TypeOK, Copies, DeletingHasFinalizer, [Next]_vars, NEW t \in Tools
  PROVE  Steps(t)
<1>1. CASE UNCHANGED tools
  BY <1>1 DEF Steps
<1>2. QED
  BY <1>1, UserSteps, WorkerSteps
     DEF Next, vars, Kubernetes, SyncTool, WorkloadReady, WorkloadBreaks,
         NamespaceGone, Resync, CallFails, HistoryUnread, Restart
-----------------------------------------------------------------------------
(***************************************************************************)
(* What a step does to the copies, the worker's and the cache's.           *)
(***************************************************************************)
CacheStays(t) ==
  cache'[t] = cache[t] \/ (cache'[t] = tools[t] /\ tools' = tools)

LEMMA CacheSteps ==
  ASSUME TypeOK, [Next]_vars, NEW t \in Tools
  PROVE  CacheStays(t)
<1>1. CASE cache' = cache
  BY <1>1 DEF CacheStays
<1>2. ASSUME NEW u \in Tools, SyncTool(u) PROVE CacheStays(t)
  BY <1>2 DEF SyncTool, CacheStays, TypeOK
<1>3. CASE Restart
  BY <1>3 DEF Restart, CacheStays
<1>4. CASE WorkerStep
  BY <1>1, <1>4
     DEF WorkerStep, ToolGet, BeginDeletion, AddFinalizer, HasFinalizer,
         UnsupportedType, ChooseService, EnsureNamespace, HelmInstall, HelmUpgrade,
         HelmRefuses, HelmSucceeds, HelmTimesOut, NoRelease, HelmUninstall, HelmPurge,
         DeleteNamespace, RemoveFinalizer, CheckHealth, UpdateStatus,
         OnlyWorker, OnlyTools, OnlyHelm, OnlyNs
<1>5. CASE User
  BY <1>1, <1>5, UserLeaves
<1>6. QED
  BY <1>1, <1>2, <1>3, <1>4, <1>5
     DEF Next, vars, Kubernetes, WorkloadReady, WorkloadBreaks, NamespaceGone,
         Resync, CallFails, HistoryUnread

\* The worker goes on with the Tool it has, drops it, takes one from the cache,
\* or holds the Tool as it is after the patch of its finalizer.
GoesOn    == tw'.name = tw.name /\ tw'.obj = tw.obj /\ (tw.pc = "idle" => tw'.pc = "idle")
DropsIt   == tw'.pc = "idle" /\ tw'.obj = NoTool /\ tw'.name \in Tools
TakesOne  == /\ tw'.obj = cache[tw'.name] /\ tw'.obj.live /\ tw'.name \in Tools
             /\ tw'.pc = "start" /\ ~tw'.final
             /\ tools' = tools /\ cache' = cache /\ budget' = budget
PatchesIt == /\ tw.pc = "start" /\ tw'.pc = "service"
             /\ tw'.name = tw.name /\ tw'.obj = tools'[tw.name] /\ tw'.obj.fin
             /\ tw'.obj.live

LEMMA PatchHolds ==
  ASSUME TypeOK, AddFinalizer, me.live
  PROVE  PatchesIt
<1> DEFINE new == IF me.fin THEN me ELSE [me EXCEPT !.fin = TRUE, !.rv = @ + 1]
<1>1. /\ tw' = [tw EXCEPT !.pc = "service", !.obj = new]
      /\ tools' = [tools EXCEPT ![tw.name] = new]
  BY Zenon DEF AddFinalizer
<1>2. new.fin /\ new.live
  BY FinalizerTyped DEF ToolObject
<1>3. tw.pc = "start" /\ tw.name \in Tools
  BY TypedFacts DEF AddFinalizer
<1> HIDE DEF new
<1>4. tw'.pc = "service" /\ tw'.name = tw.name /\ tw'.obj = new /\ tools'[tw.name] = new
  BY <1>1, <1>3 DEF ToolWorkerType, TypeOK
<1>5. QED
  BY <1>2, <1>3, <1>4 DEF PatchesIt

LEMMA HandSteps ==
  ASSUME TypeOK, [Next]_vars
  PROVE  GoesOn \/ DropsIt \/ TakesOne \/ PatchesIt
<1>t. tw \in ToolWorkerType /\ tw.name \in Tools
  BY TypedFacts DEF TypeOK
<1>1. CASE tw' = tw
  BY <1>1 DEF GoesOn
<1>2. CASE Done \/ Retry
  BY <1>2, <1>t, IdleTyped DEF Done, Retry, DropsIt
<1>3. ASSUME NEW pc, Goto(pc), tw.pc # "idle" PROVE GoesOn
  BY <1>3, <1>t DEF Goto, ToolWorkerType, GoesOn
<1>4. ASSUME NEW t \in Tools, ToolGet(t) PROVE DropsIt \/ TakesOne
  <2>1. CASE cache[t].live
    <3>1. tw' = [Idle(t) EXCEPT !.pc = "start", !.obj = cache[t]]
      BY <1>4, <2>1, Zenon DEF ToolGet
    <3>2. tw'.name = t /\ tw'.pc = "start" /\ tw'.obj = cache[t] /\ ~tw'.final
      BY <3>1 DEF Idle
    <3>3. QED
      BY <1>4, <2>1, <3>2 DEF ToolGet, OnlyWorker, TakesOne
  <2>2. CASE ~cache[t].live
    BY <1>4, <2>2, IdleTyped DEF ToolGet, DropsIt
  <2>3. QED
    BY <2>1, <2>2
<1>5. CASE BeginDeletion
  BY <1>5, <1>t DEF BeginDeletion, ToolWorkerType, GoesOn
<1>6. CASE AddFinalizer
  BY <1>2, <1>6, PatchHolds DEF AddFinalizer
<1>7. CASE \/ HasFinalizer \/ ChooseService \/ EnsureNamespace \/ HelmInstall
           \/ HelmUpgrade \/ HelmSucceeds \/ NoRelease \/ HelmUninstall
           \/ HelmPurge \/ DeleteNamespace \/ HistoryUnread
  BY <1>3, <1>7
     DEF HasFinalizer, ChooseService, EnsureNamespace, HelmInstall, HelmUpgrade,
         HelmSucceeds, NoRelease, HelmUninstall, HelmPurge, DeleteNamespace,
         HistoryUnread
<1>8. CASE \/ UnsupportedType \/ HelmRefuses \/ HelmTimesOut \/ RemoveFinalizer
           \/ UpdateStatus \/ CallFails
  BY <1>2, <1>8
     DEF UnsupportedType, HelmRefuses, HelmTimesOut, RemoveFinalizer, UpdateStatus, CallFails
<1>9. CASE CheckHealth
  BY <1>9, <1>t DEF CheckHealth, ToolWorkerType, GoesOn
<1>10. CASE Restart
  BY <1>10, IdleTyped, AnyToolIsOne DEF Restart, DropsIt
<1>11. CASE User \/ Kubernetes \/ \E t \in Tools : Resync(t)
  BY <1>1, <1>11, UserLeaves
     DEF Kubernetes, SyncTool, WorkloadReady, WorkloadBreaks, NamespaceGone, Resync
<1>12. QED
  BY <1>1, <1>4, <1>5, <1>6, <1>7, <1>8, <1>9, <1>10, <1>11 DEF Next, WorkerStep, vars
\* A reconciliation starts from a Tool just taken from the cache.
LEMMA StartsOnce ==
  ASSUME TypeOK, [Next]_vars
  PROVE  tw' = tw \/ TakesOne \/ tw'.pc # "start"
<1>1. CASE Done \/ Retry
  BY <1>1, TypedFacts, IdleTyped DEF Done, Retry
<1>2. ASSUME NEW t \in Tools, ToolGet(t) PROVE TakesOne \/ tw'.pc # "start"
  <2>1. tw.pc = "idle"
    BY <1>2 DEF ToolGet
  <2>2. QED
    BY <2>1, HandSteps DEF GoesOn, DropsIt, PatchesIt
<1>3. ASSUME NEW pc \in ToolPCs, Goto(pc), pc # "start" PROVE tw'.pc # "start"
  BY <1>3 DEF Goto, TypeOK, ToolWorkerType
<1>4. CASE BeginDeletion \/ CheckHealth
  BY <1>4 DEF BeginDeletion, CheckHealth, TypeOK, ToolWorkerType
<1>5. CASE AddFinalizer
  <2>1. CASE me.live
    <3>1. PICK new : tw' = [tw EXCEPT !.pc = "service", !.obj = new]
      BY <1>5, <2>1, Zenon DEF AddFinalizer
    <3>2. tw'.pc = "service"
      BY <3>1 DEF TypeOK, ToolWorkerType
    <3>3. QED
      BY <3>2
  <2>2. CASE ~me.live
    BY <1>1, <1>5, <2>2 DEF AddFinalizer
  <2>3. QED
    BY <2>1, <2>2
<1>6. CASE \/ HasFinalizer \/ ChooseService \/ EnsureNamespace \/ HelmInstall
           \/ HelmUpgrade \/ HelmSucceeds \/ NoRelease \/ HelmUninstall
           \/ HelmPurge \/ DeleteNamespace \/ HistoryUnread
  BY <1>3, <1>6
     DEF HasFinalizer, ChooseService, EnsureNamespace, HelmInstall, HelmUpgrade,
         HelmSucceeds, NoRelease, HelmUninstall, HelmPurge, DeleteNamespace,
         HistoryUnread, AfterHelm, AfterUninstall, ToolPCs
<1>7. CASE \/ UnsupportedType \/ HelmRefuses \/ HelmTimesOut \/ RemoveFinalizer
           \/ UpdateStatus \/ CallFails
  BY <1>1, <1>7
     DEF UnsupportedType, HelmRefuses, HelmTimesOut, RemoveFinalizer, UpdateStatus, CallFails
<1>8. CASE Restart
  BY <1>8, IdleTyped, AnyToolIsOne DEF Restart
<1>9. CASE User \/ Kubernetes \/ \E t \in Tools : Resync(t)
  <2>1. CASE User
    BY <2>1, UserLeaves
  <2>2. CASE Kubernetes
    BY <2>2 DEF Kubernetes, SyncTool, WorkloadReady, WorkloadBreaks, NamespaceGone
  <2>3. QED
    BY <1>9, <2>1, <2>2 DEF Resync
<1>10. QED
  BY <1>2, <1>4, <1>5, <1>6, <1>7, <1>8, <1>9 DEF Next, WorkerStep, vars
-----------------------------------------------------------------------------
(***************************************************************************)
(* The invariant, part by part.                                            *)
(***************************************************************************)
LEMMA CopiesInductive ==
  ASSUME TypeOK, Copies, DeletingHasFinalizer, TypeOK', [Next]_vars
  PROVE  Copies'
<1>n. \A o \in ToolObject : o.rv \in Nat
  BY DEF ToolObject
<1>t. /\ \A t \in Tools : /\ tools[t] \in ToolObject /\ cache[t] \in ToolObject
                          /\ tools'[t] \in ToolObject /\ cache'[t] \in ToolObject
      /\ tw.obj \in ToolObject /\ tw.name \in Tools /\ tw'.obj \in ToolObject
      /\ tw'.name \in Tools /\ NoTool \in ToolObject
  BY TypedFacts, NoToolTyped DEF TypeOK, ToolWorkerType
<1>s. \A t \in Tools : tools'[t] = tools[t] \/ tools'[t].rv = tools[t].rv + 1
  BY ToolSteps DEF Steps
<1>f. ASSUME NEW t \in Tools, NEW copy \in ToolObject, Follows(copy, tools[t])
      PROVE  Follows(copy, tools'[t])
  BY <1>f, <1>n, <1>s, <1>t DEF Follows
<1>1. \A t \in Tools : Follows(NoTool, tools'[t])
  BY <1>f, <1>t DEF Copies
<1>2. \A t \in Tools : Follows(cache'[t], tools'[t])
  <2>1. ASSUME NEW t \in Tools PROVE Follows(cache'[t], tools'[t])
    BY <1>f, <1>n, <1>t, CacheSteps DEF Copies, CacheStays, Follows
  <2>2. QED
    BY <2>1
<1>3. Follows(tw'.obj, tools'[tw'.name])
  <2>1. CASE GoesOn
    BY <1>f, <1>t, <2>1 DEF GoesOn, Copies, me
  <2>2. CASE DropsIt
    BY <1>1, <2>2 DEF DropsIt
  <2>3. CASE TakesOne
    BY <1>t, <2>3 DEF TakesOne, Copies
  <2>4. CASE PatchesIt
    BY <1>n, <1>t, <2>4 DEF PatchesIt, Follows
  <2>5. QED
    BY <2>1, <2>2, <2>3, <2>4, HandSteps
<1>4. QED
  BY <1>1, <1>2, <1>3 DEF Copies, me

LEMMA DeletingInductive ==
  ASSUME TypeOK, Copies, DeletingHasFinalizer, [Next]_vars
  PROVE  DeletingHasFinalizer'
<1>1. ASSUME NEW t \in Tools PROVE tools'[t].deleting => tools'[t].fin
  BY ToolSteps DEF Steps, Kept, Bare, Finalized, DeletingHasFinalizer
<1>2. QED
  BY <1>1 DEF DeletingHasFinalizer
\* Releases, workloads and namespaces are changed by few steps.
LEMMA NamespacesInductive ==
  ASSUME TypeOK, NamespacesHoldReleases, WorkerKnows, TypeOK', [Next]_vars
  PROVE  NamespacesHoldReleases'
<1>t. /\ ns \in Namespaces /\ releases \in [Namespaces -> ReleaseStates]
      /\ nss \in [Namespaces -> {"absent", "active", "terminating"}]
      /\ ready \in [Namespaces -> BOOLEAN]
  BY TypedFacts DEF TypeOK
<1> USE DEF NamespacesHoldReleases, Uninstalled
<1>1. CASE UNCHANGED <<releases, nss, ready, missed>>
  BY <1>1
<1>2. ASSUME NEW n \in Namespaces, WorkloadReady(n) \/ WorkloadBreaks(n) PROVE NamespacesHoldReleases'
  BY <1>2, <1>t DEF WorkloadReady, WorkloadBreaks
<1>3. ASSUME NEW n \in Namespaces, NamespaceGone(n) PROVE NamespacesHoldReleases'
  BY <1>3, <1>t DEF NamespaceGone
<1>4. CASE EnsureNamespace
  BY <1>4, <1>t DEF EnsureNamespace, OnlyNs
<1>5. CASE HelmInstall \/ HelmUpgrade \/ HelmSucceeds \/ HelmTimesOut
  BY <1>5, <1>t
  DEF HelmInstall, HelmUpgrade, HelmSucceeds, HelmTimesOut, OnlyHelm, WorkerKnows
<1>6. CASE HelmUninstall
  BY <1>6, <1>t DEF HelmUninstall, OnlyHelm
<1>7. CASE HelmPurge
  <2>1. ASSUME NEW n \in Namespaces
        PROVE  /\ nss'[n] = "absent" => releases'[n] = "none"
               /\ nss'[n] = "terminating" => releases'[n] = "none" \/ n \in missed'
               /\ n \in missed' => releases'[n] # "none"
               /\ releases'[n] \in {"none", "uninstalling"} => ~ready'[n]
    BY <1>7, <1>t DEF HelmPurge, OnlyHelm, WorkerKnows
  <2>2. QED
    BY <2>1
<1>8. CASE DeleteNamespace
  BY <1>8, <1>t DEF DeleteNamespace, OnlyNs, WorkerKnows
<1>9. CASE \/ User \/ (\E t \in Tools : SyncTool(t) \/ Resync(t))
           \/ CallFails \/ Restart \/ UNCHANGED vars
  BY <1>1, <1>9, UserLeaves DEF vars, SyncTool, Resync, CallFails, Restart
<1>12. CASE HistoryUnread
  BY <1>12, <1>t DEF HistoryUnread
<1>10. CASE \/ (\E t \in Tools : ToolGet(t)) \/ BeginDeletion \/ AddFinalizer
            \/ HasFinalizer \/ UnsupportedType \/ ChooseService \/ HelmRefuses
            \/ NoRelease \/ RemoveFinalizer \/ CheckHealth \/ UpdateStatus
  BY <1>1, <1>10
     DEF ToolGet, BeginDeletion, AddFinalizer, HasFinalizer, UnsupportedType,
         ChooseService, HelmRefuses, NoRelease, RemoveFinalizer, CheckHealth,
         UpdateStatus, OnlyWorker, OnlyTools
<1>11. QED
  BY <1>2, <1>3, <1>4, <1>5, <1>6, <1>7, <1>8, <1>9, <1>10, <1>12
     DEF Next, Kubernetes, WorkerStep
\* A worker that is idle knows nothing.
LEMMA IdleKnows ==
  ASSUME NEW t \in Tools, tw' = Idle(t)
  PROVE  WorkerKnows'
<1>1. tw'.pc = "idle" /\ ~tw'.final
  BY IdleTyped
<1>2. QED
  BY <1>1 DEF WorkerKnows, Installing, Uninstalling, Reporting

\* The call the worker is at has changed, and nothing else of what it holds.
LEMMA GotoFields ==
  ASSUME TypeOK, NEW pc \in ToolPCs, Goto(pc)
  PROVE  /\ tw'.pc = pc /\ tw'.obj = tw.obj /\ tw'.final = tw.final
         /\ tw'.healthy = tw.healthy /\ ns' = ns
BY DEF Goto, TypeOK, ToolWorkerType, ns

LEMMA KnowsOutside ==
  ASSUME TypeOK, WorkerKnows, tw' = tw,
         UNCHANGED <<releases, nss, missed>> \/ \E n \in Namespaces : NamespaceGone(n)
  PROVE  WorkerKnows'
<1>1. ns' = ns /\ ns \in Namespaces
  BY TypedFacts DEF ns
<1>2. CASE UNCHANGED <<releases, nss, missed>>
  BY <1>1, <1>2 DEF WorkerKnows, Uninstalled
<1>3. ASSUME NEW n \in Namespaces, NamespaceGone(n) PROVE WorkerKnows'
  <2>1. CASE n = ns
    <3>1. nss[ns] # "active" /\ releases'[ns] = "none"
      BY <1>1, <1>3, <2>1 DEF NamespaceGone, TypeOK
    <3>2. QED
      BY <1>1, <3>1 DEF WorkerKnows, Uninstalled
  <2>2. CASE n # ns
    <3>1. releases'[ns] = releases[ns] /\ nss'[ns] = nss[ns] /\ (ns \in missed' <=> ns \in missed)
      BY <1>1, <1>3, <2>2 DEF NamespaceGone, TypeOK
    <3>2. QED
      BY <1>1, <3>1 DEF WorkerKnows, Uninstalled
  <2>3. QED
    BY <2>1, <2>2
<1>4. QED
  BY <1>2, <1>3

LEMMA KnowsInductive ==
  ASSUME TypeOK, NamespacesHoldReleases, WorkerKnows, TypeOK', [Next]_vars
  PROVE  WorkerKnows'
<1>t. /\ ns \in Namespaces /\ releases \in [Namespaces -> ReleaseStates]
      /\ nss \in [Namespaces -> {"absent", "active", "terminating"}]
      /\ tw.name \in Tools
  BY TypedFacts DEF TypeOK
<1>p. {"service", "ensurens", "helm", "wait", "uninstall", "purge", "dropns", "health",
       "unfinalize"} \subseteq ToolPCs
  BY DEF ToolPCs
<1> USE DEF WorkerKnows, Installing, Uninstalling, Reporting, Uninstalled
<1>1. CASE tw' = tw /\ (UNCHANGED <<releases, nss, missed>> \/ \E n \in Namespaces : NamespaceGone(n))
  BY <1>1, KnowsOutside
<1>2. ASSUME NEW t \in Tools, tw' = Idle(t) PROVE WorkerKnows'
  BY <1>2, IdleKnows
<1>3. CASE Done \/ Retry
  BY <1>2, <1>3, <1>t DEF Done, Retry
<1>4. ASSUME NEW t \in Tools, ToolGet(t), cache[t].live PROVE WorkerKnows'
  <2>1. tw' = [Idle(t) EXCEPT !.pc = "start", !.obj = cache[t]]
    BY <1>4, Zenon DEF ToolGet
  <2>2. tw'.pc = "start" /\ tw'.obj = cache[t] /\ ~tw'.final
    BY <2>1 DEF Idle
  <2>3. QED
    BY <1>4, <2>2
<1>5. CASE BeginDeletion
  <2>1. /\ tw'.pc = IF tw.obj.spec.known THEN "uninstall" ELSE "unfinalize"
        /\ tw'.obj = tw.obj /\ tw'.final
    BY <1>5 DEF BeginDeletion, TypeOK, ToolWorkerType
  <2>2. QED
    BY <1>5, <2>1 DEF BeginDeletion
<1>6. CASE AddFinalizer
  <2>1. CASE me.live
    <3> DEFINE new == IF me.fin THEN me ELSE [me EXCEPT !.fin = TRUE, !.rv = @ + 1]
    <3>1. tw' = [tw EXCEPT !.pc = "service", !.obj = new]
      BY <1>6, <2>1, Zenon DEF AddFinalizer
    <3>2. new.fin /\ new.live
      BY <2>1, FinalizerTyped DEF ToolObject
    <3> HIDE DEF new
    <3>3. tw'.pc = "service" /\ tw'.obj = new /\ tw'.final = tw.final
      BY <3>1 DEF TypeOK, ToolWorkerType
    <3>4. QED
      BY <1>6, <3>2, <3>3 DEF AddFinalizer
  <2>2. CASE ~me.live
    BY <1>3, <1>6, <2>2 DEF AddFinalizer
  <2>3. QED
    BY <2>1, <2>2
<1>7. CASE HasFinalizer
  BY <1>7, <1>p, GotoFields DEF HasFinalizer
<1>8. CASE ChooseService
  BY <1>8, <1>p, GotoFields DEF ChooseService
<1>9. CASE EnsureNamespace
  BY <1>9, <1>p, GotoFields DEF EnsureNamespace
<1>10. CASE HelmInstall \/ HelmUpgrade
  BY <1>10, <1>p, GotoFields DEF HelmInstall, HelmUpgrade, OnlyHelm
<1>11. CASE HelmSucceeds
  BY <1>11, <1>p, <1>t, GotoFields DEF HelmSucceeds, OnlyHelm
<1>12. CASE NoRelease
  BY <1>12, <1>p, GotoFields DEF NoRelease, AfterHelm, AfterUninstall, OnlyWorker
<1>13. CASE HelmUninstall
  BY <1>13, <1>p, <1>t, GotoFields DEF HelmUninstall
<1>14. CASE HelmPurge
  BY <1>14, <1>p, <1>t, GotoFields DEF HelmPurge, AfterHelm, AfterUninstall
<1>15. CASE DeleteNamespace
  BY <1>15, <1>p, GotoFields DEF DeleteNamespace, AfterUninstall, OnlyNs
<1>16. CASE CheckHealth
  <2>1. /\ tw'.pc = "status" /\ tw'.obj = tw.obj /\ tw'.final = tw.final
        /\ tw'.healthy = ready[ns] /\ ns' = ns
    BY <1>16 DEF CheckHealth, TypeOK, ToolWorkerType, ns
  <2>2. UNCHANGED <<releases, nss, missed>>
    BY <1>16 DEF CheckHealth, OnlyWorker
  <2>3. QED
    BY <1>16, <2>1, <2>2 DEF CheckHealth
<1>17. CASE User \/ (\E t \in Tools : Resync(t)) \/ UNCHANGED vars
  BY <1>1, <1>17, UserLeaves DEF vars, Resync
<1>18. CASE Kubernetes
  BY <1>1, <1>18
     DEF Kubernetes, SyncTool, WorkloadReady, WorkloadBreaks, NamespaceGone
<1>19. CASE CallFails \/ Restart
  BY <1>2, <1>3, <1>19, AnyToolIsOne DEF CallFails, Restart
<1>23. CASE HistoryUnread
  BY <1>23, <1>p, GotoFields DEF HistoryUnread, AfterHelm, AfterUninstall
<1>20. ASSUME NEW t \in Tools, ToolGet(t) PROVE WorkerKnows'
  BY <1>2, <1>4, <1>20 DEF ToolGet
<1>21. CASE UnsupportedType \/ HelmRefuses \/ HelmTimesOut \/ RemoveFinalizer \/ UpdateStatus
  BY <1>3, <1>21
     DEF UnsupportedType, HelmRefuses, HelmTimesOut, RemoveFinalizer, UpdateStatus
<1>22. QED
  BY <1>5, <1>6, <1>7, <1>8, <1>9, <1>10, <1>11, <1>12, <1>13, <1>14, <1>15, <1>16,
     <1>17, <1>18, <1>19, <1>20, <1>21, <1>23
     DEF Next, WorkerStep
\* What the user has moved is never forgotten.
LEMMA MovesGrow ==
  ASSUME TypeOK, [Next]_vars, budget'.moves = 0
  PROVE  budget.moves = 0
<1>1. CASE budget' = budget
  BY <1>1
<1>2. CASE User
  <2>p. PICK t \in Tools : \E new : UserWrites(t, new)
    BY <1>2 DEF User, CreateTool, EditTool, DeleteTool
  <2>1. PICK new : UserWrites(t, new)
    BY <2>p
  <2> DEFINE moves == IF tools[t].live /\ new.live /\ new.spec.ns # tools[t].spec.ns
                        THEN budget.moves + 1 ELSE budget.moves
  <2>2. budget' = [budget EXCEPT !.edits = budget.edits + 1, !.moves = moves]
    BY <2>1, Zenon DEF UserWrites
  <2>3. moves = budget.moves \/ moves = budget.moves + 1
    OBVIOUS
  <2> HIDE DEF moves
  <2>4. budget'.moves = moves
    BY <2>2 DEF TypeOK
  <2>5. QED
    BY <2>3, <2>4, TypedFacts
<1>3. CASE (\E n \in Namespaces : WorkloadBreaks(n)) \/ CallFails \/ HistoryUnread \/ Restart
  BY <1>3 DEF WorkloadBreaks, CallFails, HistoryUnread, Restart, SpendFault, TypeOK
<1>4. QED
  BY <1>1, <1>2, <1>3
     DEF Next, vars, Kubernetes, SyncTool, WorkloadReady, NamespaceGone, Resync,
         WorkerStep, ToolGet, BeginDeletion, AddFinalizer, HasFinalizer, UnsupportedType,
         ChooseService, EnsureNamespace, HelmInstall, HelmUpgrade, HelmRefuses,
         HelmSucceeds, HelmTimesOut, NoRelease, HelmUninstall, HelmPurge,
         DeleteNamespace, RemoveFinalizer, CheckHealth, UpdateStatus,
         OnlyWorker, OnlyTools, OnlyHelm, OnlyNs

LEMMA DeletionInductive ==
  ASSUME TypeOK, Copies, DeletingHasFinalizer, WorkerKnows, DeletionKnows, TypeOK',
         [Next]_vars
  PROVE  DeletionKnows'
<1> SUFFICES ASSUME budget'.moves = 0
             PROVE  /\ tw'.pc # "idle" /\ tw'.obj.deleting /\ me'.live /\ me'.fin =>
                         SameRelease(me', tw'.obj)
                    /\ \A t \in Tools :
                         cache'[t].live /\ cache'[t].deleting /\ tools'[t].live
                         /\ tools'[t].fin => SameRelease(tools'[t], cache'[t])
                    /\ tw'.pc = "start" /\ ~tw'.obj.deleting /\ ~tw'.obj.fin
                       /\ cache'[tw'.name].live /\ cache'[tw'.name].deleting =>
                         me'.live /\ me'.deleting
  BY DEF DeletionKnows, SameRelease
<1>t. tw.name \in Tools /\ tw'.name \in Tools /\ me' = tools'[tw'.name]
      /\ me = tools[tw.name]
  BY TypedFacts DEF TypeOK, ToolWorkerType, me
<1>s. ASSUME NEW t \in Tools PROVE Steps(t) /\ CacheStays(t)
  BY ToolSteps, CacheSteps
<1>m. budget.moves = 0 \/ \A t \in Tools : tools'[t] = tools[t]
  <2>1. ASSUME NEW t \in Tools, tools'[t] # tools[t] PROVE budget.moves = 0
    BY <1>s, <2>1 DEF Steps, Kept, Bare, Finalized
  <2>2. QED
    BY <2>1
<1>b. budget.moves = 0
  BY MovesGrow
<1>k. ASSUME NEW t \in Tools, NEW o, tools[t].live /\ tools[t].fin => SameRelease(tools[t], o),
             tools'[t].live, tools'[t].fin, ~Finalized(t)
      PROVE  SameRelease(tools'[t], o)
  BY <1>k, <1>s DEF Steps, Kept, Bare, SameRelease
<1>1. ASSUME tw'.pc # "idle", tw'.obj.deleting, me'.live, me'.fin
      PROVE  SameRelease(me', tw'.obj)
  <2>1. CASE GoesOn
    <3>1. tw.obj.deleting /\ tw'.obj = tw.obj /\ tw'.name = tw.name /\ tw.pc # "idle"
      BY <1>1, <2>1 DEF GoesOn
    <3>2. ~Finalized(tw.name)
      BY <3>1 DEF Finalized
    <3>3. QED
      BY <1>1, <1>b, <1>k, <1>t, <3>1, <3>2 DEF DeletionKnows
  <2>2. CASE DropsIt
    BY <1>1, <2>2 DEF DropsIt
  <2>3. CASE TakesOne
    BY <1>1, <1>b, <1>t, <2>3 DEF TakesOne, DeletionKnows
  <2>4. CASE PatchesIt
    BY <1>t, <2>4 DEF PatchesIt, SameRelease
  <2>5. QED
    BY <2>1, <2>2, <2>3, <2>4, HandSteps
<1>2. ASSUME NEW t \in Tools, cache'[t].live, cache'[t].deleting, tools'[t].live,
             tools'[t].fin
      PROVE  SameRelease(tools'[t], cache'[t])
  <2>1. CASE cache'[t] = cache[t]
    <3>1. CASE Finalized(t)
      BY <1>2, <1>b, <1>t, <2>1, <3>1
         DEF Finalized, DeletionKnows, DeletingHasFinalizer
    <3>2. CASE ~Finalized(t)
      BY <1>2, <1>b, <1>k, <2>1, <3>2 DEF DeletionKnows
    <3>3. QED
      BY <3>1, <3>2
  <2>2. CASE cache'[t] = tools[t] /\ tools' = tools
    BY <2>2 DEF SameRelease
  <2>3. QED
    BY <1>s, <2>1, <2>2 DEF CacheStays
<1>3. ASSUME tw'.pc = "start", ~tw'.obj.deleting, ~tw'.obj.fin,
             cache'[tw'.name].live, cache'[tw'.name].deleting
      PROVE  me'.live /\ me'.deleting
  <2>1. CASE tw' = tw
    <3>1. CASE cache'[tw.name] = cache[tw.name]
      <4>1. me.live /\ me.deleting /\ me.fin
        BY <1>3, <1>b, <1>t, <2>1, <3>1 DEF DeletionKnows, DeletingHasFinalizer
      <4>2. QED
        BY <1>3, <1>s, <1>t, <2>1, <4>1 DEF Steps, Kept, Bare, Finalized
    <3>2. CASE cache'[tw.name] = tools[tw.name] /\ tools' = tools
      BY <1>3, <1>t, <2>1, <3>2
    <3>3. QED
      BY <1>s, <1>t, <3>1, <3>2 DEF CacheStays
  <2>2. CASE TakesOne
    BY <1>3, <2>2 DEF TakesOne
  <2>3. CASE tw'.pc # "start"
    BY <1>3, <2>3
  <2>4. tw' = tw \/ TakesOne \/ tw'.pc # "start"
    BY StartsOnce
  <2>5. QED
    BY <2>1, <2>2, <2>3, <2>4
<1>4. QED
  BY <1>1, <1>2, <1>3

LEMMA InitInv == Init => ToolInv
<1> SUFFICES ASSUME Init PROVE ToolInv
  OBVIOUS
<1>1. TypeOK
  BY InitTypes
<1>2. /\ \A t \in Tools : tools[t] = NoTool /\ cache[t] = NoTool
      /\ tw = Idle(AnyTool) /\ tw.name \in Tools
  BY <1>1, TypedFacts DEF Init
<1>3. tw.obj = NoTool /\ tw.pc = "idle" /\ ~tw.final
  BY <1>2, IdleTyped, AnyToolIsOne
<1>4. Copies /\ DeletingHasFinalizer
  BY <1>2, <1>3, NoToolTyped DEF Copies, Follows, DeletingHasFinalizer, me, ToolObject
<1>5. NamespacesHoldReleases
  BY DEF Init, NamespacesHoldReleases
<1>6. WorkerKnows
  BY <1>3 DEF WorkerKnows, Installing, Uninstalling, Reporting
<1>7. DeletionKnows
  BY <1>2, <1>3, NoToolTyped DEF DeletionKnows
<1>8. QED
  BY <1>1, <1>4, <1>5, <1>6, <1>7 DEF ToolInv

LEMMA NextInv ==
  ASSUME ToolInv, [Next]_vars
  PROVE  ToolInv'
<1>1. TypeOK'
  BY NextTypes DEF ToolInv
<1>2. QED
  BY <1>1, CopiesInductive, DeletingInductive, NamespacesInductive, KnowsInductive,
     DeletionInductive
     DEF ToolInv

\* The inductive invariant of the Tool controller: versions tell copies apart,
\* the worker knows what it has installed or uninstalled, and while no Tool is
\* moved it means the right release whatever stands in its cache.
THEOREM ToolInvariant == Spec => []ToolInv
<1>1. ToolInv /\ [Next]_vars => ToolInv'
  BY NextInv
<1>2. QED
  BY <1>1, InitInv, PTL DEF Spec
-----------------------------------------------------------------------------
\* No Tool leaves with its finalizer while the release it asked for is there and
\* has not been taken for gone, for any number of Tools, as long as none is moved
\* (handleDeletion).
THEOREM ReleasedCleanHolds == Spec => ReleasedClean
<1>1. ASSUME ToolInv, [Next]_vars, NEW t \in Tools, budget.moves = 0,
             tools[t].live, tools[t].fin, tools[t].spec.known, ~tools'[t].live
      PROVE  LET n == Resolved(tools[t].spec) IN releases'[n] = "none" \/ n \in missed'
  <2>1. TypeOK /\ Copies /\ DeletingHasFinalizer /\ WorkerKnows /\ DeletionKnows
    BY <1>1 DEF ToolInv
  <2>2. Steps(t)
    BY <1>1, <2>1, ToolSteps
  <2>3. tw.pc = "unfinalize" /\ t = tw.name
    BY <1>1, <2>2 DEF Steps, Kept, Bare, Finalized
  <2>4. tw.obj.deleting /\ me = tools[t]
    BY <2>1, <2>3 DEF WorkerKnows, me
  <2>5. SameRelease(me, tw.obj)
    BY <1>1, <2>1, <2>3, <2>4 DEF DeletionKnows
  <2>6. Uninstalled(Resolved(tools[t].spec))
    BY <1>1, <2>1, <2>3, <2>4, <2>5 DEF WorkerKnows, SameRelease, ns, Resolved
  <2>7. UNCHANGED <<releases, missed>>
    <3>1. CASE RemoveFinalizer
      BY <3>1 DEF RemoveFinalizer, OnlyTools
    <3>2. CASE WorkerStep /\ ~RemoveFinalizer
      BY <2>3, <3>2
         DEF WorkerStep, ToolGet, BeginDeletion, AddFinalizer, HasFinalizer,
             UnsupportedType, ChooseService, EnsureNamespace, HelmInstall, HelmUpgrade,
             HelmRefuses, HelmSucceeds, HelmTimesOut, NoRelease, HelmUninstall,
             HelmPurge, DeleteNamespace, CheckHealth, UpdateStatus
    <3>3. CASE User
      BY <3>3, UserLeaves
    <3>4. tools' # tools
      BY <1>1
    <3>5. QED
      BY <1>1, <2>3, <3>1, <3>2, <3>3, <3>4
         DEF Next, vars, Kubernetes, SyncTool, WorkloadReady, WorkloadBreaks,
             NamespaceGone, Resync, CallFails, HistoryUnread, Restart
  <2>8. QED
    BY <2>6, <2>7 DEF Uninstalled
<1>2. ToolInv /\ [Next]_vars =>
        [\A t \in Tools : budget.moves = 0
            /\ tools[t].live /\ tools[t].fin /\ tools[t].spec.known /\ ~tools'[t].live
            => LET n == Resolved(tools[t].spec)
               IN  releases'[n] = "none" \/ n \in missed']_vars
  BY <1>1
<1>3. QED
  BY <1>2, ToolInvariant, PTL DEF Spec, ReleasedClean

\* No namespace the user named is deleted (EnsureUninstalled).
THEOREM NamedNamespaceStaysHolds == Spec => NamedNamespaceStays
<1>1. ASSUME ToolInv, [Next]_vars, NEW n \in Namespaces, nss[n] = "active",
             nss'[n] = "terminating"
      PROVE  n = DefaultNs /\ tw.obj.spec.ns = Omitted
  <2>1. nss \in [Namespaces -> {"absent", "active", "terminating"}] /\ ns \in Namespaces
    BY <1>1, TypedFacts DEF ToolInv, TypeOK
  <2>2. nss' # nss
    BY <1>1
  <2>3. \/ DeleteNamespace \/ EnsureNamespace
        \/ \E m \in Namespaces : NamespaceGone(m)
    <3>1. CASE WorkerStep
      BY <2>2, <3>1
         DEF WorkerStep, ToolGet, BeginDeletion, AddFinalizer, HasFinalizer,
             UnsupportedType, ChooseService, HelmInstall, HelmUpgrade, HelmRefuses,
             HelmSucceeds, HelmTimesOut, NoRelease, HelmUninstall, HelmPurge,
             RemoveFinalizer, CheckHealth, UpdateStatus, OnlyWorker, OnlyTools, OnlyHelm
    <3>2. CASE User
      BY <2>2, <3>2, UserLeaves
    <3>3. CASE Kubernetes
      BY <2>2, <3>3 DEF Kubernetes, SyncTool, WorkloadReady, WorkloadBreaks
    <3>4. QED
      BY <1>1, <2>2, <3>1, <3>2, <3>3 DEF Next, vars, Resync, CallFails, HistoryUnread, Restart
  <2>4. CASE DeleteNamespace
    BY <1>1, <2>1, <2>4 DEF DeleteNamespace, ToolInv, WorkerKnows, ns, Resolved
  <2>5. CASE EnsureNamespace
    BY <1>1, <2>1, <2>5 DEF EnsureNamespace
  <2>6. ASSUME NEW m \in Namespaces, NamespaceGone(m) PROVE FALSE
    BY <1>1, <2>1, <2>6 DEF NamespaceGone
  <2>7. QED
    BY <2>3, <2>4, <2>5, <2>6
<1>2. ToolInv /\ [Next]_vars =>
        [\A n \in Namespaces : nss[n] = "active" /\ nss'[n] = "terminating"
           => n = DefaultNs /\ tw.obj.spec.ns = Omitted]_vars
  BY <1>1
<1>3. QED
  BY <1>2, ToolInvariant, PTL DEF Spec, NamedNamespaceStays
=============================================================================

--------------------------- MODULE EngineGuardProofs ---------------------------
(***************************************************************************)
(* Proofs about EngineSystem, on top of EngineInv: nothing is made for a   *)
(* Policy without a finalizer, the life of a Policy is that of module      *)
(* PolicyLifecycle, what is called observed has a report and, if it is a   *)
(* ConfigMap's, owns it, and what nobody is about to look at again has     *)
(* been served.                                                            *)
(***************************************************************************)
EXTENDS EngineProofs

-----------------------------------------------------------------------------
(***************************************************************************)
(* What a step does to the Policy.                                         *)
(***************************************************************************)

\* The controller's writes that leave the Policy's spec and deletion alone.
Touched ==
  /\ policy.live /\ ~policy.deleting
  /\ policy'.live /\ ~policy'.deleting /\ policy'.fin
  /\ policy'.uid = policy.uid /\ policy'.gen = policy.gen /\ policy'.spec = policy.spec
  /\ \/ policy'.obsGen = policy.obsGen
     \/ /\ policy.fin /\ policy'.obsGen = policy.gen
        /\ pw.pc = "status" /\ pw.pol = policy
        /\ pw' = IdlePolicyWorker /\ reports' = reports

Created ==
  /\ ~policy.live /\ policy'.live /\ policy'.uid = policy.uid + 1 /\ policy'.gen = 1
  /\ ~policy'.fin /\ ~policy'.deleting /\ policy'.obsGen = 0

Moved ==
  /\ policy.live /\ policy'.live
  /\ policy'.uid = policy.uid /\ policy'.gen = policy.gen + 1
  /\ policy'.fin = policy.fin /\ policy'.obsGen = policy.obsGen
  /\ \/ policy'.deleting = policy.deleting
     \/ policy.fin /\ ~policy.deleting /\ policy'.deleting

Left ==
  /\ policy.live /\ (policy.fin <=> policy.deleting)
  /\ ~policy'.live /\ ~policy'.fin /\ ~policy'.deleting /\ policy'.obsGen = 0
  /\ policy'.uid = policy.uid /\ policy'.gen = policy.gen

LEMMA GoneFields ==
  /\ ~GonePolicy(policy).live /\ ~GonePolicy(policy).fin /\ ~GonePolicy(policy).deleting
  /\ GonePolicy(policy).obsGen = 0
  /\ GonePolicy(policy).uid = policy.uid /\ GonePolicy(policy).gen = policy.gen
BY DEF GonePolicy, NoPolicy

LEMMA UserLife ==
  ASSUME TypeOK, UserStep
  PROVE  Created \/ Moved \/ Left
<1>t. policy \in PolicyType
  BY TypedFacts
<1>1. ASSUME NEW spec \in Specs, CreatePolicy(spec) PROVE Created
  BY <1>1 DEF CreatePolicy, UserWrites, NoPolicy, Created
<1>2. ASSUME NEW spec \in Specs, EditPolicy(spec) PROVE Moved
  BY <1>2, <1>t DEF EditPolicy, UserWrites, PolicyType, Moved
<1>3. CASE DeletePolicy /\ policy.fin
  BY <1>3, <1>t DEF DeletePolicy, UserWrites, PolicyType, Moved
<1>4. CASE DeletePolicy /\ ~policy.fin
  BY <1>4, GoneFields DEF DeletePolicy, UserWrites, Left
<1>5. QED
  BY <1>1, <1>2, <1>3, <1>4 DEF UserStep

\* An update of the worker's copy, if it goes through, is one of the Policy.
LEMMA TouchedBy ==
  ASSUME TypeOK, Copies, pw.pc # "idle", NEW new \in PolicyType,
         CanWrite(pw.pol, policy), policy' = Stored(new, policy),
         ~pw.pol.deleting,
         new.live = pw.pol.live, ~new.deleting, new.fin, new.uid = pw.pol.uid,
         new.gen = pw.pol.gen, new.spec = pw.pol.spec,
         \/ new.obsGen = pw.pol.obsGen
         \/ /\ pw.pol.fin /\ new.obsGen = pw.pol.gen /\ pw.pc = "status"
            /\ pw' = IdlePolicyWorker /\ reports' = reports
  PROVE  Touched
<1>1. pw.pol = policy /\ policy.live
  BY DEF CanWrite, Copies, Follows
<1>2. /\ policy'.live = new.live /\ policy'.fin = new.fin
      /\ policy'.deleting = new.deleting
      /\ policy'.uid = new.uid /\ policy'.gen = new.gen
      /\ policy'.spec = new.spec /\ policy'.obsGen = new.obsGen
  BY TypedFacts DEF Stored, PolicyType
<1>3. QED
  BY <1>1, <1>2 DEF Touched

LEMMA WorkerLife ==
  ASSUME TypeOK, Copies, PastFinalizer, PolicyWorkerStep
  PROVE  policy' = policy \/ Touched \/ Left
<1>t. pw.pol \in PolicyType /\ policy \in PolicyType /\ pw.pol.spec.type \in Types
  BY TypedFacts
<1>1. CASE AddFinalizer
  <2> DEFINE new == [pw.pol EXCEPT !.fin = TRUE]
  <2>1. new \in PolicyType
    BY <1>t, Zenon DEF PolicyType
  <2>2. /\ ~pw.pol.deleting /\ pw.pc # "idle"
        /\ new.live = pw.pol.live /\ ~new.deleting /\ new.fin /\ new.uid = pw.pol.uid
        /\ new.gen = pw.pol.gen /\ new.spec = pw.pol.spec /\ new.obsGen = pw.pol.obsGen
    BY <1>1, <1>t DEF AddFinalizer, Wanted, PolicyType
  <2>3. policy' = policy \/ (CanWrite(pw.pol, policy) /\ policy' = Stored(new, policy))
    BY <1>1, Zenon DEF AddFinalizer, UpdatePolicyAndStop
  <2> HIDE DEF new
  <2>4. QED
    BY <2>1, <2>2, <2>3, TouchedBy
<1>2. CASE SetOwner
  <2> DEFINE owners == pw.pol.owners \cup {pw.pol.spec.type}
             new == [pw.pol EXCEPT !.owners = owners]
  <2>1. new \in PolicyType
    <3>1. owners \in SUBSET Types
      BY <1>t DEF PolicyType
    <3> HIDE DEF owners
    <3>2. QED
      BY <1>t, <3>1, Zenon DEF PolicyType
  <2>2. /\ ~pw.pol.deleting /\ pw.pc # "idle"
        /\ new.live = pw.pol.live /\ ~new.deleting /\ new.fin /\ new.uid = pw.pol.uid
        /\ new.gen = pw.pol.gen /\ new.spec = pw.pol.spec /\ new.obsGen = pw.pol.obsGen
    BY <1>2, <1>t DEF SetOwner, Wanted, PolicyType
  <2>3. policy' = policy \/ (CanWrite(pw.pol, policy) /\ policy' = Stored(new, policy))
    BY <1>2, Zenon DEF SetOwner, UpdatePolicyAndStop
  <2> HIDE DEF new
  <2>4. QED
    BY <2>1, <2>2, <2>3, TouchedBy
<1>3. CASE UpdateStatus
  <2> DEFINE new == [pw.pol EXCEPT !.obsGen = pw.pol.gen]
  <2>1. new \in PolicyType
    BY <1>t DEF PolicyType
  <2>2. /\ ~pw.pol.deleting /\ pw.pc = "status" /\ pw.pol.fin
        /\ new.live = pw.pol.live /\ ~new.deleting /\ new.fin /\ new.uid = pw.pol.uid
        /\ new.gen = pw.pol.gen /\ new.spec = pw.pol.spec /\ new.obsGen = pw.pol.gen
    BY <1>3, <1>t DEF UpdateStatus, PastFinalizer, Serving, PolicyType
  <2>3. \/ policy' = policy
        \/ CanWrite(pw.pol, policy) /\ policy' = Stored(new, policy) /\ pw' = IdlePolicyWorker
    BY <1>3, Zenon DEF UpdateStatus, UpdatePolicyAndStop, PolicyDone
  <2>4. reports' = reports
    BY <1>3 DEF UpdateStatus, UpdatePolicyAndStop, PolicyWorkerKeeps
  <2> HIDE DEF new
  <2>5. QED
    BY <2>1, <2>2, <2>3, <2>4, TouchedBy
<1>4. CASE RemoveFinalizer
  <2>1. pw.pc = "reports" /\ pw.pol.deleting /\ pw.pol.fin
    BY <1>4 DEF RemoveFinalizer, CleanedUp, PastFinalizer
  <2>2. policy' = policy \/ (CanWrite(pw.pol, policy) /\ policy' = GonePolicy(policy))
    BY <1>4, Zenon DEF RemoveFinalizer, UpdatePolicyAndStop
  <2>3. CanWrite(pw.pol, policy) => pw.pol = policy /\ policy.live
    BY <2>1 DEF CanWrite, Copies, Follows
  <2>4. QED
    BY <2>1, <2>2, <2>3, GoneFields DEF Left
<1>5. CASE ~(AddFinalizer \/ SetOwner \/ UpdateStatus \/ RemoveFinalizer)
  BY <1>5
  DEF PolicyWorkerStep, PolicyGet, ToolNotFound, BeginCleanup, RejectInvalid,
      BeginReconcile, FalcoStep, LitmusStep, ListReports, DeleteListedReport,
      DisabledDone, UpsertCreate, UpsertNothing, UpsertUpdate, CreateConfigMap,
      KeepConfigMap, UpdateConfigMap, NoConfigMapFound, DeleteConfigMap,
      CreateChaosEngine, KeepChaosEngine, UpdateChaosEngine, RewriteChaosEngine,
      WriteChaosEngine, ReconciledAll, LitmusCleanupPanics, CleanedEngines,
      ListChaosEngines, DeleteChaosEngine, OnlyPolicyWorker, PolicyWorkerKeeps,
      EngineKeeps
<1>6. QED
  BY <1>1, <1>2, <1>3, <1>4, <1>5

\* Every way a Policy can change, as its life sees it.
LEMMA LifeSteps ==
  ASSUME TypeOK, Copies, PastFinalizer, [Next]_vars
  PROVE  policy' = policy \/ Created \/ Moved \/ Left \/ Touched
BY UserLife, WorkerLife, ClusterLeaves, ReportWorkerLeaves, FaultLeaves
DEF Next, vars, clusterVars

\* Where the policy worker goes, and what it has checked before.
WorkerGoes ==
  \/ pw' = pw
  \/ pw'.pc = "idle"
  \/ /\ pw.pc = "idle" /\ pw'.pc = "tool" /\ policyCache.live /\ pw'.pol = policyCache
     /\ UNCHANGED <<policy, policyCache, reports, reportCache>>
  \/ /\ pw.pc = "tool" /\ pw'.pol = pw.pol /\ pw.pol.fin /\ ToolFound
     /\ pw.pol.deleting \/ pw.pol.spec.type \in pw.pol.owners
     /\ \/ pw'.pc = "cleanup" /\ ~Serving(pw.pol)
        \/ pw'.pc = "reconcile" /\ Serving(pw.pol) /\ Valid(pw.pol.spec)
  \/ /\ pw.pc \in {"cleanup", "list", "reports"} /\ pw'.pol = pw.pol
     /\ pw'.pc \in {"cleanup", "list", "reports"}
     /\ pw.pc = "cleanup" => pw'.pc = "cleanup" \/ Cleanable(pw.pol.spec)
     /\ pw'.pc = "cleanup" => pw.pc = "cleanup"
  \/ /\ pw.pc \in {"reconcile", "upsert"} /\ pw'.pol = pw.pol
     /\ pw'.pc \in {"reconcile", "upsert"}
  \/ /\ pw.pc = "upsert" /\ pw'.pol = pw.pol /\ pw'.pc = "status"
     /\ UNCHANGED <<policy, policyCache, reportCache>>
     /\ \/ /\ reportCache[pw.pol.spec.type].live
           /\ reportCache[pw.pol.spec.type].gen = pw.pol.gen
           /\ reports' = reports
        \/ /\ reports'[pw.pol.spec.type].live
           /\ reports'[pw.pol.spec.type].uid = pw.pol.uid
           /\ reports'[pw.pol.spec.type].gen = pw.pol.gen

LEMMA WorkerMoves ==
  ASSUME TypeOK, PolicyWorkerStep
  PROVE  WorkerGoes
<1>t. /\ pw \in PolicyWorkerType /\ pw.pol.spec.type \in Types
      /\ reports \in [Types -> ReportType] /\ reportCache \in [Types -> ReportType]
  BY TypedFacts DEF TypeOK, EngineTypeOK
<1>i. IdlePolicyWorker.pc = "idle"
  BY DEF IdlePolicyWorker
<1>d. CASE PolicyDone \/ PolicyRetry
  BY <1>d, <1>i DEF PolicyDone, PolicyRetry, WorkerGoes
<1>1. CASE PolicyGet
  <2>1. /\ pw.pc = "idle" /\ UNCHANGED <<policy, policyCache, reports, reportCache>>
        /\ \/ pw' = IdlePolicyWorker
           \/ /\ policyCache.live
              /\ pw' = [pw EXCEPT !.pc = "tool", !.pol = policyCache]
    BY <1>1 DEF PolicyGet, OnlyPolicyWorker, PolicyWorkerKeeps, caches
  <2>2. QED
    BY <1>i, <1>t, <2>1 DEF PolicyWorkerType, WorkerGoes
<1>2. CASE BeginCleanup
  <2>1. /\ pw.pc = "tool" /\ pw.pol.fin /\ ~Serving(pw.pol) /\ ToolFound
        /\ pw.pol.deleting \/ pw.pol.spec.type \in pw.pol.owners
        /\ pw' = [pw EXCEPT !.pc = "cleanup", !.spaces = SpacesOf(pw.pol.spec)]
    BY <1>2 DEF BeginCleanup, Owned, Wanted, Serving, PolicyGoes
  <2>2. QED
    BY <1>t, <2>1 DEF PolicyWorkerType, WorkerGoes
<1>3. CASE BeginReconcile
  <2>1. /\ pw.pc = "tool" /\ pw.pol.fin /\ Serving(pw.pol) /\ ToolFound
        /\ pw.pol.spec.type \in pw.pol.owners /\ Valid(pw.pol.spec)
        /\ pw' = [pw EXCEPT !.pc = "reconcile", !.exps = Listed(pw.pol.spec)]
    BY <1>3 DEF BeginReconcile, Owned, Wanted, Serving, PolicyGoes
  <2>2. QED
    BY <1>t, <2>1 DEF PolicyWorkerType, WorkerGoes
<1>4. CASE ListReports \/ \E t \in Types : DeleteListedReport(t)
  <2>1. /\ pw.pc \in {"list", "reports"}
        /\ \E reps : \/ pw' = [pw EXCEPT !.pc = "reports", !.reps = reps]
                     \/ pw' = [pw EXCEPT !.reps = reps]
    BY <1>4 DEF ListReports, DeleteListedReport, PolicyGoes
  <2>2. QED
    BY <1>t, <2>1 DEF PolicyWorkerType, WorkerGoes
<1>5. CASE FalcoStep
  <2>1. \/ PolicyRetry
        \/ pw.pc = "reconcile" /\ pw' = [pw EXCEPT !.pc = "upsert"]
        \/ /\ pw.pc = "cleanup" /\ pw' = [pw EXCEPT !.pc = "list"]
           /\ Cleanable(pw.pol.spec)
    BY <1>5
    DEF Cleanable, FalcoStep, CreateConfigMap, KeepConfigMap, UpdateConfigMap,
        NoConfigMapFound, DeleteConfigMap, FalcoTurn, CachedConfigMap, PolicyGoes
  <2>2. QED
    BY <1>d, <1>t, <2>1 DEF PolicyWorkerType, WorkerGoes
<1>6. ASSUME NEW e \in Experiments,
             CreateChaosEngine(e) \/ KeepChaosEngine(e) \/ UpdateChaosEngine(e)
             \/ RewriteChaosEngine(e)
      PROVE  WorkerGoes
  <2>1. \/ PolicyRetry
        \/ pw.pc = "reconcile" /\ pw' = [pw EXCEPT !.exps = @ \ {e}]
    BY <1>6
    DEF CreateChaosEngine, KeepChaosEngine, UpdateChaosEngine, RewriteChaosEngine,
        WriteChaosEngine, AtExperiment, LitmusTurn, Reached, PolicyGoes
  <2>2. QED
    BY <1>d, <1>t, <2>1 DEF PolicyWorkerType, WorkerGoes
<1>7. CASE ReconciledAll \/ CleanedEngines
  <2>1. \/ pw.pc = "reconcile" /\ pw' = [pw EXCEPT !.pc = "upsert"]
        \/ /\ pw.pc = "cleanup" /\ pw' = [pw EXCEPT !.pc = "list"]
           /\ Cleanable(pw.pol.spec)
    BY <1>7 DEF Cleanable, ReconciledAll, CleanedEngines, LitmusTurn, PolicyGoes
  <2>2. QED
    BY <1>t, <2>1 DEF PolicyWorkerType, WorkerGoes
<1>8. ASSUME NEW n \in Namespaces, ListChaosEngines(n) PROVE WorkerGoes
  <2>1. /\ pw.pc = "cleanup"
        /\ \E spaces, doomed : pw' = [pw EXCEPT !.spaces = spaces, !.doomed = doomed]
    BY <1>8 DEF ListChaosEngines, LitmusTurn, PolicyGoes
  <2>2. QED
    BY <1>t, <2>1 DEF PolicyWorkerType, WorkerGoes
<1>9. ASSUME NEW x \in Slots, DeleteChaosEngine(x) PROVE WorkerGoes
  <2>1. pw.pc = "cleanup" /\ \E doomed : pw' = [pw EXCEPT !.doomed = doomed]
    BY <1>9 DEF DeleteChaosEngine, LitmusTurn, PolicyGoes
  <2>2. QED
    BY <1>t, <2>1 DEF PolicyWorkerType, WorkerGoes
<1>u. ASSUME pw.pc = "upsert", pw' = [pw EXCEPT !.pc = "status"],
             UNCHANGED <<policy, policyCache, reportCache>>,
             \/ /\ reportCache[type].live /\ reportCache[type].gen = pw.pol.gen
                /\ reports' = reports
             \/ /\ reports'[type].live /\ reports'[type].uid = pw.pol.uid
                /\ reports'[type].gen = pw.pol.gen
      PROVE  WorkerGoes
  BY <1>t, <1>u DEF PolicyWorkerType, WorkerGoes, type
<1>w. ASSUME NEW new, reports' = [reports EXCEPT ![type] = new]
      PROVE  reports'[type] = new
  BY <1>t, <1>w DEF type
<1>10. CASE UpsertCreate
  <2> DEFINE new == [NoReport EXCEPT !.live = TRUE, !.rv = reports[type].rv + 1,
                                     !.uid = pw.pol.uid, !.gen = pw.pol.gen]
  <2>1. CASE reports[type].live
    BY <1>10, <1>d, <2>1 DEF UpsertCreate
  <2>2. CASE ~reports[type].live
    <3>1. /\ pw.pc = "upsert" /\ pw' = [pw EXCEPT !.pc = "status"]
          /\ UNCHANGED <<policy, policyCache, reportCache>>
          /\ reports' = [reports EXCEPT ![type] = new]
      BY <1>10, <2>2, Zenon
      DEF UpsertCreate, Upserted, PolicyGoes, PolicyWorkerKeeps, caches
    <3>2. new.live /\ new.uid = pw.pol.uid /\ new.gen = pw.pol.gen
      BY DEF NoReport
    <3> HIDE DEF new
    <3>3. QED
      BY <1>u, <1>w, <3>1, <3>2
  <2>3. QED
    BY <2>1, <2>2
<1>12. CASE UpsertUpdate
  <2> DEFINE new == [reportCache[type] EXCEPT !.uid = pw.pol.uid, !.gen = pw.pol.gen,
                                              !.rv = @ + 1]
  <2>1. CASE ~CanWrite(reportCache[type], reports[type])
    BY <1>12, <1>d, <2>1 DEF UpsertUpdate
  <2>2. CASE CanWrite(reportCache[type], reports[type])
    <3>1. /\ pw.pc = "upsert" /\ pw' = [pw EXCEPT !.pc = "status"]
          /\ UNCHANGED <<policy, policyCache, reportCache>>
          /\ reports' = [reports EXCEPT ![type] = new] /\ reportCache[type].live
      BY <1>12, <2>2, Zenon
      DEF UpsertUpdate, Upserted, PolicyGoes, PolicyWorkerKeeps, caches
    <3>2. reportCache[type] \in ReportType
      BY <1>t DEF type
    <3>3. new.live /\ new.uid = pw.pol.uid /\ new.gen = pw.pol.gen
      BY <3>1, <3>2 DEF ReportType
    <3> HIDE DEF new
    <3>4. QED
      BY <1>u, <1>w, <3>1, <3>3
  <2>3. QED
    BY <2>1, <2>2
<1>13. CASE UpsertNothing
  BY <1>13, <1>u
  DEF UpsertNothing, Upserted, ReportRight, PolicyGoes, OnlyPolicyWorker,
      PolicyWorkerKeeps, caches
<1>11. CASE \/ ToolNotFound \/ AddFinalizer \/ SetOwner \/ RejectInvalid
            \/ LitmusCleanupPanics \/ DisabledDone \/ RemoveFinalizer \/ UpdateStatus
  BY <1>11, <1>d
  DEF ToolNotFound, AddFinalizer, SetOwner, RejectInvalid, LitmusCleanupPanics,
      DisabledDone, RemoveFinalizer, UpdateStatus, UpdatePolicyAndStop
<1>14. QED
  BY <1>1, <1>2, <1>3, <1>4, <1>5, <1>6, <1>7, <1>8, <1>9, <1>10, <1>11, <1>12, <1>13
  DEF PolicyWorkerStep, LitmusStep

LEMMA WorkerSteps ==
  ASSUME TypeOK, [Next]_vars
  PROVE  WorkerGoes
<1>i. IdlePolicyWorker.pc = "idle"
  BY DEF IdlePolicyWorker
<1>1. CASE pw' = pw \/ pw' = IdlePolicyWorker
  BY <1>1, <1>i DEF WorkerGoes
<1>2. CASE Fault \/ Resync
  BY <1>1, <1>2
  DEF Fault, Resync, PolicyCallFails, PolicyRetry, ReportCallFails, Restart,
      ReportWorkerKeeps
<1>3. QED
  BY <1>1, <1>2, WorkerMoves, UserLeaves, ClusterLeaves, ReportWorkerLeaves
  DEF Next, vars, clusterVars
-----------------------------------------------------------------------------
(***************************************************************************)
(* What the caches and the worker know of the Policy remains true.         *)
(***************************************************************************)

\* uids do not fall, and under one uid a Policy does not come back or lose its
\* finalizer.
LEMMA LifeFields ==
  ASSUME TypeOK, Copies, PastFinalizer, [Next]_vars
  PROVE  /\ policy'.uid \in Nat /\ policy.uid <= policy'.uid
         /\ policy'.live => policy'.uid # 0 /\ policy'.gen # 0
         /\ ~policy'.live => ~policy'.fin /\ ~policy'.deleting /\ policy'.obsGen = 0
         /\ policy'.live /\ policy'.uid = policy.uid =>
              policy.live /\ (policy.fin => policy'.fin)
<1>n. policy.uid \in Nat /\ policy.gen \in Nat
  BY TypedFacts DEF PolicyType
<1>1. CASE policy' = policy
  BY <1>1, <1>n DEF PastFinalizer
<1>2. CASE Created
  BY <1>2, <1>n DEF Created
<1>3. CASE Moved
  BY <1>3, <1>n DEF Moved, PastFinalizer
<1>4. CASE Left
  BY <1>4, <1>n DEF Left
<1>5. CASE Touched
  BY <1>5, <1>n DEF Touched, PastFinalizer
<1>6. QED
  BY <1>1, <1>2, <1>3, <1>4, <1>5, LifeSteps

LEMMA EarlierStays ==
  ASSUME TypeOK, TypeOK', Copies, PastFinalizer, [Next]_vars,
         NEW p \in PolicyType, Upto(p, policy), Earlier(p, policy)
  PROVE  Earlier(p, policy')
<1> SUFFICES ASSUME policy'.live, p.uid = policy'.uid
             PROVE  /\ p.live
                    /\ p.fin => policy'.fin
                    /\ p.gen = policy'.gen =>
                         p.spec = policy'.spec /\ p.deleting = policy'.deleting
  BY DEF Earlier
<1>t. policy \in PolicyType /\ policy' \in PolicyType
  BY DEF TypeOK, EngineTypeOK
<1>n. /\ policy.uid \in Nat /\ policy.gen \in Nat /\ p.uid \in Nat /\ p.gen \in Nat
      /\ policy.deleting \in BOOLEAN /\ p.deleting \in BOOLEAN
      /\ policy'.deleting \in BOOLEAN
  BY <1>t DEF PolicyType
<1>1. CASE policy' = policy
  BY <1>1 DEF Earlier
<1>2. CASE Created
  BY <1>2, <1>n DEF Upto, Created
<1>3. CASE Moved
  BY <1>3, <1>n DEF Upto, Earlier, Moved
<1>4. CASE Left
  BY <1>4 DEF Left
<1>5. CASE Touched
  <2>1. policy.live /\ p.uid = policy.uid
    BY <1>5 DEF Touched
  <2>2. p.live
    BY <2>1 DEF Earlier
  <2>3. policy'.fin
    BY <1>5 DEF Touched
  <2>4. ASSUME p.gen = policy'.gen
        PROVE  p.spec = policy'.spec /\ p.deleting = policy'.deleting
    <3>1. p.gen = policy.gen /\ policy'.spec = policy.spec /\ ~policy.deleting /\ ~policy'.deleting
      BY <1>5, <2>4 DEF Touched
    <3>2. p.spec = policy.spec /\ p.deleting = policy.deleting
      BY <2>1, <3>1 DEF Earlier
    <3>3. QED
      BY <1>n, <3>1, <3>2
  <2>5. QED
    BY <2>2, <2>3, <2>4
<1>6. QED
  BY <1>1, <1>2, <1>3, <1>4, <1>5, LifeSteps

LEMMA PastInductive ==
  ASSUME EngineInv, EngineInv', PastFinalizer, [Next]_vars
  PROVE  PastFinalizer'
<1>i. TypeOK /\ TypeOK' /\ Copies /\ Chain
  BY DEF EngineInv
<1>t. policy \in PolicyType /\ policyCache \in PolicyType /\ pw.pol \in PolicyType
  BY <1>i, TypedFacts
<1>n. \A p \in PolicyType : p.uid \in Nat /\ p.gen \in Nat
  BY DEF PolicyType
<1>u. Upto(policyCache, policy) /\ (pw.pc # "idle" => Upto(pw.pol, policy))
  BY <1>i, <1>n, <1>t DEF Chain, Upto
<1>c. policyCache' = policyCache \/ (policyCache' = policy /\ policy' = policy)
  BY <1>i, CacheSteps
<1>1. /\ policy'.live => policy'.uid # 0 /\ policy'.gen # 0
      /\ ~policy'.live => ~policy'.fin /\ ~policy'.deleting /\ policy'.obsGen = 0
  BY <1>i, LifeFields
<1>2. policyCache'.live => policyCache'.uid # 0
  BY <1>c DEF PastFinalizer
<1>3. Earlier(policyCache, policy')
  BY <1>i, <1>t, <1>u, EarlierStays DEF PastFinalizer
<1>4. Earlier(policyCache', policy')
  BY <1>3, <1>c DEF Earlier
<1>5. ASSUME pw'.pc # "idle"
      PROVE  /\ pw'.pol.live /\ pw'.pol.uid # 0 /\ Earlier(pw'.pol, policy')
             /\ Earlier(pw'.pol, policyCache')
  <2>1. CASE pw.pc # "idle" /\ pw'.pol = pw.pol
    <3>1. Earlier(pw.pol, policy')
      BY <1>i, <1>t, <1>u, <2>1, EarlierStays DEF PastFinalizer
    <3>2. QED
      BY <1>c, <2>1, <3>1 DEF PastFinalizer
  <2>2. CASE policyCache.live /\ pw'.pol = policyCache
    <3>1. Earlier(policyCache, policyCache)
      BY DEF Earlier
    <3>2. QED
      BY <1>3, <1>c, <2>2, <3>1 DEF PastFinalizer
  <2>3. QED
    BY <1>5, <1>i, <2>1, <2>2, WorkerSteps DEF WorkerGoes
<1>6. pw'.pc \notin {"idle", "tool"} => pw'.pol.fin
  BY <1>i, WorkerSteps DEF PastFinalizer, WorkerGoes
<1>7. /\ pw'.pc \in {"cleanup", "list", "reports"} => ~Serving(pw'.pol)
      /\ pw'.pc \in {"reconcile", "upsert", "status"} => Serving(pw'.pol)
  BY <1>i, WorkerSteps DEF PastFinalizer, WorkerGoes
<1>8. QED
  BY <1>1, <1>2, <1>4, <1>5, <1>6, <1>7 DEF PastFinalizer
-----------------------------------------------------------------------------
(***************************************************************************)
(* What a step does to the ConfigMap and the ChaosEngines.                 *)
(***************************************************************************)
ConfigMapMoves ==
  \/ cm' = cm
  \/ /\ cm'.rv = cm.rv + 1
     /\ \/ ~cm'.live
        \/ /\ pw.pc = "reconcile" /\ UNCHANGED <<policy, policyCache>>
           /\ cm'.live /\ cm'.owner = pw.pol.uid

LEMMA ConfigMapSteps ==
  ASSUME TypeOK, ObjectCopies, [Next]_vars
  PROVE  ConfigMapMoves
<1>t. /\ cm \in ConfigMapType /\ cmCache \in ConfigMapType /\ cm.rv \in Nat
      /\ cmCache.rv \in Nat
  BY DEF TypeOK, EngineTypeOK, ConfigMapType
<1>1. CASE cm' = cm
  BY <1>1 DEF ConfigMapMoves
<1>2. CASE cm' = Gone(NoConfigMap, cm)
  BY <1>2 DEF ConfigMapMoves, Gone, NoConfigMap
<1>3. CASE FalcoStep
  <2>1. CASE CreateConfigMap
    BY <1>1, <2>1
    DEF CreateConfigMap, FalcoTurn, FreshConfigMap, PolicyWorkerKeeps, caches,
        ConfigMapMoves
  <2>2. CASE UpdateConfigMap /\ CanWrite(cmCache, cm)
    <3>1. /\ cm' = UpdatedConfigMap /\ pw.pc = "reconcile"
          /\ UNCHANGED <<policy, policyCache>>
      BY <2>2, Zenon
      DEF UpdateConfigMap, CachedConfigMap, FalcoTurn, PolicyWorkerKeeps, caches
    <3>2. cmCache = cm /\ cm.live
      BY <2>2 DEF CanWrite, ObjectCopies, Follows
    <3>3. /\ UpdatedConfigMap.rv = cm.rv + 1 /\ UpdatedConfigMap.live
          /\ UpdatedConfigMap.owner = pw.pol.uid
      BY <1>t, <3>2 DEF UpdatedConfigMap, ConfigMapType
    <3>4. QED
      BY <3>1, <3>3 DEF ConfigMapMoves
  <2>3. QED
    BY <1>1, <1>2, <1>3, <2>1, <2>2
    DEF FalcoStep, KeepConfigMap, UpdateConfigMap, NoConfigMapFound,
        DeleteConfigMap, OnlyPolicyWorker, PolicyWorkerKeeps
<1>4. CASE PolicyWorkerStep /\ ~FalcoStep
  BY <1>1, <1>4
  DEF PolicyWorkerStep, PolicyGet, ToolNotFound, AddFinalizer, SetOwner, BeginCleanup,
      RejectInvalid, BeginReconcile, LitmusStep, ListReports, DeleteListedReport,
      DisabledDone, RemoveFinalizer, UpsertCreate, UpsertNothing, UpsertUpdate,
      UpdateStatus, UpdatePolicyAndStop, CreateChaosEngine, KeepChaosEngine,
      UpdateChaosEngine, RewriteChaosEngine, WriteChaosEngine, ReconciledAll,
      LitmusCleanupPanics, CleanedEngines, ListChaosEngines, DeleteChaosEngine,
      OnlyPolicyWorker, PolicyWorkerKeeps, EngineKeeps
<1>5. CASE ClusterStep
  BY <1>1, <1>2, <1>5
  DEF ClusterStep, GCConfigMap, SyncPolicy, SyncConfigMap, SyncReport, LitmusRuns, SyncEngine
<1>6. QED
  BY <1>1, <1>3, <1>4, <1>5, UserLeaves, ReportWorkerLeaves, FaultLeaves
  DEF Next, vars, clusterVars

\* A ChaosEngine is written with the next version, and one that stays and has
\* run has still run.
ChaosMoves(x) ==
  \/ engines'[x] = engines[x]
  \/ /\ engines'[x].rv = engines[x].rv + 1
     /\ engines[x].live /\ engines'[x].live /\ engines[x].ran => engines'[x].ran

LEMMA OneEngine ==
  ASSUME TypeOK, NEW x \in Slots, NEW new,
         engines' = [engines EXCEPT ![x] = new], new.rv = engines[x].rv + 1,
         engines[x].live /\ new.live /\ engines[x].ran => new.ran
  PROVE  \A y \in Slots : ChaosMoves(y)
<1>1. engines \in [Slots -> EngineType]
  BY DEF TypeOK, EngineTypeOK
<1>2. engines'[x] = new /\ \A y \in Slots : y # x => engines'[y] = engines[y]
  BY <1>1
<1>3. QED
  BY <1>2 DEF ChaosMoves

LEMMA ChaosSteps ==
  ASSUME TypeOK, ExperimentsKnown, ObjectCopies, [Next]_vars
  PROVE  \A x \in Slots : ChaosMoves(x)
<1> DEFINE Goal == \A x \in Slots : ChaosMoves(x)
<1> SUFFICES Goal
  OBVIOUS
<1>t. /\ engines \in [Slots -> EngineType] /\ engineCache \in [Slots -> EngineType]
      /\ pw.pol.spec \in SpecType /\ pw.exps \subseteq Listed(pw.pol.spec)
  BY TypedFacts DEF TypeOK, EngineTypeOK, PolicyType, ExperimentsKnown
<1>r. \A g \in EngineType : g.rv \in Nat
  BY DEF EngineType
<1>1. CASE engines' = engines
  BY <1>1 DEF ChaosMoves
<1>s. ASSUME NEW e \in Experiments, AtExperiment(e)
      PROVE  SlotOf(pw.pol.spec, e) \in Slots
  <2>1. e \in Listed(pw.pol.spec)
    BY <1>s, <1>t DEF AtExperiment
  <2>2. QED
    BY <1>t, <2>1, SpacesTyped
<1> HIDE DEF Goal
<1>2. ASSUME NEW e \in Experiments, CreateChaosEngine(e) PROVE Goal
  <2> DEFINE x == SlotOf(pw.pol.spec, e)
             new == [live |-> TRUE, rv |-> engines[x].rv + 1,
                     app |-> pw.pol.spec.litmus[e].app, ran |-> FALSE]
  <2>1. x \in Slots
    BY <1>2, <1>s DEF CreateChaosEngine
  <2>2. \/ engines' = engines
        \/ ~engines[x].live /\ engines' = [engines EXCEPT ![x] = new]
    BY <1>2 DEF CreateChaosEngine
  <2>3. new.rv = engines[x].rv + 1
    OBVIOUS
  <2> HIDE DEF x, new
  <2>4. QED
    BY <1>1, <2>1, <2>2, <2>3, OneEngine DEF Goal
<1>3. ASSUME NEW e \in Experiments, UpdateChaosEngine(e) \/ RewriteChaosEngine(e)
      PROVE  Goal
  <2> DEFINE x == SlotOf(pw.pol.spec, e)
             new == [engineCache[x] EXCEPT !.app = pw.pol.spec.litmus[e].app, !.rv = @ + 1]
  <2>1. x \in Slots
    BY <1>3, <1>s DEF UpdateChaosEngine, RewriteChaosEngine
  <2>2. \/ engines' = engines
        \/ /\ CanWrite(engineCache[x], engines[x])
           /\ engines' = [engines EXCEPT ![x] = new]
    BY <1>3, Zenon DEF UpdateChaosEngine, RewriteChaosEngine, WriteChaosEngine
  <2>3. CASE /\ CanWrite(engineCache[x], engines[x])
             /\ engines' = [engines EXCEPT ![x] = new]
    <3> HIDE DEF x
    <3>1. engineCache[x] = engines[x] /\ engineCache[x] \in EngineType
      BY <1>t, <2>1, <2>3 DEF CanWrite, ObjectCopies, Follows
    <3>2. new.rv = engines[x].rv + 1 /\ new.ran = engines[x].ran
      BY <1>r, <3>1 DEF EngineType
    <3>3. engines' = [engines EXCEPT ![x] = new]
      BY <2>3
    <3> HIDE DEF new
    <3>4. QED
      BY <2>1, <3>2, <3>3, OneEngine DEF Goal
  <2>4. QED
    BY <1>1, <2>2, <2>3
<1>4. ASSUME NEW x \in Slots, DeleteChaosEngine(x) PROVE Goal
  <2> DEFINE new == Gone(NoEngine, engines[x])
  <2>1. engines' = engines \/ engines' = [engines EXCEPT ![x] = new]
    BY <1>4 DEF DeleteChaosEngine
  <2>2. new.rv = engines[x].rv + 1 /\ ~new.live
    BY DEF Gone, NoEngine
  <2> HIDE DEF new
  <2>3. QED
    BY <1>1, <2>1, <2>2, OneEngine DEF Goal
<1>5. ASSUME NEW x \in Slots, LitmusRuns(x) PROVE Goal
  <2> DEFINE new == [engines[x] EXCEPT !.ran = TRUE, !.rv = @ + 1]
  <2>1. engines[x] \in EngineType
    BY <1>t
  <2>2. engines' = [engines EXCEPT ![x].ran = TRUE, ![x].rv = @ + 1]
    BY <1>5, Zenon DEF LitmusRuns
  <2>3. engines' = [engines EXCEPT ![x] = new]
    BY <1>t, <2>2
  <2>4. new.rv = engines[x].rv + 1 /\ new.ran
    BY <2>1 DEF EngineType
  <2> HIDE DEF new
  <2>5. QED
    BY <2>3, <2>4, OneEngine DEF Goal
<1>6. CASE PolicyWorkerStep
  BY <1>1, <1>2, <1>3, <1>4, <1>6
  DEF PolicyWorkerStep, PolicyGet, ToolNotFound, AddFinalizer, SetOwner, BeginCleanup,
      RejectInvalid, BeginReconcile, FalcoStep, LitmusStep, ListReports,
      DeleteListedReport, DisabledDone, RemoveFinalizer, UpsertCreate, UpsertNothing,
      UpsertUpdate, UpdateStatus, UpdatePolicyAndStop, CreateConfigMap,
      KeepConfigMap, UpdateConfigMap, NoConfigMapFound, DeleteConfigMap,
      KeepChaosEngine, ReconciledAll, LitmusCleanupPanics, CleanedEngines,
      ListChaosEngines, OnlyPolicyWorker, PolicyWorkerKeeps
<1>7. CASE ClusterStep
  BY <1>1, <1>5, <1>7
  DEF ClusterStep, GCConfigMap, SyncPolicy, SyncConfigMap, SyncReport, SyncEngine
<1>8. QED
  BY <1>1, <1>6, <1>7, UserLeaves, ReportWorkerLeaves, FaultLeaves
  DEF Next, vars, clusterVars

\* The caches hold what they held or what is there now.
LEMMA ObjectCacheSteps ==
  ASSUME TypeOK, [Next]_vars
  PROVE  /\ cmCache' = cmCache \/ (cmCache' = cm /\ cm' = cm)
         /\ \A x \in Slots : \/ engineCache'[x] = engineCache[x]
                             \/ engineCache'[x] = engines[x] /\ engines' = engines
<1>1. CASE UNCHANGED <<cmCache, engineCache>>
  BY <1>1
<1>2. CASE ClusterStep
  <2>1. ASSUME NEW x \in Slots, SyncEngine(x)
        PROVE  /\ cmCache' = cmCache /\ engines' = engines
               /\ \A y \in Slots : \/ engineCache'[y] = engineCache[y]
                                   \/ engineCache'[y] = engines[y]
    BY <2>1 DEF SyncEngine, TypeOK, EngineTypeOK
  <2>2. CASE SyncConfigMap
    BY <2>2 DEF SyncConfigMap
  <2>3. QED
    BY <1>1, <1>2, <2>1, <2>2
    DEF ClusterStep, GCConfigMap, SyncPolicy, SyncReport, LitmusRuns, caches
<1>3. CASE Fault
  BY <1>1, <1>3
  DEF Fault, PolicyCallFails, ReportCallFails, Restart, OnlyPolicyWorker,
      PolicyWorkerKeeps, ReportWorkerKeeps, caches
<1>4. CASE Resync
  BY <1>1, <1>4 DEF Resync, OnlyPolicyWorker, PolicyWorkerKeeps, caches
<1>5. QED
  BY <1>1, <1>2, <1>3, <1>4, UserLeaves, PolicyWorkerLeaves, ReportWorkerLeaves
  DEF Next, vars, clusterVars, caches

\* A copy still follows its object when that gets the next version.
LEMMA FollowsNext ==
  ASSUME NEW copy, NEW obj, NEW next, copy.rv \in Nat, obj.rv \in Nat,
         Follows(copy, obj), next = obj \/ next.rv = obj.rv + 1
  PROVE  Follows(copy, next)
BY DEF Follows

LEMMA ObjectCopiesInductive ==
  ASSUME EngineInv, ObjectCopies, [Next]_vars
  PROVE  ObjectCopies'
<1>i. TypeOK /\ ExperimentsKnown
  BY DEF EngineInv
<1>t. /\ cm \in ConfigMapType /\ cmCache \in ConfigMapType
      /\ engines \in [Slots -> EngineType] /\ engineCache \in [Slots -> EngineType]
  BY <1>i DEF TypeOK, EngineTypeOK
<1>r. /\ cm.rv \in Nat /\ cmCache.rv \in Nat
      /\ \A g \in EngineType : g.rv \in Nat
  BY <1>t DEF ConfigMapType, EngineType
<1>1. Follows(cmCache', cm')
  <2>1. CASE cmCache' = cmCache
    <3>1. cm' = cm \/ cm'.rv = cm.rv + 1
      BY <1>i, ConfigMapSteps DEF ConfigMapMoves
    <3>2. Follows(cmCache, cm')
      BY <1>r, <3>1, FollowsNext DEF ObjectCopies
    <3>3. QED
      BY <2>1, <3>2
  <2>2. CASE cmCache' = cm /\ cm' = cm
    BY <1>r, <2>2 DEF Follows
  <2>3. QED
    BY <1>i, <2>1, <2>2, ObjectCacheSteps
<1>2. ASSUME NEW x \in Slots PROVE Follows(engineCache'[x], engines'[x])
  <2>0. engines[x].rv \in Nat /\ engineCache[x].rv \in Nat
    BY <1>r, <1>t
  <2>1. CASE engineCache'[x] = engineCache[x]
    <3>1. engines'[x] = engines[x] \/ engines'[x].rv = engines[x].rv + 1
      BY <1>i, ChaosSteps DEF ChaosMoves
    <3>2. Follows(engineCache[x], engines'[x])
      BY <2>0, <3>1, FollowsNext DEF ObjectCopies
    <3>3. QED
      BY <2>1, <3>2
  <2>2. CASE engineCache'[x] = engines[x] /\ engines' = engines
    BY <2>0, <2>2 DEF Follows
  <2>3. QED
    BY <1>i, <2>1, <2>2, ObjectCacheSteps
<1>3. QED
  BY <1>1, <1>2 DEF ObjectCopies
-----------------------------------------------------------------------------
(***************************************************************************)
(* What becomes of a report, and by whom.                                  *)
(***************************************************************************)
ReportCause(t) ==
  \/ reports'[t] = reports[t]
  \/ /\ UNCHANGED <<policy, policyCache, reportCache>>
     /\ \/ /\ pw.pc = "upsert" /\ t = pw.pol.spec.type
           /\ reports'[t].live
           /\ reports'[t].uid = pw.pol.uid /\ reports'[t].gen = pw.pol.gen
           /\ reportCache[t].live => reportCache[t].gen # pw.pol.gen
        \/ pw.pc = "reports" /\ ~reports'[t].live
        \/ ~policyCache.live /\ ~reports'[t].live
        \/ /\ reports[t].live /\ reports'[t].live
           /\ reports'[t].uid = reports[t].uid /\ reports'[t].gen = reports[t].gen

LEMMA UpsertCause ==
  ASSUME TypeOK, UpsertCreate \/ UpsertUpdate, NEW t \in Types
  PROVE  ReportCause(t)
<1>t. /\ type \in Types /\ reports \in [Types -> ReportType]
      /\ reportCache[type] \in ReportType
  BY TypedFacts DEF type
<1>1. CASE UNCHANGED reports
  BY <1>1 DEF ReportCause
<1>2. UNCHANGED <<policy, policyCache, reportCache>> /\ pw.pc = "upsert"
  BY DEF UpsertCreate, UpsertUpdate, PolicyWorkerKeeps, caches
<1>w. ASSUME NEW new, reports' = [reports EXCEPT ![type] = new], new.live,
             new.uid = pw.pol.uid, new.gen = pw.pol.gen,
             reportCache[type].live => reportCache[type].gen # pw.pol.gen
      PROVE  ReportCause(t)
  <2>1. reports'[type] = new /\ (t # type => reports'[t] = reports[t])
    BY <1>t, <1>w
  <2>2. QED
    BY <1>2, <1>w, <2>1 DEF ReportCause, type
<1>3. CASE UpsertCreate /\ ~reports[type].live
  <2> DEFINE new == [NoReport EXCEPT !.live = TRUE, !.rv = reports[type].rv + 1,
                                     !.uid = pw.pol.uid, !.gen = pw.pol.gen]
  <2>1. reports' = [reports EXCEPT ![type] = new] /\ ~reportCache[type].live
    BY <1>3, Zenon DEF UpsertCreate
  <2>2. new.live /\ new.uid = pw.pol.uid /\ new.gen = pw.pol.gen
    BY DEF NoReport
  <2> HIDE DEF new
  <2>3. QED
    BY <1>w, <2>1, <2>2
<1>4. CASE UpsertUpdate /\ CanWrite(reportCache[type], reports[type])
  <2> DEFINE new == [reportCache[type] EXCEPT !.uid = pw.pol.uid, !.gen = pw.pol.gen,
                                              !.rv = @ + 1]
  <2>1. /\ reports' = [reports EXCEPT ![type] = new] /\ reportCache[type].live
        /\ reportCache[type].gen # pw.pol.gen
    BY <1>4, Zenon DEF UpsertUpdate, ReportRight
  <2>2. new.live /\ new.uid = pw.pol.uid /\ new.gen = pw.pol.gen
    BY <1>t, <2>1 DEF ReportType
  <2> HIDE DEF new
  <2>3. QED
    BY <1>w, <2>1, <2>2
<1>5. QED
  BY <1>1, <1>3, <1>4 DEF UpsertCreate, UpsertUpdate

LEMMA GoneCause ==
  ASSUME TypeOK, NEW u \in Types, NEW t \in Types,
         reports' = [reports EXCEPT ![u] = Gone(NoReport, reports[u])]
  PROVE  reports'[t] = reports[t] \/ ~reports'[t].live
<1>1. reports \in [Types -> ReportType] /\ ~Gone(NoReport, reports[u]).live
  BY TypedFacts DEF Gone, NoReport
<1>2. QED
  BY <1>1

LEMMA ResultCause ==
  ASSUME TypeOK, Copies, ReportWorkerStep, NEW t \in Types, rw.pc # "idle",
         NEW verdict, WriteResult(policyCache, verdict)
  PROVE  ReportCause(t)
<1> DEFINE u == rw.type
           new == [rw.rep EXCEPT !.done = TRUE, !.verdict = verdict, !.rv = @ + 1,
                                 !.forUid = policyCache.uid, !.forGen = policyCache.gen]
<1>t. /\ u \in Types /\ reports \in [Types -> ReportType] /\ rw.rep \in ReportType
  BY TypedFacts
<1>k. UNCHANGED <<policy, policyCache, reportCache>>
  BY ReportWorkerLeaves DEF caches
<1>1. CASE UNCHANGED reports
  BY <1>1 DEF ReportCause
<1>2. CASE CanWrite(rw.rep, reports[u]) /\ reports' = [reports EXCEPT ![u] = new]
  <2>1. rw.rep = reports[u] /\ reports[u].live
    BY <1>t, <1>2 DEF CanWrite, Copies, Follows
  <2>2. new.live /\ new.uid = reports[u].uid /\ new.gen = reports[u].gen
    BY <1>t, <2>1 DEF ReportType
  <2> HIDE DEF new
  <2>3. reports'[u] = new /\ (t # u => reports'[t] = reports[t])
    BY <1>t, <1>2
  <2> HIDE DEF u
  <2>4. QED
    BY <1>k, <2>1, <2>2, <2>3 DEF ReportCause
<1>3. QED
  BY <1>1, <1>2, Zenon DEF WriteResult

LEMMA ReportCauses ==
  ASSUME TypeOK, Copies, [Next]_vars, NEW t \in Types
  PROVE  ReportCause(t)
<1>1. CASE UNCHANGED reports
  BY <1>1 DEF ReportCause
<1>2. ASSUME NEW u \in Types, DeleteListedReport(u) PROVE ReportCause(t)
  BY <1>1, <1>2, GoneCause
  DEF DeleteListedReport, PolicyWorkerKeeps, caches, ReportCause
<1>3. CASE DeleteOrphan
  BY <1>1, <1>3, GoneCause, TypedFacts
  DEF DeleteOrphan, ReportWorkerKeeps, caches, ReportCause
<1>4. CASE PolicyWorkerStep
  BY <1>1, <1>2, <1>4, UpsertCause
  DEF PolicyWorkerStep, PolicyGet, ToolNotFound, AddFinalizer, SetOwner, BeginCleanup,
      RejectInvalid, BeginReconcile, FalcoStep, LitmusStep, ListReports,
      DisabledDone, RemoveFinalizer, UpsertNothing, UpdateStatus,
      UpdatePolicyAndStop, CreateConfigMap,
      KeepConfigMap, UpdateConfigMap, NoConfigMapFound, DeleteConfigMap, CreateChaosEngine,
      KeepChaosEngine, UpdateChaosEngine, RewriteChaosEngine, WriteChaosEngine,
      ReconciledAll, LitmusCleanupPanics, CleanedEngines, ListChaosEngines,
      DeleteChaosEngine, OnlyPolicyWorker, PolicyWorkerKeeps, EngineKeeps
<1>5. CASE ReportWorkerStep
  <2>1. CASE FalcoHandle \/ LitmusHandle
    <3>1. rw.pc # "idle" /\ \E verdict : WriteResult(policyCache, verdict)
      BY <2>1 DEF FalcoHandle, LitmusHandle
    <3>2. QED
      BY <1>5, <3>1, ResultCause
  <2>2. QED
    BY <1>1, <1>3, <1>5, <2>1
    DEF ReportWorkerStep, ReportGet, PolicyFound, FalcoHandleFails, LitmusHandleFails
<1>6. QED
  BY <1>1, <1>4, <1>5, UserLeaves, ClusterLeaves, FaultLeaves DEF Next, vars, clusterVars
-----------------------------------------------------------------------------
(***************************************************************************)
(* What there is has an owner, and its owner a finalizer.                  *)
(***************************************************************************)
Guarded(uid) == Belongs(uid) => policy.fin

\* Whoever the worker makes something for has a finalizer.
LEMMA MadeGuarded ==
  ASSUME PastFinalizer, pw.pc \in {"reconcile", "upsert"}
  PROVE  pw.pol.uid # 0 /\ Guarded(pw.pol.uid)
BY DEF PastFinalizer, Earlier, Guarded, Belongs

LEMMA GuardedStays ==
  ASSUME TypeOK, Copies, PastFinalizer, [Next]_vars,
         NEW uid \in Nat, uid <= policy.uid, policy.live /\ policy.uid = uid => policy.fin
  PROVE  /\ uid <= policy'.uid
         /\ policy'.live /\ policy'.uid = uid => policy'.fin
<1>1. policy.uid \in Nat
  BY TypedFacts DEF PolicyType
<1>2. QED
  BY <1>1, LifeFields

LEMMA GuardedInductive ==
  ASSUME EngineInv, ObjectCopies, PastFinalizer, OwnerKnown, NothingUnguarded, [Next]_vars
  PROVE  OwnerKnown' /\ NothingUnguarded'
<1>i. TypeOK /\ Copies /\ Chain
  BY DEF EngineInv
<1>t. /\ policy \in PolicyType /\ policyCache \in PolicyType /\ pw.pol \in PolicyType
      /\ \A t \in Types : reports[t] \in ReportType
      /\ cm.owner \in Nat
  BY <1>i, TypedFacts DEF TypeOK, EngineTypeOK, ConfigMapType
<1>n. /\ policy.uid \in Nat /\ policyCache.uid \in Nat /\ pw.pol.uid \in Nat
      /\ \A t \in Types : reports[t].uid \in Nat
  BY <1>t DEF PolicyType, ReportType
<1>u. pw.pc # "idle" => pw.pol.uid <= policy.uid
  BY <1>i, <1>n DEF Chain, Upto
<1>1. ASSUME cm'.live
      PROVE  cm'.owner <= policy'.uid /\ cm'.owner # 0 /\ Guarded(cm.owner)'
  <2>1. CASE cm' = cm
    BY <1>1, <1>i, <1>n, <1>t, <2>1, GuardedStays
    DEF OwnerKnown, NothingUnguarded, Guarded, Belongs
  <2>2. CASE pw.pc = "reconcile" /\ policy' = policy /\ cm'.owner = pw.pol.uid
    BY <1>u, <2>2, MadeGuarded DEF Guarded, Belongs
  <2>3. QED
    BY <1>1, <1>i, <2>1, <2>2, ConfigMapSteps DEF ConfigMapMoves
<1>2. ASSUME NEW t \in Types, reports'[t].live
      PROVE  Guarded(reports[t].uid)'
  <2>1. CASE reports[t].live /\ reports'[t].uid = reports[t].uid
    <3>1. reports[t].uid <= policy.uid
      BY <1>i, <1>n DEF Chain, Upto
    <3>2. QED
      BY <1>i, <1>n, <2>1, <3>1, GuardedStays DEF NothingUnguarded, Guarded, Belongs
  <2>2. CASE pw.pc = "upsert" /\ policy' = policy /\ reports'[t].uid = pw.pol.uid
    BY <2>2, MadeGuarded DEF Guarded, Belongs
  <2>3. QED
    BY <1>2, <1>i, <2>1, <2>2, ReportCauses DEF ReportCause
<1>3. QED
  BY <1>1, <1>2 DEF OwnerKnown, NothingUnguarded, Guarded
-----------------------------------------------------------------------------
LEMMA InitPolicy ==
  ASSUME Init
  PROVE  /\ ~policy.live /\ ~policy.fin /\ ~policy.deleting /\ policy.obsGen = 0
         /\ cm.live => cm.owner = 1 /\ policy.uid = 1
<1> DEFINE left == [NoPolicy EXCEPT !.uid = 1, !.gen = 2, !.rv = 5]
<1>1. \/ policy = NoPolicy /\ cm = NoConfigMap
      \/ policy = left /\ cm.owner = 1
  <2>1. CASE CleanStart
    BY <2>1 DEF CleanStart
  <2>2. CASE AfterDeletion
    <3>1. PICK spec \in Specs :
            cm = [live |-> TRUE, rv |-> 1, owner |-> 1, data |-> spec.falco]
      BY <2>2, Zenon DEF AfterDeletion
    <3>2. policy = left
      BY <2>2, Zenon DEF AfterDeletion
    <3> HIDE DEF left
    <3>3. QED
      BY <3>1, <3>2
  <2>3. QED
    BY <2>1, <2>2 DEF Init, EngineInit
<1>2. ~left.live /\ ~left.fin /\ ~left.deleting /\ left.obsGen = 0 /\ left.uid = 1
  BY DEF NoPolicy
<1>3. /\ ~NoPolicy.live /\ ~NoPolicy.fin /\ ~NoPolicy.deleting /\ NoPolicy.obsGen = 0
      /\ ~NoConfigMap.live
  BY DEF NoPolicy, NoConfigMap
<1> HIDE DEF left
<1>4. QED
  BY <1>1, <1>2, <1>3

LEMMA InitGuard == Init => GuardInv
<1> SUFFICES ASSUME Init PROVE GuardInv
  OBVIOUS
<1>1. EngineInv
  BY InitInv
<1>2. ObjectCopies
  <2>1. /\ cmCache.rv = 0 /\ cmCache = NoConfigMap
        /\ cm = NoConfigMap \/ cm.rv = 1
    BY DEF Init, EngineInit, CleanStart, AfterDeletion, NoConfigMap
  <2>2. Follows(cmCache, cm)
    BY <2>1 DEF Follows
  <2>3. \A x \in Slots : engines[x] = NoEngine /\ engineCache[x] = NoEngine
    BY DEF Init, EngineInit
  <2>4. NoEngine.rv <= NoEngine.rv
    BY DEF NoEngine
  <2>5. QED
    BY <2>2, <2>3, <2>4 DEF ObjectCopies, Follows
<1>3. /\ ~policy.live /\ ~policy.fin /\ ~policy.deleting /\ policy.obsGen = 0
      /\ policyCache = policy
      /\ \A t \in Types : ~reports[t].live
      /\ pw.pc = "idle"
  BY InitPolicy DEF Init, EngineInit, NoReport, IdlePolicyWorker
<1>4. PastFinalizer
  BY <1>3 DEF PastFinalizer, Earlier
<1>5. cm.live => cm.owner = 1 /\ policy.uid = 1
  BY InitPolicy
<1>6. QED
  BY <1>1, <1>2, <1>3, <1>4, <1>5 DEF GuardInv, OwnerKnown, NothingUnguarded, Belongs

LEMMA NextGuard ==
  ASSUME GuardInv, [Next]_vars
  PROVE  GuardInv'
<1>1. EngineInv'
  BY NextInv DEF GuardInv
<1>2. PastFinalizer'
  BY <1>1, PastInductive DEF GuardInv
<1>3. QED
  BY <1>1, <1>2, ObjectCopiesInductive, GuardedInductive DEF GuardInv

\* The invariant behind the theorems below.
THEOREM EngineGuardInvariant == Spec => []GuardInv
<1>1. GuardInv /\ [Next]_vars => GuardInv'
  BY NextGuard
<1>2. QED
  BY <1>1, InitGuard, PTL DEF Spec

\* The ConfigMap always has an owner that was there, and a report of a Policy is
\* there only under its finalizer (PolicyReconciler.Reconcile adds it and ends
\* before any engine is called; falco.Engine sets the controller reference).
THEOREM EngineNothingUnguardedHolds == Spec => []NothingUnguarded
<1>1. GuardInv => NothingUnguarded
  BY DEF GuardInv
<1>2. QED
  BY <1>1, EngineGuardInvariant, PTL

\* What Litmus has written to a ChaosEngine is not undone (litmus.Engine.Reconcile
\* writes the object it has read, and only over the version it has read).
THEOREM LitmusStatusKeptHolds == Spec => LitmusStatusKept
<1>1. GuardInv /\ [Next]_vars
      => [\A x \in Slots :
            engines[x].live /\ engines[x].ran /\ engines'[x].live => engines'[x].ran]_vars
  BY ChaosSteps DEF GuardInv, EngineInv, ChaosMoves
<1>2. QED
  BY <1>1, EngineGuardInvariant, PTL DEF Spec, LitmusStatusKept

\* A step of the engines' system is a step in the life of its Policy, or none.
LEMMA LifeStep ==
  ASSUME GuardInv, [Next]_vars
  PROVE  [PolicyLife!Next]_(PolicyLife!vars)
<1>i. TypeOK /\ TypeOK' /\ Copies /\ PastFinalizer
  BY NextGuard DEF GuardInv, EngineInv
<1>t. policy \in PolicyType /\ policy' \in PolicyType
  BY <1>i DEF TypeOK, EngineTypeOK
<1>n. policy.uid \in Nat /\ policy.gen \in Nat
  BY <1>t DEF PolicyType
<1>b. /\ policy.live \in BOOLEAN /\ policy.fin \in BOOLEAN /\ policy.deleting \in BOOLEAN
      /\ policy'.live \in BOOLEAN /\ policy'.fin \in BOOLEAN /\ policy'.deleting \in BOOLEAN
  BY <1>t DEF PolicyType
<1>1. CASE policy' = policy
  BY <1>1 DEF PolicyLife!vars
<1>2. CASE Created
  <2>1. ~policy.fin /\ ~policy.deleting /\ policy.obsGen = 0
    BY <1>2, <1>i DEF PastFinalizer, Created
  <2>2. policy'.fin = policy.fin /\ policy'.deleting = policy.deleting
    BY <1>2, <1>b, <2>1 DEF Created
  <2>3. PolicyLife!Create
    BY <1>2, <2>1, <2>2 DEF PolicyLife!Create, Created
  <2>4. QED
    BY <2>3 DEF PolicyLife!Next
<1>3. CASE Moved
  <2>1. policy'.live = policy.live
    BY <1>3, <1>b DEF Moved
  <2>2. PolicyLife!Edit \/ PolicyLife!Mark
    BY <1>3, <1>n, <2>1 DEF Moved, PolicyLife!Edit, PolicyLife!Mark, PolicyLife!Grown
  <2>3. QED
    BY <2>2 DEF PolicyLife!Next
<1>4. CASE Left
  BY <1>4 DEF Left, PolicyLife!Next, PolicyLife!Leave
<1>5. CASE Touched
  <2>1. /\ policy'.live = policy.live /\ policy'.deleting = policy.deleting
        /\ policy.fin => policy'.fin = policy.fin
        /\ policy'.uid = policy.uid /\ policy'.gen = policy.gen
    BY <1>5, <1>b DEF Touched
  <2>2. PolicyLife!Protect \/ PolicyLife!Observe
    BY <1>5, <2>1 DEF Touched, PolicyLife!Protect, PolicyLife!Observe
  <2>3. QED
    BY <2>2 DEF PolicyLife!Next
<1>6. QED
  BY <1>i, <1>1, <1>2, <1>3, <1>4, <1>5, LifeSteps

\* Policies of types falco and litmus, and those that change from one to the
\* other, live the same life as those of type trivy.
THEOREM EnginePolicyKeepsLifecycleHolds == Spec => PolicyKeepsLifecycle
<1>1. Init => PolicyLife!Init
  BY InitPolicy DEF PolicyLife!Init
<1>2. GuardInv /\ [Next]_vars => [PolicyLife!Next]_(PolicyLife!vars)
  BY LifeStep
<1>3. QED
  BY <1>1, <1>2, EngineGuardInvariant, PTL DEF Spec, PolicyKeepsLifecycle, PolicyLife!Spec
-----------------------------------------------------------------------------
(***************************************************************************)
(* What is called observed has been seen, and is still to be served.       *)
(***************************************************************************)
LEMMA ObservedIsSeenInductive ==
  ASSUME GuardInv, GuardInv', ObservedIsSeen, [Next]_vars
  PROVE  ObservedIsSeen'
<1>i. TypeOK /\ TypeOK' /\ Copies /\ Chain /\ PastFinalizer
  BY DEF GuardInv, EngineInv
<1>t. /\ policy \in PolicyType /\ policyCache \in PolicyType /\ pw.pol \in PolicyType
      /\ policy' \in PolicyType
  BY <1>i, TypedFacts DEF TypeOK, EngineTypeOK
<1>n. \A p \in PolicyType : p.uid \in Nat /\ p.gen \in Nat /\ p.obsGen \in Nat
  BY DEF PolicyType
<1>c. policyCache' = policyCache \/ (policyCache' = policy /\ policy' = policy)
  BY <1>i, CacheSteps
<1>w. \/ pw'.pc = "idle"
      \/ pw.pc # "idle" /\ pw'.pol = pw.pol
      \/ pw'.pol = policyCache
  BY <1>i, WorkerSteps DEF WorkerGoes
<1> SUFFICES ASSUME policy'.live
             PROVE  /\ policy'.obsGen <= policy'.gen
                    /\ policy'.obsGen = policy'.gen => Serving(policy')
                    /\ policy'.obsGen # 0 =>
                         /\ policy'.uid = policyCache'.uid /\ policy'.obsGen <= policyCache'.gen
                         /\ pw'.pc # "idle" =>
                              policy'.uid = pw'.pol.uid /\ policy'.obsGen <= pw'.pol.gen
  BY DEF ObservedIsSeen
<1>s. ASSUME policy.live, policy'.uid = policy.uid, policy'.obsGen = policy.obsGen,
             policy'.obsGen # 0
      PROVE  /\ policy'.uid = policyCache'.uid /\ policy'.obsGen <= policyCache'.gen
             /\ pw'.pc # "idle" => policy'.uid = pw'.pol.uid /\ policy'.obsGen <= pw'.pol.gen
  BY <1>c, <1>n, <1>s, <1>t, <1>w DEF ObservedIsSeen
<1>1. CASE policy' = policy
  BY <1>1, <1>s DEF ObservedIsSeen
<1>2. CASE Created
  BY <1>2 DEF Created
<1>3. CASE Moved
  BY <1>3, <1>n, <1>s, <1>t DEF Moved, ObservedIsSeen
<1>4. CASE Left
  BY <1>4 DEF Left
<1>5. CASE Touched /\ policy'.obsGen = policy.obsGen
  BY <1>5, <1>s DEF Touched, ObservedIsSeen, Serving
<1>6. CASE Touched /\ pw.pc = "status" /\ pw.pol = policy /\ policy'.obsGen = policy.gen
           /\ pw' = IdlePolicyWorker
  <2>1. Serving(policy')
    BY <1>6, <1>i DEF Touched, PastFinalizer, Serving
  <2>2. policy.uid = policyCache.uid /\ policy.gen <= policyCache.gen
    BY <1>6, <1>i, <1>n, <1>t DEF Chain, Upto
  <2>3. pw'.pc = "idle"
    BY <1>6 DEF IdlePolicyWorker
  <2>4. QED
    BY <1>6, <1>c, <1>n, <1>t, <2>1, <2>2, <2>3 DEF Touched
<1>7. QED
  BY <1>i, <1>1, <1>2, <1>3, <1>4, <1>5, <1>6, LifeSteps DEF Touched
-----------------------------------------------------------------------------
(***************************************************************************)
(* The reports of the first Policy of its name. What a cached one says of  *)
(* the generation of an enabled Policy holds: only Cleanup would have      *)
(* deleted it, for a Policy that is not enabled, or the report controller, *)
(* for want of one.                                                        *)
(***************************************************************************)

\* A report of the first Policy for the generation of p, which is the worker's
\* or a later one, stays, or goes for a Policy not to be served.
LEMMA ReportStays ==
  ASSUME GuardInv, CachedReports, [Next]_vars, Belongs(1),
         NEW p \in PolicyType, NEW t \in Types, p.spec.type = t, p.uid = 1, p.live,
         Serving(p),
         pw.pc # "idle" => Upto(pw.pol, p) /\ Earlier(pw.pol, p),
         reports[t].live, reports[t].uid = 1, reports[t].gen = p.gen
  PROVE  reports'[t].live /\ reports'[t].uid = 1 /\ reports'[t].gen = p.gen
<1>i. TypeOK /\ Copies /\ Chain /\ PastFinalizer
  BY DEF GuardInv, EngineInv
<1>t. /\ policy \in PolicyType /\ policyCache \in PolicyType /\ pw.pol \in PolicyType
      /\ reports[t] \in ReportType
  BY <1>i, TypedFacts
<1>n. /\ \A q \in PolicyType : q.uid \in Nat /\ q.gen \in Nat
      /\ \A r \in ReportType : r.uid \in Nat /\ r.gen \in Nat
  BY DEF PolicyType, ReportType
<1>1. policyCache.live
  <2>1. policyCache.uid = 1
    BY <1>i, <1>n, <1>t DEF Chain, Upto, Belongs
  <2>2. QED
    BY <1>i, <2>1 DEF PastFinalizer, Earlier, Belongs
<1>2. ASSUME pw.pc # "idle"
      PROVE  pw.pol.uid = 1 /\ pw.pol.gen = p.gen /\ Serving(pw.pol)
  <2>1. pw.pol.uid = 1 /\ pw.pol.gen = p.gen
    BY <1>2, <1>i, <1>n, <1>t DEF Chain, Upto, Belongs
  <2>2. QED
    BY <1>2, <2>1 DEF Earlier, Serving
<1>3. pw.pc # "reports"
  BY <1>2, <1>i DEF PastFinalizer
<1>4. QED
  BY <1>1, <1>2, <1>3, <1>i, ReportCauses DEF ReportCause

\* What CachedIsThere(p) says after the step.
StillThere(p) ==
  LET t == p.spec.type
  IN  p.uid = 1 /\ Serving(p) /\ reportCache'[t].live /\ reportCache'[t].gen = p.gen
      => reports'[t].live /\ reports'[t].uid = p.uid /\ reports'[t].gen = p.gen

LEMMA ThereStays ==
  ASSUME GuardInv, CachedReports, [Next]_vars, Belongs(1),
         NEW p \in PolicyType, p.live,
         pw.pc # "idle" => Upto(pw.pol, p) /\ Earlier(pw.pol, p),
         CachedIsThere(p)
  PROVE  StillThere(p)
<1> DEFINE t == p.spec.type
<1> SUFFICES ASSUME p.uid = 1, Serving(p), reportCache'[t].live, reportCache'[t].gen = p.gen
             PROVE  reports'[t].live /\ reports'[t].uid = 1 /\ reports'[t].gen = p.gen
  BY DEF StillThere
<1>i. TypeOK /\ Copies /\ Chain
  BY DEF GuardInv, EngineInv
<1>p. t \in Types
  BY DEF PolicyType, SpecType
<1>t. policy \in PolicyType /\ policyCache \in PolicyType /\ reports[t] \in ReportType
  BY <1>i, <1>p, TypedFacts
<1>n. /\ \A q \in PolicyType : q.uid \in Nat /\ q.gen \in Nat
      /\ \A r \in ReportType : r.uid \in Nat /\ r.gen \in Nat
  BY DEF PolicyType, ReportType
<1>1. CASE reportCache'[t] = reports[t] /\ reports' = reports
  <2>1. reports[t].uid # 0
    BY <1>1, <1>p DEF CachedReports
  <2>2. reports[t].uid <= policyCache.uid /\ policyCache.uid <= 1
    BY <1>i, <1>n, <1>p, <1>t DEF Chain, Upto, Belongs
  <2>3. reports[t].uid = 1
    BY <1>n, <1>t, <2>1, <2>2
  <2>4. QED
    BY <1>1, <2>3
<1>2. CASE reportCache'[t] = reportCache[t]
  <2>1. reports[t].live /\ reports[t].uid = 1 /\ reports[t].gen = p.gen
    BY <1>2 DEF CachedIsThere, ReportThere
  <2>2. QED
    BY <1>p, <2>1, ReportStays
<1>3. QED
  BY <1>i, <1>p, <1>1, <1>2, CacheSteps

\* The same of the Policy, the cached one and the worker's.
LEMMA AllStay ==
  ASSUME GuardInv, CachedReports, [Next]_vars, Belongs(1)
  PROVE  /\ StillThere(policy) /\ StillThere(policyCache)
         /\ pw.pc # "idle" => StillThere(pw.pol)
<1>i. TypeOK /\ Copies /\ Chain /\ PastFinalizer
  BY DEF GuardInv, EngineInv
<1>t. policy \in PolicyType /\ policyCache \in PolicyType /\ pw.pol \in PolicyType
  BY <1>i, TypedFacts
<1>n. \A q \in PolicyType : q.uid \in Nat /\ q.gen \in Nat
  BY DEF PolicyType
<1>1. StillThere(policy)
  <2>1. pw.pc # "idle" => Upto(pw.pol, policy) /\ Earlier(pw.pol, policy)
    BY <1>i, <1>n, <1>t DEF Chain, Upto, PastFinalizer
  <2>2. CachedIsThere(policy) /\ policy.live
    BY DEF CachedReports, Belongs
  <2>3. QED
    BY <1>t, <2>1, <2>2, ThereStays
<1>2. StillThere(policyCache)
  <2>1. pw.pc # "idle" => Upto(pw.pol, policyCache) /\ Earlier(pw.pol, policyCache)
    BY <1>i DEF Chain, PastFinalizer
  <2>2. CachedIsThere(policyCache)
    BY DEF CachedReports
  <2>3. CASE policyCache.uid = 1
    <3>1. policyCache.live
      BY <1>i, <2>3 DEF PastFinalizer, Earlier, Belongs
    <3>2. QED
      BY <1>t, <2>1, <2>2, <3>1, ThereStays
  <2>4. CASE policyCache.uid # 1
    BY <2>4 DEF StillThere
  <2>5. QED
    BY <2>3, <2>4
<1>3. ASSUME pw.pc # "idle" PROVE StillThere(pw.pol)
  <2>1. Upto(pw.pol, pw.pol) /\ Earlier(pw.pol, pw.pol)
    BY <1>n, <1>t DEF Upto, Earlier
  <2>2. CachedIsThere(pw.pol) /\ pw.pol.live
    BY <1>3, <1>i DEF CachedReports, PastFinalizer
  <2>3. QED
    BY <1>t, <2>1, <2>2, ThereStays
<1>4. QED
  BY <1>1, <1>2, <1>3

LEMMA CachedUpto ==
  ASSUME GuardInv, GuardInv', CachedReports, [Next]_vars, NEW t \in Types
  PROVE  /\ Upto(reportCache'[t], policyCache')
         /\ pw'.pc # "idle" => Upto(reportCache'[t], pw'.pol)
         /\ reportCache'[t].live => reportCache'[t].uid # 0
         /\ reports'[t].live => reports'[t].uid # 0
<1>i. TypeOK /\ Copies /\ Chain /\ PastFinalizer /\ Chain'
  BY DEF GuardInv, EngineInv
<1>t. /\ policy \in PolicyType /\ policyCache \in PolicyType
      /\ reports[t] \in ReportType /\ reportCache[t] \in ReportType
  BY <1>i, TypedFacts
<1>n. /\ \A q \in PolicyType : q.uid \in Nat /\ q.gen \in Nat
      /\ \A r \in ReportType : r.uid \in Nat /\ r.gen \in Nat
  BY DEF PolicyType, ReportType
<1>c. policyCache' = policyCache \/ policyCache' = policy
  BY <1>i, CacheSteps
<1>u. Upto(reportCache[t], policyCache) /\ Upto(reportCache[t], policy)
  BY <1>i, <1>n, <1>t DEF CachedReports, Chain, Upto
<1>1. CASE reportCache'[t] = reports[t] /\ reports' = reports
  BY <1>1, <1>i DEF Chain, CachedReports
<1>2. CASE reportCache'[t] = reportCache[t]
  <2>1. Upto(reportCache'[t], policyCache')
    BY <1>2, <1>c, <1>u
  <2>2. pw'.pc # "idle" => Upto(reportCache'[t], pw'.pol)
    BY <1>2, <1>i, <1>u, WorkerSteps DEF WorkerGoes, CachedReports
  <2>3. reports'[t].live => reports'[t].uid # 0
    BY <1>i, ReportCauses DEF ReportCause, CachedReports, PastFinalizer
  <2>4. QED
    BY <1>2, <2>1, <2>2, <2>3 DEF CachedReports
<1>3. QED
  BY <1>i, <1>1, <1>2, CacheSteps

\* A later generation than the Policy had is not named by any cached report.
LEMMA PolicyStillThere ==
  ASSUME GuardInv, CachedReports, [Next]_vars, Belongs(1), policy'.live, policy'.uid = 1
  PROVE  StillThere(policy')
<1>i. TypeOK /\ Copies /\ Chain /\ PastFinalizer
  BY DEF GuardInv, EngineInv
<1>t. policy \in PolicyType /\ policyCache \in PolicyType
  BY <1>i, TypedFacts
<1>n. /\ \A q \in PolicyType : q.uid \in Nat /\ q.gen \in Nat
      /\ \A r \in ReportType : r.uid \in Nat /\ r.gen \in Nat
  BY DEF PolicyType, ReportType
<1>1. StillThere(policy)
  BY AllStay
<1>2. CASE policy' = policy
  BY <1>1, <1>2
<1>3. CASE Touched
  BY <1>1, <1>3 DEF Touched, StillThere, Serving
<1>4. CASE Moved
  <2>1. PICK t \in Types : t = policy'.spec.type
    <3>1. TypeOK'
      BY NextInv DEF GuardInv, EngineInv
    <3>2. policy' \in PolicyType
      BY <3>1 DEF TypeOK, EngineTypeOK
    <3>3. QED
      BY <3>2 DEF PolicyType, SpecType
  <2>2. CASE reportCache'[t].live /\ reportCache'[t].gen = policy'.gen
    <3>1. PICK r \in {reports[t], reportCache[t]} : reportCache'[t] = r
      BY <1>i, CacheSteps
    <3>2. r \in ReportType /\ r.live
      BY <1>i, <2>2, <3>1, TypedFacts
    <3>3. r.uid # 0 /\ Upto(r, policyCache)
      BY <1>i, <3>1, <3>2 DEF CachedReports, Chain
    <3>4. Upto(policyCache, policy) /\ policy.uid = 1
      BY <1>i DEF Chain, Belongs
    <3>5. r.gen <= policy.gen
      BY <1>n, <1>t, <3>2, <3>3, <3>4 DEF Upto
    <3>6. QED
      BY <1>4, <1>n, <1>t, <2>2, <3>1, <3>5 DEF Moved
  <2>3. QED
    BY <2>1, <2>2 DEF StillThere
<1>5. QED
  BY <1>i, <1>2, <1>3, <1>4, LifeSteps DEF Created, Left, Belongs

\* Before there is a first Policy, there is no report of one.
LEMMA NothingYet ==
  ASSUME GuardInv, CachedReports, policy.uid = 0, [Next]_vars
  PROVE  pw'.pc = "idle" /\ \A t \in Types : ~reportCache'[t].live
<1>i. TypeOK /\ Copies /\ Chain /\ PastFinalizer
  BY DEF GuardInv, EngineInv
<1>t. policy \in PolicyType /\ policyCache \in PolicyType /\ pw.pol \in PolicyType
  BY <1>i, TypedFacts
<1>n. /\ \A q \in PolicyType : q.uid \in Nat /\ q.gen \in Nat
      /\ \A r \in ReportType : r.uid \in Nat /\ r.gen \in Nat
  BY DEF PolicyType, ReportType
<1>1. policyCache.uid = 0 /\ ~policyCache.live /\ pw.pc = "idle"
  BY <1>i, <1>n, <1>t DEF Chain, Upto, PastFinalizer
<1>2. ASSUME NEW t \in Types PROVE ~reports[t].live /\ ~reportCache[t].live
  <2>1. reports[t] \in ReportType /\ reportCache[t] \in ReportType
    BY <1>i, TypedFacts
  <2>2. Upto(reports[t], policyCache) /\ Upto(reportCache[t], policyCache)
    BY <1>i DEF Chain, CachedReports
  <2>3. reports[t].uid = 0 /\ reportCache[t].uid = 0
    BY <1>1, <1>n, <1>t, <2>1, <2>2 DEF Upto
  <2>4. QED
    BY <2>3 DEF CachedReports
<1>3. QED
  BY <1>1, <1>2, <1>i, CacheSteps, WorkerSteps DEF WorkerGoes

LEMMA CachedReportsInductive ==
  ASSUME GuardInv, GuardInv', CachedReports, [Next]_vars
  PROVE  CachedReports'
<1>i. TypeOK /\ Copies /\ Chain /\ PastFinalizer
  BY DEF GuardInv, EngineInv
<1>t. policy \in PolicyType /\ policyCache \in PolicyType /\ pw.pol \in PolicyType
  BY <1>i, TypedFacts
<1>n. \A q \in PolicyType : q.uid \in Nat /\ q.gen \in Nat
  BY DEF PolicyType
<1>1. ASSUME policy'.live, policy'.uid = 1, policy.uid = 0
      PROVE  /\ CachedIsThere(policy)' /\ CachedIsThere(policyCache)'
             /\ pw'.pc = "idle"
  <2>1. pw'.pc = "idle" /\ \A t \in Types : ~reportCache'[t].live
    BY <1>1, NothingYet
  <2>2. policy'.spec.type \in Types /\ policyCache'.spec.type \in Types
    BY DEF GuardInv, EngineInv, TypeOK, EngineTypeOK, PolicyType, SpecType
  <2>3. QED
    BY <2>1, <2>2 DEF CachedIsThere
<1>2. ASSUME policy'.live, policy'.uid = 1, Belongs(1)
      PROVE  /\ CachedIsThere(policy)' /\ CachedIsThere(policyCache)'
             /\ pw'.pc # "idle" => CachedIsThere(pw.pol)'
             /\ pw'.pc = "status" => ReportThere(pw.pol)'
  <2>1. /\ StillThere(policy') /\ StillThere(policy) /\ StillThere(policyCache)
        /\ pw.pc # "idle" => StillThere(pw.pol)
    BY <1>2, AllStay, PolicyStillThere
  <2>2. policyCache' = policyCache \/ policyCache' = policy
    BY <1>i, CacheSteps
  <2>3. StillThere(policyCache')
    BY <2>1, <2>2
  <2>4. pw'.pc # "idle" => StillThere(pw'.pol)
    BY <1>i, <2>1, WorkerSteps DEF WorkerGoes
  <2>5. ASSUME pw'.pc = "status" PROVE ReportThere(pw.pol)'
    <3> DEFINE t == pw.pol.spec.type
    <3>t. t \in Types
      BY <1>i, TypedFacts
    <3>1. pw.pc # "idle" /\ pw'.pol = pw.pol
      BY <1>i, <2>5, WorkerSteps DEF WorkerGoes
    <3>2. pw.pol.uid = 1 /\ pw.pol.live
      BY <1>2, <1>i, <1>n, <1>t, <3>1 DEF Chain, Upto, PastFinalizer, Belongs
    <3>3. CASE pw' = pw
      <4>1. ReportThere(pw.pol) /\ Serving(pw.pol)
        BY <1>2, <1>i, <2>5, <3>3 DEF CachedReports, PastFinalizer
      <4>2. Upto(pw.pol, pw.pol) /\ Earlier(pw.pol, pw.pol)
        BY <1>n, <1>t DEF Upto, Earlier
      <4>3. reports'[t].live /\ reports'[t].uid = 1 /\ reports'[t].gen = pw.pol.gen
        BY <1>2, <1>t, <3>2, <3>t, <4>1, <4>2, ReportStays DEF ReportThere
      <4>4. QED
        BY <3>1, <3>2, <4>3 DEF ReportThere
    <3>4. CASE /\ pw.pc = "upsert" /\ reportCache[t].live /\ reportCache[t].gen = pw.pol.gen
               /\ reports' = reports
      <4>1. ReportThere(pw.pol)
        BY <1>2, <1>i, <3>2, <3>4 DEF CachedReports, CachedIsThere, PastFinalizer
      <4>2. QED
        BY <3>1, <3>4, <4>1 DEF ReportThere
    <3>5. CASE reports'[t].live /\ reports'[t].uid = pw.pol.uid /\ reports'[t].gen = pw.pol.gen
      BY <3>1, <3>5 DEF ReportThere
    <3>6. QED
      BY <1>i, <2>5, <3>3, <3>4, <3>5, WorkerSteps DEF WorkerGoes
  <2>6. QED
    BY <2>1, <2>3, <2>4, <2>5 DEF StillThere, CachedIsThere, ReportThere
<1>3. Belongs(1)' => Belongs(1) \/ policy.uid = 0
  <2>1. ASSUME policy'.live, policy'.uid = 1 PROVE Belongs(1) \/ policy.uid = 0
    BY <1>i, <1>n, <1>t, <2>1, LifeFields DEF Belongs
  <2>2. QED
    BY <2>1 DEF Belongs
<1>4. QED
  BY <1>1, <1>2, <1>3, CachedUpto DEF CachedReports, Belongs
-----------------------------------------------------------------------------
\* A step that writes the Policy leaves the reports alone.
LEMMA OneAtATime ==
  ASSUME TypeOK, Copies, [Next]_vars, NEW t \in Types
  PROVE  policy' = policy \/ reports'[t] = reports[t]
BY ReportCauses DEF ReportCause

LEMMA ObservedHasReportInductive ==
  ASSUME EngineObservedInv, [Next]_vars
  PROVE  ObservedHasReport'
<1>g. GuardInv /\ ObservedIsSeen /\ CachedReports /\ ObservedHasReport
  BY DEF EngineObservedInv
<1>i. TypeOK /\ TypeOK' /\ Copies /\ Chain /\ PastFinalizer
  BY <1>g, NextGuard DEF GuardInv, EngineInv
<1>t. /\ policy \in PolicyType /\ policyCache \in PolicyType /\ pw.pol \in PolicyType
      /\ policy' \in PolicyType /\ policy.spec.type \in Types
  BY <1>i, TypedFacts DEF TypeOK, EngineTypeOK, PolicyType, SpecType
<1>n. \A q \in PolicyType : q.uid \in Nat /\ q.gen \in Nat /\ q.obsGen \in Nat
  BY DEF PolicyType
<1> SUFFICES ASSUME policy'.live, policy'.uid = 1, policy'.obsGen = policy'.gen
             PROVE  ReportThere(policy)'
  BY DEF ObservedHasReport, Belongs
<1>1. CASE policy' = policy
  <2>1. Belongs(1) /\ ReportThere(policy) /\ Serving(policy) /\ policy.obsGen # 0
    BY <1>1, <1>g, <1>i DEF ObservedHasReport, ObservedIsSeen, PastFinalizer, Belongs
  <2>2. pw.pc # "idle" => Upto(pw.pol, policy) /\ Earlier(pw.pol, policy)
    BY <1>i, <1>n, <1>t DEF Chain, Upto, PastFinalizer
  <2>3. /\ reports'[policy.spec.type].live /\ reports'[policy.spec.type].uid = 1
        /\ reports'[policy.spec.type].gen = policy.gen
    BY <1>g, <1>t, <2>1, <2>2, ReportStays DEF ReportThere, Belongs
  <2>4. QED
    BY <1>1, <2>3 DEF ReportThere
<1>2. CASE policy' # policy /\ Touched
  <2>1. /\ policy.live /\ policy.uid = 1 /\ policy'.spec = policy.spec
        /\ policy'.gen = policy.gen
    BY <1>2 DEF Touched
  <2>2. ReportThere(policy)
    <3>1. CASE policy'.obsGen = policy.obsGen
      BY <1>g, <2>1, <3>1 DEF ObservedHasReport, Belongs
    <3>2. CASE pw.pc = "status" /\ pw.pol = policy
      BY <1>g, <2>1, <3>2 DEF CachedReports, Belongs
    <3>3. QED
      BY <1>2, <3>1, <3>2 DEF Touched
  <2>3. reports'[policy.spec.type] = reports[policy.spec.type]
    BY <1>2, <1>i, <1>t, OneAtATime
  <2>4. QED
    BY <2>1, <2>2, <2>3 DEF ReportThere
<1>3. CASE Moved
  BY <1>3, <1>g, <1>n, <1>t DEF Moved, ObservedIsSeen
<1>4. CASE Created \/ Left
  BY <1>4 DEF Created, Left
<1>5. QED
  BY <1>i, <1>1, <1>2, <1>3, <1>4, LifeSteps

\* The inductive invariant of what is called observed.
THEOREM EngineObservedInvariant == Spec => []EngineObservedInv
<1>1. Init => EngineObservedInv
  <2> SUFFICES ASSUME Init PROVE EngineObservedInv
    OBVIOUS
  <2>1. GuardInv
    BY InitGuard
  <2>2. /\ ~policy.live
        /\ \A t \in Types : reports[t] = NoReport /\ reportCache[t] = NoReport
        /\ policyCache.uid \in Nat /\ policyCache.gen \in Nat
        /\ pw.pc = "idle"
    BY <2>1, InitPolicy, TypedFacts
    DEF Init, EngineInit, IdlePolicyWorker, GuardInv, EngineInv
  <2>3. NoReport.uid = 0 /\ NoReport.gen = 0 /\ ~NoReport.live
    BY DEF NoReport
  <2>4. CachedReports
    BY <2>2, <2>3 DEF CachedReports, Upto, Belongs
  <2>5. QED
    BY <2>1, <2>2, <2>4
    DEF EngineObservedInv, ObservedIsSeen, ObservedHasReport, Belongs
<1>2. EngineObservedInv /\ [Next]_vars => EngineObservedInv'
  <2> SUFFICES ASSUME EngineObservedInv, [Next]_vars PROVE EngineObservedInv'
    OBVIOUS
  <2>1. GuardInv /\ GuardInv' /\ ObservedIsSeen /\ CachedReports
    BY NextGuard DEF EngineObservedInv
  <2>2. QED
    BY <2>1, ObservedIsSeenInductive, CachedReportsInductive, ObservedHasReportInductive
    DEF EngineObservedInv
<1>3. QED
  BY <1>1, <1>2, PTL DEF Spec

\* The generation a first Policy calls observed has its report, whatever the
\* caches, Cleanup and the report controller's own deletions have been through
\* (PolicyReconciler.Reconcile writes the status last, with the version it read).
THEOREM ObservedHasReportHolds == Spec => []ObservedHasReport
<1>1. EngineObservedInv => ObservedHasReport
  BY DEF EngineObservedInv
<1>2. QED
  BY <1>1, EngineObservedInvariant, PTL
-----------------------------------------------------------------------------
(***************************************************************************)
(* Whose the ConfigMap is.                                                 *)
(***************************************************************************)

\* Past the falco engine there is the ConfigMap it has written, or the one it
\* has found in the cache to be its Policy's.
ConfigMapDone ==
  pw'.pc \in {"upsert", "status"} /\ pw'.pol.spec.type = "falco" =>
    /\ pw'.pol = pw.pol
    /\ \/ pw.pc \in {"upsert", "status"}
       \/ /\ pw.pc = "reconcile"
          /\ \/ cm'.owner = pw.pol.uid
             \/ cm' = cm /\ cmCache.live /\ cmCache.owner = pw.pol.uid

LEMMA EngineLeft ==
  ASSUME TypeOK, [Next]_vars
  PROVE  ConfigMapDone
<1>t. pw \in PolicyWorkerType /\ cmCache \in ConfigMapType
  BY DEF TypeOK, EngineTypeOK
<1>g. ASSUME NEW pc, pw' = [pw EXCEPT !.pc = pc]
      PROVE  pw'.pol = pw.pol
  BY <1>g, <1>t DEF PolicyWorkerType
<1>1. CASE CreateConfigMap
  <2>1. CASE cm.live
    BY <1>1, <2>1 DEF CreateConfigMap, PolicyRetry, IdlePolicyWorker, ConfigMapDone
  <2>2. CASE ~cm.live
    <3>1. /\ pw.pc = "reconcile" /\ cm' = FreshConfigMap
          /\ pw' = [pw EXCEPT !.pc = "upsert"]
      BY <1>1, <2>2 DEF CreateConfigMap, FalcoTurn, PolicyGoes
    <3>2. cm'.owner = pw.pol.uid
      BY <3>1 DEF FreshConfigMap
    <3>3. QED
      BY <1>g, <3>1, <3>2 DEF ConfigMapDone
  <2>3. QED
    BY <2>1, <2>2
<1>2. CASE KeepConfigMap
  BY <1>2, <1>g
  DEF KeepConfigMap, CachedConfigMap, ConfigMapRight, FalcoTurn, PolicyGoes,
      OnlyPolicyWorker, PolicyWorkerKeeps, ConfigMapDone
<1>3. CASE UpdateConfigMap
  <2>1. CASE ~CanWrite(cmCache, cm)
    BY <1>3, <2>1 DEF UpdateConfigMap, PolicyRetry, IdlePolicyWorker, ConfigMapDone
  <2>2. CASE CanWrite(cmCache, cm)
    <3>1. /\ pw.pc = "reconcile" /\ cm' = UpdatedConfigMap
          /\ pw' = [pw EXCEPT !.pc = "upsert"]
      BY <1>3, <2>2 DEF UpdateConfigMap, CachedConfigMap, FalcoTurn, PolicyGoes
    <3>2. UpdatedConfigMap.owner = pw.pol.uid
      BY <1>t DEF UpdatedConfigMap, ConfigMapType
    <3>3. QED
      BY <1>g, <3>1, <3>2 DEF ConfigMapDone
  <2>3. QED
    BY <2>1, <2>2
<1>4. CASE pw' = pw
  BY <1>4 DEF ConfigMapDone
<1>5. CASE ReconciledAll
  BY <1>5, <1>g DEF ReconciledAll, LitmusTurn, PolicyGoes, ConfigMapDone
<1>6. CASE pw.pc \notin {"reconcile"}
  BY <1>4, <1>6, WorkerSteps DEF WorkerGoes, ConfigMapDone
<1>7. ASSUME pw.pc = "reconcile"
      PROVE  \/ pw' = pw \/ pw' = IdlePolicyWorker
             \/ CreateConfigMap \/ KeepConfigMap \/ UpdateConfigMap \/ ReconciledAll
             \/ pw'.pc \notin {"upsert", "status"}
  <2>1. CASE PolicyWorkerStep
    <3>1. ASSUME NEW e \in Experiments,
                 CreateChaosEngine(e) \/ KeepChaosEngine(e) \/ UpdateChaosEngine(e)
                 \/ RewriteChaosEngine(e)
          PROVE  pw' = IdlePolicyWorker \/ pw'.pc \notin {"upsert", "status"}
      BY <1>7, <1>t, <3>1
      DEF CreateChaosEngine, KeepChaosEngine, UpdateChaosEngine, RewriteChaosEngine,
          WriteChaosEngine, AtExperiment, LitmusTurn, Reached, PolicyGoes, PolicyRetry,
          PolicyWorkerType
    <3>2. QED
      BY <1>7, <2>1, <3>1
      DEF PolicyWorkerStep, PolicyGet, ToolNotFound, AddFinalizer, SetOwner,
          BeginCleanup, RejectInvalid, BeginReconcile, FalcoStep, NoConfigMapFound,
          DeleteConfigMap, FalcoTurn, LitmusStep, LitmusCleanupPanics, CleanedEngines,
          ListChaosEngines, DeleteChaosEngine, LitmusTurn, ListReports,
          DeleteListedReport, DisabledDone, CleanedUp, RemoveFinalizer, UpsertCreate,
          UpsertNothing, UpsertUpdate, UpdateStatus, Wanted, Owned
  <2>2. CASE Fault \/ Resync
    BY <1>7, <2>2
    DEF Fault, Resync, PolicyCallFails, PolicyRetry, ReportCallFails, Restart,
        ReportWorkerKeeps
  <2>3. QED
    BY <2>1, <2>2, UserLeaves, ClusterLeaves, ReportWorkerLeaves
    DEF Next, vars, clusterVars
<1>8. QED
  BY <1>1, <1>2, <1>3, <1>4, <1>5, <1>6, <1>7 DEF IdlePolicyWorker, ConfigMapDone

LEMMA ConfigMapKnownInductive ==
  ASSUME GuardInv, GuardInv', ConfigMapKnown, [Next]_vars
  PROVE  ConfigMapKnown'
<1>i. TypeOK /\ TypeOK' /\ Copies /\ Chain /\ ObjectCopies
  BY DEF GuardInv, EngineInv
<1>t. /\ policy.uid \in Nat /\ policyCache.uid \in Nat /\ pw.pol.uid \in Nat
      /\ policyCache'.uid \in Nat /\ pw'.pol.uid \in Nat
      /\ cm.owner \in Nat /\ cmCache.owner \in Nat
      /\ cm'.owner \in Nat /\ cmCache'.owner \in Nat
  BY <1>i DEF TypeOK, EngineTypeOK, PolicyType, PolicyWorkerType, ConfigMapType
<1>c. /\ policyCache' = policyCache \/ (policyCache' = policy /\ policy' = policy)
      /\ cmCache' = cmCache \/ (cmCache' = cm /\ cm' = cm)
  BY <1>i, CacheSteps, ObjectCacheSteps
<1>u. /\ policyCache.uid <= policy.uid
      /\ pw.pc # "idle" => pw.pol.uid <= policyCache.uid
  BY <1>i, <1>t DEF Chain, Upto
<1>w. \/ pw'.pc = "idle"
      \/ pw.pc # "idle" /\ pw'.pol = pw.pol
      \/ pw.pc = "idle" /\ pw'.pol = policyCache
  BY <1>i, WorkerSteps DEF WorkerGoes
<1>m. \/ cm' = cm
      \/ ~cm'.live
      \/ pw.pc = "reconcile" /\ policyCache' = policyCache /\ cm'.owner = pw.pol.uid
  BY <1>i, ConfigMapSteps DEF ConfigMapMoves
<1>1. cm'.live => /\ cm'.owner <= policyCache'.uid
                  /\ pw'.pc # "idle" => cm'.owner <= pw'.pol.uid
  BY <1>c, <1>m, <1>t, <1>u, <1>w DEF ConfigMapKnown
<1>2. cmCache'.live => /\ cmCache'.owner <= policyCache'.uid
                       /\ pw'.pc # "idle" => cmCache'.owner <= pw'.pol.uid
  BY <1>c, <1>t, <1>u, <1>w DEF ConfigMapKnown
<1>3. cm'.live /\ cmCache'.live => cmCache'.owner <= cm'.owner
  BY <1>c, <1>m, <1>t DEF ConfigMapKnown
<1>4. pw'.pc \in {"upsert", "status"} /\ pw'.pol.spec.type = "falco" /\ cm'.live =>
        cm'.owner = pw'.pol.uid
  BY <1>i, <1>m, <1>t, EngineLeft DEF ConfigMapDone, ConfigMapKnown
<1>5. QED
  BY <1>1, <1>2, <1>3, <1>4 DEF ConfigMapKnown

LEMMA ObservedOwnsInductive ==
  ASSUME GuardInv, ObservedIsSeen, ConfigMapKnown, ObservedOwnsConfigMap, [Next]_vars
  PROVE  ObservedOwnsConfigMap'
<1>i. TypeOK /\ Copies /\ PastFinalizer /\ ObjectCopies
  BY DEF GuardInv, EngineInv
<1>t. policy \in PolicyType /\ pw.pol \in PolicyType
  BY <1>i, TypedFacts
<1>n. \A p \in PolicyType : p.uid \in Nat /\ p.gen \in Nat /\ p.obsGen \in Nat
  BY DEF PolicyType
<1> SUFFICES ASSUME policy'.live, Serving(policy'), policy'.spec.type = "falco",
                    policy'.obsGen = policy'.gen, cm'.live
             PROVE  cm'.owner = policy'.uid
  BY DEF ObservedOwnsConfigMap, Serving
<1>m. \/ cm' = cm
      \/ /\ pw.pc = "reconcile" /\ policy' = policy
         /\ cm'.owner = pw.pol.uid
  BY <1>i, ConfigMapSteps DEF ConfigMapMoves
<1>1. CASE policy' = policy
  <2>1. CASE cm' = cm
    BY <1>1, <2>1 DEF ObservedOwnsConfigMap
  <2>2. CASE pw.pc = "reconcile" /\ cm'.owner = pw.pol.uid
    <3>1. policy.obsGen # 0
      BY <1>1, <1>i DEF PastFinalizer
    <3>2. QED
      BY <1>1, <2>2, <3>1 DEF ObservedIsSeen
  <2>3. QED
    BY <1>m, <2>1, <2>2
<1>2. CASE Created
  BY <1>2 DEF Created
<1>3. CASE Moved
  BY <1>3, <1>n, <1>t DEF Moved, ObservedIsSeen
<1>4. CASE Left
  BY <1>4 DEF Left
<1>5. CASE Touched /\ policy'.obsGen = policy.obsGen /\ policy' # policy
  BY <1>5, <1>m DEF Touched, ObservedOwnsConfigMap, Serving
<1>6. CASE Touched /\ pw.pc = "status" /\ pw.pol = policy
  BY <1>6, <1>m DEF Touched, ConfigMapKnown
<1>7. QED
  BY <1>i, <1>1, <1>2, <1>3, <1>4, <1>5, <1>6, LifeSteps DEF Touched

\* An observed falco Policy's ConfigMap is its own, although the engine takes
\* one over from an earlier Policy of its name, and works from a cache
\* (falco.Engine.Reconcile sets the controller reference before it writes).
THEOREM ObservedOwnsConfigMapHolds == Spec => []ObservedOwnsConfigMap
<1>1. Init => ConfigMapKnown /\ ObservedOwnsConfigMap
  <2> SUFFICES ASSUME Init PROVE ConfigMapKnown /\ ObservedOwnsConfigMap
    OBVIOUS
  <2>1. /\ policyCache = policy /\ cmCache = NoConfigMap /\ pw.pc = "idle"
        /\ ~policy.live /\ (cm.live => cm.owner = 1 /\ policy.uid = 1)
    BY InitPolicy DEF Init, EngineInit, IdlePolicyWorker
  <2>2. ~cmCache.live
    BY <2>1 DEF NoConfigMap
  <2>3. QED
    BY <2>1, <2>2 DEF ConfigMapKnown, ObservedOwnsConfigMap
<1>2. EngineOwnerInv /\ GuardInv' /\ [Next]_vars => ConfigMapKnown' /\ ObservedOwnsConfigMap'
  BY ConfigMapKnownInductive, ObservedOwnsInductive DEF EngineOwnerInv, EngineObservedInv
<1>3. EngineObservedInv => GuardInv
  BY DEF EngineObservedInv
<1>4. EngineOwnerInv <=> EngineObservedInv /\ ConfigMapKnown /\ ObservedOwnsConfigMap
  BY DEF EngineOwnerInv
<1>5. QED
  BY <1>1, <1>2, <1>3, <1>4, EngineObservedInvariant, PTL DEF Spec
-----------------------------------------------------------------------------
(***************************************************************************)
(* No wake-up is lost.                                                     *)
(***************************************************************************)

\* A key that is not in the policy controller's queue was not put there by an
\* event, and leaves it only when the worker takes it.
LEMMA PolicyQueueMoves ==
  ASSUME [Next]_vars, ~policyQueue'
  PROVE  /\ policyCache' = policyCache \/ Restart
         /\ ~policyQueue \/ PolicyGet \/ Restart
<1>k. CASE UNCHANGED <<policyCache, policyQueue>>
  BY <1>k
<1>1. CASE ClusterStep
  BY <1>1, <1>k
  DEF ClusterStep, GCConfigMap, SyncPolicy, SyncConfigMap, SyncReport, LitmusRuns,
      SyncEngine, EnvironmentKeeps, caches
<1>2. CASE PolicyWorkerStep
  <2>1. ~policyQueue \/ PolicyGet
    BY <1>2
    DEF PolicyWorkerStep, ToolNotFound, AddFinalizer, SetOwner, BeginCleanup,
        RejectInvalid, BeginReconcile, FalcoStep, LitmusStep, ListReports,
        DeleteListedReport, DisabledDone, RemoveFinalizer, UpsertCreate, UpsertNothing,
        UpsertUpdate, UpdateStatus, UpdatePolicyAndStop, CreateConfigMap,
        KeepConfigMap, UpdateConfigMap, NoConfigMapFound, DeleteConfigMap,
        CreateChaosEngine, KeepChaosEngine, UpdateChaosEngine, RewriteChaosEngine,
        WriteChaosEngine, ReconciledAll, LitmusCleanupPanics, CleanedEngines,
        ListChaosEngines, DeleteChaosEngine, Reached, Upserted, PolicyGoes, PolicyDone,
        PolicyRetry
  <2>2. QED
    BY <1>2, <2>1, PolicyWorkerLeaves DEF caches
<1>3. CASE Fault
  BY <1>3
  DEF Fault, PolicyCallFails, PolicyRetry, ReportCallFails, ReportWorkerKeeps, caches
<1>4. QED
  BY <1>1, <1>2, <1>3, <1>k, UserLeaves, ReportWorkerLeaves
  DEF Next, Resync, vars, clusterVars, caches

\* How a reconciliation of the Policy may end for good.
LEMMA PolicyEnds ==
  ASSUME TypeOK, [Next]_vars, pw.pc # "idle", pw'.pc = "idle", ~policyQueue'
  PROVE  \/ Restart
         \/ DisabledDone
         \/ CanWrite(pw.pol, policy) /\ (AddFinalizer \/ SetOwner \/ RemoveFinalizer \/ UpdateStatus)
<1>t. pw \in PolicyWorkerType
  BY DEF TypeOK, EngineTypeOK
<1>1. CASE PolicyWorkerStep
  <2>1. CASE PolicyGet
    BY <2>1 DEF PolicyGet
  <2>2. CASE BeginCleanup \/ BeginReconcile \/ ListReports
    <3>1. pw'.pc \in {"cleanup", "reconcile", "reports"}
      BY <1>t, <2>2
      DEF BeginCleanup, BeginReconcile, ListReports, PolicyGoes, PolicyWorkerType
    <3>2. QED
      BY <3>1
  <2>3. CASE FalcoStep
    <3>1. \/ PolicyRetry
          \/ \E pc \in {"upsert", "list"} : pw' = [pw EXCEPT !.pc = pc]
      BY <2>3
      DEF FalcoStep, CreateConfigMap, KeepConfigMap, UpdateConfigMap,
          NoConfigMapFound, DeleteConfigMap, PolicyGoes
    <3>2. QED
      BY <1>t, <3>1 DEF PolicyRetry, PolicyWorkerType
  <2>4. ASSUME NEW e \in Experiments,
               CreateChaosEngine(e) \/ KeepChaosEngine(e) \/ UpdateChaosEngine(e)
               \/ RewriteChaosEngine(e)
        PROVE  FALSE
    <3>1. PolicyRetry \/ pw' = [pw EXCEPT !.exps = @ \ {e}]
      BY <2>4
      DEF CreateChaosEngine, KeepChaosEngine, UpdateChaosEngine, RewriteChaosEngine,
          WriteChaosEngine, Reached, PolicyGoes
    <3>2. QED
      BY <1>t, <3>1 DEF PolicyRetry, PolicyWorkerType
  <2>5. CASE ReconciledAll \/ CleanedEngines \/ LitmusCleanupPanics
    <3>1. \/ PolicyRetry
          \/ \E pc \in {"upsert", "list"} : pw' = [pw EXCEPT !.pc = pc]
      BY <2>5 DEF ReconciledAll, CleanedEngines, LitmusCleanupPanics, PolicyGoes
    <3>2. QED
      BY <1>t, <3>1 DEF PolicyRetry, PolicyWorkerType
  <2>6. ASSUME NEW n \in Namespaces, ListChaosEngines(n)
        PROVE  FALSE
    <3>1. \E spaces, doomed : pw' = [pw EXCEPT !.spaces = spaces, !.doomed = doomed]
      BY <2>6 DEF ListChaosEngines, PolicyGoes
    <3>2. QED
      BY <1>t, <3>1 DEF PolicyWorkerType
  <2>7. ASSUME NEW x \in Slots, DeleteChaosEngine(x)
        PROVE  FALSE
    BY <1>t, <2>7 DEF DeleteChaosEngine, PolicyGoes, PolicyWorkerType
  <2>8. ASSUME NEW t \in Types, DeleteListedReport(t)
        PROVE  FALSE
    <3>1. \E reps : pw' = [pw EXCEPT !.reps = reps]
      BY <2>8 DEF DeleteListedReport, PolicyGoes
    <3>2. QED
      BY <1>t, <3>1 DEF PolicyWorkerType
  <2>9. CASE UpsertCreate \/ UpsertNothing \/ UpsertUpdate
    <3>1. PolicyRetry \/ pw' = [pw EXCEPT !.pc = "status"]
      BY <2>9 DEF UpsertCreate, UpsertNothing, UpsertUpdate, Upserted, PolicyGoes
    <3>2. QED
      BY <1>t, <3>1 DEF PolicyRetry, PolicyWorkerType
  <2>10. CASE ToolNotFound \/ RejectInvalid
    BY <2>10 DEF ToolNotFound, RejectInvalid, PolicyRetry
  <2>11. CASE AddFinalizer \/ SetOwner \/ RemoveFinalizer \/ UpdateStatus
    <3>1. CanWrite(pw.pol, policy)
      BY <2>11, Zenon
      DEF AddFinalizer, SetOwner, RemoveFinalizer, UpdateStatus, UpdatePolicyAndStop,
          PolicyRetry
    <3>2. QED
      BY <2>11, <3>1
  <2>12. QED
    BY <1>1, <2>1, <2>2, <2>3, <2>4, <2>5, <2>6, <2>7, <2>8, <2>9, <2>10, <2>11
    DEF PolicyWorkerStep, LitmusStep
<1>2. CASE Fault
  BY <1>2 DEF Fault, PolicyCallFails, PolicyRetry, ReportCallFails, ReportWorkerKeeps
<1>3. QED
  BY <1>1, <1>2, UserLeaves, ClusterLeaves, ReportWorkerLeaves
  DEF Next, Resync, vars, clusterVars

\* The policy worker works from what its cache shows, unless it will be called
\* again, and what it has checked stays true of its copy.
LEMMA WorkerCheckedInductive ==
  ASSUME TypeOK, WorkerChecked, [Next]_vars
  PROVE  WorkerChecked'
<1>r. Restart => pw'.pc = "idle"
  BY DEF Restart, IdlePolicyWorker
<1>g. PolicyGet => pw.pc = "idle"
  BY DEF PolicyGet
<1>w. WorkerGoes
  BY WorkerSteps
<1>1. ASSUME pw'.pc # "idle", ~policyQueue'
      PROVE  pw'.pol = policyCache'
  <2>1. policyCache' = policyCache
    BY <1>1, <1>r, PolicyQueueMoves
  <2>2. CASE pw'.pol = policyCache
    BY <2>1, <2>2
  <2>3. CASE pw'.pol = pw.pol /\ pw.pc # "idle"
    <3>1. ~policyQueue
      BY <1>1, <1>g, <1>r, <2>3, PolicyQueueMoves
    <3>2. QED
      BY <2>1, <2>3, <3>1 DEF WorkerChecked
  <2>4. QED
    BY <1>1, <1>w, <2>2, <2>3 DEF WorkerGoes
<1>2. ASSUME pw'.pc \notin {"idle", "tool"}
      PROVE  /\ pw'.pol.spec.type \in Installed
             /\ pw'.pol.deleting \/ pw'.pol.spec.type \in pw'.pol.owners
             /\ pw'.pc \in {"reconcile", "upsert", "status"} => Valid(pw'.pol.spec)
             /\ pw'.pc \in {"list", "reports"} => Cleanable(pw'.pol.spec)
  BY <1>2, <1>w DEF WorkerGoes, WorkerChecked, ToolFound
<1>3. CASE pw'.pc \in {"idle", "tool"}
  BY <1>1, <1>3 DEF WorkerChecked
<1>4. QED
  BY <1>1, <1>2, <1>3 DEF WorkerChecked

\* A Policy nobody is about to look at has been served.
LEMMA QuietInductive ==
  ASSUME GuardInv, WorkerChecked, QuietIsServed, [Next]_vars
  PROVE  QuietIsServed'
<1>i. TypeOK /\ Copies /\ PastFinalizer
  BY DEF GuardInv, EngineInv
<1>t. policy \in PolicyType /\ policyCache \in PolicyType /\ pw.pol \in PolicyType
  BY <1>i, TypedFacts
<1> DEFINE Served(p) ==
         /\ ~p.deleting /\ p.fin
         /\ p.spec.type \in p.owners \cap Installed
         /\ IF p.spec.enabled
              THEN Valid(p.spec) /\ p.obsGen = p.gen
              ELSE Cleanable(p.spec)
<1> SUFFICES ASSUME PolicyQuiet'
             PROVE  Served(policy')
  BY DEF QuietIsServed
<1>q. policy'.live /\ policyCache' = policy' /\ ~policyQueue' /\ pw'.pc = "idle"
  BY DEF PolicyQuiet
<1>r. CASE Restart
  BY <1>q, <1>r DEF Restart
<1>g. CASE PolicyGet
  <2>1. policyCache' = policyCache
    BY <1>g DEF PolicyGet, OnlyPolicyWorker, PolicyWorkerKeeps, caches
  <2>2. pw' = [pw EXCEPT !.pc = "tool", !.pol = policyCache]
    BY <1>g, <1>q, <2>1 DEF PolicyGet
  <2>3. pw'.pc = "tool"
    BY <1>i, <2>2 DEF TypeOK, EngineTypeOK, PolicyWorkerType
  <2>4. QED
    BY <1>q, <2>3
<1>1. CASE ~Restart /\ ~PolicyGet
  <2>1. policyCache' = policyCache /\ ~policyQueue
    BY <1>1, <1>q, PolicyQueueMoves
  <2>2. policy' = policy
    <3>1. policy' = policy \/ policy'.rv = policy.rv + 1
      BY <1>i, PolicySteps DEF PolicyMoves
    <3>2. Follows(policyCache, policy) /\ policy.rv \in Nat /\ policyCache.rv \in Nat
      BY <1>i, <1>t DEF Copies, PolicyType
    <3>3. QED
      BY <1>q, <2>1, <3>1, <3>2 DEF Follows
  <2>3. policyCache = policy /\ policy.live
    BY <1>q, <2>1, <2>2
  <2>4. CASE pw.pc = "idle"
    BY <2>1, <2>2, <2>3, <2>4 DEF QuietIsServed, PolicyQuiet
  <2>5. CASE pw.pc # "idle"
    <3>1. pw.pol = policy
      BY <2>1, <2>3, <2>5 DEF WorkerChecked
    <3>2. CASE DisabledDone
      <4>1. pw.pc = "reports" /\ ~policy.deleting
        BY <3>1, <3>2 DEF DisabledDone, CleanedUp
      <4>2. policy.fin /\ ~policy.spec.enabled
        BY <1>i, <3>1, <4>1 DEF PastFinalizer, Serving
      <4>3. /\ policy.spec.type \in policy.owners \cap Installed
            /\ Cleanable(policy.spec)
        BY <3>1, <4>1 DEF WorkerChecked
      <4>4. QED
        BY <2>2, <4>1, <4>2, <4>3
    <3>3. CASE CanWrite(pw.pol, policy) /\ UpdateStatus
      <4>1. pw.pc = "status" /\ policy' = Stored([policy EXCEPT !.obsGen = policy.gen], policy)
        BY <3>1, <3>3, Zenon DEF UpdateStatus, UpdatePolicyAndStop
      <4>2. policy'.obsGen = policy.gen
        BY <1>t, <4>1 DEF Stored, PolicyType
      <4>3. policy.fin /\ ~policy.deleting /\ policy.spec.enabled
        BY <1>i, <3>1, <4>1 DEF PastFinalizer, Serving
      <4>4. /\ policy.spec.type \in policy.owners \cap Installed
            /\ Valid(policy.spec)
        BY <3>1, <4>1, <4>3 DEF WorkerChecked
      <4>5. QED
        BY <2>2, <4>2, <4>3, <4>4
    <3>4. CASE CanWrite(pw.pol, policy) /\ RemoveFinalizer
      <4>1. policy' = GonePolicy(policy)
        BY <3>4, Zenon DEF RemoveFinalizer, UpdatePolicyAndStop
      <4>2. QED
        BY <1>q, <4>1, GoneFields
    <3>5. CASE CanWrite(pw.pol, policy) /\ AddFinalizer
      <4>1. ~policy.fin /\ policy' = Stored([policy EXCEPT !.fin = TRUE], policy)
        BY <3>1, <3>5, Zenon DEF AddFinalizer, UpdatePolicyAndStop
      <4>2. policy'.fin
        BY <1>t, <4>1 DEF Stored, PolicyType
      <4>3. QED
        BY <2>2, <4>1, <4>2
    <3>6. CASE CanWrite(pw.pol, policy) /\ SetOwner
      <4> DEFINE owners == policy.owners \cup {policy.spec.type}
      <4>1. /\ policy.spec.type \notin policy.owners
            /\ policy' = Stored([policy EXCEPT !.owners = owners], policy)
        BY <3>1, <3>6 DEF SetOwner, UpdatePolicyAndStop
      <4>2. policy'.owners = owners
        BY <1>t, <4>1 DEF Stored, PolicyType
      <4>3. QED
        BY <2>2, <4>1, <4>2
    <3>7. QED
      BY <1>1, <1>i, <1>q, <2>5, <3>2, <3>3, <3>4, <3>5, <3>6, PolicyEnds
  <2>6. QED
    BY <2>4, <2>5
<1>2. QED
  BY <1>r, <1>g, <1>1
-----------------------------------------------------------------------------
\* The same of a key in the report controller's queue ...
LEMMA ReportQueueMoves ==
  ASSUME TypeOK, [Next]_vars, NEW t \in Types, t \notin reportQueue'
  PROVE  /\ reportCache'[t] = reportCache[t] \/ Restart
         /\ t \notin reportQueue \/ ReportGet(t) \/ Restart
<1>k. CASE UNCHANGED <<reportCache, reportQueue>>
  BY <1>k
<1>1. CASE ClusterStep
  <2>1. ASSUME NEW u \in Types, SyncReport(u)
        PROVE  reportCache'[t] = reportCache[t] /\ t \notin reportQueue
    <3>1. /\ reportCache' = [reportCache EXCEPT ![u] = reports[u]]
          /\ reportQueue' = reportQueue \cup {u}
      BY <2>1 DEF SyncReport
    <3>2. QED
      BY <3>1, TypedFacts
  <2>2. QED
    BY <1>1, <1>k, <2>1
    DEF ClusterStep, GCConfigMap, SyncPolicy, SyncConfigMap, LitmusRuns, SyncEngine,
        EnvironmentKeeps, caches
<1>2. CASE ReportWorkerStep
  <2>1. t \notin reportQueue \/ ReportGet(t)
    <3>1. ASSUME NEW u \in Types, ReportGet(u)
          PROVE  t \notin reportQueue \/ ReportGet(t)
      BY <3>1 DEF ReportGet
    <3>2. QED
      BY <1>2, <3>1
      DEF ReportWorkerStep, PolicyFound, DeleteOrphan, FalcoHandle, FalcoHandleFails,
          LitmusHandle, LitmusHandleFails, WriteResult, ReportDone, ReportRetry
  <2>2. QED
    BY <1>2, <2>1, ReportWorkerLeaves DEF caches
<1>3. CASE Fault
  BY <1>3, <1>k
  DEF Fault, PolicyCallFails, OnlyPolicyWorker, PolicyWorkerKeeps, ReportCallFails,
      ReportRetry, ReportWorkerKeeps, caches
<1>4. QED
  BY <1>1, <1>2, <1>3, <1>k, UserLeaves, PolicyWorkerLeaves
  DEF Next, Resync, OnlyPolicyWorker, PolicyWorkerKeeps, vars, clusterVars, caches

\* ... and of how a reconciliation of that report may end for good.
LEMMA ReportEnds ==
  ASSUME TypeOK, [Next]_vars, NEW t \in Types, t \notin reportQueue',
         rw.pc # "idle", rw.type = t, rw'.pc = "idle" \/ rw'.type # t
  PROVE  Restart \/ ~reports'[t].live \/ reports'[t].done
<1>t. /\ rw \in ReportWorkerType /\ rw.rep \in ReportType
      /\ reports \in [Types -> ReportType]
  BY TypedFacts DEF TypeOK, EngineTypeOK
<1>1. CASE ReportWorkerStep
  <2>1. ASSUME NEW u \in Types, ReportGet(u)
        PROVE  FALSE
    BY <2>1 DEF ReportGet
  <2>2. CASE PolicyFound
    <3>1. rw'.pc = "handle" /\ rw'.type = t
      BY <1>t, <2>2 DEF PolicyFound, ReportWorkerType
    <3>2. QED
      BY <3>1
  <2>3. CASE DeleteOrphan
    <3>1. reports' = [reports EXCEPT ![t] = Gone(NoReport, reports[t])]
      BY <2>3 DEF DeleteOrphan, ReportRetry
    <3>2. ~Gone(NoReport, reports[t]).live
      BY DEF Gone, NoReport
    <3>3. QED
      BY <1>t, <3>1, <3>2
  <2>4. ASSUME NEW p, NEW verdict, WriteResult(p, verdict)
        PROVE  reports'[t].done
    <3> DEFINE new == [rw.rep EXCEPT !.done = TRUE, !.verdict = verdict, !.rv = @ + 1,
                                     !.forUid = p.uid, !.forGen = p.gen]
    <3>1. reports' = [reports EXCEPT ![t] = new]
      BY <2>4 DEF WriteResult, ReportRetry
    <3>2. new.done
      BY <1>t DEF ReportType
    <3> HIDE DEF new
    <3>3. QED
      BY <1>t, <3>1, <3>2
  <2>5. CASE FalcoHandleFails \/ LitmusHandleFails
    BY <2>5 DEF FalcoHandleFails, LitmusHandleFails, ReportRetry
  <2>6. QED
    BY <1>1, <2>1, <2>2, <2>3, <2>4, <2>5 DEF ReportWorkerStep, FalcoHandle, LitmusHandle
<1>2. CASE rw' = rw
  BY <1>2
<1>3. CASE Fault
  BY <1>2, <1>3
  DEF Fault, PolicyCallFails, OnlyPolicyWorker, PolicyWorkerKeeps, ReportCallFails,
      ReportRetry
<1>4. QED
  BY <1>1, <1>2, <1>3, UserLeaves, ClusterLeaves, PolicyWorkerLeaves
  DEF Next, Resync, OnlyPolicyWorker, PolicyWorkerKeeps, vars, clusterVars

\* A report nobody is about to look at is Completed.
LEMMA QuietReportsInductive ==
  ASSUME GuardInv, QuietReportsAreDone, [Next]_vars
  PROVE  QuietReportsAreDone'
<1>i. TypeOK /\ Copies
  BY DEF GuardInv, EngineInv
<1> SUFFICES ASSUME NEW t \in Types, ReportQuiet(t)'
             PROVE  reports'[t].done
  BY DEF QuietReportsAreDone
<1>t. reports[t] \in ReportType /\ reportCache[t] \in ReportType
  BY <1>i, TypedFacts
<1>q. /\ reports'[t].live /\ reportCache'[t] = reports'[t] /\ t \notin reportQueue'
      /\ rw'.pc = "idle" \/ rw'.type # t
  BY DEF ReportQuiet
<1>r. CASE Restart
  BY <1>q, <1>r DEF Restart
<1>g. CASE ReportGet(t)
  <2>1. reportCache'[t] = reportCache[t]
    BY <1>g DEF ReportGet, ReportWorkerKeeps, caches
  <2>2. ~(reportCache[t].live /\ ~reportCache[t].done)
    <3>1. ASSUME rw' = [pc |-> "policy", type |-> t, rep |-> reportCache[t]]
          PROVE  FALSE
      BY <1>q, <3>1
    <3>2. QED
      BY <1>g, <3>1 DEF ReportGet
  <2>3. QED
    BY <1>q, <2>1, <2>2
<1>1. CASE ~Restart /\ ~ReportGet(t)
  <2>1. reportCache'[t] = reportCache[t] /\ t \notin reportQueue
    BY <1>1, <1>i, <1>q, ReportQueueMoves
  <2>2. reports'[t] = reports[t]
    <3>1. ReportMoves(t)
      BY <1>i, ReportSteps
    <3>2. Follows(reportCache[t], reports[t]) /\ reports[t].rv \in Nat /\ reportCache[t].rv \in Nat
      BY <1>i, <1>t DEF Copies, ReportType
    <3>3. QED
      BY <1>q, <2>1, <3>1, <3>2 DEF ReportMoves, Follows
  <2>3. CASE rw.pc = "idle" \/ rw.type # t
    BY <1>q, <2>1, <2>2, <2>3 DEF QuietReportsAreDone, ReportQuiet
  <2>4. CASE rw.pc # "idle" /\ rw.type = t
    BY <1>1, <1>i, <1>q, <2>4, ReportEnds
  <2>5. QED
    BY <2>3, <2>4
<1>2. QED
  BY <1>r, <1>g, <1>1

\* The invariant of both types' Policies.
THEOREM EngineQuietInvariant == Spec => []QuietInv
<1>1. Init => WorkerChecked /\ QuietIsServed /\ QuietReportsAreDone
  <2> SUFFICES ASSUME Init PROVE WorkerChecked /\ QuietIsServed /\ QuietReportsAreDone
    OBVIOUS
  <2>1. pw.pc = "idle" /\ \A t \in Types : reports[t] = NoReport
    BY DEF Init, EngineInit, IdlePolicyWorker
  <2>2. ~policy.live
    BY InitPolicy
  <2>3. QED
    BY <2>1, <2>2, NoReportTyped
    DEF WorkerChecked, QuietIsServed, PolicyQuiet, QuietReportsAreDone, ReportQuiet
<1>2. QuietInv /\ EngineObservedInv' /\ [Next]_vars => QuietInv'
  <2> SUFFICES ASSUME QuietInv, EngineObservedInv', [Next]_vars
               PROVE  QuietInv'
    OBVIOUS
  <2>1. GuardInv /\ WorkerChecked /\ QuietIsServed /\ QuietReportsAreDone /\ TypeOK
    BY DEF QuietInv, EngineObservedInv, GuardInv, EngineInv
  <2>2. GuardInv'
    BY DEF EngineObservedInv
  <2>3. QED
    BY <2>1, <2>2, WorkerCheckedInductive, QuietInductive, QuietReportsInductive DEF QuietInv
<1>3. Init /\ EngineObservedInv => QuietInv
  BY <1>1 DEF QuietInv
<1>4. QED
  BY <1>2, <1>3, EngineObservedInvariant, PTL DEF Spec

\* A falco or litmus Policy that nobody is about to look at has its finalizer
\* and an owner of its type, is not marked deleted, and is observed at its
\* generation if it is enabled: PolicyReconciler.Reconcile puts the key back at
\* every other end, whatever the engine met with.
THEOREM EngineQuietIsServedHolds == Spec => []QuietIsServed
<1>1. QuietInv => QuietIsServed
  BY DEF QuietInv
<1>2. QED
  BY <1>1, EngineQuietInvariant, PTL

\* Nor does PolicyReportReconciler.Reconcile, whose one worker serves the reports
\* of both types, let go of a report that is not Completed.
THEOREM QuietReportsAreDoneHolds == Spec => []QuietReportsAreDone
<1>1. QuietInv => QuietReportsAreDone
  BY DEF QuietInv
<1>2. QED
  BY <1>1, EngineQuietInvariant, PTL
=============================================================================

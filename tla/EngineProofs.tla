------------------------------ MODULE EngineProofs ------------------------------
(***************************************************************************)
(* Proofs about EngineSystem, for any specs, experiments and namespaces    *)
(* and any number of edits and faults: type correctness, the inductive     *)
(* invariant EngineInv, and that the reports of both types live the life   *)
(* of module ReportLifecycle.                                              *)
(***************************************************************************)
EXTENDS EngineSystem, TLAPS

USE HomeNsAssumption, InstalledAssumption, EngineSpecsAssumption, LeftoverAssumption,
    EngineBoundsAssumption, EngineFaultsAssumption

\* What the worker's steps leave alone, each list without its names.
LEMMA PolicyWorkerLeaves ==
  PolicyWorkerStep => UNCHANGED <<caches, reportQueue, rw, edits>>
BY DEF PolicyWorkerStep, PolicyGet, ToolNotFound, AddFinalizer, SetOwner, BeginCleanup,
       RejectInvalid, BeginReconcile, FalcoStep, LitmusStep, ListReports,
       DeleteListedReport, DisabledDone, RemoveFinalizer, UpsertCreate, UpsertNothing,
       UpsertUpdate, UpdateStatus, UpdatePolicyAndStop, CreateConfigMap,
       KeepConfigMap, UpdateConfigMap, NoConfigMapFound, DeleteConfigMap,
       CreateChaosEngine, KeepChaosEngine, UpdateChaosEngine, RewriteChaosEngine,
       WriteChaosEngine, ReconciledAll, LitmusCleanupPanics, CleanedEngines,
       ListChaosEngines, DeleteChaosEngine, OnlyPolicyWorker, PolicyWorkerKeeps,
       EngineKeeps

LEMMA ReportWorkerLeaves ==
  ReportWorkerStep =>
    UNCHANGED <<policy, cm, engines, caches, policyQueue, pw, edits, rewrites>>
BY DEF ReportWorkerStep, ReportGet, PolicyFound, DeleteOrphan, FalcoHandle,
       FalcoHandleFails, LitmusHandle, LitmusHandleFails, ReportWorkerKeeps

LEMMA UserLeaves ==
  UserStep => UNCHANGED <<reports, cm, engines, caches, policyQueue, reportQueue, pw, rw,
                          rewrites>>
BY DEF UserStep, CreatePolicy, EditPolicy, DeletePolicy, UserWrites

LEMMA ClusterLeaves ==
  ClusterStep => UNCHANGED <<policy, reports, pw, rw, edits, rewrites>>
BY DEF ClusterStep, GCConfigMap, SyncPolicy, SyncConfigMap, SyncReport, LitmusRuns,
       SyncEngine, EnvironmentKeeps

LEMMA FaultLeaves ==
  Fault \/ Resync =>
    UNCHANGED <<policy, reports, cm, engines, edits, rewrites>>
BY DEF Fault, Resync, PolicyCallFails, ReportCallFails, Restart, OnlyPolicyWorker,
       PolicyWorkerKeeps, ReportWorkerKeeps
-----------------------------------------------------------------------------
(***************************************************************************)
(* What a step does to the Policy and the copies of it.                    *)
(***************************************************************************)
LEMMA TypedFacts ==
  ASSUME TypeOK
  PROVE  /\ policy \in PolicyType /\ policyCache \in PolicyType /\ pw.pol \in PolicyType
         /\ reports \in [Types -> ReportType] /\ reportCache \in [Types -> ReportType]
         /\ rw.rep \in ReportType /\ rw.type \in Types /\ pw.pol.spec.type \in Types
         /\ \A t \in Types : reports[t] \in ReportType /\ reportCache[t] \in ReportType
         /\ \A p \in PolicyType : p.rv \in Nat /\ p.uid \in Nat /\ p.gen \in Nat
         /\ \A r \in ReportType : r.rv \in Nat /\ r.uid \in Nat /\ r.gen \in Nat
         /\ edits \in Nat /\ rewrites \in Nat
<1>1. /\ policy \in PolicyType /\ policyCache \in PolicyType /\ pw.pol \in PolicyType
      /\ reports \in [Types -> ReportType] /\ reportCache \in [Types -> ReportType]
      /\ rw.rep \in ReportType /\ rw.type \in Types
      /\ edits \in Nat /\ rewrites \in Nat
  BY DEF TypeOK, EngineTypeOK, PolicyWorkerType, ReportWorkerType
<1>2. \A p \in PolicyType : p.rv \in Nat /\ p.uid \in Nat /\ p.gen \in Nat
                            /\ p.spec.type \in Types
  BY DEF PolicyType, SpecType
<1>3. \A r \in ReportType : r.rv \in Nat /\ r.uid \in Nat /\ r.gen \in Nat
  BY DEF ReportType
<1>4. QED
  BY <1>1, <1>2, <1>3

LEMMA NoPolicyTyped == NoPolicy \in PolicyType
BY DEF NoPolicy, NoSpec, PolicyType, SpecType, Types

\* The Policy stays, or is written with the next version, and a later Policy or
\* generation does not become an earlier one.
PolicyMoves ==
  \/ policy' = policy
  \/ policy'.rv = policy.rv + 1 /\ Upto(policy, policy')

LEMMA GonePolicyMoves ==
  ASSUME TypeOK, policy' = GonePolicy(policy)
  PROVE  policy' \in PolicyType /\ PolicyMoves
<1>1. policy \in PolicyType /\ policy.rv + 1 \in Nat /\ policy.uid \in Nat
      /\ policy.gen \in Nat
  BY TypedFacts
<1> DEFINE new == [NoPolicy EXCEPT !.uid = policy.uid, !.gen = policy.gen,
                                   !.rv = policy.rv + 1]
<1>2. policy' = new
  BY Zenon DEF GonePolicy
<1>3. new \in PolicyType
  BY <1>1, NoPolicyTyped, Zenon DEF PolicyType
<1>4. new.rv = policy.rv + 1 /\ new.uid = policy.uid /\ new.gen = policy.gen
  BY DEF NoPolicy
<1> HIDE DEF new
<1>5. QED
  BY <1>1, <1>2, <1>3, <1>4 DEF PolicyMoves, Upto

LEMMA UserMoves ==
  ASSUME TypeOK, UserStep
  PROVE  policy' \in PolicyType /\ PolicyMoves
<1>1. policy \in PolicyType /\ policy.rv + 1 \in Nat /\ policy.uid + 1 \in Nat
      /\ policy.gen + 1 \in Nat /\ policy.uid \in Nat /\ policy.gen \in Nat
  BY TypedFacts
<1>2. ASSUME NEW spec \in Specs, CreatePolicy(spec) PROVE policy' \in PolicyType /\ PolicyMoves
  <2> DEFINE new == [NoPolicy EXCEPT !.live = TRUE, !.uid = policy.uid + 1,
                       !.rv = policy.rv + 1, !.gen = 1, !.spec = spec]
  <2>1. policy' = new
    BY <1>2, Zenon DEF CreatePolicy, UserWrites
  <2>2. new \in PolicyType
    <3>1. spec \in SpecType /\ TRUE \in BOOLEAN /\ 1 \in Nat
      OBVIOUS
    <3>2. QED
      BY <1>1, <3>1, NoPolicyTyped, Zenon DEF PolicyType
  <2>3. new.rv = policy.rv + 1 /\ new.uid = policy.uid + 1
    BY DEF NoPolicy
  <2> HIDE DEF new
  <2>4. QED
    BY <1>1, <2>1, <2>2, <2>3 DEF PolicyMoves, Upto
<1>3. ASSUME NEW spec \in Specs, EditPolicy(spec) PROVE policy' \in PolicyType /\ PolicyMoves
  <2> DEFINE new == [policy EXCEPT !.spec = spec, !.gen = @ + 1, !.rv = @ + 1]
  <2>1. policy' = new
    BY <1>3, Zenon DEF EditPolicy, UserWrites
  <2>2. new \in PolicyType
    <3>1. spec \in SpecType
      OBVIOUS
    <3>2. QED
      BY <1>1, <3>1, Zenon DEF PolicyType
  <2>3. new.rv = policy.rv + 1 /\ new.uid = policy.uid /\ new.gen = policy.gen + 1
    BY <1>1 DEF PolicyType
  <2> HIDE DEF new
  <2>4. QED
    BY <1>1, <2>1, <2>2, <2>3 DEF PolicyMoves, Upto
<1>4. ASSUME DeletePolicy, policy.fin PROVE policy' \in PolicyType /\ PolicyMoves
  <2> DEFINE new == [policy EXCEPT !.deleting = TRUE, !.gen = @ + 1, !.rv = @ + 1]
  <2>1. policy' = new
    BY <1>4, Zenon DEF DeletePolicy, UserWrites
  <2>2. new \in PolicyType
    <3>1. TRUE \in BOOLEAN
      OBVIOUS
    <3>2. QED
      BY <1>1, <3>1, Zenon DEF PolicyType
  <2>3. new.rv = policy.rv + 1 /\ new.uid = policy.uid /\ new.gen = policy.gen + 1
    BY <1>1 DEF PolicyType
  <2> HIDE DEF new
  <2>4. QED
    BY <1>1, <2>1, <2>2, <2>3 DEF PolicyMoves, Upto
<1>5. ASSUME DeletePolicy, ~policy.fin PROVE policy' \in PolicyType /\ PolicyMoves
  BY <1>5, GonePolicyMoves DEF DeletePolicy, UserWrites
<1>6. QED
  BY <1>2, <1>3, <1>4, <1>5 DEF UserStep

LEMMA StatusMoves ==
  ASSUME TypeOK, Copies, pw.pc # "idle", NEW new \in PolicyType, new.uid = pw.pol.uid,
         new.gen = pw.pol.gen, UpdatePolicyAndStop(Stored(new, policy))
  PROVE  policy' \in PolicyType /\ PolicyMoves
<1>1. policy \in PolicyType /\ policy.rv + 1 \in Nat /\ policy.uid \in Nat
      /\ policy.gen \in Nat
  BY TypedFacts
<1>2. CASE ~CanWrite(pw.pol, policy)
  BY <1>1, <1>2 DEF UpdatePolicyAndStop, PolicyMoves
<1>3. CASE CanWrite(pw.pol, policy)
  <2>1. policy' = Stored(new, policy)
    BY <1>3 DEF UpdatePolicyAndStop
  <2>2. CASE new = policy
    BY <1>1, <2>1, <2>2 DEF Stored, PolicyMoves
  <2>3. CASE new # policy
    <3> DEFINE next == [new EXCEPT !.rv = policy.rv + 1]
    <3>1. policy' = next
      BY <2>1, <2>3 DEF Stored
    <3>2. /\ next \in PolicyType /\ next.rv = policy.rv + 1 /\ next.uid = pw.pol.uid
          /\ next.gen = pw.pol.gen
      BY <1>1 DEF PolicyType
    <3>3. pw.pol = policy
      BY <1>3 DEF Copies, Follows, CanWrite
    <3> HIDE DEF next
    <3>4. QED
      BY <1>1, <3>1, <3>2, <3>3 DEF PolicyMoves, Upto
  <2>4. QED
    BY <2>2, <2>3
<1>4. QED
  BY <1>2, <1>3

LEMMA PolicyStepMoves ==
  ASSUME TypeOK, Copies, PolicyWorkerStep
  PROVE  policy' \in PolicyType /\ PolicyMoves
<1>1. pw.pol \in PolicyType /\ policy \in PolicyType /\ pw.pol.spec.type \in Types
      /\ pw.pol.gen \in Nat
  BY TypedFacts
<1>2. CASE AddFinalizer
  <2>1. /\ [pw.pol EXCEPT !.fin = TRUE] \in PolicyType
        /\ [pw.pol EXCEPT !.fin = TRUE].uid = pw.pol.uid
        /\ [pw.pol EXCEPT !.fin = TRUE].gen = pw.pol.gen
    BY <1>1 DEF PolicyType
  <2>2. QED
    BY <1>2, <2>1, StatusMoves DEF AddFinalizer, Wanted
<1>3. CASE SetOwner
  <2>0. pw.pol.owners \cup {pw.pol.spec.type} \in SUBSET Types
    BY <1>1 DEF PolicyType
  <2>1. [pw.pol EXCEPT !.owners = @ \cup {pw.pol.spec.type}]
          = [pw.pol EXCEPT !.owners = pw.pol.owners \cup {pw.pol.spec.type}]
    OBVIOUS
  <2>2. [pw.pol EXCEPT !.owners = @ \cup {pw.pol.spec.type}] \in PolicyType
    BY <1>1, <2>0, <2>1, Zenon DEF PolicyType
  <2>3. /\ [pw.pol EXCEPT !.owners = @ \cup {pw.pol.spec.type}].uid = pw.pol.uid
        /\ [pw.pol EXCEPT !.owners = @ \cup {pw.pol.spec.type}].gen = pw.pol.gen
    BY <1>1 DEF PolicyType
  <2>4. QED
    BY <1>3, <2>2, <2>3, StatusMoves DEF SetOwner, Wanted
<1>4. CASE UpdateStatus
  <2>1. /\ [pw.pol EXCEPT !.obsGen = pw.pol.gen] \in PolicyType
        /\ [pw.pol EXCEPT !.obsGen = pw.pol.gen].uid = pw.pol.uid
        /\ [pw.pol EXCEPT !.obsGen = pw.pol.gen].gen = pw.pol.gen
    BY <1>1 DEF PolicyType
  <2>2. QED
    BY <1>4, <2>1, StatusMoves DEF UpdateStatus
<1>5. CASE RemoveFinalizer
  <2>1. policy' = policy \/ policy' = GonePolicy(policy)
    BY <1>5 DEF RemoveFinalizer, UpdatePolicyAndStop
  <2>2. QED
    BY <1>1, <2>1, GonePolicyMoves DEF PolicyMoves
<1>6. CASE ~(AddFinalizer \/ SetOwner \/ UpdateStatus \/ RemoveFinalizer)
  <2>1. policy' = policy
    BY <1>6
    DEF PolicyWorkerStep, PolicyGet, ToolNotFound, BeginCleanup, RejectInvalid,
        BeginReconcile, FalcoStep, LitmusStep, ListReports, DeleteListedReport,
        DisabledDone, UpsertCreate, UpsertNothing, UpsertUpdate, CreateConfigMap,
        KeepConfigMap, UpdateConfigMap, NoConfigMapFound, DeleteConfigMap,
        CreateChaosEngine, KeepChaosEngine, UpdateChaosEngine, RewriteChaosEngine,
        WriteChaosEngine, ReconciledAll, LitmusCleanupPanics, CleanedEngines,
        ListChaosEngines, DeleteChaosEngine, OnlyPolicyWorker, PolicyWorkerKeeps,
        EngineKeeps
  <2>2. QED
    BY <1>1, <2>1 DEF PolicyMoves
<1>7. QED
  BY <1>2, <1>3, <1>4, <1>5, <1>6

LEMMA PolicySteps ==
  ASSUME TypeOK, Copies, [Next]_vars
  PROVE  policy' \in PolicyType /\ PolicyMoves
<1>1. CASE policy' = policy
  BY <1>1, TypedFacts DEF PolicyMoves
<1>2. QED
  BY <1>1, UserMoves, PolicyStepMoves, ClusterLeaves, ReportWorkerLeaves, FaultLeaves
  DEF Next, vars, clusterVars
-----------------------------------------------------------------------------
(***************************************************************************)
(* What a step does to a report.                                           *)
(***************************************************************************)
Blank(r) ==
  r.uid = 0 /\ r.gen = 0 /\ ~r.done /\ r.forUid = 0 /\ r.forGen = 0

SameResult(r, s) == r.done = s.done /\ r.forUid = s.forUid /\ r.forGen = s.forGen

\* The policy worker creates it, or asks it for the version it reconciles.
Asked(t) ==
  /\ pw.pc # "idle"
  /\ reports'[t].live
  /\ reports'[t].uid = pw.pol.uid /\ reports'[t].gen = pw.pol.gen
  /\ IF reports[t].live THEN SameResult(reports'[t], reports[t])
     ELSE SameResult(reports'[t], NoReport)

Vanished(t) == reports[t].live /\ ~reports'[t].live /\ Blank(reports'[t])

\* The report worker completes it from the Policy in the cache.
Completed(t) ==
  /\ rw.pc # "idle" /\ rw.rep = reports[t]
  /\ reports[t].live /\ reports'[t].live
  /\ reports'[t].uid = reports[t].uid /\ reports'[t].gen = reports[t].gen
  /\ reports'[t].done
  /\ reports'[t].forUid = policyCache.uid /\ reports'[t].forGen = policyCache.gen

ReportMoves(t) ==
  \/ reports'[t] = reports[t]
  \/ /\ reports'[t].rv = reports[t].rv + 1
     /\ Asked(t) \/ Vanished(t) \/ Completed(t)

LEMMA NoReportTyped == NoReport \in ReportType /\ Blank(NoReport) /\ ~NoReport.live
BY DEF NoReport, ReportType, Blank

\* One report is written and the other stays.
LEMMA OneReport ==
  ASSUME TypeOK, NEW u \in Types, NEW new \in ReportType,
         reports' = [reports EXCEPT ![u] = new], ReportMoves(u)
  PROVE  reports' \in [Types -> ReportType] /\ \A t \in Types : ReportMoves(t)
<1>1. reports \in [Types -> ReportType]
  BY TypedFacts
<1>2. reports' \in [Types -> ReportType]
  BY <1>1
<1>3. ASSUME NEW t \in Types, t # u PROVE ReportMoves(t)
  BY <1>1, <1>3 DEF ReportMoves
<1>4. QED
  BY <1>2, <1>3

LEMMA GoneReport ==
  ASSUME TypeOK, NEW u \in Types, reports[u].live,
         reports' = [reports EXCEPT ![u] = Gone(NoReport, reports[u])]
  PROVE  reports' \in [Types -> ReportType] /\ \A t \in Types : ReportMoves(t)
<1> DEFINE new == Gone(NoReport, reports[u])
<1>1. reports \in [Types -> ReportType] /\ reports[u].rv + 1 \in Nat
  BY TypedFacts
<1>2. /\ new \in ReportType /\ new.rv = reports[u].rv + 1 /\ ~new.live /\ Blank(new)
  BY <1>1 DEF Gone, NoReport, ReportType, Blank
<1>w. reports' = [reports EXCEPT ![u] = new]
  OBVIOUS
<1> HIDE DEF new
<1>3. reports'[u] = new
  BY <1>1, <1>w
<1>4. ReportMoves(u)
  BY <1>2, <1>3 DEF ReportMoves, Vanished
<1>5. QED
  BY <1>2, <1>4, <1>w, OneReport

LEMMA UpsertMoves ==
  ASSUME TypeOK, Copies, UpsertCreate \/ UpsertUpdate
  PROVE  reports' \in [Types -> ReportType] /\ \A t \in Types : ReportMoves(t)
<1>1. /\ reports \in [Types -> ReportType] /\ type \in Types
      /\ reports[type] \in ReportType /\ reportCache[type] \in ReportType
      /\ reports[type].rv + 1 \in Nat /\ pw.pol.uid \in Nat /\ pw.pol.gen \in Nat
      /\ reportCache[type].rv + 1 \in Nat
  BY TypedFacts DEF type
<1>2. CASE UNCHANGED reports
  BY <1>1, <1>2 DEF ReportMoves
<1>3. CASE UpsertCreate /\ ~reports[type].live
  <2> DEFINE new == [NoReport EXCEPT !.live = TRUE, !.rv = reports[type].rv + 1,
                                     !.uid = pw.pol.uid, !.gen = pw.pol.gen]
  <2>1. reports' = [reports EXCEPT ![type] = new] /\ pw.pc # "idle"
    BY <1>3, Zenon DEF UpsertCreate
  <2>2. new \in ReportType
    <3>1. TRUE \in BOOLEAN
      OBVIOUS
    <3>2. QED
      BY <1>1, <3>1, NoReportTyped, Zenon DEF ReportType
  <2>3. /\ new.rv = reports[type].rv + 1 /\ new.live /\ new.uid = pw.pol.uid
        /\ new.gen = pw.pol.gen /\ SameResult(new, NoReport)
    BY DEF NoReport, SameResult
  <2> HIDE DEF new
  <2>4. reports'[type] = new
    BY <1>1, <2>1
  <2>5. ReportMoves(type)
    BY <1>3, <2>1, <2>3, <2>4 DEF ReportMoves, Asked
  <2>6. QED
    BY <1>1, <2>1, <2>2, <2>5, OneReport
<1>4. CASE UpsertUpdate /\ CanWrite(reportCache[type], reports[type])
  <2> DEFINE new == [reportCache[type] EXCEPT !.uid = pw.pol.uid, !.gen = pw.pol.gen,
                                              !.rv = @ + 1]
  <2>1. reports' = [reports EXCEPT ![type] = new] /\ pw.pc # "idle"
    BY <1>4, Zenon DEF UpsertUpdate
  <2>2. reportCache[type] = reports[type] /\ reports[type].live
    BY <1>1, <1>4 DEF CanWrite, Copies, Follows
  <2>3. new \in ReportType
    BY <1>1, Zenon DEF ReportType
  <2>4. /\ new.rv = reports[type].rv + 1 /\ new.live /\ new.uid = pw.pol.uid
        /\ new.gen = pw.pol.gen /\ SameResult(new, reports[type])
    BY <1>1, <2>2 DEF ReportType, SameResult
  <2> HIDE DEF new
  <2>5. reports'[type] = new
    BY <1>1, <2>1
  <2>6. ReportMoves(type)
    BY <2>1, <2>2, <2>4, <2>5 DEF ReportMoves, Asked
  <2>7. QED
    BY <1>1, <2>1, <2>3, <2>6, OneReport
<1>5. QED
  BY <1>2, <1>3, <1>4 DEF UpsertCreate, UpsertUpdate

LEMMA ResultMoves ==
  ASSUME TypeOK, Copies, rw.pc # "idle", NEW verdict \in {"Pass", "Fail"},
         WriteResult(policyCache, verdict)
  PROVE  reports' \in [Types -> ReportType] /\ \A t \in Types : ReportMoves(t)
<1> DEFINE u == rw.type
           new == [rw.rep EXCEPT !.done = TRUE, !.verdict = verdict, !.rv = @ + 1,
                                 !.forUid = policyCache.uid, !.forGen = policyCache.gen]
<1>1. /\ reports \in [Types -> ReportType] /\ u \in Types /\ rw.rep \in ReportType
      /\ rw.rep.rv + 1 \in Nat /\ policyCache.uid \in Nat /\ policyCache.gen \in Nat
      /\ reports[u] \in ReportType
  BY TypedFacts
<1>2. CASE UNCHANGED reports
  BY <1>1, <1>2 DEF ReportMoves
<1>3. CASE CanWrite(rw.rep, reports[u]) /\ reports' = [reports EXCEPT ![u] = new]
  <2>1. rw.rep = reports[u] /\ reports[u].live
    BY <1>1, <1>3 DEF CanWrite, Copies, Follows
  <2>2. new \in ReportType
    <3>1. TRUE \in BOOLEAN /\ verdict \in {"", "Pass", "Fail"}
      OBVIOUS
    <3>2. QED
      BY <1>1, <3>1, Zenon DEF ReportType
  <2>3. /\ new.rv = reports[u].rv + 1 /\ new.live /\ new.uid = reports[u].uid
        /\ new.gen = reports[u].gen /\ new.done /\ new.forUid = policyCache.uid
        /\ new.forGen = policyCache.gen
    BY <1>1, <2>1 DEF ReportType
  <2> HIDE DEF new
  <2>4. reports'[u] = new
    BY <1>1, <1>3
  <2>5. ReportMoves(u)
    BY <2>1, <2>3, <2>4 DEF ReportMoves, Completed
  <2> HIDE DEF u
  <2>6. QED
    BY <1>1, <1>3, <2>2, <2>5, OneReport
<1>4. QED
  BY <1>2, <1>3, Zenon DEF WriteResult

LEMMA ReportSteps ==
  ASSUME TypeOK, Copies, [Next]_vars
  PROVE  reports' \in [Types -> ReportType] /\ \A t \in Types : ReportMoves(t)
<1> DEFINE Goal == reports' \in [Types -> ReportType] /\ \A t \in Types : ReportMoves(t)
<1>1. CASE UNCHANGED reports
  BY <1>1, TypedFacts DEF ReportMoves
<1>2. CASE PolicyWorkerStep
  <2>1. CASE UpsertCreate \/ UpsertUpdate
    BY <2>1, UpsertMoves
  <2>2. ASSUME NEW t \in Types, DeleteListedReport(t) PROVE Goal
    BY <1>1, <2>2, GoneReport DEF DeleteListedReport
  <2>3. CASE ~(UpsertCreate \/ UpsertUpdate \/ \E t \in Types : DeleteListedReport(t))
    <3>1. UNCHANGED reports
      BY <1>2, <2>3
      DEF PolicyWorkerStep, PolicyGet, ToolNotFound, AddFinalizer, SetOwner, BeginCleanup,
          RejectInvalid, BeginReconcile, FalcoStep, LitmusStep, ListReports,
          DisabledDone, RemoveFinalizer, UpsertNothing, UpdateStatus,
          UpdatePolicyAndStop, CreateConfigMap, KeepConfigMap,
          UpdateConfigMap, NoConfigMapFound, DeleteConfigMap, CreateChaosEngine,
          KeepChaosEngine, UpdateChaosEngine, RewriteChaosEngine, WriteChaosEngine,
          ReconciledAll, LitmusCleanupPanics, CleanedEngines, ListChaosEngines,
          DeleteChaosEngine, OnlyPolicyWorker, PolicyWorkerKeeps, EngineKeeps
    <3>2. QED
      BY <1>1, <3>1
  <2>4. QED
    BY <2>1, <2>2, <2>3
<1>3. CASE ReportWorkerStep
  <2>1. CASE FalcoHandle
    <3>1. PICK eventCount \in 0..4 :
            WriteResult(policyCache, IF eventCount > 0 THEN "Fail" ELSE "Pass")
      BY <2>1 DEF FalcoHandle
    <3>2. (IF eventCount > 0 THEN "Fail" ELSE "Pass") \in {"Pass", "Fail"} /\ rw.pc # "idle"
      BY <2>1 DEF FalcoHandle
    <3>3. QED
      BY <3>1, <3>2, ResultMoves
  <2>2. CASE LitmusHandle
    BY <2>2, ResultMoves DEF LitmusHandle
  <2>3. CASE DeleteOrphan
    BY <1>1, <2>3, GoneReport, TypedFacts DEF DeleteOrphan
  <2>4. QED
    BY <1>1, <1>3, <2>1, <2>2, <2>3
    DEF ReportWorkerStep, ReportGet, PolicyFound, FalcoHandleFails, LitmusHandleFails
<1>4. QED
  BY <1>1, <1>2, <1>3, UserLeaves, ClusterLeaves, FaultLeaves DEF Next, vars, clusterVars
-----------------------------------------------------------------------------
(***************************************************************************)
(* What a step does to the workers.                                        *)
(***************************************************************************)
PolicyHeld ==
  \/ pw' = IdlePolicyWorker
  \/ /\ pw.pc = "idle" /\ pw'.pc # "idle"
     /\ pw'.pol = policyCache /\ pw'.exps = pw.exps
     /\ UNCHANGED <<policy, reports, policyCache>>
  \/ /\ pw'.pol = pw.pol
     /\ pw'.exps \subseteq pw.exps \/ pw'.exps = Listed(pw.pol.spec)
     /\ pw.pc = "idle" \/ pw'.pc = "idle" => pw' = pw

LEMMA IdleTyped ==
  /\ IdlePolicyWorker \in PolicyWorkerType
  /\ IdleReportWorker \in ReportWorkerType
BY NoPolicyTyped, NoReportTyped
DEF IdlePolicyWorker, IdleReportWorker, PolicyWorkerType, ReportWorkerType, PolicyPCs,
    Types

LEMMA SpacesTyped ==
  ASSUME NEW spec \in SpecType
  PROVE  /\ SpacesOf(spec) \subseteq Namespaces
         /\ Listed(spec) \subseteq Experiments
         /\ \A e \in Listed(spec) : /\ SlotOf(spec, e) \in Slots
                                    /\ spec.litmus[e].app \in Apps
<1>1. ASSUME NEW e \in Listed(spec) PROVE e \in Experiments /\ spec.litmus[e] \in ExperimentType
  BY DEF Listed, SpecType
<1>2. \A e \in Listed(spec) : spec.litmus[e].ns \in Namespaces /\ spec.litmus[e].app \in Apps
  BY <1>1 DEF ExperimentType
<1>3. QED
  BY <1>1, <1>2 DEF SpacesOf, SlotOf, Slots

\* What the policy worker writes on its slate.
Slate(w, pc, pol, exps) ==
  w \in PolicyWorkerType /\ w.pc = pc /\ w.pol = pol /\ w.exps = exps

LEMMA Slates ==
  ASSUME TypeOK
  PROVE  /\ \A pc \in PolicyPCs :
              /\ Slate([pw EXCEPT !.pc = pc], pc, pw.pol, pw.exps)
              /\ \A pol \in PolicyType :
                   Slate([pw EXCEPT !.pc = pc, !.pol = pol], pc, pol, pw.exps)
              /\ \A spaces \in SUBSET Namespaces :
                   Slate([pw EXCEPT !.pc = pc, !.spaces = spaces], pc, pw.pol, pw.exps)
              /\ \A exps \in SUBSET Experiments :
                   Slate([pw EXCEPT !.pc = pc, !.exps = exps], pc, pw.pol, exps)
              /\ \A reps \in SUBSET Types :
                   Slate([pw EXCEPT !.pc = pc, !.reps = reps], pc, pw.pol, pw.exps)
         /\ \A spaces \in SUBSET Namespaces, doomed \in SUBSET Slots :
              Slate([pw EXCEPT !.spaces = spaces, !.doomed = doomed], pw.pc, pw.pol, pw.exps)
         /\ \A exps \in SUBSET Experiments :
              Slate([pw EXCEPT !.exps = exps], pw.pc, pw.pol, exps)
         /\ \A doomed \in SUBSET Slots :
              Slate([pw EXCEPT !.doomed = doomed], pw.pc, pw.pol, pw.exps)
         /\ \A reps \in SUBSET Types :
              Slate([pw EXCEPT !.reps = reps], pw.pc, pw.pol, pw.exps)
<1>1. pw \in PolicyWorkerType
  BY DEF TypeOK, EngineTypeOK
<1>2. ASSUME NEW pc \in PolicyPCs, NEW pol \in PolicyType, NEW exps \in SUBSET Experiments,
             NEW spaces \in SUBSET Namespaces, NEW doomed \in SUBSET Slots,
             NEW reps \in SUBSET Types
      PROVE  /\ [pw EXCEPT !.pc = pc] \in PolicyWorkerType
             /\ [pw EXCEPT !.pc = pc, !.pol = pol] \in PolicyWorkerType
             /\ [pw EXCEPT !.pc = pc, !.spaces = spaces] \in PolicyWorkerType
             /\ [pw EXCEPT !.pc = pc, !.exps = exps] \in PolicyWorkerType
             /\ [pw EXCEPT !.pc = pc, !.reps = reps] \in PolicyWorkerType
             /\ [pw EXCEPT !.spaces = spaces, !.doomed = doomed] \in PolicyWorkerType
             /\ [pw EXCEPT !.exps = exps] \in PolicyWorkerType
             /\ [pw EXCEPT !.doomed = doomed] \in PolicyWorkerType
             /\ [pw EXCEPT !.reps = reps] \in PolicyWorkerType
  BY <1>1, Zenon DEF PolicyWorkerType
<1>3. ASSUME NEW pc \in PolicyPCs
      PROVE  /\ Slate([pw EXCEPT !.pc = pc], pc, pw.pol, pw.exps)
             /\ \A pol \in PolicyType :
                  Slate([pw EXCEPT !.pc = pc, !.pol = pol], pc, pol, pw.exps)
             /\ \A spaces \in SUBSET Namespaces :
                  Slate([pw EXCEPT !.pc = pc, !.spaces = spaces], pc, pw.pol, pw.exps)
             /\ \A exps \in SUBSET Experiments :
                  Slate([pw EXCEPT !.pc = pc, !.exps = exps], pc, pw.pol, exps)
             /\ \A reps \in SUBSET Types :
                  Slate([pw EXCEPT !.pc = pc, !.reps = reps], pc, pw.pol, pw.exps)
  <2>1. Slate([pw EXCEPT !.pc = pc], pc, pw.pol, pw.exps)
    BY <1>1 DEF PolicyWorkerType, Slate
  <2>2. ASSUME NEW pol \in PolicyType
        PROVE  Slate([pw EXCEPT !.pc = pc, !.pol = pol], pc, pol, pw.exps)
    BY <1>1 DEF PolicyWorkerType, Slate
  <2>3. ASSUME NEW spaces \in SUBSET Namespaces
        PROVE  Slate([pw EXCEPT !.pc = pc, !.spaces = spaces], pc, pw.pol, pw.exps)
    BY <1>1 DEF PolicyWorkerType, Slate
  <2>4. ASSUME NEW exps \in SUBSET Experiments
        PROVE  Slate([pw EXCEPT !.pc = pc, !.exps = exps], pc, pw.pol, exps)
    BY <1>1 DEF PolicyWorkerType, Slate
  <2>5. ASSUME NEW reps \in SUBSET Types
        PROVE  Slate([pw EXCEPT !.pc = pc, !.reps = reps], pc, pw.pol, pw.exps)
    BY <1>1 DEF PolicyWorkerType, Slate
  <2>6. QED
    BY <2>1, <2>2, <2>3, <2>4, <2>5
<1>4. ASSUME NEW spaces \in SUBSET Namespaces, NEW doomed \in SUBSET Slots
      PROVE  Slate([pw EXCEPT !.spaces = spaces, !.doomed = doomed], pw.pc, pw.pol, pw.exps)
  BY <1>1 DEF PolicyWorkerType, Slate
<1>5. /\ \A exps \in SUBSET Experiments :
           Slate([pw EXCEPT !.exps = exps], pw.pc, pw.pol, exps)
      /\ \A doomed \in SUBSET Slots :
           Slate([pw EXCEPT !.doomed = doomed], pw.pc, pw.pol, pw.exps)
      /\ \A reps \in SUBSET Types :
           Slate([pw EXCEPT !.reps = reps], pw.pc, pw.pol, pw.exps)
  BY <1>1 DEF PolicyWorkerType, Slate
<1>6. QED
  BY <1>3, <1>4, <1>5

LEMMA PolicyWorkerSteps ==
  ASSUME TypeOK, PolicyWorkerStep
  PROVE  pw' \in PolicyWorkerType /\ PolicyHeld
<1> DEFINE Goal == pw' \in PolicyWorkerType /\ PolicyHeld
<1>t. /\ pw.pol \in PolicyType /\ policyCache \in PolicyType /\ pw.pol.spec \in SpecType
      /\ pw.pc \in PolicyPCs /\ pw.exps \in SUBSET Experiments
      /\ pw.spaces \in SUBSET Namespaces /\ pw.doomed \in SUBSET Slots
      /\ pw.reps \in SUBSET Types /\ pw \in PolicyWorkerType
  BY DEF TypeOK, EngineTypeOK, PolicyWorkerType, PolicyType
<1>i. CASE PolicyDone \/ PolicyRetry
  BY <1>i, IdleTyped DEF PolicyDone, PolicyRetry, PolicyHeld
<1>p. /\ {"tool", "cleanup", "list", "reports", "reconcile", "upsert", "status"}
           \subseteq PolicyPCs
      /\ IdlePolicyWorker.pc = "idle"
  BY DEF PolicyPCs, IdlePolicyWorker
<1>k. ASSUME NEW new, NEW pc, NEW exps, Slate(new, pc, pw.pol, exps), PolicyGoes(new),
             pw.pc # "idle", pc # "idle",
             exps \subseteq pw.exps \/ exps = Listed(pw.pol.spec)
      PROVE  Goal
  BY <1>k DEF PolicyGoes, PolicyHeld, Slate
<1>c. ASSUME NEW pc \in PolicyPCs \ {"idle"}, pw.pc # "idle", PolicyGoes([pw EXCEPT !.pc = pc])
      PROVE  Goal
  <2>1. Slate([pw EXCEPT !.pc = pc], pc, pw.pol, pw.exps)
    BY Slates
  <2>2. QED
    BY <1>c, <1>k, <2>1
<1>1. CASE PolicyGet
  <2>1. CASE policyCache.live
    <3>1. pw.pc = "idle" /\ pw' = [pw EXCEPT !.pc = "tool", !.pol = policyCache]
      BY <1>1, <2>1 DEF PolicyGet
    <3>2. UNCHANGED <<policy, reports, policyCache>>
      BY <1>1 DEF PolicyGet, OnlyPolicyWorker, PolicyWorkerKeeps, caches
    <3>3. Slate([pw EXCEPT !.pc = "tool", !.pol = policyCache], "tool", policyCache, pw.exps)
      BY <1>t, <1>p, Slates
    <3>4. QED
      BY <3>1, <3>2, <3>3 DEF PolicyHeld, Slate
  <2>2. CASE ~policyCache.live
    BY <1>1, <2>2, IdleTyped DEF PolicyGet, PolicyHeld
  <2>3. QED
    BY <2>1, <2>2
<1>2. CASE \/ ToolNotFound \/ AddFinalizer \/ SetOwner \/ RejectInvalid \/ DisabledDone
           \/ RemoveFinalizer \/ UpdateStatus \/ LitmusCleanupPanics
  BY <1>2, <1>i
  DEF ToolNotFound, AddFinalizer, SetOwner, RejectInvalid, DisabledDone, RemoveFinalizer,
      UpdateStatus, LitmusCleanupPanics, UpdatePolicyAndStop
<1>3. CASE BeginCleanup
  <2>1. Slate([pw EXCEPT !.pc = "cleanup", !.spaces = SpacesOf(pw.pol.spec)],
              "cleanup", pw.pol, pw.exps)
    BY <1>t, <1>p, Slates, SpacesTyped
  <2>2. QED
    BY <1>3, <1>k, <2>1 DEF BeginCleanup, Owned, Wanted
<1>4. CASE BeginReconcile
  <2>1. Slate([pw EXCEPT !.pc = "reconcile", !.exps = Listed(pw.pol.spec)],
              "reconcile", pw.pol, Listed(pw.pol.spec))
    BY <1>t, <1>p, Slates, SpacesTyped
  <2>2. QED
    BY <1>4, <1>k, <2>1 DEF BeginReconcile, Owned, Wanted
<1>5. CASE ListReports
  <2> DEFINE reps == {t \in Types : reportCache[t].live}
  <2>1. Slate([pw EXCEPT !.pc = "reports", !.reps = reps], "reports", pw.pol, pw.exps)
    <3>1. reps \in SUBSET Types
      OBVIOUS
    <3> HIDE DEF reps
    <3>2. QED
      BY <1>t, <1>p, <3>1, Slates
  <2>2. QED
    BY <1>5, <1>k, <2>1 DEF ListReports
<1>6. ASSUME NEW t \in Types, DeleteListedReport(t) PROVE Goal
  <2>1. ASSUME NEW reps \in SUBSET Types
        PROVE  Slate([pw EXCEPT !.reps = reps], pw.pc, pw.pol, pw.exps)
    BY <1>t, <1>p, Slates
  <2>2. pw.reps \ {t} \in SUBSET Types /\ Missing(pw.reps, t) \in SUBSET Types
    BY <1>t DEF Missing, FalcoSkipsAfterMissing, LitmusSkipsAfterMissing
  <2>3. PICK reps \in SUBSET Types : PolicyGoes([pw EXCEPT !.reps = reps])
    BY <1>6, <2>2 DEF DeleteListedReport
  <2>4. QED
    BY <1>6, <1>k, <2>1, <2>3 DEF DeleteListedReport
<1>7. CASE UpsertCreate \/ UpsertNothing \/ UpsertUpdate
  <2>1. PolicyRetry \/ (PolicyGoes([pw EXCEPT !.pc = "status"]) /\ pw.pc # "idle")
    BY <1>7 DEF UpsertCreate, UpsertNothing, UpsertUpdate, Upserted
  <2>2. QED
    BY <1>c, <1>i, <1>p, <2>1
<1>8. CASE FalcoStep
  <2>1. \/ PolicyRetry
        \/ pw.pc # "idle" /\ PolicyGoes([pw EXCEPT !.pc = "upsert"])
        \/ pw.pc # "idle" /\ PolicyGoes([pw EXCEPT !.pc = "list"])
    BY <1>8
    DEF FalcoStep, CreateConfigMap, KeepConfigMap, UpdateConfigMap,
        NoConfigMapFound, DeleteConfigMap, FalcoTurn, CachedConfigMap
  <2>2. QED
    BY <1>c, <1>i, <1>p, <2>1
<1>9. ASSUME NEW e \in Experiments,
             CreateChaosEngine(e) \/ KeepChaosEngine(e) \/ UpdateChaosEngine(e)
             \/ RewriteChaosEngine(e)
      PROVE  Goal
  <2>1. PolicyRetry \/ (PolicyGoes([pw EXCEPT !.exps = @ \ {e}]) /\ pw.pc # "idle")
    BY <1>9
    DEF CreateChaosEngine, KeepChaosEngine, UpdateChaosEngine, RewriteChaosEngine,
        WriteChaosEngine, AtExperiment, LitmusTurn, Reached
  <2>2. Slate([pw EXCEPT !.exps = pw.exps \ {e}], pw.pc, pw.pol, pw.exps \ {e})
    <3>1. pw.exps \ {e} \in SUBSET Experiments
      BY <1>t
    <3>2. QED
      BY <1>t, <1>p, <3>1, Slates
  <2>3. QED
    BY <1>i, <1>k, <2>1, <2>2
<1>10. CASE ReconciledAll \/ CleanedEngines
  BY <1>10, <1>c, <1>p DEF ReconciledAll, CleanedEngines, LitmusTurn
<1>11. ASSUME NEW n \in Namespaces, ListChaosEngines(n) PROVE Goal
  <2> DEFINE doomed == {<<e, n>> : e \in {f \in Experiments : engineCache[f, n].live}}
             new == [pw EXCEPT !.spaces = pw.spaces \ {n}, !.doomed = doomed]
  <2>1. doomed \in SUBSET Slots /\ pw.spaces \ {n} \in SUBSET Namespaces
    <3>1. \A e \in Experiments : <<e, n>> \in Slots
      BY DEF Slots
    <3>2. doomed \subseteq Slots
      BY <3>1, Zenon
    <3>3. QED
      BY <1>t, <3>2
  <2>2. PolicyGoes(new) /\ pw.pc # "idle"
    BY <1>11 DEF ListChaosEngines, LitmusTurn
  <2>3. Slate(new, pw.pc, pw.pol, pw.exps)
    <3> HIDE DEF doomed
    <3>1. QED
      BY <1>t, <1>p, <2>1, Slates
  <2> HIDE DEF new
  <2>4. QED
    BY <1>k, <2>2, <2>3
<1>12. ASSUME NEW x \in Slots, DeleteChaosEngine(x) PROVE Goal
  <2>1. PolicyGoes([pw EXCEPT !.doomed = pw.doomed \ {x}]) /\ pw.pc # "idle"
    BY <1>12 DEF DeleteChaosEngine, LitmusTurn
  <2>2. Slate([pw EXCEPT !.doomed = pw.doomed \ {x}], pw.pc, pw.pol, pw.exps)
    <3>1. pw.doomed \ {x} \in SUBSET Slots
      BY <1>t
    <3>2. QED
      BY <1>t, <1>p, <3>1, Slates
  <2>3. QED
    BY <1>k, <2>1, <2>2
<1>13. QED
  BY <1>1, <1>2, <1>3, <1>4, <1>5, <1>6, <1>7, <1>8, <1>9, <1>10, <1>11, <1>12
  DEF PolicyWorkerStep, LitmusStep

LEMMA PolicyHands ==
  ASSUME TypeOK, [Next]_vars
  PROVE  pw' \in PolicyWorkerType /\ PolicyHeld
<1>1. CASE pw' = pw
  BY <1>1 DEF PolicyHeld, TypeOK, EngineTypeOK
<1>2. CASE Fault
  BY <1>1, <1>2, IdleTyped
  DEF Fault, PolicyCallFails, PolicyRetry, ReportCallFails, Restart, ReportWorkerKeeps,
      PolicyHeld
<1>3. CASE Resync
  BY <1>1, <1>3 DEF Resync
<1>4. QED
  BY <1>1, <1>2, <1>3, PolicyWorkerSteps, UserLeaves, ClusterLeaves, ReportWorkerLeaves
  DEF Next, vars, clusterVars

\* The report worker drops its report, keeps it, or takes an unfinished one.
ReportHeld ==
  \/ rw'.pc = "idle"
  \/ /\ rw'.rep = reportCache[rw'.type] /\ rw'.type \in Types /\ ~rw'.rep.done
     /\ UNCHANGED <<reports, reportCache>>
  \/ rw.pc # "idle" /\ rw'.rep = rw.rep /\ rw'.type = rw.type

LEMMA ReportHands ==
  ASSUME TypeOK, [Next]_vars
  PROVE  rw' \in ReportWorkerType /\ ReportHeld
<1> DEFINE Goal == rw' \in ReportWorkerType /\ ReportHeld
<1>1. CASE rw' = rw
  BY <1>1 DEF ReportHeld, TypeOK, EngineTypeOK
<1>2. CASE rw' = IdleReportWorker
  <2>1. IdleReportWorker.pc = "idle"
    BY DEF IdleReportWorker
  <2>2. QED
    BY <1>2, <2>1, IdleTyped DEF ReportHeld
<1>3. CASE ReportWorkerStep
  <2>1. ASSUME NEW t \in Types, ReportGet(t), reportCache[t].live /\ ~reportCache[t].done
        PROVE  Goal
    <3>1. rw' = [pc |-> "policy", type |-> t, rep |-> reportCache[t]]
      BY <2>1 DEF ReportGet
    <3>2. UNCHANGED <<reports, reportCache>>
      BY <2>1 DEF ReportGet, ReportWorkerKeeps, caches
    <3>3. rw'.pc = "policy" /\ rw'.type = t /\ rw'.rep = reportCache[t]
      BY <3>1
    <3>4. QED
      BY <2>1, <3>1, <3>2, <3>3, TypedFacts DEF ReportHeld, ReportWorkerType
  <2>2. CASE PolicyFound
    <3>1. rw \in ReportWorkerType /\ rw' = [rw EXCEPT !.pc = "handle"] /\ rw.pc # "idle"
      BY <2>2 DEF PolicyFound, TypeOK, EngineTypeOK
    <3>2. QED
      BY <3>1 DEF ReportHeld, ReportWorkerType
  <2>3. QED
    BY <1>2, <1>3, <2>1, <2>2
    DEF ReportWorkerStep, ReportGet, DeleteOrphan, FalcoHandle, FalcoHandleFails,
        LitmusHandle, LitmusHandleFails, WriteResult, ReportDone, ReportRetry
<1>4. CASE Fault
  BY <1>1, <1>2, <1>4
  DEF Fault, PolicyCallFails, OnlyPolicyWorker, PolicyWorkerKeeps, ReportCallFails,
      ReportRetry, Restart
<1>5. CASE Resync
  BY <1>1, <1>5 DEF Resync, OnlyPolicyWorker, PolicyWorkerKeeps
<1>6. QED
  BY <1>1, <1>3, <1>4, <1>5, UserLeaves, ClusterLeaves, PolicyWorkerLeaves
  DEF Next, vars, clusterVars
-----------------------------------------------------------------------------
(***************************************************************************)
(* Type correctness of the rest.                                           *)
(***************************************************************************)
LEMMA ConfigMapTypes ==
  ASSUME TypeOK, [Next]_vars
  PROVE  cm' \in ConfigMapType
<1>t. /\ cm \in ConfigMapType /\ cmCache \in ConfigMapType /\ pw.pol \in PolicyType
      /\ cm.rv + 1 \in Nat /\ cmCache.rv + 1 \in Nat /\ pw.pol.uid \in Nat
      /\ pw.pol.spec.falco \in FalcoSpecType \cup {Absent}
  BY TypedFacts DEF TypeOK, EngineTypeOK, ConfigMapType, PolicyType, SpecType
<1>1. CASE cm' = cm
  BY <1>1, <1>t
<1>2. Gone(NoConfigMap, cm) \in ConfigMapType
  BY <1>t DEF Gone, NoConfigMap, ConfigMapType
<1>3. FreshConfigMap \in ConfigMapType
  BY <1>t DEF FreshConfigMap, ConfigMapType
<1>4. UpdatedConfigMap \in ConfigMapType
  BY <1>t, Zenon DEF UpdatedConfigMap, ConfigMapType
<1>5. CASE PolicyWorkerStep
  <2>1. CASE FalcoStep
    BY <1>2, <1>3, <1>4, <1>t, <2>1
    DEF FalcoStep, CreateConfigMap, KeepConfigMap, UpdateConfigMap,
        NoConfigMapFound, DeleteConfigMap, OnlyPolicyWorker, PolicyWorkerKeeps
  <2>2. QED
    BY <1>1, <1>5, <2>1
    DEF PolicyWorkerStep, PolicyGet, ToolNotFound, AddFinalizer, SetOwner, BeginCleanup,
        RejectInvalid, BeginReconcile, LitmusStep, ListReports, DeleteListedReport,
        DisabledDone, RemoveFinalizer, UpsertCreate, UpsertNothing, UpsertUpdate,
        UpdateStatus, UpdatePolicyAndStop, CreateChaosEngine, KeepChaosEngine,
        UpdateChaosEngine, RewriteChaosEngine, ReconciledAll, LitmusCleanupPanics,
        CleanedEngines, ListChaosEngines, DeleteChaosEngine, OnlyPolicyWorker,
        PolicyWorkerKeeps, EngineKeeps, WriteChaosEngine
<1>6. CASE ClusterStep
  BY <1>1, <1>2, <1>6
  DEF ClusterStep, GCConfigMap, SyncPolicy, SyncConfigMap, SyncReport, LitmusRuns, SyncEngine
<1>7. QED
  BY <1>1, <1>5, <1>6, UserLeaves, ReportWorkerLeaves, FaultLeaves
  DEF Next, vars, clusterVars

LEMMA EnginesTypes ==
  ASSUME TypeOK, ExperimentsKnown, [Next]_vars
  PROVE  engines' \in [Slots -> EngineType]
<1>t. /\ engines \in [Slots -> EngineType] /\ engineCache \in [Slots -> EngineType]
      /\ pw.pol.spec \in SpecType /\ pw.exps \subseteq Listed(pw.pol.spec)
  BY TypedFacts DEF TypeOK, EngineTypeOK, PolicyType, ExperimentsKnown
<1>r. \A g \in EngineType : g.rv + 1 \in Nat
  BY DEF EngineType
<1>1. CASE engines' = engines
  BY <1>1, <1>t
<1>w. ASSUME NEW x \in Slots, NEW new \in EngineType, engines' = [engines EXCEPT ![x] = new]
      PROVE  engines' \in [Slots -> EngineType]
  BY <1>t, <1>w
<1>g. \A x \in Slots : Gone(NoEngine, engines[x]) \in EngineType
  BY <1>r, <1>t DEF Gone, NoEngine, EngineType
<1>2. ASSUME NEW e \in Experiments, CreateChaosEngine(e) PROVE engines' \in [Slots -> EngineType]
  <2> DEFINE x == SlotOf(pw.pol.spec, e)
             new == [live |-> TRUE, rv |-> engines[x].rv + 1,
                     app |-> pw.pol.spec.litmus[e].app, ran |-> FALSE]
  <2>1. e \in Listed(pw.pol.spec)
    BY <1>2, <1>t DEF CreateChaosEngine, AtExperiment
  <2>2. x \in Slots /\ pw.pol.spec.litmus[e].app \in Apps
    BY <1>t, <2>1, SpacesTyped
  <2>3. new \in EngineType
    BY <1>r, <1>t, <2>2 DEF EngineType
  <2>4. engines' = engines \/ engines' = [engines EXCEPT ![x] = new]
    BY <1>2 DEF CreateChaosEngine
  <2> HIDE DEF x, new
  <2>5. QED
    BY <1>1, <1>w, <2>2, <2>3, <2>4
<1>3. ASSUME NEW e \in Experiments, UpdateChaosEngine(e) \/ RewriteChaosEngine(e)
      PROVE  engines' \in [Slots -> EngineType]
  <2> DEFINE x == SlotOf(pw.pol.spec, e)
             new == [engineCache[x] EXCEPT !.app = pw.pol.spec.litmus[e].app, !.rv = @ + 1]
  <2>1. e \in Listed(pw.pol.spec)
    BY <1>3, <1>t DEF UpdateChaosEngine, RewriteChaosEngine, AtExperiment
  <2>2. x \in Slots /\ pw.pol.spec.litmus[e].app \in Apps
    BY <1>t, <2>1, SpacesTyped
  <2>3. new \in EngineType
    <3>1. engineCache[x] \in EngineType /\ engineCache[x].rv + 1 \in Nat
          /\ pw.pol.spec.litmus[e].app \in Apps \cup {Absent}
      BY <1>r, <1>t, <2>2
    <3> HIDE DEF x
    <3>2. QED
      BY <3>1, Zenon DEF EngineType
  <2>4. engines' = engines \/ engines' = [engines EXCEPT ![x] = new]
    BY <1>3, Zenon DEF UpdateChaosEngine, RewriteChaosEngine, WriteChaosEngine
  <2> HIDE DEF x, new
  <2>5. QED
    BY <1>1, <1>w, <2>2, <2>3, <2>4
<1>4. ASSUME NEW x \in Slots, DeleteChaosEngine(x) PROVE engines' \in [Slots -> EngineType]
  BY <1>1, <1>4, <1>g, <1>w DEF DeleteChaosEngine
<1>5. ASSUME NEW x \in Slots, LitmusRuns(x) PROVE engines' \in [Slots -> EngineType]
  <2> DEFINE new == [engines[x] EXCEPT !.ran = TRUE, !.rv = @ + 1]
  <2>1. engines[x] \in EngineType /\ engines[x].rv + 1 \in Nat /\ TRUE \in BOOLEAN
    BY <1>r, <1>t
  <2>2. new \in EngineType
    BY <2>1, Zenon DEF EngineType
  <2>3. engines' = [engines EXCEPT ![x].ran = TRUE, ![x].rv = @ + 1]
    BY <1>5, Zenon DEF LitmusRuns
  <2>4. engines' = [engines EXCEPT ![x] = new]
    BY <1>t, <2>3
  <2> HIDE DEF new
  <2>5. QED
    BY <1>w, <2>2, <2>4
<1>6. CASE PolicyWorkerStep
  BY <1>1, <1>2, <1>3, <1>4, <1>6
  DEF PolicyWorkerStep, PolicyGet, ToolNotFound, AddFinalizer, SetOwner, BeginCleanup,
      RejectInvalid, BeginReconcile, FalcoStep, LitmusStep, ListReports,
      DeleteListedReport, DisabledDone, RemoveFinalizer, UpsertCreate, UpsertNothing,
      UpsertUpdate, UpdateStatus, UpdatePolicyAndStop, CreateConfigMap,
      KeepConfigMap, UpdateConfigMap, NoConfigMapFound, DeleteConfigMap,
      KeepChaosEngine, ReconciledAll, LitmusCleanupPanics, CleanedEngines,
      ListChaosEngines, OnlyPolicyWorker, PolicyWorkerKeeps
<1>7. CASE ClusterStep
  BY <1>1, <1>5, <1>7
  DEF ClusterStep, GCConfigMap, SyncPolicy, SyncConfigMap, SyncReport, SyncEngine
<1>8. QED
  BY <1>1, <1>6, <1>7, UserLeaves, ReportWorkerLeaves, FaultLeaves
  DEF Next, vars, clusterVars

\* The caches, and what is queued or counted.
LEMMA CacheTypes ==
  ASSUME TypeOK, [Next]_vars
  PROVE  /\ policyCache' \in PolicyType /\ reportCache' \in [Types -> ReportType]
         /\ cmCache' \in ConfigMapType /\ engineCache' \in [Slots -> EngineType]
<1>t. /\ policy \in PolicyType /\ policyCache \in PolicyType
      /\ reports \in [Types -> ReportType] /\ reportCache \in [Types -> ReportType]
      /\ cm \in ConfigMapType /\ cmCache \in ConfigMapType
      /\ engines \in [Slots -> EngineType] /\ engineCache \in [Slots -> EngineType]
  BY DEF TypeOK, EngineTypeOK
<1>1. CASE UNCHANGED caches
  BY <1>1, <1>t DEF caches
<1>2. CASE ClusterStep
  <2>1. CASE GCConfigMap \/ SyncPolicy \/ SyncConfigMap \/ \E x \in Slots : LitmusRuns(x)
    BY <1>t, <2>1 DEF GCConfigMap, SyncPolicy, SyncConfigMap, LitmusRuns, caches
  <2>2. ASSUME NEW t \in Types, SyncReport(t) PROVE reportCache' \in [Types -> ReportType]
    BY <1>t, <2>2 DEF SyncReport
  <2>3. ASSUME NEW x \in Slots, SyncEngine(x) PROVE engineCache' \in [Slots -> EngineType]
    BY <1>t, <2>3 DEF SyncEngine
  <2>4. QED
    BY <1>2, <1>t, <2>1, <2>2, <2>3 DEF ClusterStep, SyncReport, SyncEngine
<1>3. CASE Fault
  <2>1. CASE Restart
    BY <1>t, <2>1 DEF Restart
  <2>2. QED
    BY <1>1, <1>3, <2>1
    DEF Fault, PolicyCallFails, ReportCallFails, OnlyPolicyWorker, PolicyWorkerKeeps,
        ReportWorkerKeeps
<1>4. CASE Resync
  BY <1>1, <1>4 DEF Resync, OnlyPolicyWorker, PolicyWorkerKeeps
<1>5. QED
  BY <1>1, <1>2, <1>3, <1>4, UserLeaves, PolicyWorkerLeaves, ReportWorkerLeaves
  DEF Next, vars, clusterVars, caches

LEMMA CounterTypes ==
  ASSUME TypeOK, [Next]_vars
  PROVE  /\ policyQueue' \in BOOLEAN /\ reportQueue' \in SUBSET Types
         /\ edits' \in Nat /\ rewrites' \in Nat /\ faults' \in Nat
<1>t. /\ policyQueue \in BOOLEAN /\ reportQueue \in SUBSET Types /\ rw.type \in Types
      /\ edits \in Nat /\ rewrites \in Nat /\ faults \in Nat /\ policy.live \in BOOLEAN
  BY DEF TypeOK, EngineTypeOK, ReportWorkerType, PolicyType
<1>f. faults' \in Nat
  <2>1. faults' = faults \/ faults' = faults + 1
    BY DEF Next, vars, Fault
  <2>2. QED
    BY <1>t, <2>1
<1>1. CASE UserStep
  <2>1. \E new : UserWrites(new)
    BY <1>1, Zenon DEF UserStep, CreatePolicy, EditPolicy, DeletePolicy
  <2>2. edits' = edits + 1
    BY <2>1 DEF UserWrites
  <2>3. QED
    BY <1>1, <1>t, <1>f, <2>2, UserLeaves
<1>2. CASE ClusterStep
  BY <1>2, <1>t, <1>f, ClusterLeaves
  DEF ClusterStep, GCConfigMap, SyncPolicy, SyncConfigMap, SyncReport, LitmusRuns,
      SyncEngine, EnvironmentKeeps
<1>3. CASE PolicyWorkerStep
  <2>1. rewrites' = rewrites \/ rewrites' = rewrites + 1
    BY <1>3
    DEF PolicyWorkerStep, PolicyGet, ToolNotFound, AddFinalizer, SetOwner, BeginCleanup,
        RejectInvalid, BeginReconcile, FalcoStep, LitmusStep, ListReports,
        DeleteListedReport, DisabledDone, RemoveFinalizer, UpsertCreate, UpsertNothing,
        UpsertUpdate, UpdateStatus, UpdatePolicyAndStop, CreateConfigMap,
        KeepConfigMap, UpdateConfigMap, NoConfigMapFound, DeleteConfigMap,
        CreateChaosEngine, KeepChaosEngine, UpdateChaosEngine, RewriteChaosEngine,
        ReconciledAll, LitmusCleanupPanics, CleanedEngines, ListChaosEngines,
        DeleteChaosEngine, OnlyPolicyWorker, PolicyWorkerKeeps
  <2>2. policyQueue' = policyQueue \/ policyQueue' = TRUE \/ policyQueue' = FALSE
    BY <1>3
    DEF PolicyWorkerStep, PolicyGet, ToolNotFound, AddFinalizer, SetOwner, BeginCleanup,
        RejectInvalid, BeginReconcile, FalcoStep, LitmusStep, ListReports,
        DeleteListedReport, DisabledDone, RemoveFinalizer, UpsertCreate, UpsertNothing,
        UpsertUpdate, UpdateStatus, UpdatePolicyAndStop, CreateConfigMap,
        KeepConfigMap, UpdateConfigMap, NoConfigMapFound, DeleteConfigMap,
        CreateChaosEngine, KeepChaosEngine, UpdateChaosEngine, RewriteChaosEngine,
        WriteChaosEngine, ReconciledAll, LitmusCleanupPanics, CleanedEngines,
        ListChaosEngines, DeleteChaosEngine, PolicyGoes, PolicyDone, PolicyRetry,
        Reached, Upserted
  <2>3. QED
    <3>1. policyQueue' \in BOOLEAN
      BY <1>t, <2>2, Zenon
    <3>2. rewrites' \in Nat
      BY <1>t, <2>1
    <3>3. UNCHANGED <<reportQueue, edits>>
      BY <1>3, PolicyWorkerLeaves
    <3>4. QED
      BY <1>t, <1>f, <3>1, <3>2, <3>3
<1>4. CASE ReportWorkerStep
  BY <1>4, <1>t, <1>f, ReportWorkerLeaves
  DEF ReportWorkerStep, ReportGet, PolicyFound, DeleteOrphan, FalcoHandle,
      FalcoHandleFails, LitmusHandle, LitmusHandleFails, WriteResult, ReportDone, ReportRetry
<1>5. CASE Fault \/ Resync
  BY <1>5, <1>t, <1>f, FaultLeaves
  DEF Fault, Resync, PolicyCallFails, ReportCallFails, Restart, PolicyRetry, ReportRetry,
      OnlyPolicyWorker, PolicyWorkerKeeps, ReportWorkerKeeps
<1>6. CASE UNCHANGED vars
  BY <1>6, <1>t, <1>f DEF vars, clusterVars
<1>7. QED
  BY <1>1, <1>2, <1>3, <1>4, <1>5, <1>6 DEF Next

LEMMA NextTypes ==
  ASSUME EngineInv, [Next]_vars
  PROVE  TypeOK'
<1>1. TypeOK /\ Copies /\ ExperimentsKnown
  BY DEF EngineInv
<1>2. QED
  BY <1>1, PolicySteps, ReportSteps, PolicyHands, ReportHands, ConfigMapTypes, EnginesTypes,
     CacheTypes, CounterTypes
  DEF TypeOK, EngineTypeOK
-----------------------------------------------------------------------------
(***************************************************************************)
(* The invariant, part by part.                                            *)
(***************************************************************************)

\* The caches hold what they held or what is there now.
LEMMA CacheSteps ==
  ASSUME TypeOK, [Next]_vars
  PROVE  /\ policyCache' = policyCache \/ (policyCache' = policy /\ policy' = policy)
         /\ \A t \in Types : \/ reportCache'[t] = reportCache[t]
                             \/ reportCache'[t] = reports[t] /\ reports' = reports
<1>1. CASE UNCHANGED <<policyCache, reportCache>>
  BY <1>1
<1>2. CASE ClusterStep
  <2>1. ASSUME NEW t \in Types, SyncReport(t)
        PROVE  /\ policyCache' = policyCache
               /\ \A u \in Types : \/ reportCache'[u] = reportCache[u]
                                   \/ reportCache'[u] = reports[u]
    BY <2>1, TypedFacts DEF SyncReport
  <2>2. CASE SyncPolicy
    BY <2>2 DEF SyncPolicy
  <2>3. QED
    BY <1>1, <1>2, <2>1, <2>2, ClusterLeaves
    DEF ClusterStep, GCConfigMap, SyncConfigMap, LitmusRuns, SyncEngine, caches
<1>3. CASE Fault
  BY <1>1, <1>3
  DEF Fault, PolicyCallFails, ReportCallFails, Restart, OnlyPolicyWorker,
      PolicyWorkerKeeps, ReportWorkerKeeps, caches
<1>4. CASE Resync
  BY <1>1, <1>4 DEF Resync, OnlyPolicyWorker, PolicyWorkerKeeps, caches
<1>5. QED
  BY <1>1, <1>2, <1>3, <1>4, UserLeaves, PolicyWorkerLeaves, ReportWorkerLeaves
  DEF Next, vars, clusterVars, caches

LEMMA CopiesInductive ==
  ASSUME TypeOK, TypeOK', Copies, [Next]_vars
  PROVE  Copies'
<1>t. /\ policy.rv \in Nat /\ policyCache.rv \in Nat /\ pw.pol.rv \in Nat
      /\ policy'.rv \in Nat
      /\ \A t \in Types : reports[t].rv \in Nat /\ reportCache[t].rv \in Nat
      /\ rw.rep.rv \in Nat /\ rw.type \in Types /\ rw'.type \in Types
      /\ \A t \in Types : reports'[t].rv \in Nat
  <2>1. \A p \in PolicyType : p.rv \in Nat
    BY DEF PolicyType
  <2>2. \A r \in ReportType : r.rv \in Nat
    BY DEF ReportType
  <2>3. /\ policy' \in PolicyType /\ reports' \in [Types -> ReportType] /\ rw'.type \in Types
    BY DEF TypeOK, EngineTypeOK, ReportWorkerType
  <2>4. QED
    BY <2>1, <2>2, <2>3, TypedFacts
<1>p. ASSUME NEW copy \in PolicyType, Follows(copy, policy) PROVE Follows(copy, policy')
  <2>1. copy.rv \in Nat
    BY DEF PolicyType
  <2>2. QED
    BY <1>p, <1>t, <2>1, PolicySteps DEF PolicyMoves, Follows
<1>r. ASSUME NEW t \in Types, NEW copy \in ReportType, Follows(copy, reports[t])
      PROVE  Follows(copy, reports'[t])
  <2>1. copy.rv \in Nat
    BY DEF ReportType
  <2>2. ReportMoves(t)
    BY ReportSteps
  <2>3. QED
    BY <1>r, <1>t, <2>1, <2>2 DEF ReportMoves, Follows
<1>1. Follows(policyCache', policy')
  BY <1>p, <1>t, CacheSteps, TypedFacts DEF Copies, Follows
<1>2. ASSUME pw'.pc # "idle" PROVE Follows(pw'.pol, policy')
  <2>1. IdlePolicyWorker.pc = "idle"
    BY DEF IdlePolicyWorker
  <2>2. \/ pw'.pol = policyCache /\ policy' = policy
        \/ pw'.pol = pw.pol /\ pw.pc # "idle"
    BY <1>2, <2>1, PolicyHands DEF PolicyHeld
  <2>3. QED
    BY <1>p, <2>2, TypedFacts DEF Copies
<1>3. ASSUME NEW t \in Types PROVE Follows(reportCache'[t], reports'[t])
  BY <1>r, <1>t, CacheSteps, TypedFacts DEF Copies, Follows
<1>4. ASSUME rw'.pc # "idle" PROVE Follows(rw'.rep, reports'[rw'.type])
  <2>1. \/ rw'.rep = reportCache[rw'.type] /\ reports' = reports
        \/ rw'.rep = rw.rep /\ rw'.type = rw.type /\ rw.pc # "idle"
    BY <1>4, ReportHands DEF ReportHeld
  <2>2. QED
    BY <1>r, <1>t, <2>1, TypedFacts DEF Copies
<1>5. QED
  BY <1>1, <1>2, <1>3, <1>4 DEF Copies

LEMMA UptoTransitive ==
  ASSUME NEW a, NEW b, NEW c, a.uid \in Nat, a.gen \in Nat, b.uid \in Nat, b.gen \in Nat,
         c.uid \in Nat, c.gen \in Nat, Upto(a, b), Upto(b, c)
  PROVE  Upto(a, c)
BY DEF Upto

LEMMA ChainInductive ==
  ASSUME TypeOK, TypeOK', Copies, Chain, [Next]_vars
  PROVE  Chain'
<1>p. \A p \in PolicyType : p.uid \in Nat /\ p.gen \in Nat
  BY DEF PolicyType
<1>r. \A r \in ReportType : r.uid \in Nat /\ r.gen \in Nat
  BY DEF ReportType
<1>t. /\ policy \in PolicyType /\ policyCache \in PolicyType /\ pw.pol \in PolicyType
      /\ policy' \in PolicyType /\ policyCache' \in PolicyType /\ pw'.pol \in PolicyType
      /\ \A t \in Types : reports[t] \in ReportType /\ reports'[t] \in ReportType
  BY TypedFacts DEF TypeOK, EngineTypeOK, PolicyWorkerType
<1>s. \A p \in PolicyType : Upto(p, p)
  BY <1>p DEF Upto
<1>1. Upto(policy, policy')
  BY <1>s, <1>t, PolicySteps DEF PolicyMoves
<1>2. Upto(policyCache', policy')
  <2>1. CASE policyCache' = policyCache
    BY <1>1, <1>p, <1>t, <2>1, UptoTransitive DEF Chain
  <2>2. CASE policyCache' = policy /\ policy' = policy
    BY <1>s, <1>t, <2>2
  <2>3. QED
    BY <2>1, <2>2, CacheSteps
<1>3. Upto(policyCache, policyCache')
  BY <1>s, <1>t, CacheSteps DEF Chain
<1>4. ASSUME NEW t \in Types PROVE /\ Upto(reports'[t], policyCache)
                                   /\ pw.pc # "idle" => Upto(reports'[t], pw.pol)
  <2>1. CASE reports'[t] = reports[t]
    BY <2>1 DEF Chain
  <2>2. CASE Asked(t)
    BY <1>p, <1>t, <2>2 DEF Asked, Chain, Upto
  <2>3. CASE Vanished(t)
    BY <1>p, <1>t, <2>3 DEF Vanished, Blank, Upto
  <2>4. CASE Completed(t)
    BY <2>4 DEF Completed, Chain, Upto
  <2>5. QED
    BY <2>1, <2>2, <2>3, <2>4, ReportSteps DEF ReportMoves
<1>5. ASSUME NEW t \in Types PROVE Upto(reports'[t], policyCache')
  BY <1>3, <1>4, <1>p, <1>r, <1>t, UptoTransitive
<1>6. ASSUME pw'.pc # "idle"
      PROVE  Upto(pw'.pol, policyCache') /\ \A t \in Types : Upto(reports'[t], pw'.pol)
  <2>1. IdlePolicyWorker.pc = "idle"
    BY DEF IdlePolicyWorker
  <2>2. CASE pw'.pol = policyCache
    BY <1>3, <1>4, <2>2
  <2>3. CASE pw'.pol = pw.pol /\ pw.pc # "idle"
    BY <1>3, <1>4, <1>p, <1>t, <2>3, UptoTransitive DEF Chain
  <2>4. QED
    BY <1>6, <2>1, <2>2, <2>3, PolicyHands DEF PolicyHeld
<1>7. QED
  BY <1>2, <1>5, <1>6 DEF Chain

LEMMA ReportsKnownInductive ==
  ASSUME TypeOK, Copies, ReportsKnown, [Next]_vars
  PROVE  ReportsKnown'
<1>1. ASSUME NEW t \in Types, ~reports'[t].live PROVE Blank(reports'[t])
  <2>1. ReportMoves(t)
    BY ReportSteps
  <2>2. QED
    BY <1>1, <2>1 DEF ReportMoves, Asked, Vanished, Completed, ReportsKnown, Blank
<1>2. ASSUME rw'.pc # "idle" PROVE ~rw'.rep.done
  BY <1>2, ReportHands DEF ReportHeld, ReportsKnown
<1>3. QED
  BY <1>1, <1>2 DEF ReportsKnown, Blank

LEMMA ExperimentsKnownInductive ==
  ASSUME TypeOK, ExperimentsKnown, [Next]_vars
  PROVE  ExperimentsKnown'
<1>1. IdlePolicyWorker.exps = {} /\ IdlePolicyWorker.pc = "idle"
  BY DEF IdlePolicyWorker
<1>2. QED
  BY <1>1, PolicyHands DEF PolicyHeld, ExperimentsKnown

LEMMA InitInv == Init => EngineInv
<1> SUFFICES ASSUME Init PROVE EngineInv
  OBVIOUS
<1>1. policy \in PolicyType /\ policy.uid \in Nat /\ policy.gen \in Nat /\ policy.rv \in Nat
      /\ cm \in ConfigMapType
  <2>1. CASE CleanStart
    BY <2>1, NoPolicyTyped
    DEF CleanStart, NoPolicy, NoConfigMap, ConfigMapType
  <2>2. CASE AfterDeletion
    <3>1. PICK spec \in Specs :
            cm = [live |-> TRUE, rv |-> 1, owner |-> 1, data |-> spec.falco]
      BY <2>2 DEF AfterDeletion
    <3>2. spec.falco \in FalcoSpecType \cup {Absent}
      BY DEF SpecType
    <3>3. cm \in ConfigMapType
      BY <3>1, <3>2 DEF ConfigMapType
    <3>4. [NoPolicy EXCEPT !.uid = 1, !.gen = 2, !.rv = 5] \in PolicyType
      BY NoPolicyTyped, Zenon DEF PolicyType
    <3>5. policy = [NoPolicy EXCEPT !.uid = 1, !.gen = 2, !.rv = 5]
      BY <2>2, Zenon DEF AfterDeletion
    <3>6. policy \in PolicyType
      BY <3>4, <3>5
    <3>7. QED
      BY <3>3, <3>6 DEF PolicyType
  <2>3. QED
    BY <2>1, <2>2 DEF Init, EngineInit
<1>2. /\ policyCache = policy /\ pw = IdlePolicyWorker /\ rw = IdleReportWorker
      /\ \A t \in Types : reports[t] = NoReport /\ reportCache[t] = NoReport
  BY DEF Init, EngineInit
<1>3. TypeOK
  <2>1. NoConfigMap \in ConfigMapType /\ NoEngine \in EngineType
    BY DEF NoConfigMap, NoEngine, ConfigMapType, EngineType
  <2>2. QED
    BY <1>1, <1>2, <2>1, IdleTyped, NoReportTyped DEF Init, EngineInit, TypeOK, EngineTypeOK
<1>4. /\ pw.pc = "idle" /\ rw.pc = "idle" /\ pw.exps = {}
      /\ NoReport.rv = 0 /\ NoReport.uid = 0 /\ NoReport.gen = 0
  BY <1>2 DEF IdlePolicyWorker, IdleReportWorker, NoReport
<1>5. Copies
  BY <1>1, <1>2, <1>4 DEF Copies, Follows
<1>6. Chain
  BY <1>1, <1>2, <1>4 DEF Chain, Upto
<1>7. ReportsKnown /\ ExperimentsKnown
  BY <1>2, <1>4, NoReportTyped DEF ReportsKnown, ExperimentsKnown, Blank
<1>8. QED
  BY <1>3, <1>5, <1>6, <1>7 DEF EngineInv

LEMMA NextInv ==
  ASSUME EngineInv, [Next]_vars
  PROVE  EngineInv'
<1>1. TypeOK'
  BY NextTypes
<1>2. QED
  BY <1>1, CopiesInductive, ChainInductive, ReportsKnownInductive, ExperimentsKnownInductive
  DEF EngineInv

\* The inductive invariant of the two engines and both controllers: versions
\* tell copies apart, and no report asks for a Policy its handler cannot see.
THEOREM EngineInvariant == Spec => []EngineInv
<1>1. EngineInv /\ [Next]_vars => EngineInv'
  BY NextInv
<1>2. QED
  BY <1>1, InitInv, PTL DEF Spec

\* Objects, copies, lists and counters are what they should be, for any specs.
THEOREM EngineTypeCorrect == Spec => []TypeOK
<1>1. EngineInv => TypeOK
  BY DEF EngineInv
<1>2. QED
  BY <1>1, EngineInvariant, PTL
-----------------------------------------------------------------------------
(***************************************************************************)
(* Refinement.                                                             *)
(***************************************************************************)
\* What a report's readers see of a step.
LEMMA ReportLives ==
  ASSUME EngineInv, [Next]_vars, NEW t \in Types
  PROVE  LET old == reports[t]
             new == reports'[t]
         IN  \/ /\ new.live = old.live /\ new.uid = old.uid /\ new.gen = old.gen
                /\ SameResult(new, old)
             \/ /\ ~old.live /\ new.live /\ new.uid \in Nat /\ new.gen \in Nat
                /\ SameResult(new, old)
             \/ /\ old.live /\ new.live /\ new.uid \in Nat /\ new.gen \in Nat
                /\ Upto(old, new) /\ SameResult(new, old)
             \/ /\ old.live /\ new.live /\ new.uid = old.uid /\ new.gen = old.gen
                /\ ~old.done /\ new.done /\ new.forUid \in Nat /\ new.forGen \in Nat
                /\ Upto(old, [uid |-> new.forUid, gen |-> new.forGen])
             \/ old.live /\ ~new.live /\ Blank(new)
<1>1. TypeOK /\ Copies /\ Chain /\ ReportsKnown /\ TypeOK'
  BY NextTypes DEF EngineInv
<1>2. /\ reports[t] \in ReportType /\ reports'[t] \in ReportType
      /\ reports[t].live \in BOOLEAN /\ reports'[t].live \in BOOLEAN
      /\ reports[t].done \in BOOLEAN /\ NoReport.done = FALSE
      /\ NoReport.forUid = 0 /\ NoReport.forGen = 0
      /\ pw.pol.uid \in Nat /\ pw.pol.gen \in Nat
      /\ policyCache.uid \in Nat /\ policyCache.gen \in Nat
  BY <1>1, TypedFacts DEF TypeOK, EngineTypeOK, ReportType, NoReport
<1>3. ReportMoves(t)
  BY <1>1, ReportSteps
<1>4. CASE reports'[t] = reports[t]
  BY <1>4 DEF SameResult
<1>5. CASE Asked(t) /\ ~reports[t].live
  <2>1. SameResult(reports'[t], reports[t])
    BY <1>1, <1>2, <1>5 DEF Asked, SameResult, ReportsKnown
  <2>2. QED
    BY <1>2, <1>5, <2>1 DEF Asked
<1>6. CASE Asked(t) /\ reports[t].live
  <2>1. Upto(reports[t], reports'[t])
    BY <1>1, <1>6 DEF Asked, Chain, Upto
  <2>2. QED
    BY <1>2, <1>6, <2>1 DEF Asked
<1>7. CASE Vanished(t)
  BY <1>7 DEF Vanished
<1>8. CASE Completed(t)
  <2>1. ~reports[t].done
    BY <1>1, <1>8 DEF Completed, ReportsKnown
  <2>2. Upto(reports[t], [uid |-> reports'[t].forUid, gen |-> reports'[t].forGen])
    BY <1>1, <1>8 DEF Completed, Chain, Upto
  <2>3. QED
    BY <1>2, <1>8, <2>1, <2>2 DEF Completed
<1>9. QED
  BY <1>3, <1>4, <1>5, <1>6, <1>7, <1>8 DEF ReportMoves

LEMMA FalcoLifecycleStep ==
  ASSUME EngineInv, [Next]_vars
  PROVE  [FalcoReport!Next]_(FalcoReport!vars)
<1>t. /\ "falco" \in Types /\ TypeOK
      /\ reports["falco"].uid \in Nat /\ reports["falco"].gen \in Nat
  BY TypedFacts DEF EngineInv, Types
<1> DEFINE old == reports["falco"]
           new == reports'["falco"]
<1>1. CASE /\ new.live = old.live /\ new.uid = old.uid /\ new.gen = old.gen
           /\ SameResult(new, old)
  BY <1>1 DEF FalcoReport!vars, SameResult
<1>2. CASE /\ ~old.live /\ new.live /\ new.uid \in Nat /\ new.gen \in Nat
           /\ SameResult(new, old)
  <2>1. FalcoReport!Appear
    BY <1>2 DEF FalcoReport!Appear, FalcoReport!Version, SameResult
  <2>2. QED
    BY <2>1 DEF FalcoReport!Next
<1>3. CASE /\ old.live /\ new.live /\ new.uid \in Nat /\ new.gen \in Nat
           /\ Upto(old, new) /\ SameResult(new, old)
  <2>1. FalcoReport!AskAgain
    BY <1>3 DEF FalcoReport!AskAgain, FalcoReport!Version, FalcoReport!NotNewer, Upto,
                SameResult
  <2>2. QED
    BY <2>1 DEF FalcoReport!Next
<1>4. CASE /\ old.live /\ new.live /\ new.uid = old.uid /\ new.gen = old.gen
           /\ ~old.done /\ new.done /\ new.forUid \in Nat /\ new.forGen \in Nat
           /\ Upto(old, [uid |-> new.forUid, gen |-> new.forGen])
  <2>1. FalcoReport!Complete
    BY <1>4 DEF FalcoReport!Complete, FalcoReport!Version, FalcoReport!NotNewer, Upto
  <2>2. QED
    BY <2>1 DEF FalcoReport!Next
<1>5. CASE old.live /\ ~new.live /\ Blank(new)
  <2>1. FalcoReport!Vanish
    BY <1>5 DEF FalcoReport!Vanish, FalcoReport!None, Blank
  <2>2. QED
    BY <2>1 DEF FalcoReport!Next
<1>6. QED
  BY <1>t, <1>1, <1>2, <1>3, <1>4, <1>5, ReportLives

LEMMA LitmusLifecycleStep ==
  ASSUME EngineInv, [Next]_vars
  PROVE  [LitmusReport!Next]_(LitmusReport!vars)
<1>t. /\ "litmus" \in Types /\ TypeOK
      /\ reports["litmus"].uid \in Nat /\ reports["litmus"].gen \in Nat
  BY TypedFacts DEF EngineInv, Types
<1> DEFINE old == reports["litmus"]
           new == reports'["litmus"]
<1>1. CASE /\ new.live = old.live /\ new.uid = old.uid /\ new.gen = old.gen
           /\ SameResult(new, old)
  BY <1>1 DEF LitmusReport!vars, SameResult
<1>2. CASE /\ ~old.live /\ new.live /\ new.uid \in Nat /\ new.gen \in Nat
           /\ SameResult(new, old)
  <2>1. LitmusReport!Appear
    BY <1>2 DEF LitmusReport!Appear, LitmusReport!Version, SameResult
  <2>2. QED
    BY <2>1 DEF LitmusReport!Next
<1>3. CASE /\ old.live /\ new.live /\ new.uid \in Nat /\ new.gen \in Nat
           /\ Upto(old, new) /\ SameResult(new, old)
  <2>1. LitmusReport!AskAgain
    BY <1>3 DEF LitmusReport!AskAgain, LitmusReport!Version, LitmusReport!NotNewer, Upto,
                SameResult
  <2>2. QED
    BY <2>1 DEF LitmusReport!Next
<1>4. CASE /\ old.live /\ new.live /\ new.uid = old.uid /\ new.gen = old.gen
           /\ ~old.done /\ new.done /\ new.forUid \in Nat /\ new.forGen \in Nat
           /\ Upto(old, [uid |-> new.forUid, gen |-> new.forGen])
  <2>1. LitmusReport!Complete
    BY <1>4 DEF LitmusReport!Complete, LitmusReport!Version, LitmusReport!NotNewer, Upto
  <2>2. QED
    BY <2>1 DEF LitmusReport!Next
<1>5. CASE old.live /\ ~new.live /\ Blank(new)
  <2>1. LitmusReport!Vanish
    BY <1>5 DEF LitmusReport!Vanish, LitmusReport!None, Blank
  <2>2. QED
    BY <2>1 DEF LitmusReport!Next
<1>6. QED
  BY <1>t, <1>1, <1>2, <1>3, <1>4, <1>5, ReportLives

LEMMA LifecycleInit == Init => FalcoReport!Init /\ LitmusReport!Init
<1> SUFFICES ASSUME Init PROVE FalcoReport!Init /\ LitmusReport!Init
  OBVIOUS
<1>1. ASSUME NEW t \in Types PROVE ~reports[t].live /\ Blank(reports[t])
  BY NoReportTyped DEF Init, EngineInit
<1>2. "falco" \in Types /\ "litmus" \in Types
  BY DEF Types
<1>3. QED
  BY <1>1, <1>2 DEF Blank, FalcoReport!Init, FalcoReport!None, LitmusReport!Init,
                    LitmusReport!None

\* The reports of both engines are completed once and never from an
\* older Policy than they ask for, whatever is edited, deleted or restarted
\* meanwhile (falco and litmus GenerateReport, Cleanup and report handlers).
THEOREM ReportsFollowLifecycleHolds == Spec => ReportsFollowLifecycle
<1>1. EngineInv /\ [Next]_vars => [FalcoReport!Next]_(FalcoReport!vars)
  BY FalcoLifecycleStep
<1>2. EngineInv /\ [Next]_vars => [LitmusReport!Next]_(LitmusReport!vars)
  BY LitmusLifecycleStep
<1>3. QED
  BY LifecycleInit, <1>1, <1>2, EngineInvariant, PTL
  DEF Spec, ReportsFollowLifecycle, FalcoReport!Spec, LitmusReport!Spec
=============================================================================

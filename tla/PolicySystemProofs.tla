-------------------------- MODULE PolicySystemProofs --------------------------
(***************************************************************************)
(* Proofs about PolicySystem, for every set of scans, images and specs and *)
(* any number of user edits and faults.                                    *)
(***************************************************************************)
EXTENDS PolicySystem, TLAPS

-----------------------------------------------------------------------------
(***************************************************************************)
(* Types of the constants and of what the operators build.                 *)
(***************************************************************************)

\* The initial and idle values have their types.
LEMMA ConstantTypes ==
  /\ NoSpec \in SpecType
  /\ NoPolicy \in PolicyType
  /\ NoStatus \in StatusType
  /\ NoReport \in ReportType
  /\ NoJob \in JobType
  /\ NoPod \in PodType
  /\ IdlePolicyWorker \in PolicyWorkerType
  /\ IdleReportWorker \in ReportWorkerType
<1>1. Nothing \in [Scans -> MaybeImage]
  BY DEF Nothing, MaybeImage
<1>2. NoSpec \in SpecType
  BY <1>1 DEF NoSpec, SpecType
<1>3. NoPolicy \in PolicyType
  BY <1>2 DEF NoPolicy, PolicyType
<1>4. NoStatus \in StatusType
  BY <1>1 DEF NoStatus, StatusType, Phases, Verdicts
<1>5. NoReport \in ReportType
  BY <1>4 DEF NoReport, ReportType
<1>6. NoJob \in JobType /\ NoPod \in PodType
  BY DEF NoJob, JobType, NoPod, PodType, MaybeImage
<1>7. IdlePolicyWorker \in PolicyWorkerType
  BY <1>3, <1>5 DEF IdlePolicyWorker, PolicyWorkerType, PolicyPCs
<1>8. IdleReportWorker \in ReportWorkerType
  BY <1>1, <1>3, <1>5 DEF IdleReportWorker, ReportWorkerType, ReportPCs
<1>9. QED
  BY <1>2, <1>3, <1>4, <1>5, <1>6, <1>7, <1>8

\* What the API server stores, and what it leaves of an object it deletes, is
\* of the kind of that object.
LEMMA PolicyTypes ==
  ASSUME NEW p \in PolicyType, NEW q \in PolicyType
  PROVE  /\ Stored(q, p) \in PolicyType
         /\ Gone(p) \in PolicyType
         /\ DeletedPolicy(p) \in PolicyType
<1>1. p.rv + 1 \in Nat /\ p.gen + 1 \in Nat /\ p.uid \in Nat /\ p.gen \in Nat
  BY DEF PolicyType
<1>2. Stored(q, p) \in PolicyType
  BY <1>1 DEF Stored, PolicyType
<1>3. Gone(p) \in PolicyType
  BY <1>1, ConstantTypes, Zenon DEF Gone, PolicyType
<1>4. [p EXCEPT !.deleting = TRUE, !.gen = p.gen + 1, !.rv = p.rv + 1]
        \in PolicyType
  BY <1>1, Zenon DEF PolicyType
<1>5. DeletedPolicy(p) \in PolicyType
  BY <1>3, <1>4 DEF DeletedPolicy
<1>6. QED
  BY <1>2, <1>3, <1>5

\* The same of reports.
LEMMA ReportTypes ==
  ASSUME NEW r \in ReportType, NEW q \in ReportType
  PROVE  /\ Stored(q, r) \in ReportType
         /\ GoneReport(r) \in ReportType
<1>1. r.rv + 1 \in Nat
  BY DEF ReportType
<1>2. Stored(q, r) \in ReportType
  BY <1>1 DEF Stored, ReportType
<1>3. GoneReport(r) \in ReportType
  BY <1>1, ConstantTypes, Zenon DEF GoneReport, ReportType
<1>4. QED
  BY <1>2, <1>3

-----------------------------------------------------------------------------
(***************************************************************************)
(* Type correctness.                                                       *)
(***************************************************************************)

\* The user's writes keep the types.
LEMMA UserTypes == TypeOK /\ User => TypeOK'
<1> SUFFICES ASSUME TypeOK, User
             PROVE  TypeOK'
  OBVIOUS
<1> USE DEF TypeOK, ClusterTypeOK, User
<1>1. ASSUME NEW spec \in Specs, CreatePolicy(spec)
      PROVE  TypeOK'
  <2>1. spec \in SpecType
    BY SpecsAssumption
  <2>2. policy.uid + 1 \in Nat /\ policy.rv + 1 \in Nat /\ 1 \in Nat
    BY DEF PolicyType
  <2>3. policy' \in PolicyType
    BY <1>1, <2>1, <2>2, ConstantTypes, Zenon DEF CreatePolicy, PolicyType
  <2>4. QED
    BY <1>1, <2>3 DEF CreatePolicy, UserOnlyPolicy
<1>2. ASSUME NEW spec \in Specs, EditPolicy(spec)
      PROVE  TypeOK'
  <2>1. spec \in SpecType
    BY SpecsAssumption
  <2>2. policy.gen + 1 \in Nat /\ policy.rv + 1 \in Nat
    BY DEF PolicyType
  <2>3. policy' \in PolicyType
    BY <1>2, <2>1, <2>2, Zenon DEF EditPolicy, PolicyType
  <2>4. QED
    BY <1>2, <2>3 DEF EditPolicy, UserOnlyPolicy
<1>3. CASE DeletePolicy
  BY <1>3, PolicyTypes DEF DeletePolicy, UserOnlyPolicy
<1>4. CASE DeleteTool
  <2>1. tool' \in ToolType
    BY <1>4 DEF DeleteTool, ToolType
  <2>2. QED
    BY <1>4, <2>1 DEF DeleteTool, UserOnlyTool
<1>5. CASE CreateTool
  <2>1. tool' \in ToolType
    BY <1>5 DEF CreateTool, ToolType
  <2>2. QED
    BY <1>5, <2>1 DEF CreateTool, UserOnlyTool
<1>6. QED
  BY <1>1, <1>2, <1>3, <1>4, <1>5 DEF UserStep

\* So do the garbage collector, the Job controller and the informers.
LEMMA KubernetesTypes == TypeOK /\ Kubernetes => TypeOK'
<1> SUFFICES ASSUME TypeOK, Kubernetes
             PROVE  TypeOK'
  OBVIOUS
<1> USE DEF TypeOK, ClusterTypeOK, Kubernetes
<1>1. CASE GCPolicy
  BY <1>1, PolicyTypes DEF GCPolicy
<1>2. CASE GCReport
  BY <1>2, ReportTypes DEF GCReport
<1>3. ASSUME NEW s \in Scans, GCJob(s)
      PROVE  TypeOK'
  BY <1>3, ConstantTypes DEF GCJob
<1>4. ASSUME NEW s \in Scans, NEW ok \in BOOLEAN, JobFinishes(s, ok)
      PROVE  TypeOK'
  <2>1. jobs' \in [Scans -> JobType]
    BY <1>4 DEF JobFinishes, JobType
  <2>2. [live |-> TRUE, image |-> jobs[s].image, ok |-> ok] \in PodType
    BY DEF JobType, PodType
  <2>3. QED
    BY <1>4, <2>1, <2>2 DEF JobFinishes
<1>5. ASSUME NEW s \in Scans, JobExpires(s)
      PROVE  TypeOK'
  BY <1>5, ConstantTypes DEF JobExpires
<1>6. ASSUME NEW s \in Scans, SyncJob(s)
      PROVE  TypeOK'
  BY <1>6 DEF SyncJob
<1>7. CASE SyncPolicy \/ SyncReport \/ SyncTool
  BY <1>7 DEF SyncPolicy, SyncReport, SyncTool
<1>8. QED
  BY <1>1, <1>2, <1>3, <1>4, <1>5, <1>6, <1>7 DEF ClusterStep

\* Every object the policy worker builds has its type.
LEMMA PolicyObjectTypes ==
  ASSUME TypeOK
  PROVE  /\ [pw.pol EXCEPT !.fin = TRUE] \in PolicyType
         /\ [pw.pol EXCEPT !.owner = toolCache.uid] \in PolicyType
         /\ [pw.pol EXCEPT !.obsGen = pw.pol.gen] \in PolicyType
         /\ FreshReport(pw.pol) \in ReportType
         /\ [reportCache EXCEPT !.gen = pw.pol.gen, !.uid = pw.pol.uid,
                                !.rv = @ + 1] \in ReportType
         /\ [pw.rep EXCEPT !.rv = report.rv + 1, !.status = NoStatus] \in ReportType
         /\ [pw.rep EXCEPT !.status = [NoStatus EXCEPT !.phase = "Pending"]]
              \in ReportType
<1> USE DEF TypeOK, ClusterTypeOK
<1>1. pw.pol \in PolicyType /\ pw.rep \in ReportType /\ toolCache.uid \in Nat
  BY DEF PolicyWorkerType, ToolType
<1>2. pw.pol.uid \in Nat /\ pw.pol.gen \in Nat
  BY <1>1 DEF PolicyType
<1>3. [NoStatus EXCEPT !.phase = "Pending"] \in StatusType
  BY ConstantTypes DEF StatusType, Phases
<1>4. report.rv + 1 \in Nat /\ reportCache.rv + 1 \in Nat
  BY DEF ReportType
<1>5. /\ [pw.pol EXCEPT !.fin = TRUE] \in PolicyType
      /\ [pw.pol EXCEPT !.owner = toolCache.uid] \in PolicyType
      /\ [pw.pol EXCEPT !.obsGen = pw.pol.gen] \in PolicyType
  BY <1>1, <1>2, Zenon DEF PolicyType
<1>6. FreshReport(pw.pol) \in ReportType
  BY <1>2, <1>3 DEF FreshReport, ReportType
<1>7. [reportCache EXCEPT !.gen = pw.pol.gen, !.uid = pw.pol.uid, !.rv = @ + 1]
        \in ReportType
  BY <1>2, <1>4, Zenon DEF ReportType
<1>8. [pw.rep EXCEPT !.rv = report.rv + 1, !.status = NoStatus] \in ReportType
  BY <1>1, <1>4, ConstantTypes, Zenon DEF ReportType
<1>9. [pw.rep EXCEPT !.status = [NoStatus EXCEPT !.phase = "Pending"]]
        \in ReportType
  BY <1>1, <1>3, Zenon DEF ReportType
<1>10. QED
  BY <1>5, <1>6, <1>7, <1>8, <1>9

\* A write of the Policy that ends the reconciliation keeps the types.
LEMMA UpdatePolicyTypes ==
  ASSUME TypeOK, UNCHANGED <<rw, faults>>,
         NEW new \in PolicyType, UpdatePolicyAndStop(new)
  PROVE  TypeOK'
<1>1. policy' \in PolicyType /\ policyQueue' \in BOOLEAN
  BY DEF UpdatePolicyAndStop, PolicyDone, PolicyRetry, TypeOK, ClusterTypeOK
<1>2. pw' \in PolicyWorkerType
  BY ConstantTypes DEF UpdatePolicyAndStop, PolicyDone, PolicyRetry
<1>3. QED
  BY <1>1, <1>2 DEF UpdatePolicyAndStop, KeepAllBut, TypeOK, ClusterTypeOK

\* Steps that change nothing but the worker and its queue.
LEMMA OnlyWorkerMovesTypes ==
  ASSUME TypeOK, UNCHANGED <<rw, faults>>, OnlyWorkerMoves,
         pw' \in PolicyWorkerType, policyQueue' \in BOOLEAN
  PROVE  TypeOK'
BY DEF OnlyWorkerMoves, KeepAllBut, TypeOK, ClusterTypeOK

\* Every step of the policy worker keeps the types.
LEMMA PolicyStepTypes == TypeOK /\ PolicyStep => TypeOK'
<1> SUFFICES ASSUME TypeOK, PolicyStep
             PROVE  TypeOK'
  OBVIOUS
<1> UNCHANGED <<rw, faults>>
  BY DEF PolicyStep
<1>t. /\ pw.pol \in PolicyType /\ pw.rep \in ReportType
      /\ pw \in PolicyWorkerType /\ policyCache \in PolicyType
      /\ reportCache \in ReportType /\ policy \in PolicyType
      /\ report \in ReportType /\ jobs \in [Scans -> JobType]
      /\ policyQueue \in BOOLEAN
  BY DEF TypeOK, ClusterTypeOK, PolicyWorkerType
<1>1. CASE PolicyGet
  <2>1. pw' \in PolicyWorkerType
    BY <1>1, <1>t, ConstantTypes DEF PolicyGet, PolicyWorkerType, PolicyPCs
  <2>2. QED
    BY <1>1, <2>1, OnlyWorkerMovesTypes DEF PolicyGet
<1>2. CASE ToolNotFound \/ CleanupPanics \/ RejectInvalid
  BY <1>2, ConstantTypes, OnlyWorkerMovesTypes
  DEF ToolNotFound, CleanupPanics, RejectInvalid, PolicyRetry
<1>3. CASE AddFinalizer
  BY <1>3, <1>t, PolicyObjectTypes, PolicyTypes, UpdatePolicyTypes DEF AddFinalizer
<1>4. CASE SetOwner
  BY <1>4, <1>t, PolicyObjectTypes, PolicyTypes, UpdatePolicyTypes DEF SetOwner
<1>5. CASE BeginCleanup \/ BeginJobs
  <2>1. pw' \in PolicyWorkerType /\ policyQueue' \in BOOLEAN
    BY <1>5, <1>t DEF BeginCleanup, BeginJobs, PolicyWorkerType, PolicyPCs, Asked
  <2>2. QED
    BY <1>5, <2>1, OnlyWorkerMovesTypes DEF BeginCleanup, BeginJobs
<1>6. ASSUME NEW s \in Scans, CleanupJob(s)
      PROVE  TypeOK'
  <2>1. pw' \in PolicyWorkerType
    BY <1>6, <1>t DEF CleanupJob, PolicyWorkerType
  <2>2. jobs' \in [Scans -> JobType]
    BY <1>6, <1>t, ConstantTypes DEF CleanupJob
  <2>3. QED
    BY <1>6, <2>1, <2>2 DEF CleanupJob, KeepAllBut, TypeOK, ClusterTypeOK
<1>7. ASSUME NEW s \in Scans, EnsureJob(s)
      PROVE  TypeOK'
  <2>1. pw' \in PolicyWorkerType /\ policyQueue' \in BOOLEAN
    BY <1>7, <1>t, ConstantTypes DEF EnsureJob, PolicyRetry, PolicyWorkerType
  <2>2. [live |-> TRUE, owner |-> pw.pol.uid, image |-> pw.pol.spec.scans[s],
         finished |-> FALSE] \in JobType
    BY <1>t DEF PolicyType, SpecType, JobType
  <2>3. jobs' \in [Scans -> JobType]
    BY <1>7, <1>t, <2>2 DEF EnsureJob
  <2>4. QED
    BY <1>7, <2>1, <2>3 DEF EnsureJob, KeepAllBut, TypeOK, ClusterTypeOK
<1>8. CASE DisabledDone
  BY <1>8, <1>t, ConstantTypes, OnlyWorkerMovesTypes DEF DisabledDone, PolicyDone
<1>9. CASE RemoveFinalizer
  BY <1>9, <1>t, PolicyTypes, UpdatePolicyTypes DEF RemoveFinalizer
<1>10. CASE GenerateReport
  <2>1. pw' \in PolicyWorkerType /\ policyQueue' \in BOOLEAN
    BY <1>10, <1>t, PolicyObjectTypes DEF GenerateReport, PolicyWorkerType, PolicyPCs
  <2>2. QED
    BY <1>10, <2>1, OnlyWorkerMovesTypes DEF GenerateReport
<1>11. ASSUME NEW rep \in ReportType, AfterUpsert(rep)
       PROVE  pw' \in PolicyWorkerType /\ policyQueue' \in BOOLEAN
  BY <1>11, <1>t DEF AfterUpsert, PolicyWorkerType, PolicyPCs
<1>12. CASE UpsertNothing
  BY <1>11, <1>12, <1>t, OnlyWorkerMovesTypes DEF UpsertNothing
<1>13. CASE UpsertUpdate
  <2>1. report' \in ReportType
    BY <1>13, <1>t, PolicyObjectTypes DEF UpsertUpdate
  <2>2. pw' \in PolicyWorkerType /\ policyQueue' \in BOOLEAN
    BY <1>11, <1>13, <2>1, ConstantTypes DEF UpsertUpdate, PolicyRetry
  <2>3. QED
    BY <1>13, <2>1, <2>2 DEF UpsertUpdate, KeepAllBut, TypeOK, ClusterTypeOK
<1>14. CASE UpsertCreate
  <2>1. report' \in ReportType
    BY <1>14, <1>t, PolicyObjectTypes DEF UpsertCreate
  <2>2. pw' \in PolicyWorkerType /\ policyQueue' \in BOOLEAN
    BY <1>11, <1>14, <2>1, ConstantTypes DEF UpsertCreate, PolicyRetry
  <2>3. QED
    BY <1>14, <2>1, <2>2 DEF UpsertCreate, KeepAllBut, TypeOK, ClusterTypeOK
<1>15. CASE ResetReport
  <2>1. report' \in ReportType
    BY <1>15, <1>t, PolicyObjectTypes, ReportTypes DEF ResetReport
  <2>2. pw' \in PolicyWorkerType /\ policyQueue' \in BOOLEAN
    BY <1>15, <1>t, <2>1, ConstantTypes
    DEF ResetReport, PolicyRetry, PolicyWorkerType, PolicyPCs
  <2>3. QED
    BY <1>15, <2>1, <2>2 DEF ResetReport, KeepAllBut, TypeOK, ClusterTypeOK
<1>16. CASE UpdateStatus
  BY <1>16, <1>t, PolicyObjectTypes, PolicyTypes, UpdatePolicyTypes DEF UpdateStatus
<1>17. QED
  BY <1>1, <1>2, <1>3, <1>4, <1>5, <1>6, <1>7, <1>8, <1>9, <1>10, <1>12, <1>13,
     <1>14, <1>15, <1>16
  DEF PolicyStep, PolicyWorkerStep

\* Every step of the report worker keeps the types.
LEMMA ReportStepTypes == TypeOK /\ ReportStep => TypeOK'
<1> SUFFICES ASSUME TypeOK, ReportStep
             PROVE  TypeOK'
  OBVIOUS
<1> UNCHANGED <<pw, faults>>
  BY DEF ReportStep
<1>t. /\ rw.pol \in PolicyType /\ rw.rep \in ReportType
      /\ rw \in ReportWorkerType /\ policyCache \in PolicyType
      /\ reportCache \in ReportType /\ report \in ReportType
      /\ pods \in [Scans -> PodType] /\ reportQueue \in BOOLEAN
  BY DEF TypeOK, ClusterTypeOK, ReportWorkerType
<1>w. ASSUME rw' \in ReportWorkerType, report' \in ReportType,
             reportQueue' \in BOOLEAN, KeepAllButReport
      PROVE  TypeOK'
  BY <1>w DEF KeepAllButReport, TypeOK, ClusterTypeOK
<1>1. CASE ReportGet
  <2>1. rw' \in ReportWorkerType
    BY <1>1, <1>t, ConstantTypes DEF ReportGet, ReportWorkerType, ReportPCs
  <2>2. QED
    BY <1>1, <1>t, <1>w, <2>1 DEF ReportGet, OnlyReportWorkerMoves
<1>2. CASE LookupPolicy
  <2>1. rw' \in ReportWorkerType
    BY <1>2, <1>t DEF LookupPolicy, ReportWorkerType, ReportPCs
  <2>2. QED
    BY <1>2, <1>t, <1>w, <2>1 DEF LookupPolicy, OnlyReportWorkerMoves
<1>3. CASE DeleteOrphan
  BY <1>3, <1>t, <1>w, ConstantTypes, ReportTypes
  DEF DeleteOrphan, ReportDone, ReportRetry
<1>4. CASE BeginScan
  <2>1. rw' \in ReportWorkerType
    BY <1>4, <1>t DEF BeginScan, ReportWorkerType, ReportPCs, Asked
  <2>2. QED
    BY <1>4, <1>t, <1>w, <2>1 DEF BeginScan, OnlyReportWorkerMoves
<1>5. ASSUME NEW s \in Scans,
             NothingToScan \/ ScanUnreadable(s)
      PROVE  TypeOK'
  BY <1>5, <1>t, <1>w, ConstantTypes
  DEF NothingToScan, ScanUnreadable, ReportRetry, OnlyReportWorkerMoves
<1>6. ASSUME NEW s \in Scans, ScanPending(s)
      PROVE  TypeOK'
  <2>1. rw' \in ReportWorkerType
    BY <1>6, <1>t DEF ScanPending, ReportWorkerType
  <2>2. QED
    BY <1>6, <1>t, <1>w, <2>1 DEF ScanPending, OnlyReportWorkerMoves
<1>7. ASSUME NEW s \in Scans, ScanRead(s)
      PROVE  TypeOK'
  <2>1. pods[s].image \in MaybeImage
    BY <1>t DEF PodType
  <2>2. rw' \in ReportWorkerType
    BY <1>7, <1>t, <2>1 DEF ScanRead, ReportWorkerType
  <2>3. QED
    BY <1>7, <1>t, <1>w, <2>2 DEF ScanRead, OnlyReportWorkerMoves
<1>8. CASE MarkRunning
  <2>1. [rw.rep EXCEPT !.status.phase = "Running"] \in ReportType
    BY <1>t DEF ReportType, StatusType, Phases
  <2>2. report' \in ReportType
    BY <1>8, <1>t, <2>1, ReportTypes DEF MarkRunning
  <2>3. QED
    BY <1>8, <1>w, <2>2, ConstantTypes DEF MarkRunning, ReportRetry
<1>9. CASE CompleteReport
  <2>1. rw.pol.spec.scans \in [Scans -> MaybeImage] /\ rw.pol.uid \in Nat
        /\ rw.pol.gen \in Nat /\ rw.images \in [Scans -> MaybeImage]
    BY <1>t DEF PolicyType, SpecType, ReportWorkerType
  <2>2. Result \in StatusType
    BY <2>1 DEF Result, StatusType, Phases, Verdicts, VerdictOf
  <2>3. [rw.rep EXCEPT !.status = Result] \in ReportType
    BY <1>t, <2>2, Zenon DEF ReportType
  <2>4. report' \in ReportType
    BY <1>9, <1>t, <2>3, ReportTypes DEF CompleteReport
  <2>5. QED
    BY <1>9, <1>t, <1>w, <2>4, ConstantTypes
    DEF CompleteReport, ReportDone, ReportRetry
<1>10. CASE NothingToScan
  BY <1>10, <1>t, <1>w, ConstantTypes
  DEF NothingToScan, ReportRetry, OnlyReportWorkerMoves
<1>11. QED
  BY <1>1, <1>2, <1>3, <1>4, <1>5, <1>6, <1>7, <1>8, <1>9, <1>10
  DEF ReportStep, ReportWorkerStep

\* So do the resyncs, failing calls and restarts.
LEMMA FaultTypes == TypeOK /\ (Resync \/ Fault) => TypeOK'
<1> SUFFICES ASSUME TypeOK, Resync \/ Fault
             PROVE  TypeOK'
  OBVIOUS
<1> USE DEF TypeOK, ClusterTypeOK
<1>1. CASE Resync
  BY <1>1 DEF Resync, PolicyResync, ReportResync, OnlyWorkerMoves, KeepAllBut,
              OnlyReportWorkerMoves, KeepAllButReport
<1>2. CASE Fault /\ PolicyCallFails /\ UNCHANGED rw
  BY <1>2, ConstantTypes DEF Fault, PolicyCallFails, PolicyRetry,
     OnlyWorkerMoves, KeepAllBut
<1>3. CASE Fault /\ ReportCallFails /\ UNCHANGED pw
  BY <1>3, ConstantTypes DEF Fault, ReportCallFails, ReportRetry,
     OnlyReportWorkerMoves, KeepAllButReport
<1>4. CASE Fault /\ Restart
  <2>1. policy.live \in BOOLEAN /\ report.live \in BOOLEAN
    BY DEF PolicyType, ReportType
  <2>2. QED
    BY <1>4, <2>1, ConstantTypes DEF Fault, Restart, Relist
<1>5. QED
  BY <1>1, <1>2, <1>3, <1>4 DEF Fault

\* A stuttering step, of course.
LEMMA StutterTypes == TypeOK /\ UNCHANGED vars => TypeOK'
BY DEF vars, clusterVars, TypeOK, ClusterTypeOK

\* The initial state has the types.
LEMMA InitTypes == Init => TypeOK
<1> SUFFICES ASSUME Init
             PROVE  TypeOK
  OBVIOUS
<1>1. tool \in ToolType
  BY DEF Init, ClusterInit, ToolType
<1>2. QED
  BY <1>1, ConstantTypes
  DEF Init, ClusterInit, PolicyWorkerInit, ReportWorkerInit, TypeOK, ClusterTypeOK

\* Every step, the stuttering one included, keeps every object of its kind.
LEMMA NextTypes == TypeOK /\ [Next]_vars => TypeOK'
BY UserTypes, KubernetesTypes, PolicyStepTypes, ReportStepTypes, FaultTypes,
   StutterTypes DEF Next

\* Every object in the cluster, in the caches and in the hands of a worker is
\* always of its kind: for any scans, images, specs, edits and faults.
THEOREM TypeCorrect == Spec => []TypeOK
<1>1. QED
  BY InitTypes, NextTypes, PTL DEF Spec

-----------------------------------------------------------------------------
(***************************************************************************)
(* How the shared objects and the copies of them move in one step.         *)
(***************************************************************************)

\* What a copy of a Policy keeps when it is written back, and what is left of a
\* Policy that goes.
LEMMA PolicyWrites ==
  ASSUME NEW p \in PolicyType, NEW q \in PolicyType, q.uid = p.uid, q.gen = p.gen
  PROVE  /\ Stored(q, p) = p \/ (Stored(q, p).rv = p.rv + 1 /\ Upto(p, Stored(q, p)))
         /\ Gone(p).rv = p.rv + 1 /\ Upto(p, Gone(p))
         /\ DeletedPolicy(p).rv = p.rv + 1 /\ Upto(p, DeletedPolicy(p))
<1>1. Stored(q, p) = p \/ (Stored(q, p).rv = p.rv + 1 /\ Upto(p, Stored(q, p)))
  BY DEF Stored, Upto, NotNewer, PolicyType
<1>2. Gone(p).rv = p.rv + 1 /\ Upto(p, Gone(p))
  BY ConstantTypes DEF Gone, Upto, NotNewer, PolicyType
<1>3. DeletedPolicy(p).rv = p.rv + 1 /\ Upto(p, DeletedPolicy(p))
  BY <1>2 DEF DeletedPolicy, Upto, NotNewer, PolicyType
<1>4. QED
  BY <1>1, <1>2, <1>3

\* A step leaves the Policy alone or writes it once: its version grows by one,
\* and its uid and generation do not go back.
LEMMA PolicyMoves ==
  ASSUME TypeOK, Copy(pw.pol, policy), [Next]_vars
  PROVE  policy' = policy \/ (policy'.rv = policy.rv + 1 /\ Upto(policy, policy'))
<1> DEFINE Moved == policy' = policy
                    \/ (policy'.rv = policy.rv + 1 /\ Upto(policy, policy'))
<1>t. policy \in PolicyType /\ pw.pol \in PolicyType
  BY DEF TypeOK, ClusterTypeOK, PolicyWorkerType
<1>1. CASE User
  <2>1. ASSUME NEW spec \in Specs, CreatePolicy(spec) \/ EditPolicy(spec)
        PROVE  Moved
    <3>1. CASE CreatePolicy(spec)
      <4>1. policy'.rv = policy.rv + 1 /\ policy'.uid = policy.uid + 1
        BY <3>1, <1>t DEF CreatePolicy, NoPolicy
      <4>2. QED
        BY <4>1, <1>t DEF Upto, NotNewer, PolicyType
    <3>2. CASE EditPolicy(spec)
      <4>1. policy'.rv = policy.rv + 1 /\ policy'.uid = policy.uid
            /\ policy'.gen = policy.gen + 1
        BY <3>2, <1>t DEF EditPolicy, PolicyType
      <4>2. QED
        BY <4>1, <1>t DEF Upto, NotNewer, PolicyType
    <3>3. QED
      BY <2>1, <3>1, <3>2
  <2>2. CASE DeletePolicy
    BY <2>2, <1>t, PolicyWrites DEF DeletePolicy
  <2>3. CASE DeleteTool \/ CreateTool
    BY <2>3 DEF DeleteTool, CreateTool, UserOnlyTool
  <2>4. QED
    BY <1>1, <2>1, <2>2, <2>3 DEF User, UserStep
<1>2. CASE Kubernetes
  <2>1. CASE GCPolicy
    BY <2>1, <1>t, PolicyWrites DEF GCPolicy
  <2>2. CASE ~GCPolicy
    BY <1>2, <2>2 DEF Kubernetes, ClusterStep, GCReport, GCJob, JobFinishes,
       JobExpires, SyncPolicy, SyncReport, SyncTool, SyncJob
  <2>3. QED
    BY <2>1, <2>2
<1>3. CASE PolicyStep
  <2>1. ASSUME NEW new \in PolicyType, new.uid = pw.pol.uid, new.gen = pw.pol.gen,
               UpdatePolicyAndStop(Stored(new, policy))
        PROVE  Moved
    BY <2>1, <1>t, PolicyWrites DEF UpdatePolicyAndStop, CanWrite, Copy
  <2>2. CASE AddFinalizer \/ SetOwner \/ UpdateStatus
    <3>1. /\ [pw.pol EXCEPT !.fin = TRUE].uid = pw.pol.uid
          /\ [pw.pol EXCEPT !.fin = TRUE].gen = pw.pol.gen
          /\ [pw.pol EXCEPT !.owner = toolCache.uid].uid = pw.pol.uid
          /\ [pw.pol EXCEPT !.owner = toolCache.uid].gen = pw.pol.gen
          /\ [pw.pol EXCEPT !.obsGen = pw.pol.gen].uid = pw.pol.uid
          /\ [pw.pol EXCEPT !.obsGen = pw.pol.gen].gen = pw.pol.gen
      BY <1>t DEF PolicyType
    <3>2. QED
      BY <2>1, <2>2, <3>1, PolicyObjectTypes DEF AddFinalizer, SetOwner, UpdateStatus
  <2>3. CASE RemoveFinalizer
    BY <2>3, <1>t, PolicyWrites DEF RemoveFinalizer, UpdatePolicyAndStop
  <2>4. CASE ~(AddFinalizer \/ SetOwner \/ UpdateStatus \/ RemoveFinalizer)
    BY <1>3, <2>4
    DEF PolicyStep, PolicyWorkerStep, PolicyGet, ToolNotFound, BeginCleanup,
        CleanupPanics, RejectInvalid, BeginJobs, CleanupJob, EnsureJob, DisabledDone,
        GenerateReport, UpsertNothing, UpsertUpdate, UpsertCreate, ResetReport,
        OnlyWorkerMoves, KeepAllBut
  <2>5. QED
    BY <2>2, <2>3, <2>4
<1>4. CASE ReportStep
  BY <1>4
  DEF ReportStep, ReportWorkerStep, ReportGet, LookupPolicy, DeleteOrphan, BeginScan,
      NothingToScan, ScanPending, ScanRead, ScanUnreadable, MarkRunning,
      CompleteReport, OnlyReportWorkerMoves, KeepAllButReport
<1>5. CASE Resync \/ Fault \/ UNCHANGED vars
  BY <1>5
  DEF Resync, Fault, vars, clusterVars, PolicyResync, ReportResync, PolicyCallFails,
      ReportCallFails, Restart, Relist, OnlyWorkerMoves, KeepAllBut,
      OnlyReportWorkerMoves, KeepAllButReport
<1>6. QED
  BY <1>1, <1>2, <1>3, <1>4, <1>5 DEF Next

\* What is known of the Policy: the cache only takes the Policy itself, and the
\* worker's copy is taken from the cache.
LEMMA PolicyCopyMoves ==
  ASSUME TypeOK, [Next]_vars
  PROVE  /\ policyCache' = policyCache \/ (policyCache' = policy /\ policy' = policy)
         /\ pw'.pol = pw.pol \/ pw'.pol = NoPolicy
            \/ (pw'.pol = policyCache /\ policyCache' = policyCache)
<1>1. CASE User
  BY <1>1
  DEF User, UserStep, CreatePolicy, EditPolicy, DeletePolicy, DeleteTool, CreateTool,
      UserOnlyPolicy, UserOnlyTool
<1>2. CASE Kubernetes
  BY <1>2
  DEF Kubernetes, ClusterStep, GCPolicy, GCReport, GCJob, JobFinishes, JobExpires,
      SyncPolicy, SyncReport, SyncTool, SyncJob
<1>3. CASE PolicyStep
  <2>1. policyCache' = policyCache
    BY <1>3
    DEF PolicyStep, PolicyWorkerStep, PolicyGet, ToolNotFound, AddFinalizer, SetOwner,
        BeginCleanup, CleanupPanics, RejectInvalid, BeginJobs, CleanupJob, EnsureJob,
        DisabledDone, RemoveFinalizer, GenerateReport, UpsertNothing, UpsertUpdate,
        UpsertCreate, ResetReport, UpdateStatus, UpdatePolicyAndStop,
        OnlyWorkerMoves, KeepAllBut
  <2>t. pw \in PolicyWorkerType
    BY DEF TypeOK
  <2>2. CASE PolicyGet
    BY <2>1, <2>2, <2>t DEF PolicyGet, PolicyWorkerType, IdlePolicyWorker
  <2>3. ASSUME NEW s \in Scans,
               CleanupJob(s) \/ EnsureJob(s)
        PROVE  pw'.pol = pw.pol \/ pw'.pol = NoPolicy
    BY <2>3, <2>t
    DEF CleanupJob, EnsureJob, PolicyRetry, PolicyWorkerType, IdlePolicyWorker
  <2>4. CASE BeginCleanup \/ BeginJobs \/ GenerateReport
    <3>1. CASE BeginCleanup
      BY <2>1, <3>1, <2>t DEF BeginCleanup, PolicyWorkerType
    <3>2. CASE BeginJobs
      BY <2>1, <3>2, <2>t DEF BeginJobs, PolicyWorkerType
    <3>3. CASE GenerateReport
      BY <2>1, <3>3, <2>t DEF GenerateReport, PolicyWorkerType
    <3>4. QED
      BY <2>4, <3>1, <3>2, <3>3
  <2>5. CASE UpsertNothing \/ UpsertUpdate \/ UpsertCreate \/ ResetReport
    <3>1. ASSUME NEW rep, AfterUpsert(rep)
          PROVE  pw'.pol = pw.pol
      BY <3>1, <2>t DEF AfterUpsert, PolicyWorkerType
    <3>2. CASE UpsertNothing \/ UpsertUpdate \/ UpsertCreate
      <4>1. PolicyRetry \/ \E rep : AfterUpsert(rep)
        BY <3>2, Zenon DEF UpsertNothing, UpsertUpdate, UpsertCreate
      <4>2. QED
        BY <2>1, <3>1, <4>1 DEF PolicyRetry, IdlePolicyWorker
    <3>3. CASE ResetReport
      <4>1. PolicyRetry \/ pw' = [pw EXCEPT !.pc = "status", !.rep = report']
        BY <3>3, Zenon DEF ResetReport
      <4>2. CASE PolicyRetry
        BY <2>1, <4>2 DEF PolicyRetry, IdlePolicyWorker
      <4>3. CASE pw' = [pw EXCEPT !.pc = "status", !.rep = report']
        BY <2>1, <2>t, <4>3 DEF PolicyWorkerType
      <4>4. QED
        BY <4>1, <4>2, <4>3
    <3>4. QED
      BY <2>5, <3>2, <3>3
  <2>6. CASE \/ ToolNotFound \/ AddFinalizer \/ SetOwner \/ CleanupPanics
             \/ RejectInvalid \/ DisabledDone \/ RemoveFinalizer \/ UpdateStatus
    <3>1. pw' = IdlePolicyWorker
      BY <2>6, Zenon
      DEF ToolNotFound, AddFinalizer, SetOwner, CleanupPanics, RejectInvalid,
          DisabledDone, RemoveFinalizer, UpdateStatus, UpdatePolicyAndStop,
          PolicyDone, PolicyRetry
    <3>2. QED
      BY <2>1, <3>1 DEF IdlePolicyWorker
  <2>7. QED
    BY <1>3, <2>1, <2>2, <2>3, <2>4, <2>5, <2>6 DEF PolicyStep, PolicyWorkerStep
<1>4. CASE ReportStep
  BY <1>4
  DEF ReportStep, ReportWorkerStep, ReportGet, LookupPolicy, DeleteOrphan, BeginScan,
      NothingToScan, ScanPending, ScanRead, ScanUnreadable, MarkRunning,
      CompleteReport, OnlyReportWorkerMoves, KeepAllButReport
<1>5. CASE Resync \/ Fault \/ UNCHANGED vars
  BY <1>5
  DEF Resync, Fault, vars, clusterVars, PolicyResync, ReportResync, PolicyCallFails,
      ReportCallFails, Restart, Relist, OnlyWorkerMoves, KeepAllBut, PolicyRetry,
      OnlyReportWorkerMoves, KeepAllButReport, IdlePolicyWorker
<1>6. QED
  BY <1>1, <1>2, <1>3, <1>4, <1>5 DEF Next

\* The same of the report, its cache and the report worker's copy of it, which is
\* never of a report that is finished.
LEMMA ReportCopyMoves ==
  ASSUME TypeOK, [Next]_vars
  PROVE  /\ reportCache' = reportCache \/ (reportCache' = report /\ report' = report)
         /\ rw'.rep = rw.rep \/ rw'.rep = NoReport
            \/ (rw'.rep = reportCache /\ reportCache' = reportCache
                /\ reportCache.status.phase # "Completed")
<1>1. CASE User
  BY <1>1
  DEF User, UserStep, CreatePolicy, EditPolicy, DeletePolicy, DeleteTool, CreateTool,
      UserOnlyPolicy, UserOnlyTool
<1>2. CASE Kubernetes
  BY <1>2
  DEF Kubernetes, ClusterStep, GCPolicy, GCReport, GCJob, JobFinishes, JobExpires,
      SyncPolicy, SyncReport, SyncTool, SyncJob
<1>3. CASE PolicyStep
  BY <1>3
  DEF PolicyStep, PolicyWorkerStep, PolicyGet, ToolNotFound, AddFinalizer, SetOwner,
      BeginCleanup, CleanupPanics, RejectInvalid, BeginJobs, CleanupJob, EnsureJob,
      DisabledDone, RemoveFinalizer, GenerateReport, UpsertNothing, UpsertUpdate,
      UpsertCreate, ResetReport, UpdateStatus, UpdatePolicyAndStop,
      OnlyWorkerMoves, KeepAllBut
<1>4. CASE ReportStep
  <2>1. reportCache' = reportCache
    BY <1>4
    DEF ReportStep, ReportWorkerStep, ReportGet, LookupPolicy, DeleteOrphan, BeginScan,
        NothingToScan, ScanPending, ScanRead, ScanUnreadable, MarkRunning,
        CompleteReport, OnlyReportWorkerMoves, KeepAllButReport
  <2>2. \/ rw'.rep = rw.rep \/ rw'.rep = NoReport
        \/ rw'.rep = reportCache /\ reportCache.status.phase # "Completed"
    <3>t. rw \in ReportWorkerType
      BY DEF TypeOK
    <3>1. CASE ReportGet
      BY <3>1, <3>t DEF ReportGet, ReportWorkerType, IdleReportWorker
    <3>2. CASE LookupPolicy \/ BeginScan
      BY <3>2, <3>t DEF LookupPolicy, BeginScan, ReportWorkerType
    <3>3. ASSUME NEW s \in Scans, ScanPending(s) \/ ScanRead(s)
          PROVE  rw'.rep = rw.rep
      BY <3>3, <3>t DEF ScanPending, ScanRead, ReportWorkerType
    <3>4. ASSUME NEW s \in Scans, ScanUnreadable(s)
          PROVE  rw'.rep = NoReport
      BY <3>4 DEF ScanUnreadable, ReportRetry, IdleReportWorker
    <3>5. CASE DeleteOrphan \/ NothingToScan \/ MarkRunning \/ CompleteReport
      BY <3>5
      DEF DeleteOrphan, NothingToScan, MarkRunning, CompleteReport, ReportDone,
          ReportRetry, IdleReportWorker
    <3>6. QED
      BY <1>4, <3>1, <3>2, <3>3, <3>4, <3>5 DEF ReportStep, ReportWorkerStep
  <2>3. QED
    BY <2>1, <2>2
<1>5. CASE Resync \/ Fault \/ UNCHANGED vars
  BY <1>5
  DEF Resync, Fault, vars, clusterVars, PolicyResync, ReportResync, PolicyCallFails,
      ReportCallFails, Restart, Relist, OnlyWorkerMoves, KeepAllBut, ReportRetry,
      OnlyReportWorkerMoves, KeepAllButReport, IdleReportWorker
<1>6. QED
  BY <1>1, <1>2, <1>3, <1>4, <1>5 DEF Next

\* Order of versions of the Policy, for whatever carries one.
LEMMA UptoTransitive ==
  ASSUME NEW a, NEW b, NEW c,
         a.uid \in Nat, a.gen \in Nat, b.uid \in Nat, b.gen \in Nat,
         c.uid \in Nat, c.gen \in Nat,
         Upto(a, b), Upto(b, c)
  PROVE  Upto(a, c)
BY DEF Upto, NotNewer

\* What the copy of a report keeps when it is written back.
LEMMA ReportWrites ==
  ASSUME NEW r \in ReportType, NEW q \in ReportType, NEW p \in PolicyType, Upto(q, p)
  PROVE  /\ Stored(q, r) = r \/ Stored(q, r).rv = r.rv + 1
         /\ r # Stored(q, r) => Upto(Stored(q, r), p)
         /\ GoneReport(r).rv = r.rv + 1
         /\ Upto(GoneReport(r), p)
<1>1. Stored(q, r) = r \/ Stored(q, r).rv = r.rv + 1
  BY DEF Stored, ReportType
<1>2. r # Stored(q, r) => Upto(Stored(q, r), p)
  BY DEF Stored, ReportType, PolicyType, Upto, NotNewer
<1>3. GoneReport(r).rv = r.rv + 1 /\ GoneReport(r).uid = 0 /\ GoneReport(r).gen = 0
  BY DEF GoneReport, NoReport
<1>4. Upto(GoneReport(r), p)
  BY <1>3 DEF Upto, NotNewer, PolicyType
<1>5. QED
  BY <1>1, <1>2, <1>3, <1>4

\* A step leaves the report alone or writes it once, and neither what it writes
\* nor what the policy worker prepares is for a version of the Policy the cache
\* has not shown.
LEMMA ReportMoves ==
  ASSUME TypeOK, Copies, Chain, [Next]_vars
  PROVE  /\ report' = report \/ report'.rv = report.rv + 1
         /\ Upto(report', policyCache)
         /\ Upto(pw'.rep, policyCache)
<1> DEFINE Moved == /\ report' = report \/ report'.rv = report.rv + 1
                    /\ Upto(report', policyCache)
<1>t. /\ policyCache \in PolicyType /\ pw.pol \in PolicyType
      /\ report \in ReportType /\ reportCache \in ReportType
      /\ pw.rep \in ReportType /\ rw.rep \in ReportType
      /\ pw \in PolicyWorkerType
  BY DEF TypeOK, ClusterTypeOK, PolicyWorkerType, ReportWorkerType
<1>c. /\ Upto(report, policyCache) /\ Upto(pw.rep, policyCache)
      /\ Upto(reportCache, policyCache) /\ Upto(rw.rep, policyCache)
      /\ Upto(pw.pol, policyCache) /\ Upto(NoReport, policyCache)
      /\ Upto(FreshReport(pw.pol), policyCache)
  BY <1>t DEF Chain, Upto, NotNewer, NoReport, FreshReport, PolicyType
<1>i. IdlePolicyWorker.rep = NoReport
  BY DEF IdlePolicyWorker
<1>1. CASE User
  BY <1>1, <1>c
  DEF User, UserStep, CreatePolicy, EditPolicy, DeletePolicy, DeleteTool, CreateTool,
      UserOnlyPolicy, UserOnlyTool
<1>2. CASE Kubernetes
  <2>1. CASE GCReport
    BY <1>2, <2>1, <1>t, <1>c, ReportWrites DEF Kubernetes, GCReport
  <2>2. CASE ~GCReport
    BY <1>2, <2>2, <1>c
    DEF Kubernetes, ClusterStep, GCPolicy, GCJob, JobFinishes, JobExpires, SyncPolicy,
        SyncReport, SyncTool, SyncJob
  <2>3. QED
    BY <2>1, <2>2
<1>3. CASE ReportStep
  <2>1. CASE DeleteOrphan
    BY <1>3, <2>1, <1>t, <1>c, ReportWrites DEF ReportStep, DeleteOrphan
  <2>2. ASSUME NEW status \in StatusType, CanWrite(rw.rep, report),
               report' = Stored([rw.rep EXCEPT !.status = status], report)
        PROVE  Moved
    <3>1. [rw.rep EXCEPT !.status = status] \in ReportType
      BY <1>t, Zenon DEF ReportType
    <3>2. Upto([rw.rep EXCEPT !.status = status], policyCache)
      BY <1>t, <1>c DEF Upto, ReportType
    <3>3. QED
      BY <1>t, <1>c, <2>2, <3>1, <3>2, ReportWrites
  <2>3. CASE MarkRunning
    <3>1. /\ [rw.rep EXCEPT !.status.phase = "Running"] \in ReportType
          /\ [rw.rep EXCEPT !.status.phase = "Running"].uid = rw.rep.uid
          /\ [rw.rep EXCEPT !.status.phase = "Running"].gen = rw.rep.gen
      BY <1>t DEF ReportType, StatusType, Phases
    <3>2. Upto([rw.rep EXCEPT !.status.phase = "Running"], policyCache)
      BY <1>c, <3>1 DEF Upto
    <3>3. Moved
      BY <2>3, <1>t, <1>c, <3>1, <3>2, ReportWrites DEF MarkRunning
    <3>4. QED
      BY <1>3, <3>3, <1>c DEF ReportStep
  <2>4. CASE CompleteReport
    <3>1. Result \in StatusType
      BY DEF Result, StatusType, Phases, Verdicts, VerdictOf, TypeOK,
             ReportWorkerType, PolicyType, SpecType
    <3>2. Moved
      BY <2>2, <2>4, <1>c, <3>1, Zenon DEF CompleteReport
    <3>3. QED
      BY <1>3, <3>2, <1>c DEF ReportStep
  <2>5. CASE ~(DeleteOrphan \/ MarkRunning \/ CompleteReport)
    BY <1>3, <2>5, <1>c
    DEF ReportStep, ReportWorkerStep, ReportGet, LookupPolicy, BeginScan,
        NothingToScan, ScanPending, ScanRead, ScanUnreadable, OnlyReportWorkerMoves
  <2>6. QED
    BY <2>1, <2>3, <2>4, <2>5
<1>4. CASE PolicyStep
  <2>1. CASE UpsertUpdate
    <3>1. CASE PolicyRetry /\ report' = report
      BY <3>1, <1>c, <1>i DEF PolicyRetry
    <3>2. CASE /\ CanWrite(reportCache, report)
               /\ report' = [reportCache EXCEPT !.gen = pw.pol.gen,
                                                !.uid = pw.pol.uid, !.rv = @ + 1]
               /\ AfterUpsert(report')
      <4>1. /\ report'.gen = pw.pol.gen /\ report'.uid = pw.pol.uid
            /\ report'.rv = reportCache.rv + 1
        BY <3>2, <1>t DEF ReportType
      <4>2. pw'.rep = report'
        BY <3>2, <1>t DEF AfterUpsert, PolicyWorkerType
      <4>3. QED
        BY <3>2, <4>1, <4>2, <1>c DEF CanWrite, Upto
    <3>3. QED
      BY <2>1, <3>1, <3>2, Zenon DEF UpsertUpdate
  <2>2. CASE UpsertCreate
    <3>1. CASE PolicyRetry /\ report' = report
      BY <3>1, <1>c, <1>i DEF PolicyRetry
    <3>2. CASE /\ report' = [pw.rep EXCEPT !.rv = report.rv + 1, !.status = NoStatus]
               /\ AfterUpsert(report')
      <4>1. /\ report'.gen = pw.rep.gen /\ report'.uid = pw.rep.uid
            /\ report'.rv = report.rv + 1
        BY <3>2, <1>t DEF ReportType
      <4>2. pw'.rep = report'
        BY <3>2, <1>t DEF AfterUpsert, PolicyWorkerType
      <4>3. QED
        BY <4>1, <4>2, <1>c DEF Upto
    <3>3. QED
      BY <2>2, <3>1, <3>2, Zenon DEF UpsertCreate
  <2>3. CASE ResetReport
    <3>1. CASE PolicyRetry /\ report' = report
      BY <3>1, <1>c, <1>i DEF PolicyRetry
    <3>2. CASE /\ report' = Stored([pw.rep EXCEPT !.status =
                                      [NoStatus EXCEPT !.phase = "Pending"]], report)
               /\ pw' = [pw EXCEPT !.pc = "status", !.rep = report']
      <4>1. [pw.rep EXCEPT !.status = [NoStatus EXCEPT !.phase = "Pending"]]
              \in ReportType
        BY PolicyObjectTypes
      <4>2. Upto([pw.rep EXCEPT !.status = [NoStatus EXCEPT !.phase = "Pending"]],
                 policyCache)
        BY <1>t, <1>c DEF Upto, ReportType
      <4>3. Moved
        BY <3>2, <4>1, <4>2, <1>t, <1>c, ReportWrites
      <4>4. pw'.rep = report'
        BY <3>2, <1>t DEF PolicyWorkerType
      <4>5. QED
        BY <4>3, <4>4
    <3>3. QED
      BY <2>3, <3>1, <3>2, Zenon DEF ResetReport
  <2>4. CASE ~(UpsertUpdate \/ UpsertCreate \/ ResetReport)
    <3>1. report' = report
      BY <1>4, <2>4
      DEF PolicyStep, PolicyWorkerStep, PolicyGet, ToolNotFound, AddFinalizer,
          SetOwner, BeginCleanup, CleanupPanics, RejectInvalid, BeginJobs, CleanupJob,
          EnsureJob, DisabledDone, RemoveFinalizer, GenerateReport, UpsertNothing,
          UpdateStatus, UpdatePolicyAndStop, OnlyWorkerMoves, KeepAllBut
    <3>2. pw'.rep = pw.rep \/ pw'.rep = NoReport \/ pw'.rep = reportCache
          \/ pw'.rep = FreshReport(pw.pol)
      <4>1. CASE PolicyGet
        BY <4>1, <1>t, <1>i DEF PolicyGet, PolicyWorkerType
      <4>2. CASE BeginCleanup
        BY <4>2, <1>t DEF BeginCleanup, PolicyWorkerType
      <4>3. CASE BeginJobs
        BY <4>3, <1>t DEF BeginJobs, PolicyWorkerType
      <4>4. ASSUME NEW s \in Scans, CleanupJob(s) \/ EnsureJob(s)
            PROVE  pw'.rep = pw.rep \/ pw'.rep = NoReport
        BY <4>4, <1>t, <1>i DEF CleanupJob, EnsureJob, PolicyRetry, PolicyWorkerType
      <4>5. CASE GenerateReport
        BY <4>5, <1>t DEF GenerateReport, PolicyWorkerType
      <4>6. CASE UpsertNothing
        BY <4>6, <1>t DEF UpsertNothing, AfterUpsert, PolicyWorkerType
      <4>7. CASE \/ ToolNotFound \/ AddFinalizer \/ SetOwner \/ CleanupPanics
                 \/ RejectInvalid \/ DisabledDone \/ RemoveFinalizer \/ UpdateStatus
        <5>1. pw' = IdlePolicyWorker
          BY <4>7, Zenon
          DEF ToolNotFound, AddFinalizer, SetOwner, CleanupPanics, RejectInvalid,
              DisabledDone, RemoveFinalizer, UpdateStatus, UpdatePolicyAndStop,
              PolicyDone, PolicyRetry
        <5>2. QED
          BY <5>1, <1>i
      <4>8. QED
        BY <1>4, <2>4, <4>1, <4>2, <4>3, <4>4, <4>5, <4>6, <4>7
        DEF PolicyStep, PolicyWorkerStep
    <3>3. QED
      BY <3>1, <3>2, <1>c
  <2>5. QED
    BY <2>1, <2>2, <2>3, <2>4
<1>5. CASE Resync \/ Fault \/ UNCHANGED vars
  BY <1>5, <1>c, <1>i
  DEF Resync, Fault, vars, clusterVars, PolicyResync, ReportResync, PolicyCallFails,
      ReportCallFails, Restart, Relist, OnlyWorkerMoves, KeepAllBut, PolicyRetry,
      OnlyReportWorkerMoves, KeepAllButReport
<1>6. QED
  BY <1>1, <1>2, <1>3, <1>4, <1>5 DEF Next

-----------------------------------------------------------------------------
(***************************************************************************)
(* The inductive invariant.                                                *)
(***************************************************************************)

\* A copy stays a copy while the object moves on.
LEMMA CopyForward ==
  ASSUME NEW c, NEW o, NEW n, c.rv \in Nat, o.rv \in Nat, Copy(c, o),
         n = o \/ n.rv = o.rv + 1
  PROVE  Copy(c, n)
BY DEF Copy

\* Initially nothing has been written.
LEMMA InitInv == Init => IndInv
<1> SUFFICES ASSUME Init
             PROVE  IndInv
  OBVIOUS
<1>1. TypeOK
  BY InitTypes
<1>2. /\ policy = NoPolicy /\ policyCache = NoPolicy /\ pw.pol = NoPolicy
      /\ report = NoReport /\ reportCache = NoReport /\ pw.rep = NoReport
      /\ rw.rep = NoReport /\ rw.pc = "idle" /\ pw.pc = "idle"
  BY DEF Init, ClusterInit, PolicyWorkerInit, ReportWorkerInit, IdlePolicyWorker,
         IdleReportWorker
<1>3. Copies
  BY <1>1, <1>2 DEF Copies, Copy, TypeOK, ClusterTypeOK, PolicyType, ReportType
<1>4. Chain
  BY <1>2 DEF Chain, Upto, NotNewer, NoPolicy, NoReport
<1>5. NoReport.status.phase # "Completed"
  BY DEF NoReport, NoStatus
<1>6. ReportWorkerKnows
  BY <1>2, <1>5 DEF ReportWorkerKnows
<1>7. CleanedSoFar
  BY <1>2 DEF CleanedSoFar
<1>8. QED
  BY <1>1, <1>3, <1>4, <1>6, <1>7 DEF IndInv

\* Caches and workers hold nothing but earlier states of what they copy.
LEMMA CopiesInductive ==
  ASSUME TypeOK, TypeOK', Copies, Chain, [Next]_vars
  PROVE  Copies'
<1>t. /\ policy.rv \in Nat /\ policyCache.rv \in Nat /\ pw.pol.rv \in Nat
      /\ report.rv \in Nat /\ reportCache.rv \in Nat /\ rw.rep.rv \in Nat
      /\ NoPolicy.rv \in Nat /\ NoReport.rv \in Nat
  BY DEF TypeOK, ClusterTypeOK, PolicyWorkerType, ReportWorkerType, PolicyType,
         ReportType, NoPolicy, NoReport
<1>1. policy' = policy \/ policy'.rv = policy.rv + 1
  BY PolicyMoves DEF Copies
<1>2. Copy(NoPolicy, policy') /\ Copy(policyCache, policy') /\ Copy(pw.pol, policy')
  BY <1>t, <1>1, CopyForward DEF Copies
<1>3. Copy(policyCache', policy')
  BY <1>t, <1>2, PolicyCopyMoves DEF Copy
<1>4. Copy(pw'.pol, policy')
  BY <1>2, PolicyCopyMoves
<1>5. report' = report \/ report'.rv = report.rv + 1
  BY ReportMoves
<1>6. Copy(NoReport, report') /\ Copy(reportCache, report') /\ Copy(rw.rep, report')
  BY <1>t, <1>5, CopyForward DEF Copies
<1>7. Copy(reportCache', report')
  BY <1>t, <1>6, ReportCopyMoves DEF Copy
<1>8. Copy(rw'.rep, report')
  BY <1>6, ReportCopyMoves
<1>9. QED
  BY <1>2, <1>3, <1>4, <1>6, <1>7, <1>8 DEF Copies, Copy

\* Nobody knows of, or reports on, a version the cache has not shown.
LEMMA ChainInductive ==
  ASSUME TypeOK, TypeOK', Copies, Chain, [Next]_vars
  PROVE  Chain'
<1>t. ASSUME NEW x, x \in PolicyType \/ x \in ReportType
      PROVE  x.uid \in Nat /\ x.gen \in Nat
  BY <1>t DEF PolicyType, ReportType
<1>u. /\ policy \in PolicyType /\ policyCache \in PolicyType /\ pw.pol \in PolicyType
      /\ policy' \in PolicyType /\ policyCache' \in PolicyType
      /\ report \in ReportType /\ reportCache \in ReportType /\ rw.rep \in ReportType
      /\ report' \in ReportType /\ pw'.rep \in ReportType
  BY DEF TypeOK, ClusterTypeOK, PolicyWorkerType, ReportWorkerType
<1>1. Upto(policy, policy')
  BY <1>t, <1>u, PolicyMoves DEF Copies, Upto, NotNewer
<1>2. Upto(policyCache, policy')
  BY <1>1, <1>t, <1>u, UptoTransitive DEF Chain
<1>3. Upto(policyCache', policy')
  BY <1>1, <1>2, PolicyCopyMoves
<1>4. Upto(policyCache, policyCache')
  BY <1>t, <1>u, PolicyCopyMoves DEF Chain, Upto, NotNewer
<1>5. Upto(NoPolicy, policyCache') /\ Upto(NoReport, policyCache')
  BY <1>t, <1>u DEF Upto, NotNewer, NoPolicy, NoReport
<1>6. Upto(pw.pol, policyCache')
  BY <1>4, <1>t, <1>u, UptoTransitive DEF Chain
<1>7. Upto(pw'.pol, policyCache')
  BY <1>4, <1>5, <1>6, PolicyCopyMoves
<1>8. Upto(report', policyCache') /\ Upto(pw'.rep, policyCache')
  BY <1>4, <1>t, <1>u, UptoTransitive, ReportMoves
<1>9. /\ Upto(reportCache, policyCache') /\ Upto(rw.rep, policyCache')
      /\ Upto(report, policyCache')
  BY <1>4, <1>t, <1>u, UptoTransitive DEF Chain
<1>10. Upto(reportCache', policyCache')
  BY <1>9, ReportCopyMoves
<1>11. Upto(rw'.rep, policyCache')
  BY <1>5, <1>9, ReportCopyMoves
<1>12. QED
  BY <1>3, <1>7, <1>8, <1>10, <1>11 DEF Chain, Upto

\* The report worker scans for a Policy at least as new as its report.
LEMMA KnowsInductive ==
  ASSUME TypeOK, Chain, ReportWorkerKnows, [Next]_vars
  PROVE  ReportWorkerKnows'
<1>t. rw \in ReportWorkerType
  BY DEF TypeOK
<1>i. IdleReportWorker.pc # "scan" /\ NoReport.status.phase # "Completed"
  BY DEF IdleReportWorker, NoReport, NoStatus
<1>1. rw'.rep.status.phase # "Completed"
  BY <1>i, ReportCopyMoves DEF ReportWorkerKnows
<1>2. ASSUME rw' = rw
      PROVE  ReportWorkerKnows'
  BY <1>2 DEF ReportWorkerKnows, Upto, NotNewer
<1>3. ASSUME rw'.pc # "scan"
      PROVE  ReportWorkerKnows'
  BY <1>1, <1>3 DEF ReportWorkerKnows
<1>4. CASE ReportStep
  <2>1. CASE ReportGet
    BY <2>1, <1>t, <1>i, <1>3 DEF ReportGet, ReportWorkerType
  <2>2. CASE LookupPolicy
    BY <2>2, <1>t, <1>3 DEF LookupPolicy, ReportWorkerType
  <2>3. CASE DeleteOrphan \/ NothingToScan \/ MarkRunning \/ CompleteReport
    BY <2>3, <1>i, <1>3, Zenon
    DEF DeleteOrphan, NothingToScan, MarkRunning, CompleteReport, ReportDone, ReportRetry
  <2>4. CASE BeginScan
    <3>1. rw'.rep = rw.rep /\ rw'.pol = policyCache
      BY <2>4, <1>t DEF BeginScan, ReportWorkerType
    <3>2. QED
      BY <1>1, <3>1 DEF Chain, ReportWorkerKnows, Upto
  <2>5. ASSUME NEW s \in Scans, ScanPending(s) \/ ScanRead(s)
        PROVE  ReportWorkerKnows'
    <3>1. rw'.rep = rw.rep /\ rw'.pol = rw.pol /\ rw.pc = "scan"
      BY <2>5, <1>t DEF ScanPending, ScanRead, AtScan, ReportWorkerType
    <3>2. QED
      BY <1>1, <3>1 DEF ReportWorkerKnows, Upto
  <2>6. ASSUME NEW s \in Scans, ScanUnreadable(s)
        PROVE  ReportWorkerKnows'
    BY <2>6, <1>i, <1>3 DEF ScanUnreadable, ReportRetry
  <2>7. QED
    BY <1>4, <2>1, <2>2, <2>3, <2>4, <2>5, <2>6 DEF ReportStep, ReportWorkerStep
<1>5. CASE User \/ Kubernetes \/ PolicyStep \/ Resync \/ Fault \/ UNCHANGED vars
  BY <1>5, <1>i, <1>2, <1>3
  DEF User, Kubernetes, PolicyStep, Resync, Fault, vars, ReportResync, ReportCallFails,
      ReportRetry, Restart
<1>6. QED
  BY <1>4, <1>5 DEF Next

\* No scan that Cleanup has passed has a Job.
LEMMA CleanedInductive ==
  ASSUME TypeOK, CleanedSoFar, [Next]_vars
  PROVE  CleanedSoFar'
<1>t. pw \in PolicyWorkerType /\ jobs \in [Scans -> JobType]
  BY DEF TypeOK, ClusterTypeOK
<1>i. IdlePolicyWorker.pc # "cleanup"
  BY DEF IdlePolicyWorker
<1>1. ASSUME pw' = pw, \A s \in Scans : jobs'[s].live => jobs[s].live
      PROVE  CleanedSoFar'
  BY <1>1 DEF CleanedSoFar, Asked
<1>2. ASSUME pw'.pc # "cleanup"
      PROVE  CleanedSoFar'
  BY <1>2 DEF CleanedSoFar
<1>3. CASE User
  BY <1>1, <1>3
  DEF User, UserStep, CreatePolicy, EditPolicy, DeletePolicy, DeleteTool, CreateTool,
      UserOnlyPolicy, UserOnlyTool
<1>4. CASE Kubernetes
  <2>1. ASSUME NEW s \in Scans, GCJob(s) \/ JobExpires(s)
        PROVE  CleanedSoFar'
    BY <1>1, <1>4, <1>t, <2>1 DEF Kubernetes, GCJob, JobExpires, NoJob
  <2>2. ASSUME NEW s \in Scans, NEW ok \in BOOLEAN, JobFinishes(s, ok)
        PROVE  CleanedSoFar'
    <3>1. \A z \in Scans : jobs'[z].live => jobs[z].live
      BY <1>t, <2>2 DEF JobFinishes, JobType
    <3>2. QED
      BY <1>1, <1>4, <3>1 DEF Kubernetes
  <2>3. ASSUME UNCHANGED jobs
        PROVE  CleanedSoFar'
    BY <1>1, <1>4, <2>3 DEF Kubernetes
  <2>4. QED
    BY <1>4, <2>1, <2>2, <2>3
    DEF Kubernetes, ClusterStep, GCPolicy, GCReport, SyncPolicy, SyncReport, SyncTool,
        SyncJob
<1>5. CASE ReportStep
  BY <1>1, <1>5
  DEF ReportStep, ReportWorkerStep, ReportGet, LookupPolicy, DeleteOrphan, BeginScan,
      NothingToScan, ScanPending, ScanRead, ScanUnreadable, MarkRunning,
      CompleteReport, OnlyReportWorkerMoves, KeepAllButReport
<1>6. CASE Resync \/ Fault \/ UNCHANGED vars
  BY <1>1, <1>2, <1>6, <1>i
  DEF Resync, Fault, vars, clusterVars, PolicyResync, ReportResync, PolicyCallFails,
      ReportCallFails, Restart, PolicyRetry, OnlyWorkerMoves, KeepAllBut,
      OnlyReportWorkerMoves, KeepAllButReport
<1>7. CASE PolicyStep
  <2>1. CASE BeginCleanup
    <3>1. pw'.pol = pw.pol /\ pw'.todo = Asked(pw.pol.spec)
      BY <2>1, <1>t DEF BeginCleanup, PolicyWorkerType
    <3>2. QED
      BY <3>1 DEF CleanedSoFar, Asked
  <2>2. ASSUME NEW s \in Scans, CleanupJob(s)
        PROVE  CleanedSoFar'
    <3>1. pw.pc = "cleanup" /\ pw'.pol = pw.pol /\ pw'.todo = pw.todo \ {s}
      BY <2>2, <1>t DEF CleanupJob, PolicyWorkerType
    <3>2. \A z \in Scans : jobs'[z] = IF z = s THEN NoJob ELSE jobs[z]
      BY <2>2, <1>t DEF CleanupJob
    <3>3. QED
      BY <3>1, <3>2 DEF CleanedSoFar, Asked, NoJob
  <2>3. CASE PolicyGet
    BY <1>2, <1>t, <1>i, <2>3 DEF PolicyGet, PolicyWorkerType
  <2>4. CASE BeginJobs
    BY <1>2, <1>t, <2>4 DEF BeginJobs, PolicyWorkerType
  <2>5. ASSUME NEW s \in Scans, EnsureJob(s)
        PROVE  CleanedSoFar'
    BY <1>2, <1>t, <1>i, <2>5 DEF EnsureJob, PolicyRetry, PolicyWorkerType
  <2>6. CASE GenerateReport
    BY <1>2, <1>t, <2>6 DEF GenerateReport, PolicyWorkerType
  <2>7. CASE UpsertNothing \/ UpsertUpdate \/ UpsertCreate
    <3>1. PolicyRetry \/ \E rep : AfterUpsert(rep)
      BY <2>7, Zenon DEF UpsertNothing, UpsertUpdate, UpsertCreate
    <3>2. ASSUME NEW rep, AfterUpsert(rep)
          PROVE  pw'.pc # "cleanup"
      BY <3>2, <1>t DEF AfterUpsert, PolicyWorkerType
    <3>3. QED
      BY <1>2, <1>i, <3>1, <3>2 DEF PolicyRetry
  <2>8. CASE ResetReport
    <3>1. PolicyRetry \/ pw' = [pw EXCEPT !.pc = "status", !.rep = report']
      BY <2>8, Zenon DEF ResetReport
    <3>2. CASE pw' = [pw EXCEPT !.pc = "status", !.rep = report']
      BY <1>2, <1>t, <3>2 DEF PolicyWorkerType
    <3>3. QED
      BY <1>2, <1>i, <3>1, <3>2 DEF PolicyRetry
  <2>9. CASE \/ ToolNotFound \/ AddFinalizer \/ SetOwner \/ CleanupPanics
             \/ RejectInvalid \/ DisabledDone \/ RemoveFinalizer \/ UpdateStatus
    <3>1. pw' = IdlePolicyWorker
      BY <2>9, Zenon
      DEF ToolNotFound, AddFinalizer, SetOwner, CleanupPanics, RejectInvalid,
          DisabledDone, RemoveFinalizer, UpdateStatus, UpdatePolicyAndStop,
          PolicyDone, PolicyRetry
    <3>2. QED
      BY <1>2, <1>i, <3>1
  <2>10. QED
    BY <1>7, <2>1, <2>2, <2>3, <2>4, <2>5, <2>6, <2>7, <2>8, <2>9
    DEF PolicyStep, PolicyWorkerStep
<1>8. QED
  BY <1>3, <1>4, <1>5, <1>6, <1>7 DEF Next

\* The invariant holds of every behaviour.
THEOREM Invariant == Spec => []IndInv
<1>1. IndInv /\ [Next]_vars => IndInv'
  BY NextTypes, CopiesInductive, ChainInductive, KnowsInductive, CleanedInductive
  DEF IndInv
<1>2. QED
  BY InitInv, <1>1, PTL DEF Spec

-----------------------------------------------------------------------------
(***************************************************************************)
(* What follows from the invariant.                                        *)
(***************************************************************************)

\* The steps that change the status of a report, and what they make of it.
LEMMA StatusWrites ==
  ASSUME IndInv, [Next]_vars
  PROVE  \/ report'.status = report.status
         \/ report' = GoneReport(report)
         \/ report'.status = NoStatus /\ ~report.live
         \/ report'.status = [NoStatus EXCEPT !.phase = "Pending"]
         \/ CanWrite(rw.rep, report) /\ rw.rep = report
            /\ (report'.status.phase = "Running"
                \/ (report'.status = Result /\ rw.pc = "scan"))
<1> DEFINE Goal ==
       \/ report'.status = report.status
       \/ report' = GoneReport(report)
       \/ report'.status = NoStatus /\ ~report.live
       \/ report'.status = [NoStatus EXCEPT !.phase = "Pending"]
       \/ CanWrite(rw.rep, report) /\ rw.rep = report
          /\ (report'.status.phase = "Running"
              \/ (report'.status = Result /\ rw.pc = "scan"))
<1>t. /\ report \in ReportType /\ reportCache \in ReportType
      /\ pw.rep \in ReportType /\ rw.rep \in ReportType
  BY DEF IndInv, TypeOK, ClusterTypeOK, PolicyWorkerType, ReportWorkerType
<1>w. ASSUME NEW q \in ReportType
      PROVE  Stored(q, report).status = q.status
  BY <1>t DEF Stored, ReportType
<1>1. CASE User
  BY <1>1
  DEF User, UserStep, CreatePolicy, EditPolicy, DeletePolicy, DeleteTool, CreateTool,
      UserOnlyPolicy, UserOnlyTool
<1>2. CASE Kubernetes
  BY <1>2
  DEF Kubernetes, ClusterStep, GCPolicy, GCReport, GCJob, JobFinishes, JobExpires,
      SyncPolicy, SyncReport, SyncTool, SyncJob
<1>3. CASE ReportStep
  <2>1. CASE MarkRunning
    <3>1. CASE report' = report
      BY <3>1
    <3>2. CASE /\ CanWrite(rw.rep, report)
               /\ report' = Stored([rw.rep EXCEPT !.status.phase = "Running"], report)
      <4>1. [rw.rep EXCEPT !.status.phase = "Running"] \in ReportType
        BY <1>t DEF ReportType, StatusType, Phases
      <4>2. [rw.rep EXCEPT !.status.phase = "Running"].status.phase = "Running"
        BY <1>t DEF ReportType, StatusType
      <4>3. report'.status.phase = "Running"
        BY <3>2, <4>1, <4>2, <1>w
      <4>4. rw.rep = report
        BY <3>2 DEF IndInv, Copies, Copy, CanWrite
      <4>5. QED
        BY <3>2, <4>3, <4>4
    <3>3. QED
      BY <2>1, <3>1, <3>2, Zenon DEF MarkRunning
  <2>2. CASE CompleteReport
    <3>1. CASE report' = report
      BY <3>1
    <3>2. CASE /\ CanWrite(rw.rep, report)
               /\ report' = Stored([rw.rep EXCEPT !.status = Result], report)
      <4>1. Result \in StatusType
        BY DEF Result, StatusType, Phases, Verdicts, VerdictOf, IndInv, TypeOK,
               ReportWorkerType, PolicyType, SpecType
      <4>2. [rw.rep EXCEPT !.status = Result] \in ReportType
        BY <1>t, <4>1, Zenon DEF ReportType
      <4>3. [rw.rep EXCEPT !.status = Result].status = Result
        BY <1>t DEF ReportType
      <4>4. report'.status = Result
        BY <3>2, <4>2, <4>3, <1>w
      <4>5. rw.rep = report
        BY <3>2 DEF IndInv, Copies, Copy, CanWrite
      <4>6. rw.pc = "scan"
        BY <2>2 DEF CompleteReport, Scanned
      <4>7. QED
        BY <3>2, <4>4, <4>5, <4>6
    <3>3. QED
      BY <2>2, <3>1, <3>2, Zenon DEF CompleteReport
  <2>3. CASE ~(MarkRunning \/ CompleteReport)
    BY <1>3, <2>3
    DEF ReportStep, ReportWorkerStep, ReportGet, LookupPolicy, DeleteOrphan, BeginScan,
        NothingToScan, ScanPending, ScanRead, ScanUnreadable, OnlyReportWorkerMoves
  <2>4. QED
    BY <2>1, <2>2, <2>3
<1>4. CASE PolicyStep
  <2>1. CASE UpsertUpdate
    <3>1. CASE report' = report
      BY <3>1
    <3>2. CASE /\ CanWrite(reportCache, report)
               /\ report' = [reportCache EXCEPT !.gen = pw.pol.gen,
                                                !.uid = pw.pol.uid, !.rv = @ + 1]
      <4>1. reportCache = report
        BY <3>2 DEF IndInv, Copies, Copy, CanWrite
      <4>2. QED
        BY <3>2, <4>1, <1>t DEF ReportType
    <3>3. QED
      BY <2>1, <3>1, <3>2, Zenon DEF UpsertUpdate
  <2>2. CASE UpsertCreate
    <3>1. CASE report' = report
      BY <3>1
    <3>2. CASE /\ ~report.live
               /\ report' = [pw.rep EXCEPT !.rv = report.rv + 1, !.status = NoStatus]
      BY <3>2, <1>t DEF ReportType
    <3>3. QED
      BY <2>2, <3>1, <3>2, Zenon DEF UpsertCreate
  <2>3. CASE ResetReport
    <3>1. CASE report' = report
      BY <3>1
    <3>2. CASE report' = Stored([pw.rep EXCEPT !.status =
                                   [NoStatus EXCEPT !.phase = "Pending"]], report)
      <4>1. [NoStatus EXCEPT !.phase = "Pending"] \in StatusType
        BY ConstantTypes DEF StatusType, Phases
      <4>2. \A st \in StatusType : [pw.rep EXCEPT !.status = st].status = st
                                   /\ [pw.rep EXCEPT !.status = st] \in ReportType
        BY <1>t DEF ReportType
      <4>3. QED
        BY <3>2, <4>1, <4>2, <1>w, Zenon
    <3>3. QED
      BY <2>3, <3>1, <3>2, Zenon DEF ResetReport
  <2>4. CASE ~(UpsertUpdate \/ UpsertCreate \/ ResetReport)
    BY <1>4, <2>4
    DEF PolicyStep, PolicyWorkerStep, PolicyGet, ToolNotFound, AddFinalizer, SetOwner,
        BeginCleanup, CleanupPanics, RejectInvalid, BeginJobs, CleanupJob, EnsureJob,
        DisabledDone, RemoveFinalizer, GenerateReport, UpsertNothing, UpdateStatus,
        UpdatePolicyAndStop, OnlyWorkerMoves, KeepAllBut
  <2>5. QED
    BY <2>1, <2>2, <2>3, <2>4
<1>5. CASE Resync \/ Fault \/ UNCHANGED vars
  BY <1>5
  DEF Resync, Fault, vars, clusterVars, PolicyResync, ReportResync, PolicyCallFails,
      ReportCallFails, Restart, Relist, OnlyWorkerMoves, KeepAllBut,
      OnlyReportWorkerMoves, KeepAllButReport
<1>6. QED
  BY <1>1, <1>2, <1>3, <1>4, <1>5 DEF Next

\* No report is completed from a Policy older than the generation it names.
THEOREM EvaluatedNotStaleHolds == Spec => EvaluatedNotStale
<1>1. IndInv /\ [Next]_vars => [CompletesNotStale]_vars
  <2> SUFFICES ASSUME IndInv, [Next]_vars,
                      report'.status.phase = "Completed",
                      report'.status # report.status
               PROVE  NotNewer(report.uid, report.gen,
                               report'.status.forUid, report'.status.forGen)
    BY DEF CompletesNotStale
  <2>1. GoneReport(report).status.phase # "Completed"
    BY DEF GoneReport, NoReport, NoStatus
  <2>2. /\ NoStatus.phase # "Completed"
        /\ [NoStatus EXCEPT !.phase = "Pending"].phase # "Completed"
    BY DEF NoStatus
  <2>3. rw.rep = report /\ report'.status = Result /\ rw.pc = "scan"
    BY <2>1, <2>2, StatusWrites
  <2>4. Result.forUid = rw.pol.uid /\ Result.forGen = rw.pol.gen
    BY DEF Result
  <2>5. QED
    BY <2>3, <2>4 DEF IndInv, ReportWorkerKnows, Upto
<1>2. QED
  BY Invariant, <1>1, PTL DEF Spec, EvaluatedNotStale

\* A result that has been written is only ever replaced by a reset.
THEOREM ResultIsFinalHolds == Spec => ResultIsFinal
<1>1. IndInv /\ [Next]_vars => [KeepsResult]_vars
  <2> SUFFICES ASSUME IndInv, [Next]_vars,
                      report.live, report.status.phase = "Completed", report'.live,
                      report'.status # report.status
               PROVE  report'.status.phase = "Pending"
    BY DEF KeepsResult
  <2>1. ~GoneReport(report).live
    BY DEF GoneReport, NoReport
  <2>2. [NoStatus EXCEPT !.phase = "Pending"].phase = "Pending"
    BY DEF NoStatus
  <2>3. rw.rep # report
    BY DEF IndInv, ReportWorkerKnows
  <2>4. QED
    BY <2>1, <2>2, <2>3, StatusWrites
<1>2. QED
  BY Invariant, <1>1, PTL DEF Spec, ResultIsFinal

\* A Policy that loses its finalizer leaves no Job behind.
THEOREM FinalizerReleaseCleanHolds == Spec => FinalizerReleaseClean
<1>1. IndInv /\ [Next]_vars => [LeavesNoJob]_vars
  <2> SUFFICES ASSUME IndInv, [Next]_vars, policy.live, policy.fin, ~policy'.live
               PROVE  \A s \in Asked(policy.spec) : ~jobs'[s].live
    BY DEF LeavesNoJob
  <2>t. policy \in PolicyType /\ pw.pol \in PolicyType
    BY DEF IndInv, TypeOK, ClusterTypeOK, PolicyWorkerType
  <2>d. DeletedPolicy(policy).live
    BY <2>t DEF DeletedPolicy, PolicyType
  <2>1. ASSUME NEW spec \in Specs, EditPolicy(spec)
        PROVE  FALSE
    BY <2>1, <2>t DEF EditPolicy, PolicyType
  <2>2. CASE User
    BY <2>2, <2>d, <2>1
    DEF User, UserStep, CreatePolicy, DeletePolicy, DeleteTool, CreateTool, UserOnlyTool
  <2>3. CASE Kubernetes
    BY <2>3, <2>d
    DEF Kubernetes, ClusterStep, GCPolicy, GCReport, GCJob, JobFinishes, JobExpires,
        SyncPolicy, SyncReport, SyncTool, SyncJob
  <2>4. CASE RemoveFinalizer
    <3>1. CanWrite(pw.pol, policy)
      BY <2>4 DEF RemoveFinalizer, UpdatePolicyAndStop
    <3>2. pw.pol = policy
      BY <3>1 DEF CanWrite, IndInv, Copies, Copy
    <3>3. pw.pc = "cleanup" /\ pw.todo = {}
      BY <2>4 DEF RemoveFinalizer, CleanedUp
    <3>4. \A s \in Asked(policy.spec) : ~jobs[s].live
      BY <3>2, <3>3 DEF IndInv, CleanedSoFar
    <3>5. jobs' = jobs
      BY <2>4, Zenon DEF RemoveFinalizer, UpdatePolicyAndStop, KeepAllBut
    <3>6. QED
      BY <3>4, <3>5
  <2>5. ASSUME NEW new \in PolicyType, new.live,
               UpdatePolicyAndStop(Stored(new, policy))
        PROVE  FALSE
    BY <2>5, <2>t DEF UpdatePolicyAndStop, Stored, PolicyType
  <2>6. CASE AddFinalizer \/ SetOwner \/ UpdateStatus
    <3>1. pw.pol = policy
      BY <2>6, Zenon
      DEF AddFinalizer, SetOwner, UpdateStatus, UpdatePolicyAndStop, CanWrite, IndInv,
          Copies, Copy
    <3>2. /\ [pw.pol EXCEPT !.fin = TRUE].live
          /\ [pw.pol EXCEPT !.owner = toolCache.uid].live
          /\ [pw.pol EXCEPT !.obsGen = pw.pol.gen].live
      BY <2>t, <3>1 DEF PolicyType
    <3>3. QED
      BY <2>5, <2>6, <3>2, PolicyObjectTypes
      DEF AddFinalizer, SetOwner, UpdateStatus, IndInv
  <2>7. CASE PolicyStep /\ ~(RemoveFinalizer \/ AddFinalizer \/ SetOwner \/ UpdateStatus)
    BY <2>7
    DEF PolicyStep, PolicyWorkerStep, PolicyGet, ToolNotFound, BeginCleanup,
        CleanupPanics, RejectInvalid, BeginJobs, CleanupJob, EnsureJob, DisabledDone,
        GenerateReport, UpsertNothing, UpsertUpdate, UpsertCreate, ResetReport,
        OnlyWorkerMoves, KeepAllBut
  <2>8. CASE ReportStep
    BY <2>8
    DEF ReportStep, ReportWorkerStep, ReportGet, LookupPolicy, DeleteOrphan, BeginScan,
        NothingToScan, ScanPending, ScanRead, ScanUnreadable, MarkRunning,
        CompleteReport, OnlyReportWorkerMoves, KeepAllButReport
  <2>9. CASE Resync \/ Fault \/ UNCHANGED vars
    BY <2>9
    DEF Resync, Fault, vars, clusterVars, PolicyResync, ReportResync, PolicyCallFails,
        ReportCallFails, Restart, Relist, OnlyWorkerMoves, KeepAllBut,
        OnlyReportWorkerMoves, KeepAllButReport
  <2>10. QED
    BY <2>2, <2>3, <2>4, <2>6, <2>7, <2>8, <2>9 DEF Next
<1>2. QED
  BY Invariant, <1>1, PTL DEF Spec, FinalizerReleaseClean

=============================================================================

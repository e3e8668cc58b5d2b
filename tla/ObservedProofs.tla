----------------------------- MODULE ObservedProofs -----------------------------
(***************************************************************************)
(* Proof that the generation a Policy's status calls observed never runs   *)
(* ahead of the one its report was made for, that nothing made for a       *)
(* Policy is left unguarded, and that the pipeline implements the life of  *)
(* a Policy: module PolicySystem, for every set of scans and any number of *)
(* user edits and faults.                                                  *)
(***************************************************************************)
EXTENDS ReportProofs

\* The types of what the invariant compares.
LEMMA ObservedTypes ==
  ASSUME TypeOK
  PROVE  /\ policy \in PolicyType /\ policyCache \in PolicyType /\ pw.pol \in PolicyType
         /\ report \in ReportType /\ reportCache \in ReportType /\ pw.rep \in ReportType
BY DEF TypeOK, ClusterTypeOK, PolicyWorkerType

\* Every way a Policy can change, by what the invariant says of it.
LEMMA PolicySteps ==
  ASSUME IndInv, [Next]_vars
  PROVE  \/ policy' = policy
         \/ ~policy'.live
         \/ policy'.obsGen = 0
         \/ /\ policy.live /\ policy'.uid = policy.uid /\ policy'.obsGen = policy.obsGen
            /\ policy.gen <= policy'.gen
         \/ /\ pw.pc = "status" /\ pw'.pc = "idle" /\ report' = report
            /\ pw.pol = policy /\ policy.live
            /\ policy'.uid = policy.uid /\ policy'.gen = policy.gen
            /\ policy'.obsGen = policy.gen
<1> DEFINE Goal ==
         \/ policy' = policy
         \/ ~policy'.live
         \/ policy'.obsGen = 0
         \/ /\ policy.live /\ policy'.uid = policy.uid /\ policy'.obsGen = policy.obsGen
            /\ policy.gen <= policy'.gen
         \/ /\ pw.pc = "status" /\ pw'.pc = "idle" /\ report' = report
            /\ pw.pol = policy /\ policy.live
            /\ policy'.uid = policy.uid /\ policy'.gen = policy.gen
            /\ policy'.obsGen = policy.gen
<1>t. policy \in PolicyType /\ pw.pol \in PolicyType
  BY ObservedTypes DEF IndInv
<1>g. ~Gone(policy).live
  BY DEF Gone, NoPolicy
<1>d. policy' = DeletedPolicy(policy) /\ policy.live => Goal
  BY <1>t, <1>g DEF DeletedPolicy, PolicyType
<1>1. ASSUME NEW spec \in Specs, CreatePolicy(spec)
      PROVE  Goal
  BY <1>1 DEF CreatePolicy, NoPolicy
<1>2. ASSUME NEW spec \in Specs, EditPolicy(spec)
      PROVE  Goal
  BY <1>2, <1>t DEF EditPolicy, PolicyType
<1>3. CASE User
  BY <1>1, <1>2, <1>3, <1>d
  DEF User, UserStep, DeletePolicy, DeleteTool, CreateTool, UserOnlyTool
<1>4. CASE Kubernetes
  BY <1>4, <1>d
  DEF Kubernetes, ClusterStep, GCPolicy, GCReport, GCJob, JobFinishes, JobExpires,
      SyncPolicy, SyncReport, SyncTool, SyncJob
<1>5. CASE ReportStep \/ Resync \/ Fault \/ UNCHANGED vars
  BY <1>5
  DEF ReportStep, ReportWorkerStep, ReportGet, LookupPolicy, DeleteOrphan, BeginScan,
      NothingToScan, ScanPending, ScanRead, ScanUnreadable, MarkRunning,
      CompleteReport, OnlyReportWorkerMoves, KeepAllButReport, Resync, Fault, vars,
      clusterVars, PolicyResync, ReportResync, PolicyCallFails, ReportCallFails,
      Restart, Relist, OnlyWorkerMoves, KeepAllBut
<1>6. CASE PolicyStep
  <2>1. CASE RemoveFinalizer
    BY <2>1, <1>g, Zenon DEF RemoveFinalizer, UpdatePolicyAndStop
  <2>2. ASSUME NEW new \in PolicyType, UpdatePolicyAndStop(Stored(new, policy))
        PROVE  \/ policy' = policy
               \/ /\ pw.pol = policy /\ policy.live /\ report' = report
                  /\ pw' = IdlePolicyWorker
                  /\ policy'.uid = new.uid /\ policy'.gen = new.gen
                  /\ policy'.obsGen = new.obsGen
    <3>1. CASE policy' = policy
      BY <3>1
    <3>2. CASE CanWrite(pw.pol, policy) /\ policy' = Stored(new, policy) /\ PolicyDone
      <4>1. pw.pol = policy /\ policy.live
        BY <3>2 DEF CanWrite, IndInv, Copies, Copy
      <4>2. /\ policy'.uid = new.uid /\ policy'.gen = new.gen
            /\ policy'.obsGen = new.obsGen
        BY <3>2, <1>t DEF Stored, PolicyType
      <4>3. report' = report /\ pw' = IdlePolicyWorker
        BY <2>2, <3>2, Zenon DEF UpdatePolicyAndStop, KeepAllBut, PolicyDone
      <4>4. QED
        BY <4>1, <4>2, <4>3
    <3>3. QED
      BY <2>2, <3>1, <3>2, Zenon DEF UpdatePolicyAndStop
  <2>3. CASE AddFinalizer
    <3>1. [pw.pol EXCEPT !.fin = TRUE] \in PolicyType
      BY <1>t, Zenon DEF PolicyType
    <3>2. QED
      BY <2>2, <2>3, <3>1, <1>t DEF AddFinalizer, PolicyType
  <2>4. CASE SetOwner
    <3>1. [pw.pol EXCEPT !.owner = toolCache.uid] \in PolicyType
      BY PolicyObjectTypes DEF IndInv
    <3>2. QED
      BY <2>2, <2>4, <3>1, <1>t DEF SetOwner, PolicyType
  <2>5. CASE UpdateStatus
    <3>1. [pw.pol EXCEPT !.obsGen = pw.pol.gen] \in PolicyType
      BY <1>t DEF PolicyType
    <3>2. IdlePolicyWorker.pc = "idle"
      BY DEF IdlePolicyWorker
    <3>3. QED
      BY <2>2, <2>5, <3>1, <3>2, <1>t DEF UpdateStatus, PolicyType
  <2>6. CASE ~(RemoveFinalizer \/ AddFinalizer \/ SetOwner \/ UpdateStatus)
    BY <1>6, <2>6
    DEF PolicyStep, PolicyWorkerStep, PolicyGet, ToolNotFound, BeginCleanup,
        CleanupPanics, RejectInvalid, BeginJobs, CleanupJob, EnsureJob, DisabledDone,
        GenerateReport, UpsertNothing, UpsertUpdate, UpsertCreate, ResetReport,
        OnlyWorkerMoves, KeepAllBut
  <2>7. QED
    BY <2>1, <2>3, <2>4, <2>5, <2>6
<1>7. QED
  BY <1>3, <1>4, <1>5, <1>6 DEF Next

\* Caches and the worker have seen every generation that is called observed.
LEMMA SeenInductive ==
  ASSUME ReportInv, ObservedIsSeen, TypeOK', [Next]_vars
  PROVE  ObservedIsSeen'
<1> SUFFICES ASSUME policy'.live
             PROVE  /\ policy'.obsGen <= policy'.gen
                    /\ policy'.uid = policyCache'.uid => policy'.obsGen <= policyCache'.gen
                    /\ pw'.pc # "idle" /\ policy'.uid = pw'.pol.uid =>
                         policy'.obsGen <= pw'.pol.gen
  BY DEF ObservedIsSeen
<1>i. IndInv /\ TypeOK
  BY DEF ReportInv, IndInv
<1>t. /\ policy \in PolicyType /\ policyCache \in PolicyType /\ pw.pol \in PolicyType
      /\ policy' \in PolicyType /\ policyCache' \in PolicyType /\ pw'.pol \in PolicyType
  BY <1>i, ObservedTypes DEF TypeOK, ClusterTypeOK, PolicyWorkerType
<1>n. \A p \in PolicyType : p.uid \in Nat /\ p.gen \in Nat /\ p.obsGen \in Nat
  BY DEF PolicyType
<1>s. \/ policy' = policy
      \/ policy'.obsGen = 0
      \/ /\ policy.live /\ policy'.uid = policy.uid /\ policy'.obsGen = policy.obsGen
         /\ policy.gen <= policy'.gen
      \/ /\ pw.pc = "status" /\ pw'.pc = "idle"
         /\ pw.pol = policy /\ policy.live
         /\ policy'.uid = policy.uid /\ policy'.gen = policy.gen
         /\ policy'.obsGen = policy.gen
  BY <1>i, PolicySteps
<1>c. policyCache' = policyCache \/ (policyCache' = policy /\ policy' = policy)
  BY <1>i, PolicyCopyMoves
<1>u. Upto(pw.pol, policyCache)
  BY <1>i DEF IndInv, Chain
<1>1. policy'.obsGen <= policy'.gen
  BY <1>n, <1>s, <1>t DEF ObservedIsSeen
<1>2. policy'.uid = policyCache.uid => policy'.obsGen <= policyCache.gen
  BY <1>n, <1>s, <1>t, <1>u DEF ObservedIsSeen, Upto, NotNewer
<1>3. policy'.uid = policyCache'.uid => policy'.obsGen <= policyCache'.gen
  BY <1>1, <1>2, <1>c
<1>4. ASSUME pw'.pc # "idle", policy'.uid = pw'.pol.uid
      PROVE  policy'.obsGen <= pw'.pol.gen
  <2>1. CASE pw' = pw \/ (pw.pc # "idle" /\ pw'.pol = pw.pol)
    BY <1>4, <1>n, <1>s, <1>t, <2>1 DEF ObservedIsSeen
  <2>2. CASE pw'.pol = policyCache
    BY <1>2, <1>4, <2>2
  <2>3. QED
    BY <1>4, <1>i, <2>1, <2>2, PolicyWorkerSteps
<1>5. QED
  BY <1>1, <1>3, <1>4

\* A live report in the cache is the live report at an earlier time.
LEMMA SameInductive ==
  ASSUME ReportInv, SameReport, ReadyToObserve, TypeOK', [Next]_vars
  PROVE  SameReport'
<1>i. IndInv /\ TypeOK
  BY DEF ReportInv, IndInv
<1>t. /\ report \in ReportType /\ reportCache \in ReportType /\ pw.rep \in ReportType
      /\ pw.pol \in PolicyType /\ report' \in ReportType
  BY <1>i, ObservedTypes DEF TypeOK, ClusterTypeOK
<1>n. /\ \A r \in ReportType : r.uid \in Nat /\ r.gen \in Nat /\ r.owner \in Nat /\ r.rv \in Nat
      /\ \A p \in PolicyType : p.uid \in Nat /\ p.gen \in Nat
  BY DEF ReportType, PolicyType
<1>v. report.live => report.rv # 0
  BY <1>i DEF IndInv, Copies, Copy, NoReport
<1>c. reportCache' = reportCache \/ (reportCache' = report /\ report' = report)
  BY <1>i, ReportCopyMoves
<1> DEFINE Fits == /\ report'.live => report'.owner <= report'.uid
                   /\ report'.live /\ reportCache.live =>
                        report'.owner = reportCache.owner /\ Upto(reportCache, report')
<1>1. ASSUME report' = report PROVE Fits
  BY <1>1 DEF SameReport
<1>2. ASSUME report' = GoneReport(report) PROVE Fits
  BY <1>2 DEF GoneReport, NoReport
<1>3. ASSUME report.live, pw.pc = "upsert", report' = Regenerated
      PROVE  Fits
  <2>1. /\ report'.owner = report.owner
        /\ report'.uid = pw.pol.uid /\ report'.gen = pw.pol.gen
    BY <1>3, <1>t DEF Regenerated, ReportType
  <2>2. Upto(report, pw.pol) /\ Upto(reportCache, pw.pol)
    BY <1>3 DEF ReportInv, PolicyWorkerKnows
  <2>3. report'.owner <= report'.uid
    BY <1>3, <1>n, <1>t, <2>1, <2>2 DEF SameReport, Upto, NotNewer
  <2>4. Upto(reportCache, report')
    BY <2>1, <2>2 DEF Upto
  <2>5. QED
    BY <1>3, <2>1, <2>3, <2>4 DEF SameReport
<1>4. ASSUME ~reportCache.live, pw.pc = "upsert", pw.rep.rv = 0,
             report' = [pw.rep EXCEPT !.rv = report.rv + 1, !.status = NoStatus]
      PROVE  Fits
  <2>1. report'.owner = pw.rep.owner /\ report'.uid = pw.rep.uid
    BY <1>4, <1>t DEF ReportType
  <2>2. pw.rep.owner = pw.rep.uid
    BY <1>4 DEF ReadyToObserve, FreshReport
  <2>3. QED
    BY <1>4, <1>n, <1>t, <2>1, <2>2
<1>5. ASSUME NEW st \in StatusType, report.live, report' = Restated(st)
      PROVE  Fits
  BY <1>5, <1>t, Restating DEF SameReport, Upto
<1>6. Fits
  <2> HIDE DEF Fits
  <2>1. QED
    BY <1>1, <1>2, <1>3, <1>4, <1>5, <1>i, ReportSteps, StatusTypes
<1>7. /\ reportCache'.live => reportCache'.owner <= reportCache'.uid /\ reportCache'.rv # 0
  BY <1>c, <1>v DEF SameReport
<1>8. CASE reportCache' = reportCache
  BY <1>6, <1>7, <1>8 DEF SameReport, Upto
<1>9. CASE reportCache' = report /\ report' = report
  BY <1>6, <1>7, <1>9, <1>n, <1>t DEF SameReport, Upto, NotNewer
<1>10. QED
  BY <1>8, <1>9, <1>c

\* What the worker is about to create or to observe stays what it is.
LEMMA ReadyInductive ==
  ASSUME ReportInv, SameReport, ReadyToObserve, [Next]_vars
  PROVE  ReadyToObserve'
<1>i. IndInv /\ TypeOK
  BY DEF ReportInv, IndInv
<1>t. /\ report \in ReportType /\ reportCache \in ReportType /\ pw.rep \in ReportType
      /\ pw.pol \in PolicyType
  BY <1>i, ObservedTypes
<1>n. /\ \A r \in ReportType : r.uid \in Nat /\ r.gen \in Nat /\ r.owner \in Nat
      /\ \A p \in PolicyType : p.uid \in Nat /\ p.gen \in Nat
  BY DEF ReportType, PolicyType
<1>1. pw'.pc = "upsert" /\ pw'.rep.rv = 0 => pw'.rep = FreshReport(pw'.pol)
  BY <1>i, PolicyWorkerSteps DEF ReadyToObserve, SameReport
<1>2. ASSUME pw.pc # "upsert", report'.live
      PROVE  /\ report.live
             /\ report'.owner = report.owner /\ report'.gen = report.gen
  <2>1. ~GoneReport(report).live
    BY DEF GoneReport, NoReport
  <2>2. ASSUME NEW st \in StatusType, report.live, report' = Restated(st)
        PROVE  report'.owner = report.owner /\ report'.gen = report.gen
    BY <2>2, <1>t, Restating
  <2>3. QED
    BY <1>2, <1>i, <2>1, <2>2, ReportSteps, StatusTypes
<1>3. ASSUME pw'.pc \in {"reset", "status"}, report'.live, report'.owner = pw'.pol.uid
      PROVE  pw'.pol.gen <= report'.gen
  <2>1. CASE pw' = pw
    BY <1>2, <1>3, <2>1 DEF ReadyToObserve
  <2>2. CASE pw.pc = "reset" /\ pw'.pol = pw.pol
    BY <1>2, <1>3, <2>2 DEF ReadyToObserve
  <2>3. CASE /\ pw.pc = "upsert" /\ pw'.pol = pw.pol /\ report' = report
             /\ reportCache.live /\ reportCache.gen = pw.pol.gen
    <3>1. /\ report.owner = pw.pol.uid /\ report.owner = reportCache.owner
          /\ reportCache.owner <= reportCache.uid /\ Upto(reportCache, report)
      BY <1>3, <2>3 DEF SameReport
    <3>2. Upto(report, pw.pol)
      BY <2>3 DEF ReportInv, PolicyWorkerKnows
    <3>3. QED
      BY <2>3, <3>1, <3>2, <1>n, <1>t DEF Upto, NotNewer
  <2>4. CASE pw'.pol = pw.pol /\ report'.gen = pw.pol.gen
    BY <2>4, <1>n, <1>t
  <2>5. CASE /\ pw.pc = "upsert" /\ pw'.pol = pw.pol
             /\ pw.rep.rv = 0 /\ report'.gen = pw.rep.gen
    <3>1. pw.rep.gen = pw.pol.gen
      BY <2>5 DEF ReadyToObserve, FreshReport
    <3>2. QED
      BY <2>5, <3>1, <1>n, <1>t
  <2>6. QED
    BY <1>3, <1>i, <2>1, <2>2, <2>3, <2>4, <2>5, PolicyWorkerSteps
<1>4. QED
  BY <1>1, <1>3 DEF ReadyToObserve

\* The report of the Policy itself is as new as what is called observed.
LEMMA ObservedInductive ==
  ASSUME ObservedInv, TypeOK', [Next]_vars
  PROVE  ObservedMeansReported'
<1> SUFFICES ASSUME policy'.live, report'.live, report'.owner = policy'.uid
             PROVE  policy'.obsGen <= report'.gen
  BY DEF ObservedMeansReported
<1>i. /\ ReportInv /\ IndInv /\ TypeOK /\ SameReport /\ ReadyToObserve /\ ObservedIsSeen
      /\ ObservedMeansReported
  BY DEF ObservedInv, ReportInv, IndInv
<1>t. /\ report \in ReportType /\ pw.rep \in ReportType /\ report' \in ReportType
      /\ policy \in PolicyType /\ policyCache \in PolicyType /\ pw.pol \in PolicyType
  BY <1>i, ObservedTypes DEF TypeOK, ClusterTypeOK
<1>n. /\ \A r \in ReportType : r.uid \in Nat /\ r.gen \in Nat /\ r.owner \in Nat
      /\ \A p \in PolicyType : p.uid \in Nat /\ p.gen \in Nat /\ p.obsGen \in Nat
  BY DEF ReportType, PolicyType
<1>1. CASE policy'.obsGen = 0
  BY <1>1, <1>n, <1>t
<1>2. CASE /\ pw.pc = "status" /\ report' = report
           /\ pw.pol = policy /\ policy'.uid = policy.uid
           /\ policy'.obsGen = policy.gen
  BY <1>2, <1>i DEF ReadyToObserve
<1>3. ASSUME policy.live, policy'.uid = policy.uid, policy'.obsGen = policy.obsGen
      PROVE  policy'.obsGen <= report'.gen
  <2>1. CASE report.live /\ report'.owner = report.owner /\ report'.gen = report.gen
    BY <1>3, <1>i, <2>1 DEF ObservedMeansReported
  <2>2. CASE report' = GoneReport(report)
    BY <2>2 DEF GoneReport, NoReport
  <2>3. CASE report.live /\ pw.pc = "upsert" /\ report' = Regenerated
    <3>1. report'.owner = report.owner /\ report'.gen = pw.pol.gen
      BY <2>3, <1>t DEF Regenerated, ReportType
    <3>2. /\ Upto(report, pw.pol) /\ Upto(pw.pol, policyCache) /\ Upto(policyCache, policy)
          /\ report.owner <= report.uid
      BY <1>i, <2>3 DEF ReportInv, PolicyWorkerKnows, IndInv, Chain, SameReport
    <3>3. pw.pol.uid = policy.uid
      BY <1>3, <1>n, <1>t, <3>1, <3>2 DEF Upto, NotNewer
    <3>4. QED
      BY <1>3, <1>i, <2>3, <3>1, <3>3 DEF ObservedIsSeen
  <2>4. CASE /\ pw.pc = "upsert" /\ pw.rep.rv = 0
             /\ report' = [pw.rep EXCEPT !.rv = report.rv + 1, !.status = NoStatus]
    <3>1. report'.owner = pw.rep.owner /\ report'.gen = pw.rep.gen
      BY <2>4, <1>t DEF ReportType
    <3>2. pw.rep.owner = pw.pol.uid /\ pw.rep.gen = pw.pol.gen
      BY <1>i, <2>4 DEF ReadyToObserve, FreshReport
    <3>3. QED
      BY <1>3, <1>i, <2>4, <3>1, <3>2 DEF ObservedIsSeen
  <2>5. ASSUME NEW st \in StatusType, report.live, report' = Restated(st)
        PROVE  policy'.obsGen <= report'.gen
    BY <2>1, <2>5, <1>t, Restating
  <2>6. QED
    BY <1>i, <2>1, <2>2, <2>3, <2>4, <2>5, ReportSteps, StatusTypes
<1>4. QED
  BY <1>1, <1>2, <1>3, <1>i, PolicySteps

-----------------------------------------------------------------------------
\* The invariant holds of the pipeline.
THEOREM ObservedInvariant == Spec => []ObservedInv
<1>1. Init => ObservedInv
  <2> SUFFICES ASSUME Init
               PROVE  ObservedInv
    OBVIOUS
  <2>1. /\ policy = NoPolicy /\ report = NoReport /\ reportCache = NoReport
        /\ pw = IdlePolicyWorker
    BY DEF Init, ClusterInit, PolicyWorkerInit
  <2>2. SameReport /\ ReadyToObserve /\ ObservedIsSeen /\ ObservedMeansReported
    BY <2>1
    DEF SameReport, ReadyToObserve, ObservedIsSeen, ObservedMeansReported, NoPolicy,
        NoReport, IdlePolicyWorker
  <2>3. QED
    BY <2>2, ReportInvariantInit DEF ObservedInv
<1>2. ObservedInv /\ ReportInv' /\ [Next]_vars => ObservedInv'
  <2> SUFFICES ASSUME ObservedInv, ReportInv', [Next]_vars
               PROVE  ObservedInv'
    OBVIOUS
  <2>1. TypeOK'
    BY DEF ReportInv, IndInv
  <2>2. QED
    BY <2>1, SeenInductive, SameInductive, ReadyInductive, ObservedInductive
    DEF ObservedInv
<1>3. QED
  BY <1>1, <1>2, ReportInvariant, PTL DEF Spec

\* status.observedGeneration never runs ahead of the generation in the report
\* made for the Policy.
THEOREM ObservedMeansReportedHolds == Spec => []ObservedMeansReported
<1>1. ObservedInv => ObservedMeansReported
  BY DEF ObservedInv
<1>2. QED
  BY <1>1, ObservedInvariant, PTL
-----------------------------------------------------------------------------
(***************************************************************************)
(* What the controller's copies still say of a Policy that has moved on,   *)
(* and what follows: no Job or report is left without anyone to remove it, *)
(* and the pipeline implements the life of a Policy.                       *)
(***************************************************************************)

\* The controller's writes that leave the Policy's spec and deletion alone.
Touched ==
  /\ policy.live /\ ~policy.deleting
  /\ policy'.live /\ ~policy'.deleting /\ policy'.fin
  /\ policy'.uid = policy.uid /\ policy'.gen = policy.gen /\ policy'.spec = policy.spec
  /\ \/ policy'.obsGen = policy.obsGen
     \/ policy.fin /\ policy'.obsGen = policy.gen

\* Every way a Policy can change, as its life sees it.
LEMMA LifeSteps ==
  ASSUME IndInv, PastFinalizer, [Next]_vars
  PROVE  \/ policy' = policy
         \/ \E spec \in Specs : CreatePolicy(spec) \/ EditPolicy(spec)
         \/ policy.live /\ ~policy.deleting /\ policy' = DeletedPolicy(policy)
         \/ policy.live /\ policy.fin /\ policy.deleting /\ policy' = Gone(policy)
         \/ Touched
<1> DEFINE Goal ==
         \/ policy' = policy
         \/ \E spec \in Specs : CreatePolicy(spec) \/ EditPolicy(spec)
         \/ policy.live /\ ~policy.deleting /\ policy' = DeletedPolicy(policy)
         \/ policy.live /\ policy.fin /\ policy.deleting /\ policy' = Gone(policy)
         \/ Touched
<1> SUFFICES Goal
  OBVIOUS
<1>t. policy \in PolicyType /\ pw.pol \in PolicyType
  BY ObservedTypes DEF IndInv
<1>c. CanWrite(pw.pol, policy) => pw.pol = policy /\ policy.live
  BY DEF CanWrite, IndInv, Copies, Copy
<1>3. CASE User
  BY <1>3 DEF User, UserStep, DeletePolicy, DeleteTool, CreateTool, UserOnlyTool
<1>4. CASE Kubernetes
  BY <1>4
  DEF Kubernetes, ClusterStep, GCPolicy, GCReport, GCJob, JobFinishes, JobExpires,
      SyncPolicy, SyncReport, SyncTool, SyncJob
<1>5. CASE ReportStep \/ Resync \/ Fault \/ UNCHANGED vars
  BY <1>5
  DEF ReportStep, ReportWorkerStep, ReportGet, LookupPolicy, DeleteOrphan, BeginScan,
      NothingToScan, ScanPending, ScanRead, ScanUnreadable, MarkRunning,
      CompleteReport, OnlyReportWorkerMoves, KeepAllButReport, Resync, Fault, vars,
      clusterVars, PolicyResync, ReportResync, PolicyCallFails, ReportCallFails,
      Restart, Relist, OnlyWorkerMoves, KeepAllBut
<1>6. CASE PolicyStep
  <2>1. CASE RemoveFinalizer
    <3>1. pw.pc = "cleanup" /\ pw.pol.deleting /\ pw.pol.fin
      BY <2>1 DEF RemoveFinalizer, CleanedUp, PastFinalizer
    <3>2. policy' = policy \/ (CanWrite(pw.pol, policy) /\ policy' = Gone(policy))
      BY <2>1, Zenon DEF RemoveFinalizer, UpdatePolicyAndStop
    <3>3. QED
      BY <1>c, <3>1, <3>2
  <2>2. ASSUME NEW new \in PolicyType,
               policy' = policy \/ (CanWrite(pw.pol, policy) /\ policy' = Stored(new, policy)),
               ~pw.pol.deleting,
               new.live = pw.pol.live, ~new.deleting, new.fin, new.uid = pw.pol.uid,
               new.gen = pw.pol.gen, new.spec = pw.pol.spec,
               new.obsGen = pw.pol.obsGen \/ (pw.pol.fin /\ new.obsGen = pw.pol.gen)
        PROVE  Goal
    <3>2. /\ Stored(new, policy).live = new.live /\ Stored(new, policy).fin = new.fin
          /\ Stored(new, policy).deleting = new.deleting
          /\ Stored(new, policy).uid = new.uid /\ Stored(new, policy).gen = new.gen
          /\ Stored(new, policy).spec = new.spec /\ Stored(new, policy).obsGen = new.obsGen
      BY <1>t DEF Stored, PolicyType
    <3>3. QED
      BY <1>c, <2>2, <3>2 DEF Touched
  <2>3. CASE AddFinalizer
    <3> DEFINE new == [pw.pol EXCEPT !.fin = TRUE]
    <3>1. new \in PolicyType
      BY <1>t, Zenon DEF PolicyType
    <3>2. /\ ~pw.pol.deleting
          /\ new.live = pw.pol.live /\ ~new.deleting /\ new.fin /\ new.uid = pw.pol.uid
          /\ new.gen = pw.pol.gen /\ new.spec = pw.pol.spec /\ new.obsGen = pw.pol.obsGen
      BY <1>t, <2>3 DEF AddFinalizer, PolicyType
    <3>3. policy' = policy \/ (CanWrite(pw.pol, policy) /\ policy' = Stored(new, policy))
      BY <2>3, Zenon DEF AddFinalizer, UpdatePolicyAndStop
    <3> HIDE DEF new, Goal
    <3>4. QED
      BY <2>2, <3>1, <3>2, <3>3
  <2>4. CASE SetOwner
    <3> DEFINE new == [pw.pol EXCEPT !.owner = toolCache.uid]
    <3>1. new \in PolicyType
      BY PolicyObjectTypes DEF IndInv
    <3>2. /\ ~pw.pol.deleting
          /\ new.live = pw.pol.live /\ ~new.deleting /\ new.fin /\ new.uid = pw.pol.uid
          /\ new.gen = pw.pol.gen /\ new.spec = pw.pol.spec /\ new.obsGen = pw.pol.obsGen
      BY <1>t, <2>4 DEF SetOwner, PolicyType
    <3>3. policy' = policy \/ (CanWrite(pw.pol, policy) /\ policy' = Stored(new, policy))
      BY <2>4, Zenon DEF SetOwner, UpdatePolicyAndStop
    <3> HIDE DEF new, Goal
    <3>4. QED
      BY <2>2, <3>1, <3>2, <3>3
  <2>5. CASE UpdateStatus
    <3> DEFINE new == [pw.pol EXCEPT !.obsGen = pw.pol.gen]
    <3>1. new \in PolicyType
      BY <1>t DEF PolicyType
    <3>2. /\ pw.pol.fin /\ ~pw.pol.deleting
          /\ new.live = pw.pol.live /\ ~new.deleting /\ new.fin /\ new.uid = pw.pol.uid
          /\ new.gen = pw.pol.gen /\ new.spec = pw.pol.spec /\ new.obsGen = pw.pol.gen
      BY <1>t, <2>5 DEF UpdateStatus, PastFinalizer, PolicyType
    <3>3. policy' = policy \/ (CanWrite(pw.pol, policy) /\ policy' = Stored(new, policy))
      BY <2>5, Zenon DEF UpdateStatus, UpdatePolicyAndStop
    <3> HIDE DEF new, Goal
    <3>4. QED
      BY <2>2, <3>1, <3>2, <3>3
  <2>6. CASE ~(RemoveFinalizer \/ AddFinalizer \/ SetOwner \/ UpdateStatus)
    BY <1>6, <2>6
    DEF PolicyStep, PolicyWorkerStep, PolicyGet, ToolNotFound, BeginCleanup,
        CleanupPanics, RejectInvalid, BeginJobs, CleanupJob, EnsureJob, DisabledDone,
        GenerateReport, UpsertNothing, UpsertUpdate, UpsertCreate, ResetReport,
        OnlyWorkerMoves, KeepAllBut
  <2>7. QED
    BY <2>1, <2>3, <2>4, <2>5, <2>6
<1>7. QED
  BY <1>3, <1>4, <1>5, <1>6 DEF Next

\* The same for the Policies created and edited, in their fields.
LEMMA LifeFields ==
  ASSUME IndInv, PastFinalizer, [Next]_vars
  PROVE  \/ policy' = policy
         \/ /\ ~policy.live /\ policy'.live /\ policy'.uid = policy.uid + 1 /\ policy'.gen = 1
            /\ ~policy'.fin /\ ~policy'.deleting /\ policy'.obsGen = 0
         \/ /\ policy.live /\ policy'.live
            /\ policy'.uid = policy.uid /\ policy'.gen = policy.gen + 1
            /\ policy'.fin = policy.fin /\ policy'.obsGen = policy.obsGen
            /\ \/ policy'.deleting = policy.deleting
               \/ policy.fin /\ ~policy.deleting /\ policy'.deleting
         \/ /\ policy.live /\ (policy.fin <=> policy.deleting)
            /\ ~policy'.live /\ ~policy'.fin /\ ~policy'.deleting /\ policy'.obsGen = 0
            /\ policy'.uid = policy.uid /\ policy'.gen = policy.gen
         \/ Touched
<1>t. policy \in PolicyType
  BY ObservedTypes DEF IndInv
<1>g. /\ ~Gone(policy).live /\ ~Gone(policy).fin /\ ~Gone(policy).deleting
      /\ Gone(policy).obsGen = 0
      /\ Gone(policy).uid = policy.uid /\ Gone(policy).gen = policy.gen
  BY DEF Gone, NoPolicy
<1>1. ASSUME NEW spec \in Specs, CreatePolicy(spec)
      PROVE  /\ ~policy.live /\ policy'.live /\ policy'.uid = policy.uid + 1 /\ policy'.gen = 1
             /\ ~policy'.fin /\ ~policy'.deleting /\ policy'.obsGen = 0
  BY <1>1 DEF CreatePolicy, NoPolicy
<1>2. ASSUME NEW spec \in Specs, EditPolicy(spec)
      PROVE  /\ policy.live /\ policy'.live
             /\ policy'.uid = policy.uid /\ policy'.gen = policy.gen + 1
             /\ policy'.fin = policy.fin /\ policy'.obsGen = policy.obsGen
             /\ policy'.deleting = policy.deleting
  BY <1>2, <1>t DEF EditPolicy, PolicyType
<1>3. ASSUME policy.live, ~policy.deleting, policy' = DeletedPolicy(policy)
      PROVE  \/ /\ ~policy.fin /\ policy' = Gone(policy)
             \/ /\ policy.fin /\ policy'.live
                /\ policy'.uid = policy.uid /\ policy'.gen = policy.gen + 1
                /\ policy'.fin = policy.fin /\ policy'.obsGen = policy.obsGen
                /\ policy'.deleting
  BY <1>3, <1>t DEF DeletedPolicy, PolicyType
<1>4. QED
  BY <1>g, <1>1, <1>2, <1>3, LifeSteps

\* The Policy has an identity, which never goes back.
LEMMA LifeMoves ==
  ASSUME IndInv, PastFinalizer, [Next]_vars
  PROVE  /\ policy.uid \in Nat /\ policy'.uid \in Nat /\ policy.uid <= policy'.uid
         /\ policy'.live => policy'.uid # 0
<1>t. policy \in PolicyType
  BY ObservedTypes DEF IndInv
<1>n. policy.uid \in Nat
  BY <1>t DEF PolicyType
<1>1. QED
  BY <1>n, LifeFields DEF PastFinalizer, Touched
-----------------------------------------------------------------------------
\* An earlier state of the Policy remains one.
LEMMA EarlierStays ==
  ASSUME IndInv, PastFinalizer, [Next]_vars,
         NEW p \in PolicyType, Upto(p, policy), Earlier(p, policy)
  PROVE  Earlier(p, policy')
<1> SUFFICES ASSUME policy'.live, p.uid = policy'.uid
             PROVE  /\ p.live
                    /\ p.fin => policy'.fin
                    /\ p.gen = policy'.gen =>
                         p.spec = policy'.spec /\ p.deleting = policy'.deleting
  BY DEF Earlier
<1>t. policy \in PolicyType
  BY ObservedTypes DEF IndInv
<1>n. /\ policy.uid \in Nat /\ policy.gen \in Nat /\ p.uid \in Nat /\ p.gen \in Nat
      /\ policy.deleting \in BOOLEAN /\ p.deleting \in BOOLEAN
  BY <1>t DEF PolicyType
<1>1. CASE policy' = policy
  BY <1>1 DEF Earlier
<1>2. CASE ~policy.live /\ policy'.uid = policy.uid + 1
  BY <1>2, <1>n DEF Upto, NotNewer
<1>3. CASE /\ policy.live /\ policy'.uid = policy.uid /\ policy'.gen = policy.gen + 1
           /\ policy'.fin = policy.fin
  BY <1>3, <1>n DEF Upto, NotNewer, Earlier
<1>4. CASE Touched
  <2>1. policy.live /\ p.uid = policy.uid
    BY <1>4 DEF Touched
  <2>2. p.live
    BY <2>1 DEF Earlier
  <2>3. policy'.fin
    BY <1>4 DEF Touched
  <2>4. ASSUME p.gen = policy'.gen
        PROVE  p.spec = policy'.spec /\ p.deleting = policy'.deleting
    <3>1. p.gen = policy.gen /\ policy'.spec = policy.spec /\ ~policy.deleting /\ ~policy'.deleting
      BY <1>4, <2>4 DEF Touched
    <3>2. p.spec = policy.spec /\ p.deleting = policy.deleting
      BY <2>1, <3>1 DEF Earlier
    <3>3. policy'.deleting \in BOOLEAN
      BY NextTypes, ObservedTypes DEF IndInv, TypeOK, ClusterTypeOK, PolicyType
    <3>4. QED
      BY <1>n, <3>1, <3>2, <3>3
  <2>5. QED
    BY <2>2, <2>3, <2>4
<1>5. QED
  BY <1>1, <1>2, <1>3, <1>4, LifeFields

\* Where the policy worker goes, and what it has checked before.
LEMMA WorkerGuards ==
  ASSUME TypeOK, [Next]_vars
  PROVE  \/ pw' = pw
         \/ pw'.pc = "idle"
         \/ pw'.pc = "tool" /\ policyCache.live /\ pw'.pol = policyCache
         \/ /\ pw.pc = "tool" /\ pw'.pol = pw.pol /\ pw.pol.fin
            /\ pw'.pc = "cleanup" \/ (pw'.pc = "jobs" /\ ~pw.pol.deleting)
         \/ pw.pc = "cleanup" /\ pw'.pc = "cleanup" /\ pw'.pol = pw.pol
         \/ /\ pw.pc \in {"jobs", "upsert", "reset"} /\ pw'.pol = pw.pol
            /\ pw'.pc \in {"jobs", "upsert", "reset", "status"}
<1>t. pw \in PolicyWorkerType
  BY DEF TypeOK
<1>i. IdlePolicyWorker.pc = "idle"
  BY DEF IdlePolicyWorker
<1>1. CASE PolicyStep
  <2>1. CASE PolicyGet \/ BeginCleanup \/ BeginJobs
    BY <1>i, <1>t, <2>1
    DEF PolicyGet, BeginCleanup, BeginJobs, MustCleanUp, Owned, AtTool, PolicyWorkerType
  <2>2. ASSUME NEW s \in Scans, CleanupJob(s) \/ EnsureJob(s)
        PROVE  \/ pw'.pc = "idle"
               \/ pw' = [pw EXCEPT !.todo = @ \ {s}] /\ pw.pc \in {"cleanup", "jobs"}
    BY <1>i, <2>2 DEF CleanupJob, EnsureJob, PolicyRetry
  <2>3. CASE GenerateReport \/ UpsertNothing \/ UpsertUpdate \/ UpsertCreate
    BY <1>i, <1>t, <2>3
    DEF GenerateReport, UpsertNothing, UpsertUpdate, UpsertCreate, AfterUpsert,
        PolicyRetry, PolicyWorkerType
  <2>4. CASE ResetReport
    BY <1>i, <1>t, <2>4 DEF ResetReport, PolicyRetry, PolicyWorkerType
  <2>5. CASE \/ ToolNotFound \/ AddFinalizer \/ SetOwner \/ CleanupPanics \/ RejectInvalid
             \/ DisabledDone \/ RemoveFinalizer \/ UpdateStatus
    BY <1>i, <2>5
    DEF ToolNotFound, AddFinalizer, SetOwner, CleanupPanics, RejectInvalid, DisabledDone,
        RemoveFinalizer, UpdateStatus, UpdatePolicyAndStop, PolicyDone, PolicyRetry
  <2>6. CASE \E s \in Scans : CleanupJob(s) \/ EnsureJob(s)
    BY <1>t, <2>2, <2>6 DEF PolicyWorkerType
  <2>7. QED
    BY <1>1, <2>1, <2>3, <2>4, <2>5, <2>6 DEF PolicyStep, PolicyWorkerStep
<1>2. CASE ~PolicyStep
  BY <1>2, <1>i
  DEF Next, User, Kubernetes, Resync, PolicyResync, ReportStep, Fault, PolicyCallFails,
      PolicyRetry, Restart, vars
<1>3. QED
  BY <1>1, <1>2

\* What the caches and the worker know of the Policy remains true.
LEMMA PastInductive ==
  ASSUME IndInv, IndInv', PastFinalizer, [Next]_vars
  PROVE  PastFinalizer'
<1>i. TypeOK /\ TypeOK' /\ Chain
  BY DEF IndInv
<1>t. policy \in PolicyType /\ policyCache \in PolicyType /\ pw.pol \in PolicyType
  BY <1>i, ObservedTypes
<1>n. \A p \in PolicyType : p.uid \in Nat /\ p.gen \in Nat
  BY DEF PolicyType
<1>u. Upto(policyCache, policy) /\ Upto(pw.pol, policy)
  BY <1>i, <1>n, <1>t DEF Chain, Upto, NotNewer
<1>c. policyCache' = policyCache \/ (policyCache' = policy /\ policy' = policy)
  BY <1>i, PolicyCopyMoves
<1>1. /\ policy'.live => policy'.uid # 0
      /\ ~policy'.live => ~policy'.fin /\ ~policy'.deleting /\ policy'.obsGen = 0
  BY LifeMoves, LifeFields DEF PastFinalizer, Touched
<1>2. policyCache'.live => policyCache'.uid # 0
  BY <1>c DEF PastFinalizer
<1>3. Earlier(policyCache, policy')
  BY <1>t, <1>u, EarlierStays DEF PastFinalizer
<1>4. Earlier(policyCache', policy')
  BY <1>3, <1>c DEF Earlier
<1>5. ASSUME pw'.pc # "idle"
      PROVE  pw'.pol.live /\ pw'.pol.uid # 0 /\ Earlier(pw'.pol, policy')
  <2>1. CASE pw.pc # "idle" /\ pw'.pol = pw.pol
    BY <1>t, <1>u, <2>1, EarlierStays DEF PastFinalizer
  <2>2. CASE policyCache.live /\ pw'.pol = policyCache
    BY <1>3, <2>2 DEF PastFinalizer
  <2>3. QED
    BY <1>5, <1>i, <2>1, <2>2, WorkerGuards
<1>6. pw'.pc \notin {"idle", "tool"} => pw'.pol.fin
  BY <1>i, WorkerGuards DEF PastFinalizer
<1>7. pw'.pc \in {"jobs", "upsert", "reset", "status"} => ~pw'.pol.deleting
  BY <1>i, WorkerGuards DEF PastFinalizer
<1>8. QED
  BY <1>1, <1>2, <1>4, <1>5, <1>6, <1>7 DEF PastFinalizer
-----------------------------------------------------------------------------
\* A Job that exists was there before or has just been made for the worker's Policy.
LEMMA JobSteps ==
  ASSUME TypeOK, [Next]_vars, NEW s \in Scans, jobs'[s].live
  PROVE  \/ jobs[s].live /\ jobs'[s].owner = jobs[s].owner
         \/ pw.pc = "jobs" /\ jobs'[s].owner = pw.pol.uid
<1> DEFINE Goal == \/ jobs[s].live /\ jobs'[s].owner = jobs[s].owner
                   \/ pw.pc = "jobs" /\ jobs'[s].owner = pw.pol.uid
<1> SUFFICES Goal
  OBVIOUS
<1>t. jobs \in [Scans -> JobType]
  BY DEF TypeOK, ClusterTypeOK
<1>n. ~NoJob.live
  BY DEF NoJob
<1>k. CASE jobs' = jobs
  BY <1>k
<1>d. ASSUME NEW r \in Scans, jobs' = [jobs EXCEPT ![r] = NoJob]
      PROVE  Goal
  BY <1>d, <1>n, <1>t
<1>1. CASE User
  BY <1>1, <1>k
  DEF User, UserStep, CreatePolicy, EditPolicy, DeletePolicy, DeleteTool, CreateTool,
      UserOnlyPolicy, UserOnlyTool
<1>2. CASE Kubernetes
  <2>1. ASSUME NEW r \in Scans, GCJob(r) \/ JobExpires(r)
        PROVE  Goal
    BY <1>d, <2>1 DEF GCJob, JobExpires
  <2>2. ASSUME NEW r \in Scans, NEW ok \in BOOLEAN, JobFinishes(r, ok)
        PROVE  Goal
    BY <1>t, <2>2 DEF JobFinishes, JobType
  <2>3. CASE ~ \/ \E r \in Scans : GCJob(r) \/ JobExpires(r)
               \/ \E r \in Scans, ok \in BOOLEAN : JobFinishes(r, ok)
    BY <1>2, <1>k, <2>3
    DEF Kubernetes, ClusterStep, GCPolicy, GCReport, SyncPolicy, SyncReport, SyncTool,
        SyncJob
  <2>4. QED
    BY <2>1, <2>2, <2>3
<1>3. CASE PolicyStep
  <2>1. ASSUME NEW r \in Scans, CleanupJob(r)
        PROVE  Goal
    BY <1>d, <2>1 DEF CleanupJob
  <2>2. ASSUME NEW r \in Scans, EnsureJob(r)
        PROVE  Goal
    <3>1. CASE jobs' = [jobs EXCEPT ![r] =
                          [live |-> TRUE, owner |-> pw.pol.uid,
                           image |-> pw.pol.spec.scans[r], finished |-> FALSE]]
      BY <1>t, <2>2, <3>1 DEF EnsureJob, KeepAllBut
    <3>2. QED
      BY <1>k, <2>2, <3>1 DEF EnsureJob
  <2>3. CASE ~\E r \in Scans : CleanupJob(r) \/ EnsureJob(r)
    BY <1>3, <1>k, <2>3
    DEF PolicyStep, PolicyWorkerStep, PolicyGet, ToolNotFound, AddFinalizer, SetOwner,
        BeginCleanup, CleanupPanics, RejectInvalid, BeginJobs, DisabledDone,
        RemoveFinalizer, GenerateReport, UpsertNothing, UpsertUpdate, UpsertCreate,
        ResetReport, UpdateStatus, UpdatePolicyAndStop, OnlyWorkerMoves, KeepAllBut
  <2>4. QED
    BY <2>1, <2>2, <2>3
<1>4. CASE ReportStep \/ Resync \/ Fault \/ UNCHANGED vars
  BY <1>4, <1>k
  DEF ReportStep, ReportWorkerStep, ReportGet, LookupPolicy, DeleteOrphan, BeginScan,
      NothingToScan, ScanPending, ScanRead, ScanUnreadable, MarkRunning,
      CompleteReport, OnlyReportWorkerMoves, KeepAllButReport, Resync, Fault, vars,
      clusterVars, PolicyResync, ReportResync, PolicyCallFails, ReportCallFails,
      Restart, Relist, OnlyWorkerMoves, KeepAllBut
<1>5. QED
  BY <1>1, <1>2, <1>3, <1>4 DEF Next

\* A report that exists was there before or has just been made, too.
LEMMA ReportOwners ==
  ASSUME ObservedInv, [Next]_vars, report'.live
  PROVE  \/ report.live /\ report'.owner = report.owner
         \/ pw.pc = "upsert" /\ report'.owner = pw.pol.uid
<1>i. ReportInv /\ TypeOK /\ ReadyToObserve
  BY DEF ObservedInv, ReportInv, IndInv
<1>t. report \in ReportType /\ pw.rep \in ReportType
  BY <1>i, ObservedTypes
<1>1. CASE report' = GoneReport(report)
  BY <1>1 DEF GoneReport, NoReport
<1>2. CASE report' = Regenerated /\ report.live
  BY <1>2, <1>t DEF Regenerated, ReportType
<1>3. CASE /\ pw.pc = "upsert" /\ pw.rep.rv = 0
           /\ report' = [pw.rep EXCEPT !.rv = report.rv + 1, !.status = NoStatus]
  <2>1. report'.owner = pw.rep.owner
    BY <1>3, <1>t DEF ReportType
  <2>2. QED
    BY <1>3, <1>i, <2>1 DEF ReadyToObserve, FreshReport
<1>4. ASSUME NEW st \in StatusType, report.live, report' = Restated(st)
      PROVE  report.live /\ report'.owner = report.owner
  BY <1>4, <1>t, Restating
<1>5. QED
  BY <1>1, <1>2, <1>3, <1>4, <1>i, ReportSteps, StatusTypes

\* Whatever is made for the worker's Policy is guarded.
LEMMA MadeGuarded ==
  ASSUME PastFinalizer, pw.pc \in {"jobs", "upsert"}
  PROVE  Guarded(pw.pol.uid)
BY DEF PastFinalizer, Guarded, Orphaned, Earlier

\* Whatever was guarded stays so.
LEMMA GuardedStays ==
  ASSUME IndInv, PastFinalizer, [Next]_vars,
         NEW owner \in Nat, owner <= policy.uid, Guarded(owner)
  PROVE  Guarded(owner)'
<1>n. policy.uid \in Nat
  BY LifeMoves
<1>1. QED
  BY <1>n, LifeFields DEF Guarded, Orphaned, Touched

\* Owners are Policies that were created, and none is without its finalizer.
LEMMA GuardedInductive ==
  ASSUME ObservedInv, PastFinalizer, OwnersKnown, NothingUnguarded, [Next]_vars
  PROVE  OwnersKnown' /\ NothingUnguarded'
<1>i. IndInv /\ TypeOK /\ Chain
  BY DEF ObservedInv, ReportInv, IndInv
<1>t. /\ policy \in PolicyType /\ policyCache \in PolicyType /\ pw.pol \in PolicyType
      /\ report \in ReportType /\ jobs \in [Scans -> JobType]
  BY <1>i, ObservedTypes DEF TypeOK, ClusterTypeOK
<1>n. /\ policy.uid \in Nat /\ policyCache.uid \in Nat /\ pw.pol.uid \in Nat
      /\ report.owner \in Nat /\ \A s \in Scans : jobs[s].owner \in Nat
  BY <1>t DEF PolicyType, ReportType, JobType
<1>u. pw.pol.uid <= policy.uid
  BY <1>i, <1>n DEF Chain, Upto, NotNewer
<1>m. policy'.uid \in Nat /\ policy.uid <= policy'.uid
  BY <1>i, LifeMoves
<1>1. ASSUME NEW owner \in Nat, owner <= policy.uid, Guarded(owner)
      PROVE  owner <= policy'.uid /\ Guarded(owner)'
  BY <1>1, <1>i, <1>m, <1>n, GuardedStays
<1>2. ASSUME report'.live
      PROVE  report'.owner <= policy'.uid /\ Guarded(report.owner)'
  <2>1. \/ report.live /\ report'.owner = report.owner
        \/ pw.pc = "upsert" /\ report'.owner = pw.pol.uid
    BY <1>2, ReportOwners
  <2>2. CASE report.live /\ report'.owner = report.owner
    BY <1>1, <1>n, <2>2 DEF OwnersKnown, NothingUnguarded, Guarded, Orphaned
  <2>3. CASE pw.pc = "upsert" /\ report'.owner = pw.pol.uid
    BY <1>1, <1>n, <1>u, <2>3, MadeGuarded DEF Guarded, Orphaned
  <2>4. QED
    BY <2>1, <2>2, <2>3
<1>3. ASSUME NEW s \in Scans, jobs'[s].live
      PROVE  jobs'[s].owner <= policy'.uid /\ Guarded(jobs[s].owner)'
  <2>1. \/ jobs[s].live /\ jobs'[s].owner = jobs[s].owner
        \/ pw.pc = "jobs" /\ jobs'[s].owner = pw.pol.uid
    BY <1>3, <1>i, JobSteps
  <2>2. CASE jobs[s].live /\ jobs'[s].owner = jobs[s].owner
    BY <1>1, <1>n, <2>2 DEF OwnersKnown, NothingUnguarded, Guarded, Orphaned
  <2>3. CASE pw.pc = "jobs" /\ jobs'[s].owner = pw.pol.uid
    BY <1>1, <1>n, <1>u, <2>3, MadeGuarded DEF Guarded, Orphaned
  <2>4. QED
    BY <2>1, <2>2, <2>3
<1>4. QED
  BY <1>2, <1>3 DEF OwnersKnown, NothingUnguarded
-----------------------------------------------------------------------------
\* The invariant holds of the pipeline.
THEOREM GuardInvariant == Spec => []GuardInv
<1>1. Init => PastFinalizer /\ OwnersKnown /\ NothingUnguarded
  BY DEF Init, ClusterInit, PolicyWorkerInit, NoPolicy, NoReport, NoJob, IdlePolicyWorker,
         PastFinalizer, Earlier, OwnersKnown, NothingUnguarded
<1>2. GuardInv /\ ObservedInv' /\ [Next]_vars => GuardInv'
  <2> SUFFICES ASSUME GuardInv, ObservedInv', [Next]_vars
               PROVE  GuardInv'
    OBVIOUS
  <2>1. IndInv /\ IndInv' /\ ObservedInv
    BY DEF GuardInv, ObservedInv, ReportInv
  <2>2. PastFinalizer'
    BY <2>1, PastInductive DEF GuardInv
  <2>3. QED
    BY <2>1, <2>2, GuardedInductive DEF GuardInv
<1>3. Init /\ ObservedInv => GuardInv
  BY <1>1 DEF GuardInv
<1>4. QED
  BY <1>2, <1>3, ObservedInvariant, PTL DEF Spec

\* Every Job and report of the pipeline goes when its Policy does: that is gone
\* and the garbage collector will come, or has the finalizer
\* (PolicyReconciler.Reconcile adds it and ends before the engine is called).
THEOREM NothingUnguardedHolds == Spec => []NothingUnguarded
<1>1. GuardInv => NothingUnguarded
  BY DEF GuardInv
<1>2. QED
  BY <1>1, GuardInvariant, PTL

\* A step of the pipeline is a step in the life of its Policy, or none.
LEMMA LifeStep ==
  ASSUME IndInv, PastFinalizer, [Next]_vars
  PROVE  [PolicyLife!Next]_(PolicyLife!vars)
<1>t. policy \in PolicyType
  BY ObservedTypes DEF IndInv
<1>n. policy.uid \in Nat /\ policy.gen \in Nat
  BY <1>t DEF PolicyType
<1>v. policy' \in PolicyType
  BY NextTypes DEF IndInv, TypeOK, ClusterTypeOK
<1>b. /\ policy.live \in BOOLEAN /\ policy.fin \in BOOLEAN /\ policy.deleting \in BOOLEAN
      /\ policy'.live \in BOOLEAN /\ policy'.fin \in BOOLEAN /\ policy'.deleting \in BOOLEAN
  BY <1>t, <1>v DEF PolicyType
<1>1. CASE policy' = policy
  BY <1>1 DEF PolicyLife!vars
<1>2. CASE /\ ~policy.live /\ policy'.live /\ policy'.uid = policy.uid + 1 /\ policy'.gen = 1
           /\ ~policy'.fin /\ ~policy'.deleting /\ policy'.obsGen = 0
  <2>1. ~policy.fin /\ ~policy.deleting /\ policy.obsGen = 0
    BY <1>2 DEF PastFinalizer
  <2>2. policy'.fin = policy.fin /\ policy'.deleting = policy.deleting
    BY <1>2, <1>b, <2>1
  <2>3. PolicyLife!Create
    BY <1>2, <2>1, <2>2 DEF PolicyLife!Create
  <2>4. QED
    BY <2>3 DEF PolicyLife!Next
<1>3. CASE /\ policy.live /\ policy'.live
           /\ policy'.uid = policy.uid /\ policy'.gen = policy.gen + 1
           /\ policy'.fin = policy.fin /\ policy'.obsGen = policy.obsGen
           /\ \/ policy'.deleting = policy.deleting
              \/ policy.fin /\ ~policy.deleting /\ policy'.deleting
  <2>1. policy'.live = policy.live
    BY <1>3, <1>b
  <2>2. PolicyLife!Edit \/ PolicyLife!Mark
    BY <1>3, <1>n, <2>1 DEF PolicyLife!Edit, PolicyLife!Mark, PolicyLife!Grown
  <2>3. QED
    BY <2>2 DEF PolicyLife!Next
<1>4. CASE /\ policy.live /\ (policy.fin <=> policy.deleting)
           /\ ~policy'.live /\ ~policy'.fin /\ ~policy'.deleting /\ policy'.obsGen = 0
           /\ policy'.uid = policy.uid /\ policy'.gen = policy.gen
  BY <1>4 DEF PolicyLife!Next, PolicyLife!Leave
<1>5. CASE Touched
  <2>1. /\ policy'.live = policy.live /\ policy'.deleting = policy.deleting
        /\ policy.fin => policy'.fin = policy.fin
        /\ policy'.uid = policy.uid /\ policy'.gen = policy.gen
    BY <1>5, <1>b DEF Touched
  <2>2. PolicyLife!Protect \/ PolicyLife!Observe
    BY <1>5, <2>1 DEF Touched, PolicyLife!Protect, PolicyLife!Observe
  <2>3. QED
    BY <2>2 DEF PolicyLife!Next
<1>6. QED
  BY <1>1, <1>2, <1>3, <1>4, <1>5, LifeFields

\* The policy controller, its retries, restarts and stale copies included, is an
\* implementation of the life of a Policy (PolicyReconciler.Reconcile adds and
\* removes the finalizer, and writes the status, with the version it has read).
THEOREM PolicyKeepsLifecycleHolds == Spec => PolicyKeepsLifecycle
<1>1. Init => PolicyLife!Init
  BY DEF Init, ClusterInit, NoPolicy, PolicyLife!Init
<1>2. GuardInv /\ [Next]_vars => [PolicyLife!Next]_(PolicyLife!vars)
  BY LifeStep DEF GuardInv, ObservedInv, ReportInv
<1>3. QED
  BY <1>1, <1>2, GuardInvariant, PTL DEF Spec, PolicyKeepsLifecycle, PolicyLife!Spec
=============================================================================

------------------------------ MODULE ReportProofs ------------------------------
(***************************************************************************)
(* More proofs about PolicySystem: its report lives the life of module     *)
(* ReportLifecycle, and a Completed report covers every scan, for every    *)
(* set of scans and any number of user edits and faults.                   *)
(***************************************************************************)
EXTENDS PolicySystemProofs

-----------------------------------------------------------------------------
(***************************************************************************)
(* Every way a report can change.                                          *)
(***************************************************************************)

\* The policy worker's update of the report to the generation of its Policy.
Regenerated ==
  [report EXCEPT !.gen = pw.pol.gen, !.uid = pw.pol.uid, !.rv = report.rv + 1]

\* A write of the status alone.
Restated(status) == Stored([report EXCEPT !.status = status], report)

\* The copies two actions write back are the report itself, so that each step
\* makes one of these six things of it.
LEMMA ReportSteps ==
  ASSUME ReportInv, [Next]_vars
  PROVE  \/ report' = report
         \/ report.live /\ report' = GoneReport(report)
         \/ report.live /\ pw.pc = "upsert" /\ report' = Regenerated
         \/ /\ ~report.live /\ ~reportCache.live /\ pw.pc = "upsert" /\ pw.rep.rv = 0
            /\ report' = [pw.rep EXCEPT !.rv = report.rv + 1, !.status = NoStatus]
         \/ report.live /\ report' = Restated([NoStatus EXCEPT !.phase = "Pending"])
         \/ /\ report.live /\ rw.rep = report
            /\ \/ report' = Restated([report.status EXCEPT !.phase = "Running"])
               \/ Scanned /\ ~rw.pending /\ report' = Restated(Result)
<1> DEFINE Goal ==
         \/ report' = report
         \/ report.live /\ report' = GoneReport(report)
         \/ report.live /\ pw.pc = "upsert" /\ report' = Regenerated
         \/ /\ ~report.live /\ ~reportCache.live /\ pw.pc = "upsert" /\ pw.rep.rv = 0
            /\ report' = [pw.rep EXCEPT !.rv = report.rv + 1, !.status = NoStatus]
         \/ report.live /\ report' = Restated([NoStatus EXCEPT !.phase = "Pending"])
         \/ /\ report.live /\ rw.rep = report
            /\ \/ report' = Restated([report.status EXCEPT !.phase = "Running"])
               \/ Scanned /\ ~rw.pending /\ report' = Restated(Result)
<1>c. /\ Copy(rw.rep, report) /\ Copy(reportCache, report)
      /\ pw.pc = "reset" => Copy(pw.rep, report)
  BY DEF ReportInv, IndInv, Copies, PolicyWorkerKnows
<1>1. CASE User
  BY <1>1
  DEF User, UserStep, CreatePolicy, EditPolicy, DeletePolicy, DeleteTool, CreateTool,
      UserOnlyPolicy, UserOnlyTool
<1>2. CASE Kubernetes
  BY <1>2
  DEF Kubernetes, ClusterStep, GCPolicy, GCReport, GCJob, JobFinishes, JobExpires,
      SyncPolicy, SyncReport, SyncTool, SyncJob
<1>3. CASE ReportStep
  <2>1. CASE DeleteOrphan
    BY <2>1 DEF DeleteOrphan
  <2>2. CASE MarkRunning
    <3>1. CASE report' = report
      BY <3>1
    <3>2. CASE /\ CanWrite(rw.rep, report)
               /\ report' = Stored([rw.rep EXCEPT !.status.phase = "Running"], report)
      <4>1. rw.rep = report /\ report.live
        BY <3>2, <1>c DEF CanWrite, Copy
      <4>2. QED
        BY <3>2, <4>1 DEF Restated
    <3>3. QED
      BY <2>2, <3>1, <3>2, Zenon DEF MarkRunning
  <2>3. CASE CompleteReport
    <3>1. CASE report' = report
      BY <3>1
    <3>2. CASE /\ CanWrite(rw.rep, report)
               /\ report' = Stored([rw.rep EXCEPT !.status = Result], report)
      <4>1. rw.rep = report /\ report.live
        BY <3>2, <1>c DEF CanWrite, Copy
      <4>2. Scanned /\ ~rw.pending
        BY <2>3 DEF CompleteReport
      <4>3. QED
        BY <3>2, <4>1, <4>2 DEF Restated
    <3>3. QED
      BY <2>3, <3>1, <3>2, Zenon DEF CompleteReport
  <2>4. CASE ~(DeleteOrphan \/ MarkRunning \/ CompleteReport)
    BY <1>3, <2>4
    DEF ReportStep, ReportWorkerStep, ReportGet, LookupPolicy, BeginScan, NothingToScan,
        ScanPending, ScanRead, ScanUnreadable, OnlyReportWorkerMoves
  <2>5. QED
    BY <2>1, <2>2, <2>3, <2>4
<1>4. CASE PolicyStep
  <2>1. CASE UpsertUpdate
    <3>1. CASE report' = report
      BY <3>1
    <3>2. CASE /\ CanWrite(reportCache, report)
               /\ report' = [reportCache EXCEPT !.gen = pw.pol.gen,
                                                !.uid = pw.pol.uid, !.rv = @ + 1]
      <4>1. reportCache = report /\ report.live
        BY <3>2, <1>c DEF CanWrite, Copy
      <4>2. pw.pc = "upsert"
        BY <2>1 DEF UpsertUpdate
      <4>3. QED
        BY <3>2, <4>1, <4>2 DEF Regenerated
    <3>3. QED
      BY <2>1, <3>1, <3>2, Zenon DEF UpsertUpdate
  <2>2. CASE UpsertCreate
    BY <2>2, Zenon DEF UpsertCreate
  <2>3. CASE ResetReport
    <3>1. CASE report' = report
      BY <3>1
    <3>2. CASE /\ CanWrite(pw.rep, report)
               /\ report' = Stored([pw.rep EXCEPT !.status =
                                      [NoStatus EXCEPT !.phase = "Pending"]], report)
      <4>1. pw.rep = report /\ report.live
        BY <2>3, <3>2, <1>c DEF CanWrite, Copy, ResetReport
      <4>2. QED
        BY <3>2, <4>1 DEF Restated
    <3>3. QED
      BY <2>3, <3>1, <3>2, Zenon DEF ResetReport
  <2>4. CASE ~(UpsertUpdate \/ UpsertCreate \/ ResetReport)
    BY <1>4, <2>4
    DEF PolicyStep, PolicyWorkerStep, PolicyGet, ToolNotFound, AddFinalizer, SetOwner,
        BeginCleanup, CleanupPanics, RejectInvalid, BeginJobs, CleanupJob, EnsureJob,
        DisabledDone, RemoveFinalizer, GenerateReport, UpsertNothing, UpdateStatus,
        UpdatePolicyAndStop, OnlyWorkerMoves, KeepAllBut
  <2>5. QED
    BY <2>1, <2>2, <2>3, <2>4
<1>5. CASE Resync \/ Fault \/ UNCHANGED vars
  BY <1>5
  DEF Resync, Fault, vars, clusterVars, PolicyResync, ReportResync, PolicyCallFails,
      ReportCallFails, Restart, Relist, OnlyWorkerMoves, KeepAllBut,
      OnlyReportWorkerMoves, KeepAllButReport
<1>6. QED
  BY <1>1, <1>2, <1>3, <1>4, <1>5 DEF Next

\* Where a step takes the policy worker, and what it then holds.
LEMMA PolicyWorkerSteps ==
  ASSUME TypeOK, [Next]_vars
  PROVE  \/ pw' = pw
         \/ pw'.pc = "idle"
         \/ pw'.pc = "tool" /\ pw'.pol = policyCache /\ UNCHANGED <<report, reportCache>>
         \/ /\ pw.pc # "idle" /\ pw'.pol = pw.pol
            /\ \/ pw'.pc = "cleanup"
               \/ /\ pw'.pc = "jobs"
                  /\ \/ pw'.todo = Asked(pw.pol.spec)
                     \/ pw.pc = "jobs" /\ pw'.todo \subseteq pw.todo
               \/ /\ pw'.pc = "upsert"
                  /\ \/ pw'.rep = FreshReport(pw.pol)
                     \/ reportCache.live /\ pw'.rep = reportCache
               \/ pw.pc = "reset" /\ pw'.pc = "status"
               \/ /\ pw.pc = "upsert" /\ pw'.pc \in {"reset", "status"}
                  /\ \/ /\ pw'.rep = reportCache /\ report' = report
                        /\ reportCache.live /\ reportCache.gen = pw.pol.gen
                     \/ /\ pw'.rep = report'
                        /\ \/ report'.gen = pw.pol.gen
                           \/ pw.rep.rv = 0 /\ report'.gen = pw.rep.gen
<1> DEFINE Goal ==
         \/ pw' = pw
         \/ pw'.pc = "idle"
         \/ pw'.pc = "tool" /\ pw'.pol = policyCache /\ UNCHANGED <<report, reportCache>>
         \/ /\ pw.pc # "idle" /\ pw'.pol = pw.pol
            /\ \/ pw'.pc = "cleanup"
               \/ /\ pw'.pc = "jobs"
                  /\ \/ pw'.todo = Asked(pw.pol.spec)
                     \/ pw.pc = "jobs" /\ pw'.todo \subseteq pw.todo
               \/ /\ pw'.pc = "upsert"
                  /\ \/ pw'.rep = FreshReport(pw.pol)
                     \/ reportCache.live /\ pw'.rep = reportCache
               \/ pw.pc = "reset" /\ pw'.pc = "status"
               \/ /\ pw.pc = "upsert" /\ pw'.pc \in {"reset", "status"}
                  /\ \/ /\ pw'.rep = reportCache /\ report' = report
                        /\ reportCache.live /\ reportCache.gen = pw.pol.gen
                     \/ /\ pw'.rep = report'
                        /\ \/ report'.gen = pw.pol.gen
                           \/ pw.rep.rv = 0 /\ report'.gen = pw.rep.gen
<1>t. pw \in PolicyWorkerType /\ reportCache \in ReportType /\ pw.rep \in ReportType
  BY DEF TypeOK, ClusterTypeOK, PolicyWorkerType
<1>i. IdlePolicyWorker.pc = "idle"
  BY DEF IdlePolicyWorker
<1>r. PolicyRetry => Goal
  BY <1>i DEF PolicyRetry
<1>1. CASE PolicyStep
  <2>1. CASE PolicyGet
    BY <2>1, <1>t, <1>i DEF PolicyGet, PolicyWorkerType, OnlyWorkerMoves, KeepAllBut
  <2>2. CASE BeginCleanup
    BY <2>2, <1>t DEF BeginCleanup, MustCleanUp, Owned, AtTool, PolicyWorkerType
  <2>3. CASE BeginJobs
    BY <2>3, <1>t DEF BeginJobs, Owned, AtTool, PolicyWorkerType
  <2>4. ASSUME NEW s \in Scans, CleanupJob(s)
        PROVE  Goal
    BY <2>4, <1>t DEF CleanupJob, PolicyWorkerType
  <2>5. ASSUME NEW s \in Scans, EnsureJob(s)
        PROVE  Goal
    <3>1. CASE pw' = [pw EXCEPT !.todo = @ \ {s}]
      BY <2>5, <3>1, <1>t DEF EnsureJob, PolicyWorkerType
    <3>2. QED
      BY <2>5, <3>1, <1>r, Zenon DEF EnsureJob
  <2>6. CASE GenerateReport
    BY <2>6, <1>t DEF GenerateReport, PolicyWorkerType
  <2>7. ASSUME NEW rep, AfterUpsert(rep), pw.pc = "upsert",
               \/ /\ rep = reportCache /\ report' = report
                /\ reportCache.live /\ reportCache.gen = pw.pol.gen
             \/ /\ rep = report'
                /\ \/ report'.gen = pw.pol.gen
                   \/ pw.rep.rv = 0 /\ report'.gen = pw.rep.gen
        PROVE  Goal
    <3>1. pw'.pol = pw.pol /\ pw'.rep = rep /\ pw'.pc \in {"reset", "status"}
      BY <2>7, <1>t DEF AfterUpsert, PolicyWorkerType
    <3>2. QED
      BY <2>7, <3>1
  <2>8. CASE UpsertNothing \/ UpsertUpdate \/ UpsertCreate
    <3>1. /\ [reportCache EXCEPT !.gen = pw.pol.gen, !.uid = pw.pol.uid, !.rv = @ + 1].gen
               = pw.pol.gen
          /\ [pw.rep EXCEPT !.rv = report.rv + 1, !.status = NoStatus].gen = pw.rep.gen
      BY <1>t DEF ReportType
    <3>2. QED
      BY <2>7, <2>8, <3>1, <1>r, Zenon
      DEF UpsertNothing, UpsertUpdate, UpsertCreate, OnlyWorkerMoves, KeepAllBut
  <2>9. CASE ResetReport
    <3>1. CASE pw' = [pw EXCEPT !.pc = "status", !.rep = report']
      BY <2>9, <3>1, <1>t DEF ResetReport, PolicyWorkerType
    <3>2. QED
      BY <2>9, <3>1, <1>r, Zenon DEF ResetReport
  <2>10. CASE \/ ToolNotFound \/ AddFinalizer \/ SetOwner \/ CleanupPanics
              \/ RejectInvalid \/ DisabledDone \/ RemoveFinalizer \/ UpdateStatus
    <3>1. pw' = IdlePolicyWorker
      BY <2>10, Zenon
      DEF ToolNotFound, AddFinalizer, SetOwner, CleanupPanics, RejectInvalid,
          DisabledDone, RemoveFinalizer, UpdateStatus, UpdatePolicyAndStop,
          PolicyDone, PolicyRetry
    <3>2. QED
      BY <3>1, <1>i
  <2>11. QED
    BY <1>1, <2>1, <2>2, <2>3, <2>4, <2>5, <2>6, <2>8, <2>9, <2>10
    DEF PolicyStep, PolicyWorkerStep
<1>2. CASE User \/ Kubernetes \/ ReportStep \/ Resync \/ Fault \/ UNCHANGED vars
  BY <1>2, <1>i, <1>r
  DEF User, Kubernetes, ReportStep, Resync, Fault, vars, PolicyResync, PolicyCallFails,
      Restart
<1>3. QED
  BY <1>1, <1>2 DEF Next

-----------------------------------------------------------------------------
(***************************************************************************)
(* The invariant.                                                          *)
(***************************************************************************)

\* A write of the status changes nothing else but the version.
LEMMA Restating ==
  ASSUME NEW st \in StatusType, report \in ReportType
  PROVE  /\ Restated(st) \in ReportType
         /\ Restated(st).status = st
         /\ Restated(st).live = report.live /\ Restated(st).owner = report.owner
         /\ Restated(st).uid = report.uid /\ Restated(st).gen = report.gen
<1> DEFINE q == [report EXCEPT !.status = st]
<1>1. /\ q \in ReportType /\ q.status = st /\ q.live = report.live
      /\ q.owner = report.owner /\ q.uid = report.uid /\ q.gen = report.gen
  BY DEF ReportType
<1>2. Restated(st) = Stored(q, report)
  BY DEF Restated
<1> HIDE DEF q
<1>3. /\ Stored(q, report).status = q.status /\ Stored(q, report).live = q.live
      /\ Stored(q, report).owner = q.owner /\ Stored(q, report).uid = q.uid /\ Stored(q, report).gen = q.gen
  BY <1>1 DEF Stored, ReportType
<1>4. QED
  BY <1>1, <1>2, <1>3, ReportTypes

\* The statuses that are written have their type.
LEMMA StatusTypes ==
  ASSUME TypeOK
  PROVE  /\ [NoStatus EXCEPT !.phase = "Pending"] \in StatusType
         /\ [report.status EXCEPT !.phase = "Running"] \in StatusType
         /\ Result \in StatusType
<1>1. [NoStatus EXCEPT !.phase = "Pending"] \in StatusType
  BY ConstantTypes DEF StatusType, Phases
<1>2. [report.status EXCEPT !.phase = "Running"] \in StatusType
  BY DEF TypeOK, ClusterTypeOK, ReportType, StatusType, Phases
<1>3. Result \in StatusType
  BY DEF Result, StatusType, Phases, Verdicts, VerdictOf, TypeOK, ReportWorkerType,
         PolicyType, SpecType
<1>4. QED
  BY <1>1, <1>2, <1>3

\* A report whose phase is set back, or to Running, is not finished.
LEMMA RestatedUnfinished ==
  ASSUME TypeOK
  PROVE  /\ Restated([NoStatus EXCEPT !.phase = "Pending"]).status.phase = "Pending"
         /\ Restated([report.status EXCEPT !.phase = "Running"]).status.phase = "Running"
<1>1. /\ [NoStatus EXCEPT !.phase = "Pending"].phase = "Pending"
      /\ [report.status EXCEPT !.phase = "Running"].phase = "Running"
  BY DEF TypeOK, ClusterTypeOK, ReportType, StatusType, NoStatus
<1>2. /\ [NoStatus EXCEPT !.phase = "Pending"] \in StatusType
      /\ [report.status EXCEPT !.phase = "Running"] \in StatusType
      /\ report \in ReportType
  BY StatusTypes DEF TypeOK, ClusterTypeOK
<1>3. /\ Restated([NoStatus EXCEPT !.phase = "Pending"]).status
            = [NoStatus EXCEPT !.phase = "Pending"]
      /\ Restated([report.status EXCEPT !.phase = "Running"]).status
            = [report.status EXCEPT !.phase = "Running"]
  BY <1>2, Restating, Zenon
<1>4. QED
  BY <1>1, <1>3

\* While the policy worker is at work no report overtakes its Policy.
LEMMA ReportStaysBehind ==
  ASSUME ReportInv, [Next]_vars, pw.pc # "idle"
  PROVE  Upto(report', pw.pol)
<1>t. report \in ReportType /\ pw.pol \in PolicyType /\ pw.rep \in ReportType
  BY DEF ReportInv, IndInv, TypeOK, ClusterTypeOK, PolicyWorkerType
<1>k. Upto(report, pw.pol) /\ (pw.pc = "upsert" => Upto(pw.rep, pw.pol))
  BY DEF ReportInv, PolicyWorkerKnows
<1>1. CASE report' = GoneReport(report)
  BY <1>1, <1>t DEF GoneReport, NoReport, PolicyType, Upto, NotNewer
<1>2. CASE report' = Regenerated
  BY <1>2, <1>t DEF Regenerated, ReportType, PolicyType, Upto, NotNewer
<1>3. CASE /\ pw.pc = "upsert"
           /\ report' = [pw.rep EXCEPT !.rv = report.rv + 1, !.status = NoStatus]
  BY <1>3, <1>t, <1>k DEF ReportType, Upto
<1>4. ASSUME NEW st \in StatusType, report' = Restated(st)
      PROVE  Upto(report', pw.pol)
  BY <1>4, <1>t, <1>k, Restating DEF Upto
<1>5. TypeOK
  BY DEF ReportInv, IndInv
<1>6. QED
  BY <1>1, <1>2, <1>3, <1>4, <1>5, <1>k, ReportSteps, StatusTypes

\* What the policy worker knows stays true.
LEMMA PolicyWorkerKnowsInductive ==
  ASSUME ReportInv, TypeOK', [Next]_vars
  PROVE  PolicyWorkerKnows'
<1>n. ASSUME NEW x, x \in PolicyType \/ x \in ReportType
      PROVE  x.uid \in Nat /\ x.gen \in Nat /\ x.rv \in Nat
  BY <1>n DEF PolicyType, ReportType
<1>t. /\ pw.pol \in PolicyType /\ policyCache \in PolicyType
      /\ report \in ReportType /\ reportCache \in ReportType /\ pw.rep \in ReportType
      /\ report' \in ReportType /\ TypeOK
  BY DEF ReportInv, IndInv, TypeOK, ClusterTypeOK, PolicyWorkerType
<1>k. /\ PolicyWorkerKnows
      /\ Upto(report, policyCache) /\ Upto(reportCache, policyCache)
      /\ Copy(reportCache, report)
  BY DEF ReportInv, IndInv, Chain, Copies
<1>1. pw.pc # "idle" => Upto(report', pw.pol)
  BY ReportStaysBehind
<1>2. pw.pc # "idle" => Upto(reportCache', pw.pol)
  <2>1. reportCache' = reportCache \/ reportCache' = report
    BY <1>t, ReportCopyMoves
  <2>2. QED
    BY <2>1, <1>k DEF PolicyWorkerKnows
<1>3. report' = report \/ report'.rv = report.rv + 1
  BY <1>t, ReportMoves DEF ReportInv, IndInv
<1>4. CASE pw' = pw
  <2>1. pw.pc = "reset" => Copy(pw.rep, report')
    BY <1>3, <1>k, <1>n, <1>t, CopyForward DEF PolicyWorkerKnows
  <2>2. QED
    BY <1>4, <1>1, <1>2, <1>k, <2>1 DEF PolicyWorkerKnows, Upto, Copy
<1>5. CASE pw'.pc = "idle"
  BY <1>5 DEF PolicyWorkerKnows
<1>6. CASE pw'.pc = "tool" /\ pw'.pol = policyCache /\ UNCHANGED <<report, reportCache>>
  BY <1>6, <1>k DEF PolicyWorkerKnows, Upto
<1>7. ASSUME pw.pc # "idle", pw'.pol = pw.pol,
             pw'.pc \in {"cleanup", "status", "jobs"}
      PROVE  PolicyWorkerKnows'
  BY <1>7, <1>1, <1>2 DEF PolicyWorkerKnows, Upto
<1>8. ASSUME pw.pc # "idle", pw'.pol = pw.pol, pw'.pc = "upsert",
             \/ pw'.rep = FreshReport(pw.pol)
             \/ reportCache.live /\ pw'.rep = reportCache
      PROVE  PolicyWorkerKnows'
  <2>1. /\ FreshReport(pw.pol).live
        /\ Upto(FreshReport(pw.pol), pw.pol)
    BY <1>n, <1>t DEF FreshReport, Upto, NotNewer
  <2>2. pw'.rep.live /\ Upto(pw'.rep, pw.pol)
    BY <1>8, <1>k, <2>1 DEF PolicyWorkerKnows
  <2>3. QED
    BY <1>8, <1>1, <1>2, <2>2 DEF PolicyWorkerKnows, Upto
<1>9. ASSUME pw.pc # "idle", pw'.pol = pw.pol, pw'.pc = "reset",
             (pw'.rep = reportCache /\ report' = report) \/ pw'.rep = report'
      PROVE  PolicyWorkerKnows'
  <2>1. Copy(pw'.rep, report')
    BY <1>9, <1>k, <1>n, <1>t DEF Copy
  <2>2. QED
    BY <1>9, <1>1, <1>2, <2>1 DEF PolicyWorkerKnows, Upto, Copy
<1>10. QED
  BY <1>4, <1>5, <1>6, <1>7, <1>8, <1>9, <1>t, PolicyWorkerSteps

\* A report that is gone is not Completed.
LEMMA GoneInductive ==
  ASSUME ReportInv, [Next]_vars
  PROVE  GoneIsUndone'
<1>t. report \in ReportType /\ pw.rep \in ReportType /\ TypeOK
  BY DEF ReportInv, IndInv, TypeOK, ClusterTypeOK, PolicyWorkerType
<1>k. GoneIsUndone /\ (pw.pc = "upsert" => pw.rep.live)
  BY DEF ReportInv, PolicyWorkerKnows
<1>1. GoneReport(report).status.phase # "Completed"
  BY DEF GoneReport, NoReport, NoStatus
<1>2. Regenerated.live = report.live
  BY <1>t DEF Regenerated, ReportType
<1>3. [pw.rep EXCEPT !.rv = report.rv + 1, !.status = NoStatus].live = pw.rep.live
  BY <1>t DEF ReportType
<1>4. \A st \in StatusType : Restated(st).live = report.live
  BY <1>t, Restating
<1>5. QED
  BY <1>1, <1>2, <1>3, <1>4, <1>k, <1>t, ReportSteps, StatusTypes DEF GoneIsUndone

\* Jobs are created for listed scans, with the image listed, and pods run the
\* image of their Job.
LEMMA JobsHaveImagesInductive ==
  ASSUME TypeOK, JobsHaveImages, [Next]_vars
  PROVE  JobsHaveImages'
<1> DEFINE HaveImages(js, ps) ==
      \A s \in Scans : /\ js[s].live => js[s].image # NoImage
                       /\ ps[s].live => ps[s].image # NoImage
<1>t. /\ jobs \in [Scans -> JobType] /\ pods \in [Scans -> PodType]
      /\ pw \in PolicyWorkerType
  BY DEF TypeOK, ClusterTypeOK
<1>k. HaveImages(jobs, pods)
  BY DEF JobsHaveImages
<1>1. HaveImages(jobs', pods')
  <2>1. ASSUME UNCHANGED <<jobs, pods>>
        PROVE  HaveImages(jobs', pods')
    BY <2>1, <1>k
  <2>2. ASSUME NEW s \in Scans, GCJob(s) \/ JobExpires(s)
        PROVE  HaveImages(jobs', pods')
    BY <2>2, <1>k, <1>t DEF GCJob, JobExpires, NoJob, NoPod
  <2>3. ASSUME NEW s \in Scans, NEW ok \in BOOLEAN, JobFinishes(s, ok)
        PROVE  HaveImages(jobs', pods')
    <3>1. /\ jobs' = [jobs EXCEPT ![s].finished = TRUE] /\ jobs[s].live
          /\ pods' = [pods EXCEPT ![s] =
                        [live |-> TRUE, image |-> jobs[s].image, ok |-> ok]]
      BY <2>3 DEF JobFinishes
    <3>2. ASSUME NEW z \in Scans
          PROVE  /\ jobs'[z].live = jobs[z].live /\ jobs'[z].image = jobs[z].image
                 /\ pods'[z] = IF z = s
                                 THEN [live |-> TRUE, image |-> jobs[s].image, ok |-> ok]
                                 ELSE pods[z]
      BY <3>1, <1>t DEF JobType
    <3>3. QED
      BY <3>1, <3>2, <1>k
  <2>4. CASE User \/ ReportStep \/ Resync \/ Fault \/ UNCHANGED vars
    BY <2>1, <2>4
    DEF User, UserStep, CreatePolicy, EditPolicy, DeletePolicy, DeleteTool, CreateTool,
        UserOnlyPolicy, UserOnlyTool, ReportStep, ReportWorkerStep, ReportGet,
        LookupPolicy, DeleteOrphan, BeginScan, NothingToScan, ScanPending, ScanRead,
        ScanUnreadable, MarkRunning, CompleteReport, OnlyReportWorkerMoves,
        KeepAllButReport, Resync, Fault, vars, clusterVars, PolicyResync, ReportResync,
        PolicyCallFails, ReportCallFails, Restart, Relist, OnlyWorkerMoves, KeepAllBut
  <2>5. CASE Kubernetes
    BY <2>1, <2>2, <2>3, <2>5
    DEF Kubernetes, ClusterStep, GCPolicy, GCReport, SyncPolicy, SyncReport, SyncTool,
        SyncJob
  <2>6. ASSUME NEW s \in Scans, CleanupJob(s)
        PROVE  HaveImages(jobs', pods')
    BY <2>6, <1>k, <1>t DEF CleanupJob, KeepAllBut, NoJob
  <2>7. ASSUME NEW s \in Scans, EnsureJob(s)
        PROVE  HaveImages(jobs', pods')
    <3>1. s \in Asked(pw.pol.spec) /\ pods' = pods
      BY <2>7 DEF EnsureJob, JobsHaveImages, KeepAllBut
    <3>2. \/ jobs' = jobs
          \/ jobs' = [jobs EXCEPT ![s] =
                        [live |-> TRUE, owner |-> pw.pol.uid,
                         image |-> pw.pol.spec.scans[s], finished |-> FALSE]]
      BY <2>7, Zenon DEF EnsureJob
    <3>3. QED
      BY <3>1, <3>2, <1>k, <1>t DEF Asked
  <2>8. CASE PolicyStep /\ ~(\E s \in Scans : CleanupJob(s) \/ EnsureJob(s))
    BY <2>1, <2>8
    DEF PolicyStep, PolicyWorkerStep, PolicyGet, ToolNotFound, AddFinalizer, SetOwner,
        BeginCleanup, CleanupPanics, RejectInvalid, BeginJobs, DisabledDone,
        RemoveFinalizer, GenerateReport, UpsertNothing, UpsertUpdate, UpsertCreate,
        ResetReport, UpdateStatus, UpdatePolicyAndStop, OnlyWorkerMoves, KeepAllBut
  <2>9. QED
    BY <2>4, <2>5, <2>6, <2>7, <2>8 DEF Next
<1>2. pw'.pc = "jobs" => pw'.todo \subseteq Asked(pw'.pol.spec)
  BY PolicyWorkerSteps DEF JobsHaveImages
<1>3. QED
  BY <1>1, <1>2 DEF JobsHaveImages, Asked

\* The images the report worker holds are those of the scans behind it.
LEMMA ScannedInductive ==
  ASSUME TypeOK, JobsHaveImages, ScannedSoFar, [Next]_vars
  PROVE  ScannedSoFar'
<1>t. /\ rw \in ReportWorkerType /\ pods \in [Scans -> PodType]
      /\ policyCache \in PolicyType
  BY DEF TypeOK, ClusterTypeOK
<1>1. ASSUME rw' = IdleReportWorker
      PROVE  ScannedSoFar'
  BY <1>1 DEF ScannedSoFar, IdleReportWorker, Nothing
<1>2. ASSUME rw' = rw
      PROVE  ScannedSoFar'
  BY <1>2 DEF ScannedSoFar, Asked, Nothing
<1>3. ASSUME rw.pc # "scan", rw'.pc # "scan", rw'.images = rw.images,
             rw'.pending = rw.pending
      PROVE  ScannedSoFar'
  BY <1>3 DEF ScannedSoFar, Nothing
<1>4. CASE ReportStep
  <2>1. CASE ReportGet
    <3>1. CASE rw' = [rw EXCEPT !.pc = "policy", !.rep = reportCache]
      BY <2>1, <3>1, <1>t, <1>3 DEF ReportGet, ReportWorkerType
    <3>2. QED
      BY <2>1, <3>1, <1>1, Zenon DEF ReportGet
  <2>2. CASE LookupPolicy
    BY <2>2, <1>t, <1>3 DEF LookupPolicy, ReportWorkerType
  <2>3. CASE BeginScan
    <3>1. /\ rw'.pc = "scan" /\ rw'.pol = policyCache /\ rw.pc = "handle"
          /\ rw'.todo = Asked(policyCache.spec)
          /\ rw'.images = rw.images /\ rw'.pending = rw.pending
      BY <2>3, <1>t DEF BeginScan, ReportWorkerType
    <3>2. rw.images = Nothing
      BY <3>1 DEF ScannedSoFar
    <3>3. QED
      BY <3>1, <3>2 DEF ScannedSoFar, Nothing, Asked
  <2>4. ASSUME NEW s \in Scans, ScanPending(s)
        PROVE  ScannedSoFar'
    <3>1. /\ rw'.pc = "scan" /\ rw'.pol = rw.pol /\ rw'.todo = rw.todo \ {s}
          /\ rw'.images = rw.images /\ rw'.pending /\ rw.pc = "scan"
      BY <2>4, <1>t DEF ScanPending, AtScan, ReportWorkerType
    <3>2. QED
      BY <3>1 DEF ScannedSoFar, Asked
  <2>5. ASSUME NEW s \in Scans, ScanRead(s)
        PROVE  ScannedSoFar'
    <3>1. /\ rw'.pc = "scan" /\ rw'.pol = rw.pol /\ rw'.todo = rw.todo \ {s}
          /\ rw'.pending = rw.pending /\ rw.pc = "scan" /\ s \in rw.todo
          /\ rw'.images = [rw.images EXCEPT ![s] = pods[s].image]
          /\ pods[s].image # NoImage
      BY <2>5, <1>t DEF ScanRead, AtScan, ReportWorkerType, JobsHaveImages
    <3>2. \A z \in Scans :
            rw'.images[z] = IF z = s THEN pods[s].image ELSE rw.images[z]
      BY <3>1, <1>t DEF ReportWorkerType
    <3>3. QED
      BY <3>1, <3>2 DEF ScannedSoFar, Asked
  <2>6. ASSUME NEW s \in Scans, ScanUnreadable(s)
        PROVE  ScannedSoFar'
    BY <2>6, <1>1 DEF ScanUnreadable, ReportRetry
  <2>7. CASE DeleteOrphan \/ NothingToScan \/ MarkRunning \/ CompleteReport
    BY <2>7, <1>1, Zenon
    DEF DeleteOrphan, NothingToScan, MarkRunning, CompleteReport, ReportDone, ReportRetry
  <2>8. QED
    BY <1>4, <2>1, <2>2, <2>3, <2>4, <2>5, <2>6, <2>7 DEF ReportStep, ReportWorkerStep
<1>5. CASE User \/ Kubernetes \/ PolicyStep \/ Resync \/ Fault \/ UNCHANGED vars
  BY <1>5, <1>1, <1>2
  DEF User, Kubernetes, PolicyStep, Resync, Fault, vars, ReportResync, ReportCallFails,
      ReportRetry, Restart
<1>6. QED
  BY <1>4, <1>5 DEF Next

\* What completes a report has an image for every scan it names.
LEMMA EveryScanInductive ==
  ASSUME ReportInv, [Next]_vars
  PROVE  EveryScanReported'
<1>t. report \in ReportType /\ pw.rep \in ReportType /\ TypeOK
  BY DEF ReportInv, IndInv, TypeOK, ClusterTypeOK, PolicyWorkerType
<1>k. EveryScanReported
  BY DEF ReportInv
<1>1. CASE report' = report
  BY <1>1, <1>k DEF EveryScanReported
<1>2. CASE report' = GoneReport(report)
  BY <1>2 DEF GoneReport, NoReport, EveryScanReported
<1>3. CASE report.live /\ report' = Regenerated
  <2>1. report'.status = report.status
    BY <1>3, <1>t DEF Regenerated, ReportType
  <2>2. QED
    BY <1>3, <2>1, <1>k DEF EveryScanReported
<1>4. CASE report' = [pw.rep EXCEPT !.rv = report.rv + 1, !.status = NoStatus]
  BY <1>4, <1>t DEF ReportType, NoStatus, EveryScanReported
<1>5. ASSUME NEW st \in StatusType, st.phase # "Completed", report' = Restated(st)
      PROVE  EveryScanReported'
  BY <1>5, <1>t, Restating DEF EveryScanReported
<1>6. CASE Scanned /\ ~rw.pending /\ report' = Restated(Result)
  <2>1. \A s \in Scans : (rw.images[s] # NoImage) <=> (rw.pol.spec.scans[s] # NoImage)
    BY <1>6 DEF ReportInv, ScannedSoFar, Scanned, Asked
  <2>2. /\ Result.images = rw.images /\ Result.asked = rw.pol.spec.scans
        /\ Result \in StatusType
    BY <1>t, StatusTypes DEF Result
  <2>3. report'.status = Result
    BY <1>6, <1>t, <2>2, Restating
  <2>4. QED
    BY <2>1, <2>2, <2>3 DEF EveryScanReported
<1>7. /\ [NoStatus EXCEPT !.phase = "Pending"].phase # "Completed"
      /\ [report.status EXCEPT !.phase = "Running"].phase # "Completed"
  BY <1>t DEF NoStatus, ReportType, StatusType
<1>8. QED
  BY <1>1, <1>2, <1>3, <1>4, <1>5, <1>6, <1>7, <1>t, ReportSteps, StatusTypes

\* It holds initially.
LEMMA ReportInvariantInit == Init => ReportInv
<1> SUFFICES ASSUME Init
             PROVE  ReportInv
  OBVIOUS
<1>1. /\ pw = IdlePolicyWorker /\ rw = IdleReportWorker /\ report = NoReport
      /\ jobs = [s \in Scans |-> NoJob] /\ pods = [s \in Scans |-> NoPod]
  BY DEF Init, ClusterInit, PolicyWorkerInit, ReportWorkerInit
<1>2. PolicyWorkerKnows /\ GoneIsUndone /\ EveryScanReported
  BY <1>1
  DEF PolicyWorkerKnows, GoneIsUndone, EveryScanReported, IdlePolicyWorker, NoReport,
      NoStatus
<1>3. JobsHaveImages
  BY <1>1 DEF JobsHaveImages, IdlePolicyWorker, NoJob, NoPod
<1>4. ScannedSoFar
  BY <1>1 DEF ScannedSoFar, IdleReportWorker
<1>5. QED
  BY <1>2, <1>3, <1>4, InitInv DEF ReportInv

\* The strengthened invariant holds of every behaviour.
THEOREM ReportInvariant == Spec => []ReportInv
<1>1. ReportInv /\ IndInv' /\ [Next]_vars => ReportInv'
  BY PolicyWorkerKnowsInductive, GoneInductive, JobsHaveImagesInductive,
     ScannedInductive, EveryScanInductive
  DEF ReportInv, IndInv
<1>2. QED
  BY ReportInvariantInit, <1>1, Invariant, PTL DEF Spec

\* A Completed report covers every scan of the Policy it was computed from,
\* however many scans there are.
THEOREM EveryScanReportedHolds == Spec => []EveryScanReported
<1>1. ReportInv => EveryScanReported
  BY DEF ReportInv
<1>2. QED
  BY <1>1, ReportInvariant, PTL

-----------------------------------------------------------------------------
(***************************************************************************)
(* Refinement.                                                             *)
(***************************************************************************)

\* Initially there is no report, in the abstract too.
LEMMA LifecycleInit == Init => Lifecycle!Init
<1> SUFFICES ASSUME Init
             PROVE  Lifecycle!Init
  OBVIOUS
<1>1. report = NoReport
  BY DEF Init, ClusterInit
<1>2. ~report.live /\ report.uid = 0 /\ report.gen = 0 /\ ~ReportIsDone
  BY <1>1 DEF NoReport, NoStatus, ReportIsDone
<1>3. QED
  BY <1>2 DEF Lifecycle!Init, Lifecycle!None

\* Every step of the system is a step in the life of the report or leaves it.
LEMMA LifecycleStep ==
  ASSUME ReportInv, [Next]_vars
  PROVE  [Lifecycle!Next]_(Lifecycle!vars)
<1>t. /\ report \in ReportType /\ pw.rep \in ReportType /\ pw.pol \in PolicyType
      /\ rw.pol \in PolicyType /\ TypeOK
  BY DEF ReportInv, IndInv, TypeOK, ClusterTypeOK, PolicyWorkerType, ReportWorkerType
<1>k. /\ ~report.live => ~ReportIsDone
      /\ pw.pc = "upsert" => Upto(report, pw.pol) /\ pw.rep.live
      /\ rw.rep = report => ~ReportIsDone
      /\ rw.pc = "scan" => Upto(rw.rep, rw.pol)
  BY DEF ReportInv, IndInv, GoneIsUndone, PolicyWorkerKnows, ReportWorkerKnows,
         ReportIsDone
<1>1. CASE report' = report
  BY <1>1 DEF Lifecycle!vars, ReportIsDone
<1>2. CASE report.live /\ report' = GoneReport(report)
  <2>1. /\ ~report'.live /\ report'.uid = 0 /\ report'.gen = 0
        /\ report'.status.phase # "Completed"
    BY <1>2 DEF GoneReport, NoReport, NoStatus
  <2>2. Lifecycle!Vanish
    BY <1>2, <2>1 DEF Lifecycle!Vanish, Lifecycle!None, ReportIsDone
  <2>3. QED
    BY <2>2 DEF Lifecycle!Next
<1>3. CASE report.live /\ pw.pc = "upsert" /\ report' = Regenerated
  <2>1. /\ report'.live = report.live /\ report'.status = report.status
        /\ report'.uid = pw.pol.uid /\ report'.gen = pw.pol.gen
    BY <1>3, <1>t DEF Regenerated, ReportType
  <2>2. [uid |-> report'.uid, gen |-> report'.gen] \in Lifecycle!Version
    BY <2>1, <1>t DEF Lifecycle!Version, PolicyType
  <2>3. Lifecycle!NotNewer([uid |-> report.uid, gen |-> report.gen],
                           [uid |-> report'.uid, gen |-> report'.gen])
    BY <1>3, <1>k, <2>1 DEF Upto, NotNewer, Lifecycle!NotNewer
  <2>4. Lifecycle!AskAgain
    BY <1>3, <2>1, <2>2, <2>3 DEF Lifecycle!AskAgain, ReportIsDone
  <2>5. QED
    BY <2>4 DEF Lifecycle!Next
<1>4. CASE /\ ~report.live /\ pw.pc = "upsert"
           /\ report' = [pw.rep EXCEPT !.rv = report.rv + 1, !.status = NoStatus]
  <2>1. /\ report'.live /\ report'.uid \in Nat /\ report'.gen \in Nat
        /\ report'.status.phase # "Completed"
    BY <1>4, <1>k, <1>t DEF ReportType, NoStatus
  <2>2. Lifecycle!Appear
    BY <1>4, <1>k, <2>1 DEF Lifecycle!Appear, Lifecycle!Version, ReportIsDone
  <2>3. QED
    BY <2>2 DEF Lifecycle!Next
<1>5. CASE report.live /\ report' = Restated([NoStatus EXCEPT !.phase = "Pending"])
  <2>1. /\ report'.live = report.live /\ report'.uid = report.uid
        /\ report'.gen = report.gen
        /\ report'.status = [NoStatus EXCEPT !.phase = "Pending"]
    BY <1>5, <1>t, Restating, StatusTypes
  <2>2. ~ReportIsDone'
    BY <2>1 DEF ReportIsDone, NoStatus
  <2>3. Lifecycle!Reset
    BY <1>5, <2>1, <2>2 DEF Lifecycle!Reset, Lifecycle!None, ReportIsDone
  <2>4. QED
    BY <2>3 DEF Lifecycle!Next
<1>6. CASE /\ report.live /\ rw.rep = report
           /\ report' = Restated([report.status EXCEPT !.phase = "Running"])
  <2>1. /\ report'.live = report.live /\ report'.uid = report.uid
        /\ report'.gen = report.gen
        /\ report'.status = [report.status EXCEPT !.phase = "Running"]
    BY <1>6, <1>t, Restating, StatusTypes
  <2>2. ~ReportIsDone /\ ~ReportIsDone'
    BY <1>6, <1>k, <1>t, <2>1 DEF ReportIsDone, ReportType, StatusType
  <2>3. QED
    BY <2>1, <2>2 DEF Lifecycle!vars, ReportIsDone
<1>7. CASE /\ report.live /\ rw.rep = report
           /\ Scanned /\ report' = Restated(Result)
  <2>1. /\ report'.live = report.live /\ report'.uid = report.uid
        /\ report'.gen = report.gen /\ report'.status = Result
    BY <1>7, <1>t, Restating, StatusTypes
  <2>2. /\ Result.phase = "Completed" /\ Result.forUid = rw.pol.uid
        /\ Result.forGen = rw.pol.gen
    BY DEF Result
  <2>3. ~ReportIsDone /\ report'.status.phase = "Completed"
    BY <1>7, <1>k, <2>1, <2>2
  <2>4. /\ [uid |-> rw.pol.uid, gen |-> rw.pol.gen] \in Lifecycle!Version
        /\ Lifecycle!NotNewer([uid |-> report.uid, gen |-> report.gen],
                              [uid |-> rw.pol.uid, gen |-> rw.pol.gen])
    BY <1>7, <1>k, <1>t
    DEF Scanned, Upto, NotNewer, Lifecycle!NotNewer, Lifecycle!Version, PolicyType
  <2>5. Lifecycle!Complete
    BY <1>7, <2>1, <2>2, <2>3, <2>4 DEF Lifecycle!Complete, ReportIsDone
  <2>6. QED
    BY <2>5 DEF Lifecycle!Next
<1>8. QED
  BY <1>1, <1>2, <1>3, <1>4, <1>5, <1>6, <1>7, ReportSteps

\* The two controllers, their caches and their faults implement the life of a
\* report.
THEOREM ImplementsLifecycleHolds == Spec => ImplementsLifecycle
<1>1. ReportInv /\ [Next]_vars => [Lifecycle!Next]_(Lifecycle!vars)
  BY LifecycleStep
<1>2. QED
  BY LifecycleInit, <1>1, ReportInvariant, PTL DEF Spec, ImplementsLifecycle, Lifecycle!Spec
=============================================================================

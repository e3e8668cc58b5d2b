----------------------------- MODULE CurrentProofs -----------------------------
(***************************************************************************)
(* Proofs about PolicySystem, for every set of scans and any number of     *)
(* edits: without faults a Completed report of the Policy reflects the     *)
(* generation it names, or is about to be reset; and, with any number of   *)
(* faults, what nobody is about to look at again has been served.          *)
(***************************************************************************)
EXTENDS ObservedProofs

\* What the invariant compares is numbers.
LEMMA CurrentTypes ==
  ASSUME TypeOK
  PROVE  /\ report \in ReportType /\ reportCache \in ReportType
         /\ pw \in PolicyWorkerType /\ pw.rep \in ReportType /\ pw.pol \in PolicyType
         /\ rw \in ReportWorkerType /\ rw.rep \in ReportType /\ rw.pol \in PolicyType
         /\ policyCache \in PolicyType
         /\ \A r \in ReportType : r.uid \in Nat /\ r.gen \in Nat /\ r.owner \in Nat /\ r.rv \in Nat
         /\ \A p \in PolicyType : p.uid \in Nat /\ p.gen \in Nat
BY DEF TypeOK, ClusterTypeOK, PolicyWorkerType, ReportWorkerType, ReportType, PolicyType

\* Where the policy worker comes from when it is about to create or update the
\* report.
LEMMA UpsertSteps ==
  ASSUME TypeOK, [Next]_vars, pw'.pc = "upsert"
  PROVE  \/ pw' = pw
         \/ /\ pw.pc = "jobs" /\ pw'.pol = pw.pol /\ UNCHANGED <<report, reportCache, rw>>
            /\ reportCache.live => pw'.rescan = (reportCache.gen # pw.pol.gen)
<1> DEFINE Goal ==
         \/ pw' = pw
         \/ /\ pw.pc = "jobs" /\ pw'.pol = pw.pol /\ UNCHANGED <<report, reportCache, rw>>
            /\ reportCache.live => pw'.rescan = (reportCache.gen # pw.pol.gen)
<1>t. pw \in PolicyWorkerType
  BY CurrentTypes
<1>i. IdlePolicyWorker.pc = "idle"
  BY DEF IdlePolicyWorker
<1>r. PolicyRetry => Goal
  BY <1>i DEF PolicyRetry
<1>1. CASE PolicyStep
  <2>1. CASE GenerateReport
    BY <1>1, <2>1, <1>t
    DEF GenerateReport, PolicyWorkerType, PolicyStep, OnlyWorkerMoves, KeepAllBut
  <2>2. ASSUME NEW s \in Scans, CleanupJob(s) \/ EnsureJob(s)
        PROVE  Goal
    BY <2>2, <1>t, <1>r DEF CleanupJob, EnsureJob, PolicyWorkerType
  <2>3. CASE PolicyGet \/ BeginCleanup \/ BeginJobs
    <3>1. /\ [pw EXCEPT !.pc = "tool", !.pol = policyCache].pc = "tool"
          /\ \A T : [pw EXCEPT !.pc = "cleanup", !.todo = T].pc = "cleanup"
          /\ \A T : [pw EXCEPT !.pc = "jobs", !.todo = T].pc = "jobs"
      BY <1>t DEF PolicyWorkerType
    <3>2. pw'.pc # "upsert"
      BY <2>3, <3>1, <1>i DEF PolicyGet, BeginCleanup, BeginJobs
    <3>3. QED
      BY <3>2
  <2>4. ASSUME NEW rep, AfterUpsert(rep)
        PROVE  Goal
    BY <2>4, <1>t DEF AfterUpsert, PolicyWorkerType
  <2>5. CASE UpsertNothing \/ UpsertUpdate \/ UpsertCreate
    BY <2>4, <2>5, <1>r, Zenon DEF UpsertNothing, UpsertUpdate, UpsertCreate
  <2>6. CASE ResetReport
    BY <2>6, <1>t, <1>r DEF ResetReport, PolicyWorkerType
  <2>7. CASE \/ ToolNotFound \/ AddFinalizer \/ SetOwner \/ CleanupPanics
             \/ RejectInvalid \/ DisabledDone \/ RemoveFinalizer \/ UpdateStatus
    <3>1. pw' = IdlePolicyWorker
      BY <2>7, Zenon
      DEF ToolNotFound, AddFinalizer, SetOwner, CleanupPanics, RejectInvalid,
          DisabledDone, RemoveFinalizer, UpdateStatus, UpdatePolicyAndStop,
          PolicyDone, PolicyRetry
    <3>2. QED
      BY <3>1, <1>i
  <2>8. QED
    BY <1>1, <2>1, <2>2, <2>3, <2>5, <2>6, <2>7 DEF PolicyStep, PolicyWorkerStep
<1>2. CASE User \/ Kubernetes \/ ReportStep \/ Resync \/ Fault \/ UNCHANGED vars
  BY <1>2, <1>i, <1>r
  DEF User, Kubernetes, ReportStep, Resync, Fault, vars, PolicyResync, PolicyCallFails,
      Restart
<1>3. QED
  BY <1>1, <1>2 DEF Next

\* Where the report worker comes from when it is at its scans.
LEMMA ScanSteps ==
  ASSUME TypeOK, [Next]_vars, rw'.pc = "scan"
  PROVE  /\ rw'.rep = rw.rep
         /\ \/ rw.pc = "scan" /\ rw'.pol = rw.pol
            \/ rw'.pol = policyCache /\ UNCHANGED <<report, pw>>
<1> DEFINE Goal == /\ rw'.rep = rw.rep
                   /\ \/ rw.pc = "scan" /\ rw'.pol = rw.pol
                      \/ rw'.pol = policyCache /\ UNCHANGED <<report, pw>>
<1>t. rw \in ReportWorkerType
  BY CurrentTypes
<1>i. rw' # IdleReportWorker
  BY DEF IdleReportWorker
<1>1. CASE ReportStep
  <2>1. CASE BeginScan
    BY <1>1, <2>1, <1>t
    DEF BeginScan, ReportWorkerType, ReportStep, OnlyReportWorkerMoves
  <2>2. ASSUME NEW s \in Scans, ScanPending(s) \/ ScanRead(s) \/ ScanUnreadable(s)
        PROVE  Goal
    BY <2>2, <1>t, <1>i
    DEF ScanPending, ScanRead, ScanUnreadable, AtScan, ReportRetry, ReportWorkerType
  <2>3. CASE ReportGet \/ LookupPolicy
    BY <2>3, <1>t, <1>i DEF ReportGet, LookupPolicy, ReportWorkerType
  <2>4. CASE DeleteOrphan \/ NothingToScan \/ MarkRunning \/ CompleteReport
    BY <2>4, <1>i, Zenon
    DEF DeleteOrphan, NothingToScan, MarkRunning, CompleteReport, ReportDone,
        ReportRetry
  <2>5. QED
    BY <1>1, <2>1, <2>2, <2>3, <2>4 DEF ReportStep, ReportWorkerStep
<1>2. CASE rw' = rw
  BY <1>2
<1>3. CASE User \/ Kubernetes \/ PolicyStep \/ Resync \/ Fault \/ UNCHANGED vars
  BY <1>2, <1>3, <1>i
  DEF User, Kubernetes, PolicyStep, Resync, Fault, vars, ReportResync, ReportCallFails,
      Restart, ReportRetry
<1>4. QED
  BY <1>1, <1>3 DEF Next

-----------------------------------------------------------------------------
\* A finished report has been in the cache.
LEMMA SeenInCacheInductive ==
  ASSUME ReportInv, TypeOK', Copies', Seen, [Next]_vars
  PROVE  Seen'
<1>i. IndInv /\ TypeOK
  BY DEF ReportInv, IndInv
<1>t. /\ report \in ReportType /\ reportCache \in ReportType
      /\ pw.rep \in ReportType /\ rw.rep \in ReportType
      /\ reportCache' \in ReportType
      /\ \A r \in ReportType : r.rv \in Nat
  BY <1>i, CurrentTypes DEF TypeOK, ClusterTypeOK
<1>c. reportCache' = reportCache \/ (reportCache' = report /\ report' = report)
  BY <1>i, ReportCopyMoves
<1>k. Copy(rw.rep, report) /\ Copy(reportCache, report)
  BY <1>i DEF IndInv, Copies
<1>1. ASSUME report'.live, ReportIsDone'
      PROVE  reportCache'.live
  <2>1. CASE report' = report
    BY <1>1, <1>c, <2>1 DEF Seen, ReportIsDone
  <2>2. CASE report' = GoneReport(report)
    BY <1>1, <2>2 DEF GoneReport, NoReport
  <2>3. CASE report.live /\ report' = Regenerated
    <3>1. report'.status = report.status
      BY <2>3, <1>t DEF Regenerated, ReportType
    <3>2. QED
      BY <1>1, <1>c, <2>3, <3>1 DEF Seen, ReportIsDone
  <2>4. CASE report' = [pw.rep EXCEPT !.rv = report.rv + 1, !.status = NoStatus]
    BY <1>1, <2>4, <1>t DEF ReportType, ReportIsDone, NoStatus
  <2>5. CASE \/ report' = Restated([NoStatus EXCEPT !.phase = "Pending"])
             \/ report' = Restated([report.status EXCEPT !.phase = "Running"])
    <3>1. report'.status.phase \in {"Pending", "Running"}
      BY <1>i, <2>5, RestatedUnfinished
    <3>2. QED
      BY <1>1, <3>1 DEF ReportIsDone
  <2>6. CASE report.live /\ rw.rep = report
    BY <1>c, <1>k, <1>t, <2>6 DEF Seen, Copy
  <2>7. QED
    BY <2>1, <2>2, <2>3, <2>4, <2>5, <2>6, ReportSteps
<1>2. reportCache.rv <= reportCache'.rv
  BY <1>c, <1>k, <1>t DEF Copy
<1>3. rw'.rep.rv <= reportCache'.rv
  BY <1>2, <1>i, <1>t, ReportCopyMoves DEF Seen, NoReport
<1>4. QED
  BY <1>1, <1>3 DEF Seen

\* A report that is moved to a new generation without a reset needs none.
LEMMA UpsertInductive ==
  ASSUME ObservedInv, Seen, UpsertKnows, [Next]_vars
  PROVE  UpsertKnows'
<1> SUFFICES ASSUME pw'.pc = "upsert", ~pw'.rescan, report'.live,
                    report'.owner = pw'.pol.uid, report'.gen # pw'.pol.gen
             PROVE  /\ ReportIsDone' =>
                         NotNewer(pw'.pol.uid, pw'.pol.gen,
                                  report'.status.forUid, report'.status.forGen)
                    /\ rw'.pc = "scan" /\ rw'.rep.rv = report'.rv => Upto(pw'.pol, rw'.pol)
  BY DEF UpsertKnows, Upto
<1>i. /\ ReportInv /\ IndInv /\ TypeOK /\ SameReport /\ ReadyToObserve
      /\ Copies /\ Chain
  BY DEF ObservedInv, ReportInv, IndInv
<1>t. /\ report \in ReportType /\ reportCache \in ReportType /\ pw.rep \in ReportType
      /\ rw.rep \in ReportType /\ pw.pol \in PolicyType
      /\ \A r \in ReportType : r.uid \in Nat /\ r.gen \in Nat /\ r.owner \in Nat /\ r.rv \in Nat
      /\ \A p \in PolicyType : p.uid \in Nat /\ p.gen \in Nat
  BY <1>i, CurrentTypes
<1>k. Copy(rw.rep, report) /\ Copy(reportCache, report)
  BY <1>i DEF Copies
<1>1. CASE /\ pw.pc = "jobs" /\ pw'.pol = pw.pol /\ UNCHANGED <<report, reportCache, rw>>
           /\ reportCache.live => pw'.rescan = (reportCache.gen # pw.pol.gen)
  <2>1. CASE reportCache.live
    <3>1. /\ report.owner = reportCache.owner /\ reportCache.owner <= reportCache.uid
          /\ Upto(reportCache, report)
      BY <1>1, <1>i, <2>1 DEF SameReport
    <3>2. Upto(report, pw.pol)
      BY <1>1, <1>i DEF ReportInv, PolicyWorkerKnows
    <3>3. report.owner = pw.pol.uid /\ reportCache.gen = pw.pol.gen
      BY <1>1, <2>1
    <3>4. report.gen = pw.pol.gen
      BY <3>1, <3>2, <3>3, <1>t DEF Upto, NotNewer
    <3>5. QED
      BY <1>1, <3>4
  <2>2. CASE ~reportCache.live
    BY <1>1, <1>k, <1>t, <2>2 DEF Seen, Copy, ReportIsDone
  <2>3. QED
    BY <2>1, <2>2
<1>2. CASE pw' = pw
  <2>1. ASSUME report' # report, rw'.pc = "scan"
        PROVE  rw'.rep.rv # report'.rv
    <3>1. report'.rv = report.rv + 1
      BY <1>i, <2>1, ReportMoves
    <3>2. rw'.rep = rw.rep
      BY <1>i, <2>1, ScanSteps
    <3>3. QED
      BY <3>1, <3>2, <1>k, <1>t DEF Copy
  <2>2. CASE report' = report
    <3>1. ReportIsDone' =>
            NotNewer(pw'.pol.uid, pw'.pol.gen, report'.status.forUid, report'.status.forGen)
      BY <1>2, <2>2 DEF UpsertKnows, ReportIsDone
    <3>2. ASSUME rw'.pc = "scan", rw'.rep.rv = report'.rv
          PROVE  Upto(pw'.pol, rw'.pol)
      BY <1>2, <1>i, <2>2, <3>2, ScanSteps DEF UpsertKnows, Chain
    <3>3. QED
      BY <3>1, <3>2
  <2>3. CASE report' = GoneReport(report)
    BY <2>3 DEF GoneReport, NoReport
  <2>4. CASE report' = Regenerated
    BY <1>2, <1>t, <2>4 DEF Regenerated, ReportType
  <2>5. CASE /\ pw.pc = "upsert" /\ pw.rep.rv = 0
             /\ report' = [pw.rep EXCEPT !.rv = report.rv + 1, !.status = NoStatus]
    <3>1. report'.gen = pw.rep.gen
      BY <2>5, <1>t DEF ReportType
    <3>2. QED
      BY <1>2, <1>i, <2>5, <3>1 DEF ReadyToObserve, FreshReport
  <2>6. CASE \/ report' = Restated([NoStatus EXCEPT !.phase = "Pending"])
             \/ report' = Restated([report.status EXCEPT !.phase = "Running"])
    <3>1. report'.status.phase \in {"Pending", "Running"}
      BY <1>i, <2>6, RestatedUnfinished
    <3>2. ~ReportIsDone'
      BY <3>1 DEF ReportIsDone
    <3>3. QED
      BY <2>1, <2>2, <3>2
  <2>7. CASE Scanned /\ report.live /\ rw.rep = report /\ report' = Restated(Result)
    <3>1. /\ report'.status = Result
          /\ report'.owner = report.owner /\ report'.gen = report.gen
      BY <1>i, <1>t, <2>7, Restating, StatusTypes
    <3>2. Upto(pw.pol, rw.pol)
      BY <1>2, <2>7, <3>1 DEF UpsertKnows, Scanned
    <3>3. NotNewer(pw'.pol.uid, pw'.pol.gen, report'.status.forUid, report'.status.forGen)
      BY <1>2, <3>1, <3>2 DEF Upto, Result
    <3>4. QED
      BY <2>1, <2>2, <3>3
  <2>8. QED
    BY <1>i, <2>2, <2>3, <2>4, <2>5, <2>6, <2>7, ReportSteps
<1>3. QED
  BY <1>1, <1>2, <1>i, UpsertSteps

-----------------------------------------------------------------------------
\* The step that matters: the report moves to a new generation.
LEMMA UpdateKeepsCurrent ==
  ASSUME ObservedInv, UpsertKnows, CompletedIsCurrent, UNCHANGED faults, UpsertUpdate
  PROVE  CompletedIsCurrent'
<1> SUFFICES ASSUME faults' = 0, report'.live, report'.owner = report'.uid,
                    report'.status.phase = "Completed"
             PROVE  \/ NotNewer(report'.uid, report'.gen,
                                report'.status.forUid, report'.status.forGen)
                    \/ pw'.pc = "reset" /\ pw'.rep = report'
  BY DEF CompletedIsCurrent
<1>i. ReportInv /\ TypeOK /\ Copy(reportCache, report)
  BY DEF ObservedInv, ReportInv, IndInv, Copies
<1>t. reportCache \in ReportType /\ pw \in PolicyWorkerType
  BY <1>i, CurrentTypes
<1>1. CASE PolicyRetry /\ UNCHANGED report
  BY <1>1 DEF CompletedIsCurrent, UpsertUpdate
<1>2. CASE /\ CanWrite(reportCache, report)
           /\ report' = [reportCache EXCEPT !.gen = pw.pol.gen,
                                            !.uid = pw.pol.uid, !.rv = @ + 1]
           /\ AfterUpsert(report')
  <2>1. report = reportCache
    BY <1>2, <1>i DEF CanWrite, Copy
  <2>2. /\ report'.owner = report.owner /\ report'.status = report.status
        /\ report'.uid = pw.pol.uid /\ report'.gen = pw.pol.gen
        /\ report.live
    BY <1>2, <2>1, <1>t DEF ReportType, CanWrite
  <2>3. CASE pw.rescan
    BY <1>2, <1>t, <2>3 DEF AfterUpsert, PolicyWorkerType
  <2>4. CASE ~pw.rescan
    BY <2>1, <2>2, <2>4 DEF UpsertKnows, UpsertUpdate, ReportIsDone
  <2>5. QED
    BY <2>3, <2>4
<1>3. QED
  BY <1>1, <1>2, Zenon DEF UpsertUpdate

\* A Completed report of the Policy stays current, or about to be reset.
LEMMA CurrentInductive ==
  ASSUME ObservedInv, UpsertKnows, CompletedIsCurrent, [Next]_vars
  PROVE  CompletedIsCurrent'
<1>i. /\ ReportInv /\ IndInv /\ TypeOK /\ ReportWorkerKnows
      /\ Copy(rw.rep, report)
      /\ pw.pc = "reset" => Copy(pw.rep, report)
  BY DEF ObservedInv, ReportInv, IndInv, Copies, PolicyWorkerKnows
<1>t. /\ report \in ReportType /\ pw.rep \in ReportType /\ rw.rep \in ReportType
      /\ pw \in PolicyWorkerType
  BY <1>i, CurrentTypes
<1>k. /\ [NoStatus EXCEPT !.phase = "Pending"].phase = "Pending"
      /\ [report.status EXCEPT !.phase = "Running"].phase = "Running"
      /\ NoStatus.phase = ""
      /\ ~GoneReport(report).live
  BY <1>t DEF ReportType, StatusType, NoStatus, GoneReport, NoReport
<1>1. CASE report' = report /\ faults' = faults /\ (pw' = pw \/ pw.pc # "reset")
  BY <1>1 DEF CompletedIsCurrent
<1>2. CASE ~report'.live \/ report'.status.phase # "Completed" \/ faults' # 0
  BY <1>2 DEF CompletedIsCurrent
<1>3. CASE Fault
  <2>1. faults' # 0
    BY <1>3, <1>i DEF Fault, TypeOK
  <2>2. QED
    BY <1>2, <2>1
<1>4. CASE User \/ Resync \/ UNCHANGED vars
  BY <1>1, <1>4
  DEF User, UserStep, CreatePolicy, EditPolicy, DeletePolicy, DeleteTool, CreateTool,
      UserOnlyPolicy, UserOnlyTool, Resync, PolicyResync, ReportResync,
      OnlyWorkerMoves, KeepAllBut, OnlyReportWorkerMoves, vars, clusterVars
<1>5. CASE Kubernetes
  <2>1. CASE GCReport
    BY <1>2, <1>k, <2>1 DEF GCReport
  <2>2. CASE ~GCReport
    BY <1>1, <1>5, <2>2
    DEF Kubernetes, ClusterStep, GCPolicy, GCJob, JobFinishes, JobExpires,
        SyncPolicy, SyncReport, SyncTool, SyncJob
  <2>3. QED
    BY <2>1, <2>2
<1>6. CASE ReportStep
  <2>1. CASE report' = report
    BY <1>1, <1>6, <2>1 DEF ReportStep
  <2>2. CASE report' = GoneReport(report)
    BY <1>2, <1>k, <2>2
  <2>3. CASE CanWrite(rw.rep, report)
             /\ report' = Stored([rw.rep EXCEPT !.status.phase = "Running"], report)
    <3>1. rw.rep = report
      BY <1>i, <2>3 DEF CanWrite, Copy
    <3>2. [report EXCEPT !.status.phase = "Running"]
            = [report EXCEPT !.status = [report.status EXCEPT !.phase = "Running"]]
      BY <1>t DEF ReportType, StatusType
    <3>3. report' = Restated([report.status EXCEPT !.phase = "Running"])
      BY <2>3, <3>1, <3>2 DEF Restated
    <3>4. QED
      BY <1>2, <1>i, <1>k, <1>t, <3>3, Restating, StatusTypes
  <2>4. CASE /\ CompleteReport /\ CanWrite(rw.rep, report)
             /\ report' = Stored([rw.rep EXCEPT !.status = Result], report)
    <3>1. rw.rep = report
      BY <1>i, <2>4 DEF CanWrite, Copy
    <3>2. /\ report'.status = Result
          /\ report'.uid = report.uid /\ report'.gen = report.gen
      BY <1>i, <1>t, <2>4, <3>1, Restating, StatusTypes DEF Restated
    <3>3. Upto(rw.rep, rw.pol)
      BY <1>i, <2>4 DEF ReportWorkerKnows, CompleteReport, Scanned
    <3>4. NotNewer(report'.uid, report'.gen, report'.status.forUid, report'.status.forGen)
      BY <3>1, <3>2, <3>3 DEF Upto, Result
    <3>5. QED
      BY <3>4 DEF CompletedIsCurrent
  <2>5. QED
    BY <1>6, <2>1, <2>2, <2>3, <2>4, Zenon
    DEF ReportStep, ReportWorkerStep, ReportGet, LookupPolicy, DeleteOrphan, BeginScan,
        NothingToScan, ScanPending, ScanRead, ScanUnreadable, MarkRunning,
        CompleteReport, OnlyReportWorkerMoves
<1>7. CASE PolicyStep
  <2>1. CASE UpsertUpdate
    BY <1>7, <2>1, UpdateKeepsCurrent DEF PolicyStep
  <2>2. CASE UpsertCreate
    <3>1. [pw.rep EXCEPT !.rv = report.rv + 1, !.status = NoStatus].status = NoStatus
      BY <1>t DEF ReportType
    <3>2. pw.pc # "reset" /\ faults' = faults
      BY <1>7, <2>2 DEF UpsertCreate, PolicyStep
    <3>3. QED
      BY <1>1, <1>2, <1>k, <2>2, <3>1, <3>2, Zenon DEF UpsertCreate
  <2>3. CASE ResetReport
    <3>1. CASE CanWrite(pw.rep, report)
      <4>1. pw.rep = report
        BY <1>i, <2>3, <3>1 DEF ResetReport, CanWrite, Copy
      <4>2. report' = Restated([NoStatus EXCEPT !.phase = "Pending"])
        BY <2>3, <3>1, <4>1, Zenon DEF ResetReport, Restated
      <4>3. QED
        BY <1>2, <1>i, <1>k, <1>t, <4>2, Restating, StatusTypes
    <3>2. CASE ~CanWrite(pw.rep, report)
      <4>1. report' = report /\ faults' = faults
        BY <1>7, <2>3, <3>2 DEF ResetReport, PolicyStep
      <4>2. report.live => pw.rep # report
        BY <3>2 DEF CanWrite
      <4>3. QED
        BY <4>1, <4>2 DEF CompletedIsCurrent
    <3>3. QED
      BY <3>1, <3>2
  <2>4. CASE ~(UpsertUpdate \/ UpsertCreate \/ ResetReport)
    <3>1. report' = report /\ faults' = faults
      BY <1>7, <2>4
      DEF PolicyStep, PolicyWorkerStep, PolicyGet, ToolNotFound, AddFinalizer, SetOwner,
          BeginCleanup, CleanupPanics, RejectInvalid, BeginJobs, CleanupJob, EnsureJob,
          DisabledDone, RemoveFinalizer, GenerateReport, UpsertNothing, UpdateStatus,
          UpdatePolicyAndStop, OnlyWorkerMoves, KeepAllBut
    <3>2. pw.pc # "reset"
      BY <1>7, <2>4
      DEF PolicyStep, PolicyWorkerStep, PolicyGet, ToolNotFound, AddFinalizer, SetOwner,
          BeginCleanup, CleanupPanics, RejectInvalid, BeginJobs, CleanupJob, EnsureJob,
          DisabledDone, RemoveFinalizer, GenerateReport, UpsertNothing, UpdateStatus,
          AtTool, MustCleanUp, Owned, CleanedUp
    <3>3. QED
      BY <1>1, <3>1, <3>2
  <2>5. QED
    BY <2>1, <2>2, <2>3, <2>4
<1>8. QED
  BY <1>3, <1>4, <1>5, <1>6, <1>7 DEF Next

-----------------------------------------------------------------------------
\* The invariant holds of the pipeline.
THEOREM CurrentInvariant == Spec => []CurrentInv
<1>1. Init => Seen /\ UpsertKnows /\ CompletedIsCurrent
  BY DEF Init, ClusterInit, PolicyWorkerInit, ReportWorkerInit, NoReport,
         IdlePolicyWorker, IdleReportWorker, Seen, UpsertKnows, CompletedIsCurrent
<1>2. CurrentInv /\ GuardInv' /\ [Next]_vars => CurrentInv'
  <2> SUFFICES ASSUME CurrentInv, GuardInv', [Next]_vars
               PROVE  CurrentInv'
    OBVIOUS
  <2>1. ObservedInv /\ ReportInv /\ TypeOK' /\ Copies'
    BY DEF CurrentInv, GuardInv, ObservedInv, ReportInv, IndInv
  <2>2. QED
    BY <2>1, SeenInCacheInductive, UpsertInductive, CurrentInductive DEF CurrentInv
<1>3. Init /\ GuardInv => CurrentInv
  BY <1>1 DEF CurrentInv
<1>4. QED
  BY <1>2, <1>3, GuardInvariant, PTL DEF Spec

\* While no call fails and the manager is not restarted, a Completed report of
\* the Policy's own reflects the generation its spec names, or is about to be
\* reset (PolicyReconciler.Reconcile, TrivyReportHandler.Reconcile).
THEOREM CompletedIsCurrentHolds == Spec => []CompletedIsCurrent
<1>1. CurrentInv => CompletedIsCurrent
  BY DEF CurrentInv
<1>2. QED
  BY <1>1, CurrentInvariant, PTL
-----------------------------------------------------------------------------
(***************************************************************************)
(* No wake-up is lost.                                                     *)
(***************************************************************************)

\* A key that is not in the policy controller's queue was not put there by an
\* event, and leaves it only when the worker takes it.
LEMMA PolicyQueueMoves ==
  ASSUME [Next]_vars, ~policyQueue'
  PROVE  /\ policyCache' = policyCache \/ Restart
         /\ ~policyQueue \/ PolicyGet \/ Restart
<1>k. CASE UNCHANGED <<policyCache, policyQueue>>
  BY <1>k
<1>1. CASE User
  BY <1>1, <1>k
  DEF User, UserStep, CreatePolicy, EditPolicy, DeletePolicy, DeleteTool, CreateTool,
      UserOnlyPolicy, UserOnlyTool
<1>2. CASE Kubernetes
  BY <1>2
  DEF Kubernetes, ClusterStep, GCPolicy, GCReport, GCJob, JobFinishes, JobExpires,
      SyncPolicy, SyncReport, SyncTool, SyncJob
<1>3. CASE PolicyStep
  <2>1. policyCache' = policyCache
    BY <1>3
    DEF PolicyStep, PolicyWorkerStep, PolicyGet, ToolNotFound, AddFinalizer, SetOwner,
        BeginCleanup, CleanupPanics, RejectInvalid, BeginJobs, CleanupJob, EnsureJob,
        DisabledDone, RemoveFinalizer, GenerateReport, UpsertNothing, UpsertUpdate,
        UpsertCreate, ResetReport, UpdateStatus, UpdatePolicyAndStop,
        OnlyWorkerMoves, KeepAllBut
  <2>2. ~policyQueue \/ PolicyGet
    BY <1>3
    DEF PolicyStep, PolicyWorkerStep, ToolNotFound, AddFinalizer, SetOwner,
        BeginCleanup, CleanupPanics, RejectInvalid, BeginJobs, CleanupJob, EnsureJob,
        DisabledDone, RemoveFinalizer, GenerateReport, UpsertNothing, UpsertUpdate,
        UpsertCreate, ResetReport, UpdateStatus, UpdatePolicyAndStop, AfterUpsert,
        PolicyDone, PolicyRetry
  <2>3. QED
    BY <2>1, <2>2
<1>4. CASE ReportStep
  BY <1>4, <1>k
  DEF ReportStep, ReportWorkerStep, ReportGet, LookupPolicy, DeleteOrphan, BeginScan,
      NothingToScan, ScanPending, ScanRead, ScanUnreadable, MarkRunning,
      CompleteReport, OnlyReportWorkerMoves, KeepAllButReport
<1>5. CASE Resync \/ Fault \/ UNCHANGED vars
  BY <1>5
  DEF Resync, Fault, vars, clusterVars, PolicyResync, ReportResync, PolicyCallFails,
      ReportCallFails, OnlyWorkerMoves, KeepAllBut, PolicyRetry,
      OnlyReportWorkerMoves, KeepAllButReport
<1>6. QED
  BY <1>1, <1>2, <1>3, <1>4, <1>5 DEF Next

\* How a reconciliation of the Policy may end for good.
LEMMA PolicyEnds ==
  ASSUME TypeOK, [Next]_vars, pw.pc # "idle", pw'.pc = "idle", ~policyQueue'
  PROVE  \/ Restart
         \/ DisabledDone
         \/ CanWrite(pw.pol, policy) /\ (AddFinalizer \/ SetOwner \/ RemoveFinalizer \/ UpdateStatus)
<1>t. pw \in PolicyWorkerType
  BY DEF TypeOK
<1>1. CASE PolicyStep
  <2>1. CASE PolicyGet
    BY <2>1 DEF PolicyGet
  <2>2. CASE BeginCleanup \/ BeginJobs \/ GenerateReport
    <3>1. pw'.pc \in {"cleanup", "jobs", "upsert"}
      BY <1>t, <2>2 DEF BeginCleanup, BeginJobs, GenerateReport, PolicyWorkerType
    <3>2. QED
      BY <3>1
  <2>3. ASSUME NEW s \in Scans, CleanupJob(s) \/ EnsureJob(s)
        PROVE  FALSE
    BY <1>t, <2>3 DEF CleanupJob, EnsureJob, PolicyRetry, PolicyWorkerType
  <2>4. CASE UpsertNothing \/ UpsertUpdate \/ UpsertCreate
    <3>1. ASSUME NEW rep, AfterUpsert(rep)
          PROVE  FALSE
      BY <1>t, <3>1 DEF AfterUpsert, PolicyWorkerType
    <3>2. QED
      BY <2>4, <3>1, Zenon DEF UpsertNothing, UpsertUpdate, UpsertCreate, PolicyRetry
  <2>5. CASE ResetReport
    BY <1>t, <2>5 DEF ResetReport, PolicyRetry, PolicyWorkerType
  <2>6. CASE ToolNotFound \/ CleanupPanics \/ RejectInvalid
    BY <2>6 DEF ToolNotFound, CleanupPanics, RejectInvalid, PolicyRetry
  <2>7. CASE AddFinalizer \/ SetOwner \/ RemoveFinalizer \/ UpdateStatus
    <3>1. CanWrite(pw.pol, policy)
      BY <2>7, Zenon
      DEF AddFinalizer, SetOwner, RemoveFinalizer, UpdateStatus, UpdatePolicyAndStop,
          PolicyRetry
    <3>2. QED
      BY <2>7, <3>1
  <2>8. QED
    BY <1>1, <2>1, <2>2, <2>3, <2>4, <2>5, <2>6, <2>7 DEF PolicyStep, PolicyWorkerStep
<1>2. CASE User \/ Kubernetes \/ ReportStep \/ Resync \/ UNCHANGED vars
  BY <1>2 DEF User, Kubernetes, ReportStep, Resync, PolicyResync, vars
<1>3. CASE Fault
  BY <1>3 DEF Fault, PolicyCallFails, PolicyRetry
<1>4. QED
  BY <1>1, <1>2, <1>3 DEF Next

\* What the worker goes on with once it has the Tool.
LEMMA PolicyGoesOn ==
  ASSUME [Next]_vars, pw.pc = "tool", pw'.pc \notin {"idle", "tool"}
  PROVE  BeginCleanup \/ BeginJobs
<1>i. IdlePolicyWorker.pc = "idle"
  BY DEF IdlePolicyWorker
<1>1. CASE PolicyStep
  <2>1. CASE PolicyGet \/ GenerateReport \/ UpsertNothing \/ UpsertUpdate \/ UpsertCreate
             \/ ResetReport \/ UpdateStatus \/ DisabledDone \/ RemoveFinalizer
             \/ \E s \in Scans : CleanupJob(s) \/ EnsureJob(s)
    BY <2>1
    DEF PolicyGet, GenerateReport, UpsertNothing, UpsertUpdate, UpsertCreate, ResetReport,
        UpdateStatus, DisabledDone, RemoveFinalizer, CleanedUp, CleanupJob, EnsureJob
  <2>2. CASE ToolNotFound \/ AddFinalizer \/ SetOwner \/ CleanupPanics \/ RejectInvalid
    BY <1>i, <2>2
    DEF ToolNotFound, AddFinalizer, SetOwner, CleanupPanics, RejectInvalid,
        UpdatePolicyAndStop, PolicyDone, PolicyRetry
  <2>3. QED
    BY <1>1, <2>1, <2>2 DEF PolicyStep, PolicyWorkerStep
<1>2. CASE ~PolicyStep
  BY <1>2, <1>i
  DEF Next, User, Kubernetes, Resync, PolicyResync, ReportStep, Fault, PolicyCallFails,
      PolicyRetry, Restart, vars
<1>3. QED
  BY <1>1, <1>2

\* Tools keep their identities, the cached one too.
LEMMA ToolsKnownInductive ==
  ASSUME TypeOK, ToolsKnown, [Next]_vars
  PROVE  ToolsKnown'
<1>t. tool.uid \in Nat
  BY DEF TypeOK, ClusterTypeOK, ToolType
<1>k. CASE UNCHANGED <<tool, toolCache>>
  BY <1>k DEF ToolsKnown
<1>1. CASE User
  <2>1. CASE CreateTool
    BY <1>t, <2>1 DEF CreateTool, UserOnlyTool, ToolsKnown
  <2>2. CASE DeleteTool
    BY <1>t, <2>2 DEF DeleteTool, UserOnlyTool, ToolsKnown, TypeOK, ClusterTypeOK, ToolType
  <2>3. QED
    BY <1>1, <1>k, <2>1, <2>2
    DEF User, UserStep, CreatePolicy, EditPolicy, DeletePolicy, UserOnlyPolicy
<1>2. CASE Kubernetes
  <2>1. CASE SyncTool
    BY <2>1 DEF SyncTool, ToolsKnown
  <2>2. QED
    BY <1>2, <1>k, <2>1
    DEF Kubernetes, ClusterStep, GCPolicy, GCReport, GCJob, JobFinishes, JobExpires,
        SyncPolicy, SyncReport, SyncJob
<1>3. CASE PolicyStep
  BY <1>3, <1>k
  DEF PolicyStep, PolicyWorkerStep, PolicyGet, ToolNotFound, AddFinalizer, SetOwner,
      BeginCleanup, CleanupPanics, RejectInvalid, BeginJobs, CleanupJob, EnsureJob,
      DisabledDone, RemoveFinalizer, GenerateReport, UpsertNothing, UpsertUpdate,
      UpsertCreate, ResetReport, UpdateStatus, UpdatePolicyAndStop,
      OnlyWorkerMoves, KeepAllBut
<1>4. CASE ReportStep
  BY <1>4, <1>k
  DEF ReportStep, ReportWorkerStep, ReportGet, LookupPolicy, DeleteOrphan, BeginScan,
      NothingToScan, ScanPending, ScanRead, ScanUnreadable, MarkRunning,
      CompleteReport, OnlyReportWorkerMoves, KeepAllButReport
<1>5. CASE Restart
  BY <1>5 DEF Restart, Relist, ToolsKnown
<1>6. CASE Resync \/ Fault \/ UNCHANGED vars
  BY <1>5, <1>6, <1>k
  DEF Resync, Fault, vars, clusterVars, PolicyResync, ReportResync, PolicyCallFails,
      ReportCallFails, OnlyWorkerMoves, KeepAllBut, OnlyReportWorkerMoves, KeepAllButReport
<1>7. QED
  BY <1>1, <1>2, <1>3, <1>4, <1>6 DEF Next

\* The policy worker works from what its cache shows, unless it will be called
\* again, and keeps to what it has found out.
LEMMA WorkerIsCurrentInductive ==
  ASSUME TypeOK, WorkerIsCurrent, [Next]_vars
  PROVE  WorkerIsCurrent'
<1>r. Restart => pw'.pc = "idle"
  BY DEF Restart, IdlePolicyWorker
<1>g. PolicyGet => pw.pc = "idle"
  BY DEF PolicyGet
<1>t. pw \in PolicyWorkerType
  BY DEF TypeOK
<1>1. ASSUME pw'.pc # "idle", ~policyQueue'
      PROVE  pw'.pol = policyCache'
  <2>1. policyCache' = policyCache
    BY <1>1, <1>r, PolicyQueueMoves
  <2>2. CASE pw'.pc = "tool" /\ pw'.pol = policyCache
    BY <2>1, <2>2
  <2>3. CASE pw'.pol = pw.pol /\ pw.pc # "idle"
    <3>1. ~policyQueue
      BY <1>1, <1>g, <1>r, <2>3, PolicyQueueMoves
    <3>2. QED
      BY <2>1, <2>3, <3>1 DEF WorkerIsCurrent
  <2>4. QED
    BY <1>1, <2>2, <2>3, WorkerGuards
<1>2. ASSUME pw'.pc \in {"cleanup", "jobs", "upsert", "reset", "status"}, pw.pc = "tool"
      PROVE  WorkerIsCurrent'
  <2>1. BeginCleanup \/ BeginJobs
    BY <1>2, PolicyGoesOn
  <2>2. pw'.pol = pw.pol /\ pw'.pc = IF BeginJobs THEN "jobs" ELSE "cleanup"
    <3>1. CASE BeginJobs
      BY <1>t, <3>1 DEF BeginJobs, PolicyWorkerType
    <3>2. CASE BeginCleanup /\ ~BeginJobs
      BY <1>t, <3>2 DEF BeginCleanup, PolicyWorkerType
    <3>3. QED
      BY <2>1, <3>1, <3>2
  <2>3. CASE BeginCleanup /\ ~BeginJobs
    BY <1>1, <2>2, <2>3
    DEF BeginCleanup, MustCleanUp, Owned, AtTool, WorkerIsCurrent
  <2>4. CASE BeginJobs
    BY <1>1, <2>2, <2>4 DEF BeginJobs, Owned, AtTool, WorkerIsCurrent
  <2>5. QED
    BY <2>1, <2>3, <2>4
<1>3. CASE pw.pc # "tool" /\ pw'.pc \notin {"idle", "tool"}
  <2>1. /\ pw'.pol = pw.pol
        /\ \/ pw'.pc = pw.pc
           \/ /\ pw.pc \in {"jobs", "upsert", "reset"}
              /\ pw'.pc \in {"jobs", "upsert", "reset", "status"}
    BY <1>3, WorkerGuards
  <2>2. QED
    BY <1>1, <2>1 DEF WorkerIsCurrent
<1>4. CASE pw'.pc \in {"idle", "tool"}
  BY <1>1, <1>4 DEF WorkerIsCurrent
<1>5. pw'.pc \in {"idle", "tool", "cleanup", "jobs", "upsert", "reset", "status"}
  BY NextTypes DEF TypeOK, PolicyWorkerType, PolicyPCs
<1>6. QED
  BY <1>2, <1>3, <1>4, <1>5

\* A Policy nobody is about to look at has been served.
LEMMA QuietInductive ==
  ASSUME CurrentInv, CurrentInv', ToolsKnown, WorkerIsCurrent, QuietIsServed, [Next]_vars
  PROVE  QuietIsServed'
<1>i. /\ TypeOK /\ Copies /\ CleanedSoFar /\ PastFinalizer
      /\ policy \in PolicyType /\ policyCache \in PolicyType /\ pw.pol \in PolicyType
  BY CurrentTypes DEF CurrentInv, GuardInv, ObservedInv, ReportInv, IndInv, TypeOK, ClusterTypeOK
<1> DEFINE Served(p) ==
         /\ ~p.deleting /\ p.fin /\ p.owner # 0 /\ p.spec.given
         /\ IF p.spec.enabled
              THEN Valid(p.spec) /\ p.obsGen = p.gen
              ELSE \A s \in Asked(p.spec) : ~jobs'[s].live
<1> SUFFICES ASSUME PolicyQuiet'
             PROVE  Served(policy')
  BY DEF QuietIsServed
<1>q. policy'.live /\ policyCache' = policy' /\ ~policyQueue' /\ pw'.pc = "idle"
  BY DEF PolicyQuiet
<1>r. CASE Restart
  BY <1>q, <1>r DEF Restart, Relist
<1>g. CASE PolicyGet
  <2>1. policyCache' = policyCache
    BY <1>g DEF PolicyGet, OnlyWorkerMoves, KeepAllBut
  <2>2. pw' = [pw EXCEPT !.pc = "tool", !.pol = policyCache]
    BY <1>g, <1>q, <2>1 DEF PolicyGet
  <2>3. pw'.pc = "tool"
    BY <1>i, <2>2 DEF TypeOK, PolicyWorkerType
  <2>4. QED
    BY <1>q, <2>3
<1>1. CASE ~Restart /\ ~PolicyGet
  <2>1. policyCache' = policyCache /\ ~policyQueue
    BY <1>1, <1>q, PolicyQueueMoves
  <2>2. policy' = policy
    <3>1. policy' = policy \/ policy'.rv = policy.rv + 1
      BY <1>i, PolicyMoves DEF Copies
    <3>2. Copy(policyCache, policy) /\ policy.rv \in Nat /\ policyCache.rv \in Nat
      BY <1>i DEF Copies, PolicyType
    <3>3. QED
      BY <1>q, <2>1, <3>1, <3>2 DEF Copy
  <2>3. policyCache = policy /\ policy.live
    BY <1>q, <2>1, <2>2
  <2>4. CASE pw.pc = "idle"
    <3>1. Served(policy) \/ ~policy.spec.enabled
      BY <2>1, <2>3, <2>4 DEF QuietIsServed, PolicyQuiet
    <3>2. \A s \in Scans : jobs'[s].live => jobs[s].live
      BY <1>i, <2>4, JobSteps
    <3>3. QED
      BY <2>1, <2>2, <2>3, <2>4, <3>1, <3>2 DEF QuietIsServed, PolicyQuiet, Asked
  <2>5. CASE pw.pc # "idle"
    <3>1. pw.pol = policy
      BY <2>1, <2>3, <2>5 DEF WorkerIsCurrent
    <3>2. CASE DisabledDone
      <4>1. /\ pw.pc = "cleanup" /\ pw.todo = {} /\ ~policy.deleting /\ jobs' = jobs
        BY <3>1, <3>2 DEF DisabledDone, CleanedUp, OnlyWorkerMoves, KeepAllBut
      <4>2. /\ policy.fin /\ policy.spec.given /\ policy.owner # 0 /\ ~policy.spec.enabled
        BY <3>1, <4>1 DEF WorkerIsCurrent
      <4>3. \A s \in Asked(policy.spec) : ~jobs'[s].live
        BY <1>i, <3>1, <4>1 DEF CleanedSoFar
      <4>4. QED
        BY <2>2, <4>1, <4>2, <4>3
    <3>3. CASE CanWrite(pw.pol, policy) /\ UpdateStatus
      <4>1. pw.pc = "status" /\ policy' = Stored([policy EXCEPT !.obsGen = policy.gen], policy)
        BY <3>1, <3>3 DEF UpdateStatus, UpdatePolicyAndStop
      <4>2. policy'.obsGen = policy.gen
        BY <1>i, <4>1 DEF Stored, PolicyType
      <4>3. /\ ~policy.deleting /\ policy.fin
            /\ policy.owner # 0 /\ policy.spec.enabled /\ Valid(policy.spec)
        BY <1>i, <3>1, <4>1 DEF WorkerIsCurrent, PastFinalizer
      <4>4. QED
        BY <2>2, <4>2, <4>3 DEF Valid
    <3>4. CASE CanWrite(pw.pol, policy) /\ RemoveFinalizer
      <4>1. policy' = Gone(policy)
        BY <3>4 DEF RemoveFinalizer, UpdatePolicyAndStop
      <4>2. QED
        BY <1>q, <4>1 DEF Gone, NoPolicy
    <3>5. CASE CanWrite(pw.pol, policy) /\ AddFinalizer
      <4>1. ~policy.fin /\ policy' = Stored([policy EXCEPT !.fin = TRUE], policy)
        BY <3>1, <3>5 DEF AddFinalizer, UpdatePolicyAndStop
      <4>2. policy'.fin
        BY <1>i, <4>1 DEF Stored, PolicyType
      <4>3. QED
        BY <2>2, <4>1, <4>2
    <3>6. CASE CanWrite(pw.pol, policy) /\ SetOwner
      <4>1. policy.owner = 0
            /\ policy' = Stored([policy EXCEPT !.owner = toolCache.uid], policy)
        BY <3>1, <3>6 DEF SetOwner, UpdatePolicyAndStop
      <4>2. policy'.owner = toolCache.uid
        BY <1>i, <4>1 DEF Stored, PolicyType
      <4>3. QED
        BY <2>2, <4>1, <4>2 DEF ToolsKnown
    <3>7. QED
      BY <1>1, <1>i, <1>q, <2>5, <3>2, <3>3, <3>4, <3>5, <3>6, PolicyEnds
  <2>6. QED
    BY <2>4, <2>5
<1>2. QED
  BY <1>r, <1>g, <1>1
-----------------------------------------------------------------------------
\* The same of the report controller's key ...
LEMMA ReportQueueMoves ==
  ASSUME [Next]_vars, ~reportQueue'
  PROVE  /\ reportCache' = reportCache \/ Restart
         /\ ~reportQueue \/ ReportGet \/ Restart
<1>k. CASE UNCHANGED <<reportCache, reportQueue>>
  BY <1>k
<1>1. CASE User
  BY <1>1, <1>k
  DEF User, UserStep, CreatePolicy, EditPolicy, DeletePolicy, DeleteTool, CreateTool,
      UserOnlyPolicy, UserOnlyTool
<1>2. CASE Kubernetes
  BY <1>2
  DEF Kubernetes, ClusterStep, GCPolicy, GCReport, GCJob, JobFinishes, JobExpires,
      SyncPolicy, SyncReport, SyncTool, SyncJob
<1>3. CASE PolicyStep
  BY <1>3, <1>k
  DEF PolicyStep, PolicyWorkerStep, PolicyGet, ToolNotFound, AddFinalizer, SetOwner,
      BeginCleanup, CleanupPanics, RejectInvalid, BeginJobs, CleanupJob, EnsureJob,
      DisabledDone, RemoveFinalizer, GenerateReport, UpsertNothing, UpsertUpdate,
      UpsertCreate, ResetReport, UpdateStatus, UpdatePolicyAndStop,
      OnlyWorkerMoves, KeepAllBut
<1>4. CASE ReportStep
  <2>1. reportCache' = reportCache
    BY <1>4
    DEF ReportStep, ReportWorkerStep, ReportGet, LookupPolicy, DeleteOrphan, BeginScan,
        NothingToScan, ScanPending, ScanRead, ScanUnreadable, MarkRunning,
        CompleteReport, OnlyReportWorkerMoves, KeepAllButReport
  <2>2. ~reportQueue \/ ReportGet
    BY <1>4
    DEF ReportStep, ReportWorkerStep, LookupPolicy, DeleteOrphan, BeginScan,
        NothingToScan, ScanPending, ScanRead, ScanUnreadable, MarkRunning,
        CompleteReport, ReportDone, ReportRetry
  <2>3. QED
    BY <2>1, <2>2
<1>5. CASE Resync \/ Fault \/ UNCHANGED vars
  BY <1>5
  DEF Resync, Fault, vars, clusterVars, PolicyResync, ReportResync, PolicyCallFails,
      ReportCallFails, OnlyWorkerMoves, KeepAllBut, ReportRetry,
      OnlyReportWorkerMoves, KeepAllButReport
<1>6. QED
  BY <1>1, <1>2, <1>3, <1>4, <1>5 DEF Next

\* ... and of how a reconciliation of the report may end for good.
LEMMA ReportEnds ==
  ASSUME TypeOK, [Next]_vars, rw.pc # "idle", rw'.pc = "idle", ~reportQueue'
  PROVE  \/ Restart
         \/ report' = GoneReport(report)
         \/ report' = Stored([rw.rep EXCEPT !.status = Result], report)
<1>t. rw \in ReportWorkerType
  BY DEF TypeOK
<1>1. CASE ReportStep
  <2>1. CASE ReportGet
    BY <2>1 DEF ReportGet
  <2>2. CASE LookupPolicy \/ BeginScan
    <3>1. rw'.pc \in {"handle", "orphan", "scan"}
      BY <1>t, <2>2 DEF LookupPolicy, BeginScan, ReportWorkerType
    <3>2. QED
      BY <3>1
  <2>3. ASSUME NEW s \in Scans, ScanPending(s) \/ ScanRead(s)
        PROVE  FALSE
    <3>1. rw'.pc = "scan"
      BY <1>t, <2>3 DEF ScanPending, ScanRead, AtScan, ReportWorkerType
    <3>2. QED
      BY <3>1
  <2>4. ASSUME NEW s \in Scans, ScanUnreadable(s)
        PROVE  FALSE
    BY <2>4 DEF ScanUnreadable, ReportRetry
  <2>5. CASE NothingToScan \/ MarkRunning
    BY <2>5 DEF NothingToScan, MarkRunning, ReportRetry
  <2>6. CASE DeleteOrphan
    BY <2>6 DEF DeleteOrphan, ReportRetry
  <2>7. CASE CompleteReport
    BY <2>7, Zenon DEF CompleteReport, ReportRetry
  <2>8. QED
    BY <1>1, <2>1, <2>2, <2>3, <2>4, <2>5, <2>6, <2>7 DEF ReportStep, ReportWorkerStep
<1>2. CASE User \/ Kubernetes \/ PolicyStep \/ Resync \/ UNCHANGED vars
  BY <1>2 DEF User, Kubernetes, PolicyStep, Resync, ReportResync, vars
<1>3. CASE Fault
  BY <1>3 DEF Fault, ReportCallFails, ReportRetry
<1>4. QED
  BY <1>1, <1>2, <1>3 DEF Next

\* A report nobody is about to look at is Completed.
LEMMA QuietReportInductive ==
  ASSUME CurrentInv, QuietReportIsDone, [Next]_vars
  PROVE  QuietReportIsDone'
<1>i. /\ TypeOK /\ Copies /\ Chain
      /\ report \in ReportType /\ reportCache \in ReportType
      /\ rw \in ReportWorkerType /\ rw.rep \in ReportType
  BY CurrentTypes DEF CurrentInv, GuardInv, ObservedInv, ReportInv, IndInv
<1> SUFFICES ASSUME ReportQuiet'
             PROVE  report'.status.phase = "Completed"
  BY DEF QuietReportIsDone
<1>q. report'.live /\ reportCache' = report' /\ ~reportQueue' /\ rw'.pc = "idle"
  BY DEF ReportQuiet
<1>r. CASE Restart
  BY <1>q, <1>r DEF Restart, Relist
<1>g. CASE ReportGet
  <2>1. reportCache' = reportCache
    BY <1>g DEF ReportGet, OnlyReportWorkerMoves, KeepAllButReport
  <2>2. [rw EXCEPT !.pc = "policy", !.rep = reportCache].pc = "policy"
    BY <1>i DEF ReportWorkerType
  <2>3. ~(reportCache.live /\ reportCache.status.phase # "Completed")
    BY <1>g, <1>q, <2>2 DEF ReportGet
  <2>4. QED
    BY <1>q, <2>1, <2>3
<1>1. CASE ~Restart /\ ~ReportGet
  <2>1. reportCache' = reportCache /\ ~reportQueue
    BY <1>1, <1>q, ReportQueueMoves
  <2>2. report' = report
    <3>1. report' = report \/ report'.rv = report.rv + 1
      BY <1>i, ReportMoves
    <3>2. Copy(reportCache, report) /\ report.rv \in Nat /\ reportCache.rv \in Nat
      BY <1>i DEF Copies, ReportType
    <3>3. QED
      BY <1>q, <2>1, <3>1, <3>2 DEF Copy
  <2>3. CASE rw.pc = "idle"
    BY <1>q, <2>1, <2>2, <2>3 DEF QuietReportIsDone, ReportQuiet
  <2>4. CASE report' = GoneReport(report)
    BY <1>q, <2>4 DEF GoneReport, NoReport
  <2>5. CASE report' = Stored([rw.rep EXCEPT !.status = Result], report)
    <3>1. report'.status = Result
      BY <1>i, <2>5 DEF Stored, ReportType
    <3>2. QED
      BY <3>1 DEF Result
  <2>6. QED
    BY <1>1, <1>i, <1>q, <2>3, <2>4, <2>5, ReportEnds
<1>2. QED
  BY <1>r, <1>g, <1>1

\* The invariant holds of the pipeline.
THEOREM QuietInvariant == Spec => []QuietInv
<1>1. Init => ToolsKnown /\ WorkerIsCurrent /\ QuietIsServed /\ QuietReportIsDone
  BY DEF Init, ClusterInit, PolicyWorkerInit, NoPolicy, NoReport, IdlePolicyWorker,
         ToolsKnown, WorkerIsCurrent, QuietIsServed, PolicyQuiet, QuietReportIsDone,
         ReportQuiet
<1>2. QuietInv /\ CurrentInv' /\ [Next]_vars => QuietInv'
  <2> SUFFICES ASSUME QuietInv, CurrentInv', [Next]_vars
               PROVE  QuietInv'
    OBVIOUS
  <2>1. /\ CurrentInv /\ ToolsKnown /\ WorkerIsCurrent
        /\ QuietIsServed /\ QuietReportIsDone
    BY DEF QuietInv
  <2>2. TypeOK
    BY <2>1 DEF CurrentInv, GuardInv, ObservedInv, ReportInv, IndInv
  <2>3. QED
    BY <2>1, <2>2, ToolsKnownInductive, WorkerIsCurrentInductive, QuietInductive,
       QuietReportInductive DEF QuietInv
<1>3. Init /\ CurrentInv => QuietInv
  BY <1>1 DEF QuietInv
<1>4. QED
  BY <1>2, <1>3, CurrentInvariant, PTL DEF Spec

\* A Policy that nobody is about to look at has its finalizer and owner, is not
\* marked deleted, and is observed at its generation or, if disabled, without
\* Jobs: PolicyReconciler.Reconcile loses no wake-up, with any number of failed
\* calls and restarts.
THEOREM QuietIsServedHolds == Spec => []QuietIsServed
<1>1. QuietInv => QuietIsServed
  BY DEF QuietInv
<1>2. QED
  BY <1>1, QuietInvariant, PTL

\* A report that nobody is about to look at is Completed: neither does
\* PolicyReportReconciler.Reconcile.
THEOREM QuietReportIsDoneHolds == Spec => []QuietReportIsDone
<1>1. QuietInv => QuietReportIsDone
  BY DEF QuietInv
<1>2. QED
  BY <1>1, QuietInvariant, PTL
=============================================================================

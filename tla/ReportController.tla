--------------------------- MODULE ReportController ---------------------------
(***************************************************************************)
(* PolicyReportReconciler.Reconcile for a report of type trivy, with       *)
(* TrivyReportHandler.Reconcile, which reads the scan Jobs from the cache, *)
(* their pods and logs from the API server, and writes the verdict. One    *)
(* worker; steps as in module PolicyController.                            *)
(***************************************************************************)
EXTENDS Cluster

VARIABLE rw    \* the report worker: where it is and what it has read

ReportPCs == {"idle", "policy", "orphan", "handle", "scan"}

ReportWorkerType ==
  [pc : ReportPCs,
   rep : ReportType,                \* the report read at the start
   pol : PolicyType,                \* the Policy the handler read
   todo : SUBSET Scans,             \* the scans its loop has not reached
   images : [Scans -> MaybeImage],  \* what the finished scans looked at
   pending : BOOLEAN]               \* len(pendingScans) > 0

IdleReportWorker ==
  [pc |-> "idle", rep |-> NoReport, pol |-> NoPolicy, todo |-> {},
   images |-> Nothing, pending |-> FALSE]

ReportWorkerInit == rw = IdleReportWorker
-----------------------------------------------------------------------------
\* Complete(), and an error or RequeueAfter.
ReportDone  == rw' = IdleReportWorker /\ UNCHANGED reportQueue
ReportRetry == rw' = IdleReportWorker /\ reportQueue' = TRUE

KeepAllButReport ==
  UNCHANGED <<policy, tool, jobs, pods, policyCache, reportCache, toolCache,
              jobCache, policyQueue, policyEdits, toolEdits>>

OnlyReportWorkerMoves == KeepAllButReport /\ UNCHANGED report

\* The verdict over everything the scans found.
VerdictOf(images) ==
  IF \E s \in Scans : images[s] \in Vulnerable THEN "Fail" ELSE "Pass"
-----------------------------------------------------------------------------
\* The key is taken from the queue; a report that is gone or already Completed
\* needs nothing.
ReportGet ==
  /\ rw.pc = "idle"
  /\ reportQueue
  /\ reportQueue' = FALSE
  /\ rw' = IF reportCache.live /\ reportCache.status.phase # "Completed"
             THEN [rw EXCEPT !.pc = "policy", !.rep = reportCache]
             ELSE IdleReportWorker
  /\ OnlyReportWorkerMoves

\* The controller reads the Policy only to know whether there is one.
LookupPolicy ==
  /\ rw.pc = "policy"
  /\ rw' = [rw EXCEPT !.pc = IF policyCache.live THEN "handle" ELSE "orphan"]
  /\ UNCHANGED reportQueue
  /\ OnlyReportWorkerMoves

\* Delete by name, whatever report now bears it.
DeleteOrphan ==
  /\ rw.pc = "orphan"
  /\ \/ /\ report.live
        /\ report' = GoneReport(report)
        /\ ReportDone
     \/ /\ ~report.live
        /\ UNCHANGED report
        /\ ReportRetry
  /\ KeepAllButReport

\* The handler reads the Policy again, for its list of scans.
Scannable(p) == p.live /\ p.spec.given /\ Asked(p.spec) # {}

BeginScan ==
  /\ rw.pc = "handle"
  /\ Scannable(policyCache)
  /\ rw' = [rw EXCEPT !.pc = "scan", !.pol = policyCache,
                      !.todo = Asked(policyCache.spec)]
  /\ UNCHANGED reportQueue
  /\ OnlyReportWorkerMoves

NothingToScan ==
  /\ rw.pc = "handle"
  /\ ~Scannable(policyCache)
  /\ ReportRetry
  /\ OnlyReportWorkerMoves

AtScan(s) == rw.pc = "scan" /\ s \in rw.todo

JobFinished(s) == jobCache[s].live /\ jobCache[s].finished

\* Faulty variant: a Job that does not exist yet is not waited for.
ScanPendingIfFound(s) ==
  /\ AtScan(s)
  /\ ~JobFinished(s)
  /\ rw' = [rw EXCEPT !.todo = @ \ {s}, !.pending = @ \/ jobCache[s].live]
  /\ UNCHANGED reportQueue
  /\ OnlyReportWorkerMoves

\* No Job yet, or a Job still at work: the scan is pending.
ScanPending(s) ==
  /\ AtScan(s)
  /\ ~JobFinished(s)
  /\ rw' = [rw EXCEPT !.todo = @ \ {s}, !.pending = TRUE]
  /\ UNCHANGED reportQueue
  /\ OnlyReportWorkerMoves

\* readScanReport succeeds on the newest pod of the Job's name.
ScanRead(s) ==
  /\ AtScan(s)
  /\ JobFinished(s)
  /\ pods[s].live /\ pods[s].ok
  /\ rw' = [rw EXCEPT !.todo = @ \ {s}, !.images[s] = pods[s].image]
  /\ UNCHANGED reportQueue
  /\ OnlyReportWorkerMoves

\* No pod, or no output that parses: the first such scan ends the handler.
ScanUnreadable(s) ==
  /\ AtScan(s)
  /\ JobFinished(s)
  /\ ~(pods[s].live /\ pods[s].ok)
  /\ ReportRetry
  /\ OnlyReportWorkerMoves

Scanned == rw.pc = "scan" /\ rw.todo = {}

\* Faulty variants: a status write that carries no version, and one
\* after which nobody comes back.
MarkRunningBlindly ==
  /\ Scanned
  /\ rw.pending
  /\ report' = IF report.live THEN Stored([report EXCEPT !.status.phase = "Running"], report)
                              ELSE report
  /\ ReportRetry
  /\ KeepAllButReport

MarkRunningOnce ==
  /\ Scanned
  /\ rw.pending
  /\ \/ /\ CanWrite(rw.rep, report)
        /\ report' = Stored([rw.rep EXCEPT !.status.phase = "Running"], report)
     \/ /\ ~CanWrite(rw.rep, report)
        /\ UNCHANGED report
  /\ ReportDone
  /\ KeepAllButReport

\* The phase becomes Running, and the handler returns an error in any case so
\* that the controller comes back.
MarkRunning ==
  /\ Scanned
  /\ rw.pending
  /\ \/ /\ CanWrite(rw.rep, report)
        /\ report' = Stored([rw.rep EXCEPT !.status.phase = "Running"], report)
     \/ /\ ~CanWrite(rw.rep, report)
        /\ UNCHANGED report
  /\ ReportRetry
  /\ KeepAllButReport

Result ==
  [phase |-> "Completed", verdict |-> VerdictOf(rw.images),
   asked |-> rw.pol.spec.scans, images |-> rw.images,
   forUid |-> rw.pol.uid, forGen |-> rw.pol.gen]

\* Faulty variant: the result is written without a version.
CompleteReportBlindly ==
  /\ Scanned
  /\ ~rw.pending
  /\ report' = IF report.live THEN Stored([report EXCEPT !.status = Result], report)
                              ELSE report
  /\ ReportDone
  /\ KeepAllButReport

CompleteReport ==
  /\ Scanned
  /\ ~rw.pending
  /\ \/ /\ CanWrite(rw.rep, report)
        /\ report' = Stored([rw.rep EXCEPT !.status = Result], report)
        /\ ReportDone
     \/ /\ ~CanWrite(rw.rep, report)
        /\ UNCHANGED report
        /\ ReportRetry
  /\ KeepAllButReport
-----------------------------------------------------------------------------
\* The informer's periodic resync, as in module PolicyController.
ReportResync ==
  /\ rw.pc = "idle"
  /\ ~reportQueue
  /\ reportCache.live
  /\ reportQueue' = TRUE
  /\ UNCHANGED rw
  /\ OnlyReportWorkerMoves

ReportWorkerStep ==
  \/ ReportGet \/ LookupPolicy \/ DeleteOrphan
  \/ BeginScan \/ NothingToScan
  \/ \E s \in Scans : ScanPending(s) \/ ScanRead(s) \/ ScanUnreadable(s)
  \/ MarkRunning \/ CompleteReport

\* A call to the API server (a pod list, its logs, a write) fails.
ReportCallFails ==
  /\ rw.pc # "idle"
  /\ ReportRetry
  /\ OnlyReportWorkerMoves
=============================================================================

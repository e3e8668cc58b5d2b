--------------------------- MODULE PolicyController ---------------------------
(***************************************************************************)
(* PolicyReconciler.Reconcile for a Policy of type trivy, with the Trivy   *)
(* engine it calls. The controller has one worker, so a reconciliation is  *)
(* a sequence of steps of one process; between two steps anything else may *)
(* move. A step is one call to the API server, or one read from a cache    *)
(* whose value is used after a later call; a cached read and the write     *)
(* that depends on it are one step, because a cache that lags already      *)
(* gives every stale value the write could be based on.                    *)
(***************************************************************************)
EXTENDS Cluster

VARIABLE pw    \* the policy worker: where it is and what it has read

PolicyPCs == {"idle", "tool", "cleanup", "jobs", "upsert", "reset", "status"}

PolicyWorkerType ==
  [pc : PolicyPCs,
   pol : PolicyType,      \* the Policy read at the start
   rep : ReportType,      \* the report object being built or updated
   todo : SUBSET Scans,   \* the scans the engine's loop has not reached
   rescan : BOOLEAN]      \* needsRescan

IdlePolicyWorker ==
  [pc |-> "idle", pol |-> NoPolicy, rep |-> NoReport, todo |-> {},
   rescan |-> FALSE]

PolicyWorkerInit == pw = IdlePolicyWorker
-----------------------------------------------------------------------------
\* Complete(): the key leaves the queue (unless an event has put it back).
PolicyDone == pw' = IdlePolicyWorker /\ UNCHANGED policyQueue

\* CompleteWithError(err), RequeueAfter and a recovered panic: the key returns
\* to the queue after a delay, which is not modelled.
PolicyRetry == pw' = IdlePolicyWorker /\ policyQueue' = TRUE

KeepAllBut(apiObjects) ==
  /\ UNCHANGED <<tool, pods, policyCache, reportCache, toolCache, jobCache,
                 reportQueue, policyEdits, toolEdits>>
  /\ UNCHANGED apiObjects

OnlyWorkerMoves == KeepAllBut(<<policy, report, jobs>>)

\* r.Update or r.Status().Update of the worker's copy of the Policy, after
\* which this reconciliation ends.
UpdatePolicyAndStop(new) ==
  /\ KeepAllBut(<<report, jobs>>)
  /\ \/ /\ CanWrite(pw.pol, policy)
        /\ policy' = new
        /\ PolicyDone
     \/ /\ ~CanWrite(pw.pol, policy)
        /\ UNCHANGED policy
        /\ PolicyRetry

\* trivy.Engine.Validate. A list with an unnamed scan or an unnamed image, which
\* the code refuses too, is not among the specs modelled.
Valid(spec) == spec.given /\ Asked(spec) # {}

\* Faulty variant: the report is built without a controller reference.
FreshReportUnowned(pol) ==
  [live |-> TRUE, rv |-> 0, owner |-> 0, uid |-> pol.uid,
   gen |-> pol.gen, status |-> [NoStatus EXCEPT !.phase = "Pending"]]

\* What GenerateReport builds when there is no report yet; version 0 stands
\* for an object that was never stored.
FreshReport(pol) ==
  [live |-> TRUE, rv |-> 0, owner |-> pol.uid, uid |-> pol.uid,
   gen |-> pol.gen, status |-> [NoStatus EXCEPT !.phase = "Pending"]]
-----------------------------------------------------------------------------
\* The key is taken from the queue and the Policy read from the cache.
PolicyGet ==
  /\ pw.pc = "idle"
  /\ policyQueue
  /\ policyQueue' = FALSE
  /\ pw' = IF policyCache.live
             THEN [pw EXCEPT !.pc = "tool", !.pol = policyCache]
             ELSE IdlePolicyWorker
  /\ OnlyWorkerMoves

\* The Tool of the policy's type is looked up before anything else is decided,
\* a deletion included.
ToolNotFound ==
  /\ pw.pc = "tool"
  /\ ~toolCache.live
  /\ PolicyRetry
  /\ OnlyWorkerMoves

AtTool == pw.pc = "tool" /\ toolCache.live

AddFinalizer ==
  /\ AtTool
  /\ ~pw.pol.deleting
  /\ ~pw.pol.fin
  /\ UpdatePolicyAndStop(Stored([pw.pol EXCEPT !.fin = TRUE], policy))

\* HasOwnerReference compares kind and name, so a reference to an earlier Tool
\* of that name counts.
SetOwner ==
  /\ AtTool
  /\ ~pw.pol.deleting
  /\ pw.pol.fin
  /\ pw.pol.owner = 0
  /\ UpdatePolicyAndStop(Stored([pw.pol EXCEPT !.owner = toolCache.uid], policy))

Owned == AtTool /\ ~pw.pol.deleting /\ pw.pol.fin /\ pw.pol.owner # 0

MustCleanUp ==
  \/ AtTool /\ pw.pol.deleting /\ pw.pol.fin
  \/ Owned /\ ~pw.pol.spec.enabled

\* Faulty variant: the Jobs of a disabled Policy are left to end by themselves.
BeginCleanupIfDeleting ==
  /\ MustCleanUp
  /\ pw.pol.spec.given
  /\ pw' = [pw EXCEPT !.pc = "cleanup",
                      !.todo = IF pw.pol.deleting THEN Asked(pw.pol.spec) ELSE {}]
  /\ UNCHANGED policyQueue
  /\ OnlyWorkerMoves

\* Cleanup ranges over spec.trivy.scans.
BeginCleanup ==
  /\ MustCleanUp
  /\ pw.pol.spec.given
  /\ pw' = [pw EXCEPT !.pc = "cleanup", !.todo = Asked(pw.pol.spec)]
  /\ UNCHANGED policyQueue
  /\ OnlyWorkerMoves

\* Without a spec.trivy that is a nil dereference: the panic is recovered by
\* the controller and the key retried.
CleanupPanics ==
  /\ MustCleanUp
  /\ ~pw.pol.spec.given
  /\ PolicyRetry
  /\ OnlyWorkerMoves

RejectInvalid ==
  /\ Owned
  /\ pw.pol.spec.enabled
  /\ ~Valid(pw.pol.spec)
  /\ PolicyRetry
  /\ OnlyWorkerMoves

\* Faulty variant: the engine starts before the finalizer is there.
BeginJobsEarly ==
  /\ AtTool
  /\ ~pw.pol.deleting
  /\ pw.pol.spec.enabled
  /\ Valid(pw.pol.spec)
  /\ pw' = [pw EXCEPT !.pc = "jobs", !.todo = Asked(pw.pol.spec)]
  /\ UNCHANGED policyQueue
  /\ OnlyWorkerMoves

BeginJobs ==
  /\ Owned
  /\ pw.pol.spec.enabled
  /\ Valid(pw.pol.spec)
  /\ pw' = [pw EXCEPT !.pc = "jobs", !.todo = Asked(pw.pol.spec)]
  /\ UNCHANGED policyQueue
  /\ OnlyWorkerMoves
-----------------------------------------------------------------------------
\* Faulty variant: only Jobs the cache shows are deleted.
CleanupJobSeen(s) ==
  /\ pw.pc = "cleanup"
  /\ s \in pw.todo
  /\ pw' = [pw EXCEPT !.todo = @ \ {s}]
  /\ jobs' = IF jobCache[s].live THEN [jobs EXCEPT ![s] = NoJob] ELSE jobs
  /\ UNCHANGED policyQueue
  /\ KeepAllBut(<<policy, report>>)

\* Faulty variant: a Job that is already gone is an error.
CleanupJobStrict(s) ==
  /\ pw.pc = "cleanup"
  /\ s \in pw.todo
  /\ jobs' = [jobs EXCEPT ![s] = NoJob]
  /\ IF jobs[s].live
       THEN pw' = [pw EXCEPT !.todo = @ \ {s}] /\ UNCHANGED policyQueue
       ELSE PolicyRetry
  /\ KeepAllBut(<<policy, report>>)

(***************************************************************************)
(* Engine.Cleanup, then RemoveFinalizer for a deleted Policy. A Job is     *)
(* deleted by name; its pod is orphaned, not deleted (batch/v1).           *)
(***************************************************************************)
CleanupJob(s) ==
  /\ pw.pc = "cleanup"
  /\ s \in pw.todo
  /\ pw' = [pw EXCEPT !.todo = @ \ {s}]
  /\ jobs' = [jobs EXCEPT ![s] = NoJob]
  /\ UNCHANGED policyQueue
  /\ KeepAllBut(<<policy, report>>)

CleanedUp == pw.pc = "cleanup" /\ pw.todo = {}

DisabledDone ==
  /\ CleanedUp
  /\ ~pw.pol.deleting
  /\ PolicyDone
  /\ OnlyWorkerMoves

\* The Policy is marked deleted, so without its finalizer it leaves the API.
RemoveFinalizer ==
  /\ CleanedUp
  /\ pw.pol.deleting
  /\ UpdatePolicyAndStop(Gone(policy))
-----------------------------------------------------------------------------
(***************************************************************************)
(* Engine.Reconcile: a Job for every scan that has none in the cache. The  *)
(* scans are listed in an order of the user's choosing; an existing Job is *)
(* left as it is, whatever image it runs.                                  *)
(***************************************************************************)
EnsureJob(s) ==
  /\ pw.pc = "jobs"
  /\ s \in pw.todo
  /\ \/ /\ jobCache[s].live
        /\ pw' = [pw EXCEPT !.todo = @ \ {s}]
        /\ UNCHANGED <<jobs, policyQueue>>
     \/ /\ ~jobCache[s].live /\ ~jobs[s].live
        /\ jobs' = [jobs EXCEPT ![s] =
                      [live |-> TRUE, owner |-> pw.pol.uid,
                       image |-> pw.pol.spec.scans[s], finished |-> FALSE]]
        /\ pw' = [pw EXCEPT !.todo = @ \ {s}]
        /\ UNCHANGED policyQueue
     \/ /\ ~jobCache[s].live /\ jobs[s].live     \* AlreadyExists
        /\ PolicyRetry
        /\ UNCHANGED jobs
  /\ KeepAllBut(<<policy, report>>)
-----------------------------------------------------------------------------
(***************************************************************************)
(* GenerateReport, CreateOrUpdate, the reset of a report of an older       *)
(* generation, and the Policy's status.                                    *)
(***************************************************************************)
\* Faulty variant: the generations are compared after the report has
\* been given the new one.
GenerateReportLate ==
  /\ pw.pc = "jobs"
  /\ pw.todo = {}
  /\ LET rep == IF reportCache.live THEN reportCache ELSE FreshReport(pw.pol)
     IN  pw' = [pw EXCEPT !.pc = "upsert", !.rep = rep, !.rescan = FALSE]
  /\ UNCHANGED policyQueue
  /\ OnlyWorkerMoves

GenerateReport ==
  /\ pw.pc = "jobs"
  /\ pw.todo = {}
  /\ LET rep == IF reportCache.live THEN reportCache ELSE FreshReport(pw.pol)
     IN  pw' = [pw EXCEPT !.pc = "upsert", !.rep = rep,
                          !.rescan = rep.gen # pw.pol.gen]
  /\ UNCHANGED policyQueue
  /\ OnlyWorkerMoves

AfterUpsert(rep) ==
  /\ pw' = [pw EXCEPT !.pc = IF pw.rescan THEN "reset" ELSE "status",
                      !.rep = rep]
  /\ UNCHANGED policyQueue

\* Faulty variant: a report that exists is never updated.
UpsertNothingIfFound ==
  /\ pw.pc = "upsert"
  /\ reportCache.live
  /\ AfterUpsert(reportCache)
  /\ OnlyWorkerMoves

\* CreateOrUpdate finds the report in the cache and its spec already right:
\* no call is made.
UpsertNothing ==
  /\ pw.pc = "upsert"
  /\ reportCache.live
  /\ reportCache.gen = pw.pol.gen
  /\ AfterUpsert(reportCache)
  /\ OnlyWorkerMoves

UpsertUpdate ==
  /\ pw.pc = "upsert"
  /\ reportCache.live
  /\ reportCache.gen # pw.pol.gen
  /\ \/ /\ CanWrite(reportCache, report)
        /\ report' = [reportCache EXCEPT !.gen = pw.pol.gen,
                                         !.uid = pw.pol.uid, !.rv = @ + 1]
        /\ AfterUpsert(report')
     \/ /\ ~CanWrite(reportCache, report)
        /\ PolicyRetry
        /\ UNCHANGED report
  /\ KeepAllBut(<<policy, jobs>>)

\* CreateOrUpdate does not find it: Create. The API server refuses an object
\* that carries a version, and drops the status of one that does not (status
\* is a subresource), the Pending phase with it.
UpsertCreate ==
  /\ pw.pc = "upsert"
  /\ ~reportCache.live
  /\ \/ /\ pw.rep.rv = 0 /\ ~report.live
        /\ report' = [pw.rep EXCEPT !.rv = report.rv + 1, !.status = NoStatus]
        /\ AfterUpsert(report')
     \/ /\ pw.rep.rv # 0 \/ report.live
        /\ PolicyRetry
        /\ UNCHANGED report
  /\ KeepAllBut(<<policy, jobs>>)

ResetReport ==
  /\ pw.pc = "reset"
  /\ \/ /\ CanWrite(pw.rep, report)
        /\ report' = Stored([pw.rep EXCEPT !.status =
                               [NoStatus EXCEPT !.phase = "Pending"]], report)
        /\ pw' = [pw EXCEPT !.pc = "status", !.rep = report']
        /\ UNCHANGED policyQueue
     \/ /\ ~CanWrite(pw.rep, report)
        /\ PolicyRetry
        /\ UNCHANGED report
  /\ KeepAllBut(<<policy, jobs>>)

\* Faulty variant: the status is written whatever has become of the Policy.
UpdateStatusBlindly ==
  /\ pw.pc = "status"
  /\ policy.live
  /\ policy' = [policy EXCEPT !.obsGen = pw.pol.gen, !.rv = @ + 1]
  /\ PolicyDone
  /\ KeepAllBut(<<report, jobs>>)

UpdateStatus ==
  /\ pw.pc = "status"
  /\ UpdatePolicyAndStop(Stored([pw.pol EXCEPT !.obsGen = pw.pol.gen], policy))
-----------------------------------------------------------------------------
\* The informer's periodic resync queues the key again. It is put where it can
\* make a difference: a key queued during a reconciliation waits for its end.
PolicyResync ==
  /\ pw.pc = "idle"
  /\ ~policyQueue
  /\ policyCache.live
  /\ policyQueue' = TRUE
  /\ UNCHANGED pw
  /\ OnlyWorkerMoves

PolicyWorkerStep ==
  \/ PolicyGet \/ ToolNotFound
  \/ AddFinalizer \/ SetOwner
  \/ BeginCleanup \/ CleanupPanics \/ RejectInvalid \/ BeginJobs
  \/ \E s \in Scans : CleanupJob(s) \/ EnsureJob(s)
  \/ DisabledDone \/ RemoveFinalizer
  \/ GenerateReport \/ UpsertNothing \/ UpsertUpdate \/ UpsertCreate
  \/ ResetReport \/ UpdateStatus

\* A call to the API server fails, or succeeds and its answer is lost: every
\* such error ends the reconciliation with a retry.
PolicyCallFails ==
  /\ pw.pc # "idle"
  /\ PolicyRetry
  /\ OnlyWorkerMoves
=============================================================================

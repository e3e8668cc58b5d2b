----------------------------- MODULE PolicySystem -----------------------------
(***************************************************************************)
(* The Trivy pipeline as a whole: the policy controller and the report     *)
(* controller in one manager process, over one cluster. They share no      *)
(* memory; they meet in the API server and in the informer caches.         *)
(***************************************************************************)
EXTENDS PolicyController, ReportController

CONSTANT MaxFaults    \* bound on failed API calls and restarts

ASSUME FaultsAssumption == MaxFaults \in Nat

VARIABLE faults       \* failed API calls and restarts so far

vars == <<clusterVars, pw, rw, faults>>

Init ==
  /\ ClusterInit
  /\ PolicyWorkerInit
  /\ ReportWorkerInit
  /\ faults = 0

\* The manager restarts: what the workers had read is forgotten.
Restart ==
  /\ pw' = IdlePolicyWorker
  /\ rw' = IdleReportWorker
  /\ Relist

Fault ==
  /\ faults < MaxFaults
  /\ faults' = faults + 1
  /\ \/ PolicyCallFails /\ UNCHANGED rw
     \/ ReportCallFails /\ UNCHANGED pw
     \/ Restart

User       == UserStep /\ UNCHANGED <<pw, rw, faults>>
Kubernetes == ClusterStep /\ UNCHANGED <<pw, rw, faults>>
PolicyStep == PolicyWorkerStep /\ UNCHANGED <<rw, faults>>
ReportStep == ReportWorkerStep /\ UNCHANGED <<pw, faults>>
Resync     == \/ PolicyResync /\ UNCHANGED <<rw, faults>>
              \/ ReportResync /\ UNCHANGED <<pw, faults>>

Next == User \/ Kubernetes \/ Resync \/ PolicyStep \/ ReportStep \/ Fault

Spec == Init /\ [][Next]_vars

(***************************************************************************)
(* Fairness: both workers run, every informer and the garbage collector    *)
(* catch up, and a scan that can end well does. The user and the faults    *)
(* promise nothing. ResyncSpec adds the informer's periodic resync, which  *)
(* comes every ten hours: FairSpec shows what does not have to wait for    *)
(* it.                                                                     *)
(***************************************************************************)
Environment(A) == A /\ UNCHANGED <<pw, rw, faults>>

Fairness ==
  /\ WF_vars(PolicyStep)
  /\ WF_vars(ReportStep)
  /\ WF_vars(Environment(SyncPolicy))
  /\ WF_vars(Environment(SyncReport))
  /\ WF_vars(Environment(SyncTool))
  /\ WF_vars(Environment(GCPolicy))
  /\ WF_vars(Environment(GCReport))
  /\ \A s \in Scans : /\ WF_vars(Environment(SyncJob(s)))
                      /\ WF_vars(Environment(GCJob(s)))
                      /\ WF_vars(Environment(JobFinishes(s, TRUE)))

FairSpec == Spec /\ Fairness

ResyncSpec == FairSpec /\ WF_vars(PolicyResync /\ UNCHANGED <<rw, faults>>)
-----------------------------------------------------------------------------
TypeOK ==
  /\ ClusterTypeOK
  /\ pw \in PolicyWorkerType
  /\ rw \in ReportWorkerType
  /\ faults \in Nat
-----------------------------------------------------------------------------
(***************************************************************************)
(* Safety.                                                                 *)
(***************************************************************************)

\* Version (u, g) of the Policy, uid and generation, is not newer than (v, h).
NotNewer(u, g, v, h) == u < v \/ (u = v /\ g <= h)

\* A report is completed only from a Policy at least as new as the generation
\* its spec names. TrivyReportHandler.Reconcile reads the Policy again after
\* the controller read the report, and its status update is refused if the
\* report was touched since; both are needed, since the handler works from a
\* cache and the policy controller changes the generation behind its back.
CompletesNotStale ==
  report'.status.phase = "Completed" /\ report'.status # report.status
  => NotNewer(report.uid, report.gen, report'.status.forUid, report'.status.forGen)

EvaluatedNotStale == [][CompletesNotStale]_vars

\* While no call fails and the manager is not restarted, a Completed report of
\* the Policy's own reflects the generation its spec names, unless the policy
\* worker stands before the status update that resets it
\* (PolicyReconciler.Reconcile writes the new generation and the reset in two
\* calls, and decides on the second from what its cache showed before the
\* first). A report taken over from an earlier Policy of that name is not
\* covered: if it was not in the cache when it was compared it is not reset,
\* but it still has its old owner and is about to be collected.
CompletedIsCurrent ==
  faults = 0 /\ report.live /\ report.owner = report.uid
  /\ report.status.phase = "Completed" =>
    \/ NotNewer(report.uid, report.gen, report.status.forUid, report.status.forGen)
    \/ pw.pc = "reset" /\ pw.rep = report

\* status.observedGeneration of the Policy never runs ahead of the generation
\* in the report made for it: PolicyReconciler writes the status after the
\* report, from the same copy of the Policy, and its copies only move forward.
\* (A report taken over from an earlier Policy of that name is not covered: it
\* still has its old owner and is about to be collected.)
ObservedMeansReported ==
  policy.live /\ report.live /\ report.owner = policy.uid =>
    policy.obsGen <= report.gen

\* A result, once written, is replaced by nothing but a reset for another
\* generation: a report worker that still sees the report Running in its cache
\* cannot overwrite it, nor put the phase back to Running.
KeepsResult ==
  report.live /\ report.status.phase = "Completed" /\ report'.live
  /\ report'.status # report.status
  => report'.status.phase = "Pending"

ResultIsFinal == [][KeepsResult]_vars

\* When a deleted Policy loses its finalizer and with it leaves the cluster,
\* no Job is left for any scan of the spec it had at that moment: Cleanup runs
\* to its end, on the spec that is current when the finalizer goes, and the
\* engine creates no Job in between.
LeavesNoJob ==
  policy.live /\ policy.fin /\ ~policy'.live =>
    \A s \in Asked(policy.spec) : ~jobs'[s].live

FinalizerReleaseClean == [][LeavesNoJob]_vars

\* A Completed report has a result for every scan of the Policy it was computed
\* from and for no other: TrivyReportHandler.Reconcile completes nothing while
\* a Job is missing from its cache or still at work.
EveryScanReported ==
  report.live /\ report.status.phase = "Completed" =>
    \A s \in Scans :
      (report.status.images[s] # NoImage) <=> (report.status.asked[s] # NoImage)

(***************************************************************************)
(* The report as its readers see it, of module ReportLifecycle.            *)
(***************************************************************************)
ReportIsDone == report.status.phase = "Completed"

Lifecycle == INSTANCE ReportLifecycle WITH
  live <- report.live,
  asks <- [uid |-> report.uid, gen |-> report.gen],
  done <- ReportIsDone,
  result <- IF ReportIsDone
              THEN [uid |-> report.status.forUid, gen |-> report.status.forGen]
              ELSE [uid |-> 0, gen |-> 0]

\* Two controllers that write one object through lagging caches implement the
\* life of a report: what it asks for only moves forward while it exists, it is
\* completed only from a result not older than that, a result is never replaced
\* by another, and whatever bears its name after a deletion starts afresh.
ImplementsLifecycle == Lifecycle!Spec

PolicyLife == INSTANCE PolicyLifecycle WITH
  live <- policy.live,
  version <- [uid |-> policy.uid, gen |-> policy.gen],
  fin <- policy.fin,
  deleting <- policy.deleting,
  obs <- policy.obsGen

\* Although it works from copies and is interrupted anywhere, the policy
\* controller has its finalizer on every Policy it reports as observed, observes
\* no generation but the one the Policy has at that moment and none that is
\* marked deleted, and takes the finalizer from no other.
PolicyKeepsLifecycle == PolicyLife!Spec

\* Whoever made it, a Job or report goes when its Policy does: either that is
\* gone, and the garbage collector will come, or the Policy has the finalizer,
\* so that Cleanup runs before it leaves. The engine works from a copy, whose
\* Policy may since have been deleted and created again without finalizer.
Guarded(owner) == owner # 0 /\ (Orphaned(owner) \/ policy.fin)

NothingUnguarded ==
  /\ report.live => Guarded(report.owner)
  /\ \A s \in Scans : jobs[s].live => Guarded(jobs[s].owner)

\* No wake-up is lost: a Policy nobody is about to look at has been served. It
\* is not marked deleted, it has its finalizer and owner, and it is valid and
\* observed at the generation it has or, if it is disabled, without Jobs. The
\* controllers watch no Job and no Tool and do not look at an object again
\* unless it changed, so whatever a reconciliation finds unfinished (a cache
\* that has not caught up with its own writes, a Job that exists already, a
\* Tool that is missing, a failed call, a restart) must put the key back.
PolicyQuiet ==
  policy.live /\ policyCache = policy /\ ~policyQueue /\ pw.pc = "idle"

QuietIsServed ==
  PolicyQuiet =>
    /\ ~policy.deleting /\ policy.fin /\ policy.owner # 0 /\ policy.spec.given
    /\ IF policy.spec.enabled
         THEN Valid(policy.spec) /\ policy.obsGen = policy.gen
         ELSE \A s \in Asked(policy.spec) : ~jobs[s].live

\* Likewise a report nobody is about to look at is Completed: every other end of
\* PolicyReportReconciler.Reconcile asks to be called again, and the reset by
\* the policy controller, which is not told who acts on it, is an event.
ReportQuiet ==
  report.live /\ reportCache = report /\ ~reportQueue /\ rw.pc = "idle"

QuietReportIsDone == ReportQuiet => report.status.phase = "Completed"
-----------------------------------------------------------------------------
(***************************************************************************)
(* The inductive invariants behind the safety properties, each stronger    *)
(* than the one before: module PolicySystemProofs proves IndInv,           *)
(* ReportProofs ReportInv, ObservedProofs ObservedInv and GuardInv, and    *)
(* CurrentProofs CurrentInv and QuietInv.                                  *)
(***************************************************************************)

\* A copy of an object is not ahead of it, and is the object itself if their
\* versions agree. This is what makes a write that carries a version safe.
Copy(copy, obj) == copy.rv <= obj.rv /\ (copy.rv = obj.rv => copy = obj)

Copies ==
  /\ Copy(NoPolicy, policy)
  /\ Copy(policyCache, policy)
  /\ Copy(pw.pol, policy)
  /\ Copy(NoReport, report)
  /\ Copy(reportCache, report)
  /\ Copy(rw.rep, report)

\* Report or Policy a is for a version of the Policy not newer than b's.
Upto(a, b) == NotNewer(a.uid, a.gen, b.uid, b.gen)

\* What anyone knows of the Policy, and every report, goes back to what the
\* cache has shown at some time.
Chain ==
  /\ Upto(policyCache, policy)
  /\ Upto(pw.pol, policyCache)
  /\ Upto(report, policyCache)
  /\ Upto(reportCache, policyCache)
  /\ Upto(pw.rep, policyCache)
  /\ Upto(rw.rep, policyCache)

\* The report worker holds a report that is not finished, and a Policy at least
\* as new as that report.
ReportWorkerKnows ==
  /\ rw.rep.status.phase # "Completed"
  /\ rw.pc = "scan" => Upto(rw.rep, rw.pol)

\* The scans Cleanup has passed have no Job.
CleanedSoFar ==
  pw.pc = "cleanup" =>
    \A s \in Asked(pw.pol.spec) \ pw.todo : ~jobs[s].live

IndInv ==
  TypeOK /\ Copies /\ Chain /\ ReportWorkerKnows /\ CleanedSoFar

\* The policy worker has a Policy at least as new as every report it can meet;
\* the report it is about to create exists nowhere yet, and what it is about to
\* reset is the report itself or an older copy.
PolicyWorkerKnows ==
  /\ pw.pc # "idle" => Upto(report, pw.pol) /\ Upto(reportCache, pw.pol)
  /\ pw.pc = "upsert" => pw.rep.live /\ Upto(pw.rep, pw.pol)
  /\ pw.pc = "reset" => Copy(pw.rep, report)

\* What is left of a deleted report says nothing.
GoneIsUndone == ~report.live => report.status.phase # "Completed"

\* Jobs and pods run an image, and only those of listed scans.
JobsHaveImages ==
  /\ \A s \in Scans : /\ jobs[s].live => jobs[s].image # NoImage
                      /\ pods[s].live => pods[s].image # NoImage
  /\ pw.pc = "jobs" => pw.todo \subseteq Asked(pw.pol.spec)

\* The report worker has the image of every listed scan behind it, unless one
\* of them was pending.
ScannedSoFar ==
  LET passed == Asked(rw.pol.spec) \ rw.todo
  IN  IF rw.pc = "scan"
        THEN /\ rw.todo \subseteq Asked(rw.pol.spec)
             /\ \A s \in Scans : rw.images[s] # NoImage => s \in passed
             /\ rw.pending \/ \A s \in passed : rw.images[s] # NoImage
        ELSE rw.images = Nothing /\ ~rw.pending

ReportInv ==
  /\ IndInv
  /\ PolicyWorkerKnows /\ GoneIsUndone
  /\ JobsHaveImages /\ ScannedSoFar /\ EveryScanReported

\* A report keeps the owner it was created with, and its version moves on from
\* there; a live report in the cache is an earlier state of the live report.
SameReport ==
  /\ report.live => report.owner <= report.uid
  /\ reportCache.live => reportCache.owner <= reportCache.uid /\ reportCache.rv # 0
  /\ report.live /\ reportCache.live =>
       report.owner = reportCache.owner /\ Upto(reportCache, report)

\* An object that was never stored is the one GenerateReport built; past the
\* upsert, the Policy's own report names the generation about to be observed.
ReadyToObserve ==
  /\ pw.pc = "upsert" /\ pw.rep.rv = 0 => pw.rep = FreshReport(pw.pol)
  /\ pw.pc \in {"reset", "status"} /\ report.live /\ report.owner = pw.pol.uid =>
       pw.pol.gen <= report.gen

\* The generation observed is one the cache has shown, and the worker's copy is
\* no older.
ObservedIsSeen ==
  policy.live =>
    /\ policy.obsGen <= policy.gen
    /\ policy.uid = policyCache.uid => policy.obsGen <= policyCache.gen
    /\ pw.pc # "idle" /\ policy.uid = pw.pol.uid => policy.obsGen <= pw.pol.gen

ObservedInv ==
  /\ ReportInv
  /\ SameReport /\ ReadyToObserve /\ ObservedIsSeen /\ ObservedMeansReported

\* Copy a of the Policy was taken from b at some time: as long as b lives under
\* the same uid, so did a, the finalizer stays, and a generation has one spec.
Earlier(a, b) ==
  b.live /\ a.uid = b.uid =>
    /\ a.live
    /\ a.fin => b.fin
    /\ a.gen = b.gen => a.spec = b.spec /\ a.deleting = b.deleting

PastFinalizer ==
  /\ policy.live => policy.uid # 0
  /\ ~policy.live => ~policy.fin /\ ~policy.deleting /\ policy.obsGen = 0
  /\ policyCache.live => policyCache.uid # 0
  /\ Earlier(policyCache, policy)
  /\ pw.pc # "idle" =>
       pw.pol.live /\ pw.pol.uid # 0 /\ Earlier(pw.pol, policy)
  /\ pw.pc \notin {"idle", "tool"} => pw.pol.fin
  /\ pw.pc \in {"jobs", "upsert", "reset", "status"} => ~pw.pol.deleting

\* No Policy is or was the owner of anything before it was created.
OwnersKnown ==
  /\ report.live => report.owner <= policy.uid
  /\ \A s \in Scans : jobs[s].live => jobs[s].owner <= policy.uid

GuardInv == ObservedInv /\ PastFinalizer /\ OwnersKnown /\ NothingUnguarded

\* A finished report has been in the cache, since the report worker found it
\* there, and the worker's copy is not ahead of the cache.
Seen ==
  /\ report.live /\ ReportIsDone => reportCache.live
  /\ rw.rep.rv <= reportCache.rv

\* The policy worker is about to move its Policy's report to a new generation
\* and will not reset it: then it has seen no report, so the report is not
\* finished yet or its result is recent enough, also if the report worker is
\* writing it right now.
UpsertKnows ==
  pw.pc = "upsert" /\ ~pw.rescan
  /\ report.live /\ report.owner = pw.pol.uid /\ report.gen # pw.pol.gen =>
    /\ ReportIsDone =>
         NotNewer(pw.pol.uid, pw.pol.gen, report.status.forUid, report.status.forGen)
    /\ rw.pc = "scan" /\ rw.rep.rv = report.rv => Upto(pw.pol, rw.pol)

CurrentInv == GuardInv /\ Seen /\ UpsertKnows /\ CompletedIsCurrent

\* A policy worker that will not be called again works from what the cache
\* shows, and went where it is with good reason.
WorkerIsCurrent ==
  /\ pw.pc # "idle" /\ ~policyQueue => pw.pol = policyCache
  /\ pw.pc = "cleanup" =>
       /\ pw.pol.fin /\ pw.pol.spec.given
       /\ pw.pol.deleting \/ (pw.pol.owner # 0 /\ ~pw.pol.spec.enabled)
  /\ pw.pc \in {"jobs", "upsert", "reset", "status"} =>
       pw.pol.owner # 0 /\ pw.pol.spec.enabled /\ Valid(pw.pol.spec)

\* A Tool has an identity to refer to.
ToolsKnown == tool.uid # 0 /\ toolCache.uid # 0

QuietInv ==
  /\ CurrentInv
  /\ ToolsKnown /\ WorkerIsCurrent /\ QuietIsServed /\ QuietReportIsDone
-----------------------------------------------------------------------------
(***************************************************************************)
(* Liveness, under FairSpec or ResyncSpec.                                 *)
(***************************************************************************)
\* The report names the Policy's generation and holds a result computed from
\* a Policy not older than that.
Settled ==
  /\ report.live
  /\ report.uid = policy.uid /\ report.gen = policy.gen
  /\ report.status.phase = "Completed"
  /\ report.status.forUid = policy.uid /\ report.status.forGen = policy.gen

\* If the user leaves an enabled, valid Policy and its Tool alone, its report
\* ends up Completed for the current generation and stays so.
ReportSettles ==
  <>[](policy.live /\ ~policy.deleting /\ policy.spec.enabled
         /\ Valid(policy.spec) /\ tool.live)
  => <>[](Settled)

\* A Policy the user deletes disappears, as long as its Tool exists and it has
\* a spec.trivy: no Policy stays marked for ever, and a mark goes only with its
\* Policy.
DeletionFinishes ==
  <>[](tool.live /\ (policy.live => policy.spec.given))
  => ~<>[](policy.live /\ policy.deleting)

\* Once the Policy is gone for good, neither its report nor any of its Jobs
\* remains: what Cleanup does not delete, the owner references do.
NothingOutlivesPolicy ==
  <>[](~policy.live)
  => <>[](~report.live /\ \A s \in Scans : ~jobs[s].live)

\* A disabled Policy ends up with no Job for any of its scans, also when it is
\* disabled while the engine is creating them.
DisabledStops ==
  <>[](policy.live /\ ~policy.deleting /\ ~policy.spec.enabled
         /\ policy.spec.given /\ tool.live)
  => <>[](\A s \in Asked(policy.spec) : ~jobs[s].live)
-----------------------------------------------------------------------------
(***************************************************************************)
(* What the documentation says and the code does not do. TLC refutes each  *)
(* of these.                                                               *)
(***************************************************************************)

\* README: "deleting a Tool cascades to its policies". The policy controller
\* looks the Tool up before it handles a deletion, so the Policy that the
\* garbage collector marks keeps its finalizer.
ToolDeletionCascades ==
  (policy.live /\ policy.owner # 0 /\ ~tool.live) ~> (~policy.live \/ tool.live)

\* README: "When a policy changes generation, the report is reset to Pending
\* and re-evaluated". A Job that exists is not replaced, so a changed image is
\* reported with the findings of the old one.
ReevaluatedAsAsked ==
  report.live /\ report.status.phase = "Completed" =>
    report.status.images = report.status.asked

\* README, the same sentence. If the call that resets the report fails, or the
\* manager restarts before it, the generations already agree at the next
\* attempt and the old result stays for good.
ReevaluatedAfterFault ==
  <>[](policy.live /\ ~policy.deleting /\ policy.spec.enabled
       /\ Valid(policy.spec) /\ tool.live)
  => <>(report.live /\ report.status.forUid = policy.uid
        /\ report.status.forGen = policy.gen)
=============================================================================

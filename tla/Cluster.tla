------------------------------- MODULE Cluster -------------------------------
(***************************************************************************)
(* The part of a Kubernetes cluster that the Trivy pipeline of the         *)
(* Eirenyx operator reads and writes: one Policy, the PolicyReport named   *)
(* after it, the Tool named after its type, one scan Job (and the newest   *)
(* pod of that Job) for every scan name, the informer caches the manager's *)
(* client reads from, and the two work-queue keys.                         *)
(*                                                                         *)
(* Deleted objects keep their uid, generation and resource version, so     *)
(* that the next object of the same name gets fresh ones.                  *)
(***************************************************************************)
EXTENDS Naturals

CONSTANTS
  Scans,           \* scan names a policy may list
  Images,          \* container images a scan may name
  NoImage,         \* "this scan is not listed" (a model value)
  Vulnerable,      \* the images in which Trivy finds something
  Specs,           \* the Policy specs the user may write
  UserWrites,      \* bound on the user: how often each of Policy and Tool may
                   \* be written, as pairs
  ScansMayFail,    \* may a scan end with unusable output (image not pulled)?
  JobsExpire       \* may ttlSecondsAfterFinished remove a finished Job?

MaybeImage == Images \cup {NoImage}

\* PolicySpec: enabled, whether spec.trivy is given, and the image of every
\* listed scan.
SpecType == [enabled : BOOLEAN, given : BOOLEAN, scans : [Scans -> MaybeImage]]

ASSUME NoImageAssumption == NoImage \notin Images
ASSUME VulnerableAssumption == Vulnerable \subseteq Images
ASSUME SpecsAssumption == Specs \subseteq SpecType
ASSUME UserWritesAssumption == UserWrites \subseteq Nat \X Nat
ASSUME SwitchesAssumption == ScansMayFail \in BOOLEAN /\ JobsExpire \in BOOLEAN

VARIABLES
  policy,       \* the Policy in the API server
  report,       \* the PolicyReport trivy-report-<policy>
  tool,         \* the Tool whose name is the policy's type
  jobs,         \* jobs[s]: the Job eirenyx-trivy-<policy>-<s>
  pods,         \* pods[s]: the newest pod labelled with that Job's name
  policyCache,  \* the informer's copy of policy ...
  reportCache,  \* ... of report ...
  toolCache,    \* ... of tool ...
  jobCache,     \* ... and of every Job
  policyQueue,  \* is the Policy's key in the policy controller's queue?
  reportQueue,  \* is the report's key in the report controller's queue?
  policyEdits,  \* user writes to the Policy so far
  toolEdits     \* user writes to the Tool so far

clusterVars == <<policy, report, tool, jobs, pods, policyCache, reportCache,
                 toolCache, jobCache, policyQueue, reportQueue, policyEdits,
                 toolEdits>>
-----------------------------------------------------------------------------
Nothing == [s \in Scans |-> NoImage]
NoSpec  == [enabled |-> FALSE, given |-> FALSE, scans |-> Nothing]

\* The scans a spec lists.
Asked(spec) == {s \in Scans : spec.scans[s] # NoImage}

PolicyType ==
  [live : BOOLEAN, uid : Nat, rv : Nat, gen : Nat, spec : SpecType,
   deleting : BOOLEAN,   \* metadata.deletionTimestamp is set
   fin : BOOLEAN,        \* carries the finalizer eirenyx.policy/finalizer
   owner : Nat,          \* uid of the owning Tool, 0 for none
   obsGen : Nat]         \* status.observedGeneration

Phases   == {"", "Pending", "Running", "Completed"}
Verdicts == {"", "Pass", "Fail"}

\* status.details holds, for every scan, the image the user asked for and the
\* findings of the image that was scanned; forUid and forGen say from which
\* Policy the result was computed (history: the code does not record it).
StatusType ==
  [phase : Phases, verdict : Verdicts, asked : [Scans -> MaybeImage],
   images : [Scans -> MaybeImage], forUid : Nat, forGen : Nat]

\* gen is spec.policyRef.generation; uid is the Policy it was written for
\* (history: the code writes the name); owner is the controller reference.
ReportType ==
  [live : BOOLEAN, rv : Nat, owner : Nat, uid : Nat, gen : Nat,
   status : StatusType]

ToolType == [live : BOOLEAN, uid : Nat]
JobType  == [live : BOOLEAN, owner : Nat, image : MaybeImage, finished : BOOLEAN]
PodType  == [live : BOOLEAN, image : MaybeImage, ok : BOOLEAN]

NoPolicy ==
  [live |-> FALSE, uid |-> 0, rv |-> 0, gen |-> 0, spec |-> NoSpec,
   deleting |-> FALSE, fin |-> FALSE, owner |-> 0, obsGen |-> 0]
NoStatus ==
  [phase |-> "", verdict |-> "", asked |-> Nothing, images |-> Nothing,
   forUid |-> 0, forGen |-> 0]
NoReport ==
  [live |-> FALSE, rv |-> 0, owner |-> 0, uid |-> 0, gen |-> 0,
   status |-> NoStatus]
NoJob == [live |-> FALSE, owner |-> 0, image |-> NoImage, finished |-> FALSE]
NoPod == [live |-> FALSE, image |-> NoImage, ok |-> FALSE]

ClusterTypeOK ==
  /\ policy \in PolicyType /\ policyCache \in PolicyType
  /\ report \in ReportType /\ reportCache \in ReportType
  /\ tool \in ToolType /\ toolCache \in ToolType
  /\ jobs \in [Scans -> JobType] /\ jobCache \in [Scans -> JobType]
  /\ pods \in [Scans -> PodType]
  /\ policyQueue \in BOOLEAN /\ reportQueue \in BOOLEAN
  /\ policyEdits \in Nat /\ toolEdits \in Nat

ClusterInit ==
  /\ policy = NoPolicy /\ policyCache = NoPolicy
  /\ report = NoReport /\ reportCache = NoReport
  /\ tool = [live |-> TRUE, uid |-> 1] /\ toolCache = tool
  /\ jobs = [s \in Scans |-> NoJob] /\ jobCache = jobs
  /\ pods = [s \in Scans |-> NoPod]
  /\ policyQueue = FALSE /\ reportQueue = FALSE
  /\ policyEdits = 0 /\ toolEdits = 0
-----------------------------------------------------------------------------
(***************************************************************************)
(* What the API server does with a write.                                  *)
(***************************************************************************)

\* Update and Status().Update send the resource version the copy was read
\* with: NotFound if the object is gone, Conflict if it has moved on.
CanWrite(copy, obj) == obj.live /\ copy.rv = obj.rv

\* A write that changes nothing is accepted and leaves the version alone.
Stored(new, obj) == IF new = obj THEN obj ELSE [new EXCEPT !.rv = obj.rv + 1]

\* The last trace of a Policy that has left the API server.
Gone(p) ==
  [NoPolicy EXCEPT !.uid = p.uid, !.gen = p.gen, !.rv = p.rv + 1]

GoneReport(r) == [NoReport EXCEPT !.rv = r.rv + 1]

\* Delete of a Policy, by the user or the garbage collector: with a finalizer
\* it is only marked, which counts as a new generation.
DeletedPolicy(p) ==
  IF p.fin THEN [p EXCEPT !.deleting = TRUE, !.gen = p.gen + 1, !.rv = p.rv + 1]
           ELSE Gone(p)

-----------------------------------------------------------------------------
(***************************************************************************)
(* The user.                                                               *)
(***************************************************************************)
UserOnlyPolicy ==
  /\ <<policyEdits + 1, toolEdits>> \in UserWrites
  /\ policyEdits' = policyEdits + 1
  /\ UNCHANGED <<report, tool, jobs, pods, policyCache, reportCache, toolCache,
                 jobCache, policyQueue, reportQueue, toolEdits>>

CreatePolicy(spec) ==
  /\ ~policy.live
  /\ policy' = [NoPolicy EXCEPT !.live = TRUE, !.uid = policy.uid + 1,
                                !.rv = policy.rv + 1, !.gen = 1, !.spec = spec]
  /\ UserOnlyPolicy

EditPolicy(spec) ==
  /\ policy.live
  /\ policy.spec # spec
  /\ policy' = [policy EXCEPT !.spec = spec, !.gen = policy.gen + 1,
                              !.rv = policy.rv + 1]
  /\ UserOnlyPolicy

DeletePolicy ==
  /\ policy.live
  /\ ~policy.deleting
  /\ policy' = DeletedPolicy(policy)
  /\ UserOnlyPolicy

UserOnlyTool ==
  /\ <<policyEdits, toolEdits + 1>> \in UserWrites
  /\ toolEdits' = toolEdits + 1
  /\ UNCHANGED <<policy, report, jobs, pods, policyCache, reportCache, toolCache,
                 jobCache, policyQueue, reportQueue, policyEdits>>

\* The Tool's own finalizer and uninstallation are the subject of module
\* ToolController; here a deleted Tool disappears in one step.
DeleteTool ==
  /\ tool.live
  /\ tool' = [tool EXCEPT !.live = FALSE]
  /\ UserOnlyTool

CreateTool ==
  /\ ~tool.live
  /\ tool' = [live |-> TRUE, uid |-> tool.uid + 1]
  /\ UserOnlyTool

UserStep ==
  \/ \E spec \in Specs : CreatePolicy(spec) \/ EditPolicy(spec)
  \/ DeletePolicy
  \/ DeleteTool
  \/ CreateTool
-----------------------------------------------------------------------------
(***************************************************************************)
(* The garbage collector: an object all of whose owners are gone is        *)
(* deleted, in the background.                                             *)
(***************************************************************************)
GCPolicy ==
  /\ policy.live /\ ~policy.deleting
  /\ policy.owner # 0
  /\ ~(tool.live /\ tool.uid = policy.owner)
  /\ policy' = DeletedPolicy(policy)
  /\ UNCHANGED <<report, tool, jobs, pods, policyCache, reportCache, toolCache,
                 jobCache, policyQueue, reportQueue, policyEdits, toolEdits>>

\* An owner reference (0 for none) to a Policy that is gone.
Orphaned(owner) == owner # 0 /\ ~(policy.live /\ policy.uid = owner)

GCReport ==
  /\ report.live
  /\ Orphaned(report.owner)
  /\ report' = GoneReport(report)
  /\ UNCHANGED <<policy, tool, jobs, pods, policyCache, reportCache, toolCache,
                 jobCache, policyQueue, reportQueue, policyEdits, toolEdits>>

GCJob(s) ==
  /\ jobs[s].live
  /\ Orphaned(jobs[s].owner)
  /\ jobs' = [jobs EXCEPT ![s] = NoJob]
  /\ pods' = [pods EXCEPT ![s] = NoPod]
  /\ UNCHANGED <<policy, report, tool, policyCache, reportCache, toolCache,
                 jobCache, policyQueue, reportQueue, policyEdits, toolEdits>>
-----------------------------------------------------------------------------
(***************************************************************************)
(* The Job controller. The pod runs the image the Job was created with;    *)
(* with backoffLimit 0 its first end, good or bad, finishes the Job. A pod *)
(* that still runs is not modelled: it is looked at only once its Job is   *)
(* finished.                                                               *)
(***************************************************************************)
JobFinishes(s, ok) ==
  /\ jobs[s].live
  /\ ~jobs[s].finished
  /\ ok \/ ScansMayFail
  /\ jobs' = [jobs EXCEPT ![s].finished = TRUE]
  /\ pods' = [pods EXCEPT ![s] =
                [live |-> TRUE, image |-> jobs[s].image, ok |-> ok]]
  /\ UNCHANGED <<policy, report, tool, policyCache, reportCache, toolCache,
                 jobCache, policyQueue, reportQueue, policyEdits, toolEdits>>

JobExpires(s) ==
  /\ JobsExpire
  /\ jobs[s].live
  /\ jobs[s].finished
  /\ jobs' = [jobs EXCEPT ![s] = NoJob]
  /\ pods' = [pods EXCEPT ![s] = NoPod]
  /\ UNCHANGED <<policy, report, tool, policyCache, reportCache, toolCache,
                 jobCache, policyQueue, reportQueue, policyEdits, toolEdits>>
-----------------------------------------------------------------------------
(***************************************************************************)
(* The informers. A cache may lag arbitrarily, each kind on its own, and   *)
(* catches up by taking the latest object; a change of a Policy or a       *)
(* PolicyReport also puts its key in its controller's queue. The           *)
(* controllers watch no other kind (SetupWithManager has only For).        *)
(***************************************************************************)
SyncPolicy ==
  /\ policyCache # policy
  /\ policyCache' = policy
  /\ policyQueue' = TRUE
  /\ UNCHANGED <<policy, report, tool, jobs, pods, reportCache, toolCache,
                 jobCache, reportQueue, policyEdits, toolEdits>>

SyncReport ==
  /\ reportCache # report
  /\ reportCache' = report
  /\ reportQueue' = TRUE
  /\ UNCHANGED <<policy, report, tool, jobs, pods, policyCache, toolCache,
                 jobCache, policyQueue, policyEdits, toolEdits>>

SyncTool ==
  /\ toolCache # tool
  /\ toolCache' = tool
  /\ UNCHANGED <<policy, report, tool, jobs, pods, policyCache, reportCache,
                 jobCache, policyQueue, reportQueue, policyEdits, toolEdits>>

SyncJob(s) ==
  /\ jobCache[s] # jobs[s]
  /\ jobCache' = [jobCache EXCEPT ![s] = jobs[s]]
  /\ UNCHANGED <<policy, report, tool, jobs, pods, policyCache, reportCache,
                 toolCache, policyQueue, reportQueue, policyEdits, toolEdits>>

\* A new process lists every object before its workers start.
Relist ==
  /\ policyCache' = policy /\ reportCache' = report
  /\ toolCache' = tool /\ jobCache' = jobs
  /\ policyQueue' = policy.live /\ reportQueue' = report.live
  /\ UNCHANGED <<policy, report, tool, jobs, pods, policyEdits, toolEdits>>

ClusterStep ==
  \/ GCPolicy \/ GCReport \/ \E s \in Scans : GCJob(s)
  \/ \E s \in Scans, ok \in BOOLEAN : JobFinishes(s, ok)
  \/ \E s \in Scans : JobExpires(s) \/ SyncJob(s)
  \/ SyncPolicy \/ SyncReport \/ SyncTool
=============================================================================

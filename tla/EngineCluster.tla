----------------------------- MODULE EngineCluster -----------------------------
(***************************************************************************)
(* The part of a cluster that Policies of types falco and litmus live in:  *)
(* one Policy, whose type the user may change, its report of either type,  *)
(* the ConfigMap the Falco engine writes, the ChaosEngines the Litmus      *)
(* engine writes, the informer caches and the work-queue keys; and the two *)
(* workers as far as the engines need them. Module Cluster is the same for *)
(* Policies of type trivy, whose reports and Jobs have owners and whose    *)
(* Tool comes and goes; here the Tools stay, and a report has no owner.    *)
(***************************************************************************)
EXTENDS Naturals

CONSTANTS
  Rules,           \* names of Falco rules
  NoRule,          \* no ruleRef (a model value)
  Experiments,     \* names of Litmus experiments
  Unlisted,        \* "this experiment is not listed" (a model value)
  Apps,            \* what else an experiment says
  Namespaces,      \* namespaces a ChaosEngine may live in
  HomeNs,          \* the Policy's own
  Absent,          \* spec.falco or spec.litmus is not given (a model value)
  Installed,       \* the types that have a Tool
  Specs,           \* the specs the user may write
  Leftover,        \* may there be a ConfigMap from the time before Init?
  MaxPolicyEdits,  \* bound on the user's writes
  MaxRewrites      \* bound on ChaosEngines updated for their order of env only

Types == {"falco", "litmus"}

\* observe.ruleRef and whether there is an observe.ruleSelector.
FalcoSpecType == [ref : Rules \cup {NoRule}, selector : BOOLEAN]

\* Where an experiment's ChaosEngine goes, and the rest of it.
ExperimentType == [ns : Namespaces, app : Apps]

SpecType ==
  [type : Types, enabled : BOOLEAN,
   falco : FalcoSpecType \cup {Absent},
   litmus : [Experiments -> ExperimentType \cup {Unlisted}] \cup {Absent}]

ASSUME HomeNsAssumption == HomeNs \in Namespaces
ASSUME InstalledAssumption == Installed \subseteq Types
ASSUME EngineSpecsAssumption == Specs \subseteq SpecType
ASSUME LeftoverAssumption == Leftover \in BOOLEAN
ASSUME EngineBoundsAssumption == MaxPolicyEdits \in Nat /\ MaxRewrites \in Nat

VARIABLES
  policy, policyCache,    \* the Policy and the informer's copy
  reports, reportCache,   \* reports[t]: the PolicyReport <t>-report-<policy>
  cm, cmCache,            \* the ConfigMap eirenyx-falco-policy-<policy>
  engines, engineCache,   \* engines[e, n]: eirenyx-litmus-<policy>-<e> in n
  policyQueue,            \* is the Policy's key in its controller's queue?
  reportQueue,            \* the reports whose keys are in theirs
  pw, rw,                 \* the policy worker and the report worker
  edits, rewrites         \* user writes and rewritten ChaosEngines so far

clusterVars == <<policy, policyCache, reports, reportCache, cm, cmCache,
                 engines, engineCache, policyQueue, reportQueue, edits, rewrites>>
-----------------------------------------------------------------------------
Slots == Experiments \X Namespaces

NoSpec == [type |-> "falco", enabled |-> FALSE, falco |-> Absent, litmus |-> Absent]

\* owners: the types of the Tools it refers to as owners.
PolicyType ==
  [live : BOOLEAN, uid : Nat, rv : Nat, gen : Nat, spec : SpecType,
   deleting : BOOLEAN, fin : BOOLEAN, owners : SUBSET Types, obsGen : Nat]

\* uid, forUid and forGen are history, as in module Cluster.
ReportType ==
  [live : BOOLEAN, rv : Nat, uid : Nat, gen : Nat, done : BOOLEAN,
   verdict : {"", "Pass", "Fail"}, forUid : Nat, forGen : Nat]

ConfigMapType ==
  [live : BOOLEAN, rv : Nat, owner : Nat, data : FalcoSpecType \cup {Absent}]

EngineType == [live : BOOLEAN, rv : Nat, app : Apps \cup {Absent}, ran : BOOLEAN]

NoPolicy ==
  [live |-> FALSE, uid |-> 0, rv |-> 0, gen |-> 0, spec |-> NoSpec,
   deleting |-> FALSE, fin |-> FALSE, owners |-> {}, obsGen |-> 0]
NoReport ==
  [live |-> FALSE, rv |-> 0, uid |-> 0, gen |-> 0, done |-> FALSE,
   verdict |-> "", forUid |-> 0, forGen |-> 0]
NoConfigMap == [live |-> FALSE, rv |-> 0, owner |-> 0, data |-> Absent]
NoEngine    == [live |-> FALSE, rv |-> 0, app |-> Absent, ran |-> FALSE]

PolicyPCs == {"idle", "tool", "cleanup", "list", "reports", "reconcile",
              "upsert", "status"}

PolicyWorkerType ==
  [pc : PolicyPCs,
   pol : PolicyType,            \* the Policy read at the start
   exps : SUBSET Experiments,   \* experiments Reconcile has not reached
   spaces : SUBSET Namespaces,  \* namespaces Cleanup has not listed
   doomed : SUBSET Slots,       \* ChaosEngines it listed and has not deleted
   reps : SUBSET Types]         \* reports it listed and has not deleted

ReportWorkerType ==
  [pc : {"idle", "policy", "handle"}, type : Types,
   rep : ReportType]            \* the report read at the start

IdlePolicyWorker ==
  [pc |-> "idle", pol |-> NoPolicy, exps |-> {}, spaces |-> {}, doomed |-> {},
   reps |-> {}]
IdleReportWorker == [pc |-> "idle", type |-> "falco", rep |-> NoReport]

EngineTypeOK ==
  /\ policy \in PolicyType /\ policyCache \in PolicyType
  /\ reports \in [Types -> ReportType] /\ reportCache \in [Types -> ReportType]
  /\ cm \in ConfigMapType /\ cmCache \in ConfigMapType
  /\ engines \in [Slots -> EngineType] /\ engineCache \in [Slots -> EngineType]
  /\ policyQueue \in BOOLEAN /\ reportQueue \subseteq Types
  /\ pw \in PolicyWorkerType /\ rw \in ReportWorkerType
  /\ edits \in Nat /\ rewrites \in Nat

\* Nothing yet; or an earlier Policy of that name has gone, whose Cleanup did
\* not see the ConfigMap in the cache, and the garbage collector has not yet
\* come to it (versions as such a history leaves them).
CleanStart == policy = NoPolicy /\ cm = NoConfigMap

AfterDeletion ==
  /\ policy = [NoPolicy EXCEPT !.uid = 1, !.gen = 2, !.rv = 5]
  /\ \E spec \in Specs :
       /\ spec.falco # Absent
       /\ cm = [live |-> TRUE, rv |-> 1, owner |-> 1, data |-> spec.falco]

EngineInit ==
  /\ CleanStart \/ (Leftover /\ AfterDeletion)
  /\ policyCache = policy
  /\ reports = [t \in Types |-> NoReport] /\ reportCache = reports
  /\ cmCache = NoConfigMap
  /\ engines = [x \in Slots |-> NoEngine] /\ engineCache = engines
  /\ policyQueue = FALSE /\ reportQueue = {}
  /\ pw = IdlePolicyWorker /\ rw = IdleReportWorker
  /\ edits = 0 /\ rewrites = 0
-----------------------------------------------------------------------------
(***************************************************************************)
(* The API server, as in module Cluster.                                   *)
(***************************************************************************)
CanWrite(copy, obj) == obj.live /\ copy.rv = obj.rv
Stored(new, obj) == IF new = obj THEN obj ELSE [new EXCEPT !.rv = obj.rv + 1]
Gone(none, obj) == [none EXCEPT !.rv = obj.rv + 1]
GonePolicy(p) == [NoPolicy EXCEPT !.uid = p.uid, !.gen = p.gen, !.rv = p.rv + 1]

(***************************************************************************)
(* What a step of either worker leaves alone.                              *)
(***************************************************************************)
caches == <<policyCache, reportCache, cmCache, engineCache>>

PolicyDone  == pw' = IdlePolicyWorker /\ UNCHANGED policyQueue
PolicyRetry == pw' = IdlePolicyWorker /\ policyQueue' = TRUE

PolicyGoes(next) == pw' = next /\ UNCHANGED policyQueue

PolicyWorkerKeeps(apiObjects) ==
  UNCHANGED <<apiObjects, caches, reportQueue, rw, edits>>

OnlyPolicyWorker ==
  PolicyWorkerKeeps(<<policy, reports, cm, engines, rewrites>>)

ReportDone  == rw' = IdleReportWorker /\ UNCHANGED reportQueue
ReportRetry == rw' = IdleReportWorker /\ reportQueue' = reportQueue \cup {rw.type}

ReportWorkerKeeps ==
  UNCHANGED <<policy, cm, engines, caches, policyQueue, pw, edits, rewrites>>

\* Faulty variant: the version of the report is not checked.
WriteResultBlindly(p, verdict) ==
  LET t == rw.type
  IN  /\ reports' = [reports EXCEPT ![t] =
           IF @.live THEN [rw.rep EXCEPT !.done = TRUE, !.verdict = verdict, !.rv = reports[t].rv + 1,
                                         !.forUid = p.uid, !.forGen = p.gen]
                     ELSE @]
      /\ ReportDone

\* Status().Update of the worker's copy of the report, completed from p, the
\* Policy the handler has just read from the cache.
WriteResult(p, verdict) ==
  LET t == rw.type
  IN  \/ /\ CanWrite(rw.rep, reports[t])
         /\ reports' = [reports EXCEPT ![t] =
              [rw.rep EXCEPT !.done = TRUE, !.verdict = verdict, !.rv = @ + 1,
                             !.forUid = p.uid, !.forGen = p.gen]]
         /\ ReportDone
      \/ /\ ~CanWrite(rw.rep, reports[t])
         /\ UNCHANGED reports
         /\ ReportRetry
-----------------------------------------------------------------------------
(***************************************************************************)
(* The user.                                                               *)
(***************************************************************************)
UserWrites(new) ==
  /\ edits < MaxPolicyEdits
  /\ edits' = edits + 1
  /\ policy' = new
  /\ UNCHANGED <<reports, cm, engines, caches, policyQueue, reportQueue, pw, rw,
                 rewrites>>

CreatePolicy(spec) ==
  /\ ~policy.live
  /\ UserWrites([NoPolicy EXCEPT !.live = TRUE, !.uid = policy.uid + 1,
                   !.rv = policy.rv + 1, !.gen = 1, !.spec = spec])

EditPolicy(spec) ==
  /\ policy.live
  /\ policy.spec # spec
  /\ UserWrites([policy EXCEPT !.spec = spec, !.gen = @ + 1, !.rv = @ + 1])

DeletePolicy ==
  /\ policy.live
  /\ ~policy.deleting
  /\ UserWrites(IF policy.fin
                  THEN [policy EXCEPT !.deleting = TRUE, !.gen = @ + 1, !.rv = @ + 1]
                  ELSE GonePolicy(policy))

UserStep ==
  \/ \E spec \in Specs : CreatePolicy(spec) \/ EditPolicy(spec)
  \/ DeletePolicy
-----------------------------------------------------------------------------
(***************************************************************************)
(* The garbage collector, Litmus and the informers.                        *)
(***************************************************************************)
EnvironmentKeeps ==
  UNCHANGED <<policy, reports, policyQueue, pw, rw, edits, rewrites>>

GCConfigMap ==
  /\ cm.live
  /\ cm.owner # 0
  /\ ~(policy.live /\ policy.uid = cm.owner)
  /\ cm' = Gone(NoConfigMap, cm)
  /\ EnvironmentKeeps
  /\ UNCHANGED <<engines, caches, reportQueue>>

\* Litmus runs a ChaosEngine and says so in its status.
LitmusRuns(x) ==
  /\ engines[x].live
  /\ ~engines[x].ran
  /\ engines' = [engines EXCEPT ![x].ran = TRUE, ![x].rv = @ + 1]
  /\ EnvironmentKeeps
  /\ UNCHANGED <<cm, caches, reportQueue>>

SyncPolicy ==
  /\ policyCache # policy
  /\ policyCache' = policy
  /\ policyQueue' = TRUE
  /\ UNCHANGED <<policy, reports, reportCache, cm, cmCache, engines, engineCache,
                 reportQueue, pw, rw, edits, rewrites>>

SyncReport(t) ==
  /\ reportCache[t] # reports[t]
  /\ reportCache' = [reportCache EXCEPT ![t] = reports[t]]
  /\ reportQueue' = reportQueue \cup {t}
  /\ EnvironmentKeeps
  /\ UNCHANGED <<policyCache, cm, cmCache, engines, engineCache>>

SyncConfigMap ==
  /\ cmCache # cm
  /\ cmCache' = cm
  /\ EnvironmentKeeps
  /\ UNCHANGED <<policyCache, reportCache, cm, engines, engineCache, reportQueue>>

SyncEngine(x) ==
  /\ engineCache[x] # engines[x]
  /\ engineCache' = [engineCache EXCEPT ![x] = engines[x]]
  /\ EnvironmentKeeps
  /\ UNCHANGED <<policyCache, reportCache, cm, cmCache, engines, reportQueue>>

ClusterStep ==
  \/ GCConfigMap \/ SyncPolicy \/ SyncConfigMap
  \/ \E t \in Types : SyncReport(t)
  \/ \E x \in Slots : LitmusRuns(x) \/ SyncEngine(x)
=============================================================================

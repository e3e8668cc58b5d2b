# Eirenyx in TLA+

Eirenyx is a Kubernetes operator. A `Tool` installs Trivy, Falco or Litmus
through Helm; a `Policy` asks one of those tools to do something; a
`PolicyReport` tells how that went. Three controllers of one manager process
reconcile the three kinds. This directory holds models of those controllers,
the TLC runs that check them on small instances, and proofs, checked by TLAPS, of
their safety properties for every value of the constants.

Paths below are relative to the repository; `engine.go` without more is
`internal/policy/trivy/engine.go`, and `README.md` the one of the repository.

## 1. Inventory

| Component | State it keeps | Operations | Correct when |
|---|---|---|---|
| Policy controller (`internal/controller/policy_controller.go`) | none of its own; finalizer, owner and status of the Policy, the spec of the report | `Reconcile` | the report follows the Policy's generation; a deleted Policy is cleaned up before it goes, and goes |
| Trivy engine (`internal/policy/trivy/engine.go`) | one Job per scan | `Validate`, `Reconcile`, `Cleanup`, `GenerateReport` | one Job per scan of an enabled Policy, none for a disabled or deleted one |
| PolicyReport controller (`internal/controller/policyreport_controller.go`) | none; deletes orphans | `Reconcile` | reports end; only orphans are deleted |
| Trivy report handler (`internal/report/trivy.go`, `trivy_json.go`) | the report's status | `Reconcile`, `readScanReport` | a result covers every scan, belongs to the generation the report names, and is final |
| Tool controller (`internal/controller/tool_controller.go`) | finalizer and status of the Tool | `Reconcile`, `handleDeletion`, `setFailedCondition` | an enabled Tool is installed, a disabled or deleted one uninstalled, the status is true |
| Tool services (`internal/tools`), Helm manager (`internal/client/helm`), Kubernetes helpers (`internal/client/k8s`) | Helm release, namespace | `EnsureInstalled`, `EnsureUninstalled`, `CheckHealth`; `InstallOrUpgrade`, `Uninstall`; namespaces and readiness | idempotent under retries and restarts; never drops a namespace of the user's |
| Falco engine and handler (`internal/policy/falco`, `internal/report/falco.go`) | a ConfigMap, the report's status | as for Trivy | the ConfigMap holds the spec of the enabled Policy and goes with it; the report ends |
| Litmus engine and handler (`internal/policy/litmus`, `internal/report/litmus.go`) | one ChaosEngine per experiment, in the namespace it names; the report's status | as for Trivy | every experiment has its ChaosEngine as the spec has it, none is left of a disabled Policy; the report ends |
| Factory, results, RBAC markers, API types, generated code, `cmd/main.go` | none | wiring | - |

The controllers share no memory. They interact

* through objects in the API server: the policy controller creates the report
  and the Jobs, the report controller reads both and writes the report's
  status, the user and the garbage collector change everything at any time;
* through informer caches: every `Get` and `List` of the manager's client is
  answered from a cache that lags behind the API server, each kind on its own;
* through work queues: a controller is woken by changes of its own kind only
  (`SetupWithManager` has `For` and nothing else), by its own requeues and
  errors, and by the informer's resync every ten hours.

What is hard about it: a reconciliation is a sequence of calls with anything
happening in between, based on reads that may be stale, ended at any point by a
failed call, a lost answer or a restart, and retried from the start. The list
of what can go wrong where, and which property would show it, is under
`hazards` in `PROJECT.json`.

## 2. Modules

| Module | Models |
|---|---|
| `ReportLifecycle` | what a PolicyReport promises its readers, whatever produces it: asked, completed at most once and not from an older version, reset, gone |
| `PolicyLifecycle` | what the operator promises of a Policy, whatever its type: protected before anything is observed of it, only its present generation observed, let go only when asked |
| `ToolLifecycle` | what the operator promises of a Tool: protected once, and unprotected only by leaving after a deletion was asked for |
| `Cluster` | Policy, PolicyReport, Tool, Jobs and pods in the API server, their caches, the queues; the user, the garbage collector, the Job controller, the informers |
| `PolicyController` (extends `Cluster`) | `PolicyReconciler.Reconcile` and the Trivy engine |
| `ReportController` (extends `Cluster`) | `PolicyReportReconciler.Reconcile` and the Trivy report handler |
| `PolicySystem` (extends both) | one manager with both controllers, failed calls and restarts; specifications, properties, inductive invariants; implements `ReportLifecycle` and `PolicyLifecycle` |
| `EngineCluster` | the same cluster for a Policy of type falco or litmus, whose type the user may change: two reports, a ConfigMap, ChaosEngines, Litmus writing to them |
| `FalcoEngine`, `LitmusEngine` (extend `EngineCluster`) | the two engines and the two report handlers |
| `EngineSystem` (extends both) | the two controllers around those engines, faults and restarts; implements `ReportLifecycle` twice, once per report, and `PolicyLifecycle` |
| `ToolController` | `ToolReconciler`, the tool services, Helm releases, namespaces and workloads; implements `ToolLifecycle` for every Tool |
| `PolicySystemProofs`, `ReportProofs`, `ObservedProofs`, `CurrentProofs` | theorems about `PolicySystem` |
| `EngineProofs`, `EngineGuardProofs` | theorems about `EngineSystem` |
| `ToolProofs`, `ToolQuietProofs` | theorems about `ToolController` |
| `MCPolicySystem`, `MCEngineSystem`, `MCToolController` | the specs the user may write in the small instances |

Both systems model the one `PolicyReconciler` and the one
`PolicyReportReconciler`. They are apart because a Policy of type trivy owns its
report, resets it and loses its Tool, while one of the other types does none of
this; one module for all three types would have the product of their states and
no step in which they meet, but for the change of a Policy's type between falco
and litmus, which `EngineSystem` has.

`PROJECT.json` maps every definition that stands for code to its lines.
Definitions headed "Faulty variant" are the code with a plausible bug; they are
used nowhere in the specifications and exist to show that each property can
fail.

### How the models correspond to the code

**Steps.** Each controller has one worker (the controller-runtime default), a
record `pw`, `rw` or `tw` with a program counter and the local variables that
live across calls. A step is one call to the API server (or to Helm). A read
from a cache whose result is kept past the next call is a step too. A cached
read followed directly by the write that depends on it is one step: the cache
may already lag by any amount, so moving time between the two adds no behaviour
(the objects a write depends on are the cached ones either way, and its outcome
depends on the API server at the moment of the write).

**Objects.** A Policy has a uid, a resource version and a generation; deleting
and creating it again gives a new uid and generation 1. `Update` and
`Status().Update` carry the version they were read with and fail when the object
has moved (`CanWrite`); `Patch` and `Delete` by name do not. A write that changes
nothing leaves the version alone (`Stored`). Status is a subresource, so `Create`
drops it. A deletion of an object with a finalizer only marks it and raises its
generation. In a report, `uid`, `forUid` and `forGen` record what the code does
not: for which Policy the report was written and from which one its result was
computed. No guard reads them.

**Scans.** The list of scans is a function from scan names to images, `NoImage`
for "not listed"; the order of the list is the user's, so loops take its members
in any order. A finding is abstracted to "the image is vulnerable". `scans`
being empty and `spec.trivy` being absent are kept apart where the code does:
`Validate` refuses both, `Cleanup` dereferences a nil. A list with an unnamed
scan or an unnamed image, which `Validate` refuses as well, two scans of one
name in one list, and every scan option but the image are not modelled.

**Jobs and pods.** A Job has the image it was created with and is finished or
not. Deleting it orphans its pod (the default of batch/v1), which is why
`pods[s]` survives `CleanupJob`; expiry and garbage collection remove both. A
pod that still runs is left out: the handler looks at pods only once the cache
shows the Job finished, and if a newer pod is then still running it retries, as
after any failed call. The order of a finished Job and its pod is that of
`JobFinishes`: both at once.

**Caches.** A cache takes the latest object at any time; it may skip versions,
as watches do on reconnection, and each kind lags on its own. It never shows a
version that was already superseded when it last moved. A real watch may deliver
such a version late, one event after the other; since each event only shows an
older object for longer, the model covers what a single kind can show, but not
every pairing of an old event of one kind with the same kind's later state. A
model with event queues is left for later.

**Queues.** A key is queued or not; delays of requeues and back-off are not
modelled, so a retry may be immediate or late. A reconciliation that ends in an
error puts its key back. The resync is an action (`PolicyResync`,
`ReportResync`, `Resync`), so that what depends on it can be told from what does
not.

**Faults.** `Fault` in `PolicySystem` and `EngineSystem`, `CallFails`, `HistoryUnread`
and `Restart` in `ToolController`: a call fails, or succeeds and its answer is
lost; the manager restarts at any point and lists everything anew. A call that
succeeded and was reported as failed is the step followed by the fault. One
failure does not end the reconciliation: when Helm cannot read the history of a
release it is to uninstall, whatever the reason, its error says "Release not
loaded", and `Manager.Uninstall` takes that text for there being no release
(`manager.go:115-118`). `HistoryUnread` is that step; the worker goes on as after an
uninstall, and the history variable `missed` records the namespace until the
release is upgraded, uninstalled or gone with its namespace. No guard reads it.

**Falco and litmus.** What a Policy says is reduced to what the engines
compare: for falco the rule it names or the selector in its place, for litmus
each experiment's namespace and one value for the rest of it. `GenerateReport`
of both returns a fresh object that names the current generation, so
`needsRescan` in the controller is always false and there is no step "reset"
(`UpsertUpdate` moves the report to the new generation, result and all). Falco's
`Cleanup` ends with success at the first report that is already gone, litmus'
goes on (`FalcoSkipsAfterMissing`, `LitmusSkipsAfterMissing`). Falco's verdict
is drawn at random, as in the code. Litmus, the program, only sets a status, so that
versions move under the engine. `buildEnvVars` ranges over a map, so that
`CreateOrUpdate` may find a difference where there is none
(`RewriteChaosEngine`). `Leftover` starts the model after an earlier Policy of
the same name has gone and left a ConfigMap the garbage collector has not come
to; `falco.Engine.Cleanup` leaves one whenever its cache does not show it yet.
The engine takes such a ConfigMap over: `SetControllerReference` knows an owner by
group, kind and name, so the earlier Policy passes for this one and its uid is
replaced (`UpdatedConfigMap`). An owner that differs is therefore a difference to
write, like other data (`ConfigMapRight`).

**Tools.** In `PolicySystem` the Tool is there or not, with its uid; in
`EngineSystem` a type has a Tool or not (`Installed`). A Tool's own life is
`ToolController`: Tools with spec and status, the Helm release by the status of
its last revision, the namespace, one flag for the workload. The three services
differ in names and in the kind of workload, not in what they do, so one model
stands for all three. Helm is external and modelled from how it is used: install
and upgrade write a pending revision, wait for the workload and end deployed or
failed; a pending revision refuses further operations; uninstall works on any
status, marks the revision, deletes the workload and purges the history, and can
be repeated.

## 3. Runs

| Run | Instance | Checks |
|---|---|---|
| `faulty` | `Spec`: one scan whose output may be unusable, two images, 2 writes to the Policy, 2 faults or restarts anywhere | `QuietInv`, `QuietReportIsDone`, `NothingUnguarded`, `ObservedMeansReported`, `CompletedIsCurrent`, `ImplementsLifecycle`, `PolicyKeepsLifecycle`, `EvaluatedNotStale`, `ResultIsFinal`, `FinalizerReleaseClean` |
| `recreate` | `ResyncSpec`: 3 writes to the Policy, so that it can be deleted and created again under its old name, or the Tool deleted and created again | `ReportSettles`, `DeletionFinishes`, `NothingOutlivesPolicy` |
| `ending` | `ResyncSpec`: 2 writes of a Policy that is enabled, disabled or without `spec.trivy`; Jobs expire, scans may give nothing | `EveryScanReported`, `QuietIsServed`, `DisabledStops` |
| `engines` | `FairSpec`: a Policy that changes between falco (a selector) and litmus, enabled, disabled (of either type) or incomplete, 2 writes, 1 rewritten ChaosEngine, Litmus writing | `ObservedHasReport`, `QuietIsServed`, `LitmusStatusKept`, `ReportsFollowLifecycle`, `EnginesFollowSpec`, `ReportCompletes`, `DisabledLeavesNothing`, `DeletionEnds` |
| `falco` | `FairSpec`: a falco Policy with either rule or a selector, enabled or not, 2 writes, 1 fault, with and without the ConfigMap of an earlier Policy | `QuietInv`, `QuietReportsAreDone`, `NothingUnguarded`, `ObservedOwnsConfigMap`, `PolicyKeepsLifecycle`, `ConfigMapFollowsSpec`, `ReportCompletes`, `OrphansCollected` |
| `tool` | `FairSpec`: one Tool, five specs, two namespaces, 3 writes, 1 move, 1 fault, 1 broken workload | `SharedInv`, `QuietIsInstalled`, `ReleasesGuarded`, `ReleasedClean`, `ToolsKeepLifecycle`, `InstallEnds`, `UninstallEnds`, `ToolDeletionEnds` |

The type invariants are conjuncts of the inductive ones: each `QuietInv`, and
`SharedInv`, contains the `TypeOK` of its module.

Each property's comment in its module says what it means and which code it is
about. `PROJECT.json` gives for each a change to the model, as a plausible bug
would make it, under which TLC finds the property violated in the run it is
checked in.

Bounds, and why they are enough for the questions:

* *Scans.* One. The handler treats scans independently; they meet in "some scan
  pending" and "some scan unreadable". What more than one scan could break is
  `EveryScanReported`, which is proved for any number.
* *Images.* Two, which is what tells an old result from a new one. In `faulty`
  no image is vulnerable, so that the two are interchangeable (`ImageSymmetry`);
  the verdict follows from the findings in one step and decides nothing. The
  runs with liveness use no symmetry.
* *User writes* (`UserWrites`, the pairs of numbers of writes to Policy and Tool
  that may happen in `PolicySystem`; `MaxPolicyEdits`; `MaxEdits`, `MaxMoves`). A
  write made during the reconciliation of the previous one is the worst case for
  one worker, and workers forget everything between reconciliations; three
  writes are what a deletion and recreation takes. The safety properties are
  proved for any number.
* *Tools* (`Tools`). One: `QuietIsInstalled` is true of one only, and so are the
  liveness properties, since a Tool may undo what another of its type asked for.
  What holds of several that share a release (`ReleasesGuarded`,
  `ReleasedClean`, `ToolsKeepLifecycle`) is proved for any number.
* *Faults* (`MaxFaults`). One hits every call in turn, and the reconciliation
  starts over after it; `faulty` has two, so that what one left behind meets
  another. `recreate`, `ending` and `engines`, which are about what must happen
  in the end, have none.
* *Expiry.* Jobs expire in `ending`; in `faulty` and `recreate` they do not,
  which keeps those within minutes. The theorems do not depend on it.
* *`MaxRewrites`, `MaxBreaks`.* One rewrite of a ChaosEngine is what makes a
  write meet a newer version; one workload that breaks shows that the controller
  does not promise more than `healthy` when it looks.
* *Specs.* `faulty` has one spec per image (`ExchangeSpecs`), `recreate` a single
  one (`PlainSpecs`): there nothing is ever edited, and `ReportSettles` says
  nothing about the reset after an edit. What an edit does to a report is the
  subject of `faulty` and of `bug_lost_reset` and `bug_old_image`.
* *Resync.* `recreate` needs it: a report deleted as an orphan of the old
  Policy comes back only when the new Policy's key is queued again, for the
  controller does not watch its reports. `ending` assumes the same.

`CHECK_DEADLOCK FALSE` everywhere: with the user's writes used up and every
reconciliation done, the system may well stop.

### What the code does not do

Each `bug_*` run checks one sentence of the documentation and ends in a
counterexample.

| Run | Sentence (README.md) | What happens |
|---|---|---|
| `bug_cascade` | 100: "deleting a `Tool` cascades to its policies" | The policy controller looks up the Tool before it handles the deletion, finds none and retries until there is one. |
| `bug_old_image` | 181: "the report is reset to `Pending` and re-evaluated" | An existing Job is not replaced; after an edit the old image's findings are reported under the new one's name. |
| `bug_lost_reset` | 181, the same | The generation and the reset are two calls; if the second fails it is never repeated. |
| `bug_pending` | 258: "If enabled: ToolService.EnsureInstalled" | A restart while Helm waits leaves a pending release for good. |
| `bug_overlooked` | 265-266: "ToolService.EnsureUninstalled", then "Remove finalizer" | One failed read of the release's history at uninstall is taken for there being no release (`manager.go:115-118`): the finalizer goes, and the release stays. |
| `bug_chaos_left` | 285: "Engine.Cleanup (delete Jobs / ConfigMaps / ChaosEngines / Reports)" | A ChaosEngine not yet in the cache, or in a namespace the spec no longer names, stays for good: it has no owner. |

The models show more behaviours of this kind, for which no run is kept:

* `Cleanup` dereferences `spec.trivy`, so a Policy without it cannot be deleted
  (`CleanupPanics`; README.md:284-286).
* A falco or litmus report already names the new generation when the controller
  compares (`GenerateReport`), so an edit never resets it: its old result moves to
  the new generation and stays (README.md:181).
* A disabled Tool whose release an uninstall could not read is called healthy, and
  nobody looks at it again, while the release is still deployed.
* A scan that ends badly is retried for ever, through the expiry and recreation
  of its Job too; no report is ever `Failed` (README.md:183).
* `Create` drops the phase `Pending` that `GenerateReport` sets (`engine.go:180`).
* A Policy created again under its name may take over the Completed report of
  its predecessor without a reset: its generation starts at 1 again, which the
  old report in the cache may name too (README.md:181). The report has its old
  owner and is collected soon after; `CompletedIsCurrent` is about reports of the
  Policy's own.
* The deletion of an orphan is by name and may hit the report of a newer Policy
  (README.md:294); that report comes back with the next resync.
* `healthy` of a Tool does not follow its workload (README.md:84): nothing watches
  it, and an upgrade that waits for it in vain ends the reconciliation before
  the health check.
* `installed` says what was asked for (README.md:83): two Tools of a type share a
  release, and deleting one uninstalls it for both.
* A release installed before `spec.namespace` was changed outlives its Tool
  (README.md:264-266); `ReleasedClean` is about Tools that are not moved.
* A falco Policy with a `ruleSelector` (README.md:131) is valid, but its handler
  dereferences the missing `ruleRef`: its report never completes
  (`FalcoHandleFails`). A litmus Policy without `spec.litmus` cannot be deleted
  (`LitmusCleanupPanics`).
* Litmus' verdict is `Pass` whatever Litmus found: no ChaosResult is read
  (README.md:208, 300).
* A falco Policy edited and edited back while the cache still shows the ConfigMap
  of the spec before is called observed although its ConfigMap has the spec in
  between: the engine finds the cached one right, and nothing watches
  ConfigMaps, so that it stays so until the resync. `QuietIsServed` says nothing
  of ConfigMaps and ChaosEngines, therefore; `ConfigMapFollowsSpec` does, with the
  resync.
* A Completed falco or litmus report whose Policy is gone stays, for it has no
  owner and the report controller skips it before it looks for the Policy
  (README.md:293-294). `OrphansCollected` says what does go.
* The engine of a Policy's present type cleans up: after a change of type the
  old ConfigMap or ChaosEngines stay, though both types' reports go.

### Fairness

`FairSpec` of `PolicySystem`: both workers take steps, every informer and the
garbage collector catch up, and a scan that can end well does, each by weak
fairness. controller-runtime's worker serves its queue, watches reconnect, and
the Job controller starts pods; user and faults promise nothing. The worker as a
whole is weakly fair, not each of its steps. `ResyncSpec` adds the policy
informer's resync. That comes once in ten hours, so a property that holds only
under `ResyncSpec` is a slow one.

`FairSpec` of `EngineSystem`: the same, with the resync, and strong fairness for
each report's turn, since two keys share the worker. The queue is first in,
first out, and a key that is put back goes to the end, so that a key that stays
queued is served however often others are. Nothing is promised about Litmus.

`FairSpec` of `ToolController`: the worker, and strong fairness for each Tool's
turn, as above; a workload Helm waits for comes up, a terminating namespace
goes. `ResyncSpec` adds the resync, so that `bug_pending` shows a release that no
resync repairs.

## 4. What is proved

The proofs assume of the constants what the modules' `ASSUME`s say: absent
values are not values, the specs have their type, bounds are numbers. None limits
the number of scans, experiments, namespaces, Tools, edits or faults.

| Theorem | States | Checked in |
|---|---|---|
| `PolicySystemProofs!TypeCorrect` | `[]TypeOK` | `faulty`, in `QuietInv` |
| `PolicySystemProofs!Invariant` | `[]IndInv` | `faulty`, in `QuietInv` |
| `PolicySystemProofs!EvaluatedNotStaleHolds` | a report is completed only from a Policy at least as new as the generation it names | `faulty` |
| `PolicySystemProofs!ResultIsFinalHolds` | a result is replaced by nothing but a reset | `faulty` |
| `PolicySystemProofs!FinalizerReleaseCleanHolds` | a Policy that leaves with its finalizer leaves no Job of its scans | `faulty` |
| `ReportProofs!EveryScanReportedHolds` | a Completed report covers every scan of its Policy and no other | `ending` |
| `ReportProofs!ImplementsLifecycleHolds` | the Trivy pipeline implements `ReportLifecycle` | `faulty` |
| `ObservedProofs!ObservedMeansReportedHolds` | the observed generation is not ahead of the report's | `faulty` |
| `ObservedProofs!GuardInvariant` | `[]GuardInv` | `faulty`, in `QuietInv` |
| `ObservedProofs!NothingUnguardedHolds` | every Job and report has an owner, and that is gone or has the finalizer | `faulty` |
| `ObservedProofs!PolicyKeepsLifecycleHolds` | a Policy of type trivy implements `PolicyLifecycle` | `faulty` |
| `CurrentProofs!CurrentInvariant` | `[]CurrentInv`, all the invariants above | `faulty`, in `QuietInv` |
| `CurrentProofs!CompletedIsCurrentHolds` | without faults, a Completed report of the Policy's own reflects the generation it names, or is about to be reset | `faulty` |
| `CurrentProofs!QuietInvariant` | `[]QuietInv`, all the invariants of the Trivy pipeline | `faulty` |
| `CurrentProofs!QuietIsServedHolds` | a Policy nobody is about to look at has its finalizer and owner, no mark, and is observed at its generation or, if disabled, without Jobs | `ending`; `faulty`, in `QuietInv` |
| `CurrentProofs!QuietReportIsDoneHolds` | a report nobody is about to look at is Completed | `faulty` |
| `EngineProofs!EngineInvariant` | `[]EngineInv` | `falco`, in `QuietInv` |
| `EngineProofs!EngineTypeCorrect` | `[]TypeOK` | `falco`, in `QuietInv` |
| `EngineProofs!ReportsFollowLifecycleHolds` | both reports of falco and litmus implement `ReportLifecycle` | `engines` |
| `EngineGuardProofs!EngineGuardInvariant` | `[]GuardInv` | `falco`, in `QuietInv` |
| `EngineGuardProofs!EngineNothingUnguardedHolds` | the ConfigMap has an owner, and no Policy has a ConfigMap or a report without the finalizer | `falco` |
| `EngineGuardProofs!EnginePolicyKeepsLifecycleHolds` | a Policy of type falco or litmus, or one that changes between them, implements `PolicyLifecycle` | `falco` |
| `EngineGuardProofs!ObservedOwnsConfigMapHolds` | a ConfigMap that is there while a falco Policy's generation is called observed is that Policy's own | `falco` |
| `EngineGuardProofs!LitmusStatusKeptHolds` | the engine's write of a whole ChaosEngine does not undo what Litmus wrote | `engines` |
| `EngineGuardProofs!EngineObservedInvariant` | `[]EngineObservedInv` | `falco`, in `QuietInv` |
| `EngineGuardProofs!ObservedHasReportHolds` | the first Policy of its name has, once its present generation is observed, a report that names it | `engines` |
| `EngineGuardProofs!EngineQuietInvariant` | `[]QuietInv`, all the invariants above | `falco` |
| `EngineGuardProofs!EngineQuietIsServedHolds` | a Policy of either type nobody is about to look at has its finalizer and an owner of its type, no mark, and is valid and observed at its generation if enabled | `engines`; `falco`, in `QuietInv` |
| `EngineGuardProofs!QuietReportsAreDoneHolds` | a report of either type nobody is about to look at is Completed | `falco` |
| `ToolProofs!TypeCorrect` | `[]TypeOK` | `tool`, in `SharedInv` |
| `ToolProofs!ToolInvariant` | `[]ToolInv` | `tool`, in `SharedInv` |
| `ToolProofs!ReleasedCleanHolds` | no Tool leaves before its release, unless that was taken for gone, if none is moved | `tool` |
| `ToolProofs!NamedNamespaceStaysHolds` | only the default namespace is ever deleted | - |
| `ToolQuietProofs!WorkerIsCurrentHolds` | a reconciliation nobody has superseded works from the Tool as it is | - |
| `ToolQuietProofs!QuietIsInstalledHolds` | with one Tool, one that nobody is about to look at is installed, or disabled after an uninstall, and says so | `tool` |
| `ToolQuietProofs!SharedInvariant` | `[]SharedInv` | `tool` |
| `ToolQuietProofs!ReleasesGuardedHolds` | every release not taken for gone belongs to a Tool that is there and has the finalizer, if none is moved | `tool` |
| `ToolQuietProofs!ToolsKeepLifecycleHolds` | every Tool implements `ToolLifecycle` | `tool` |

The properties are not inductive: they speak of writes, and a write is made from
a copy read several steps before. The invariants say what the copies know.

*`PolicySystem`.* `IndInv`, proved in `PolicySystemProofs`, has

* `Copies`: a copy in a cache or in a worker's hands is not ahead of the object,
  and is the object itself if the versions agree. So a write that carries a
  version and is accepted was computed from the present object. This is where
  finality comes from: the report worker's copy is never Completed
  (`ReportWorkerKnows`), so neither is the report its write replaces.
* `Chain`: versions of the Policy, ordered by uid and generation, only grow along
  report, held copy, cache, API server. The handler reads the Policy from the
  cache after the controller read the report, so what it reads is at least as new
  as the generation in the report it holds, and by `Copies` as the one in the
  report it completes.
* `CleanedSoFar`: scans the cleanup loop has passed have no Job. The same worker
  creates the Jobs, so none appears behind it, and by `Copies` the spec it
  ranges over is the current one when the finalizer goes.

`ReportInv` (`ReportProofs`) strengthens it. `ScannedSoFar` says that the report
worker holds an image for every scan it has passed unless one was pending, which
with `JobsHaveImages` gives `EveryScanReported`. `PolicyWorkerKnows` and
`GoneIsUndone` say that the policy worker's Policy is at least as new as every
report it can meet, so that moving a report's generation moves it forward; that
is the step of the refinement that needs an argument. `ObservedInv`
(`ObservedProofs`) adds that reports keep the owner they were created with and
that, past the upsert, the Policy's own report names the generation about to be
observed. `CurrentInv` (`CurrentProofs`) adds what makes `CompletedIsCurrent` hold
although the policy worker decides on the reset from its cache before it moves
the report: if it saw the report, the generations it compared are the report's;
if it saw none, then nobody can have finished the report at that moment, for the
report worker reads the same cache (`Seen`), and whoever finishes it before the
update does so from a Policy read later than the policy worker's
(`UpsertKnows`).

`QuietIsServed` and `QuietReportIsDone` are the safety half of "the controllers
get there": no wake-up is lost. Nothing but a change of the Policy wakes the
policy controller, and a Job, a ConfigMap, a Tool or its own report never does,
so every end of a reconciliation that is not the last one must put the key
back. Whether it is the last one is decided from a copy. `QuietInv` says when that
is right: a worker whose key is not queued again has the Policy the cache has,
and what it has checked on its way (finalizer, owner, branch, validity) holds of
that copy (`WorkerIsCurrent`). So if the cache has the present Policy when the
worker ends, what it has done was for the present Policy; if not, the event is
still to come. The invariant itself says it of the idle worker, since the
argument needs it there as well: a step that changes the Policy leaves the
cache behind (`Copies`). `faulty` checks `QuietInv`, which contains all others.

`GuardInv` (`ObservedProofs`) is about the time between a copy and what is made
from it. The worker makes a Job or a report for the uid in its copy, several
calls after it read it; what guards it, the finalizer, is in the API server.
`PastFinalizer` bridges that: a worker past the finalizer holds a copy that has
it, and `Earlier` says what a copy under the present uid still tells of the
object, namely that the finalizer, once there, is there (only this worker takes
it away, and then it is done), and that a generation has one spec. If the
Policy was deleted and created again meanwhile, the uid in the copy is of nobody
(`Orphaned`), for by `OwnersKnown` no owner is a Policy yet to come. The same
facts give the refinement of `PolicyLifecycle`: `Copies` makes the copy a write
carries the present object, and `PastFinalizer` that it has the finalizer and no
mark.

*`EngineSystem`.* `EngineInv` is the same argument for two reports without an
owner: `Copies`, `Chain`, and `ReportsKnown`, that a report that is gone carries
nothing over to the next of its name. `ExperimentsKnown` is what `TypeOK` needs
to be inductive: a worker creates ChaosEngines only for experiments its own copy
lists.

`GuardInv` of this system adds `PastFinalizer` as above, with the branch the
worker has taken (`Serving`), and `ObjectCopies`: the cached ConfigMap and
ChaosEngines are the real ones if the versions agree, so that an accepted write
of a whole ChaosEngine keeps the status the engine saw.

`ObservedOwnsConfigMap` is about the takeover. The engine may find the cached
ConfigMap right and write nothing, while the garbage collector deletes it or the
API server has another by now. `ConfigMapKnown` says that owners only grow: none,
there or in the cache, is a later Policy than the worker's or the cached one, and
the cached ConfigMap's is no later than the real one's. So if the cached one is
the worker's own, what is there is the worker's own too, and past the engine that
stays so until the generation is called observed.

`QuietInv` of this system is the argument above for two reports and one report
worker: here the ends that must put the key back are more (a ConfigMap that has
changed or gone since the cache saw it, a ChaosEngine Litmus has written to, an
experiment list that is not there), and the report worker, when it serves one key, must not
drop the other.

`ObservedHasReport` is harder than it looks: the reports have no owner, and
`Cleanup` and the report controller delete them for reasons they read in their
caches. `EngineObservedInv` says
why none of it hits: `Cleanup` runs for a copy that is not to be served, so no
enabled generation as new as that copy has been observed yet
(`ObservedIsSeen`), and the report controller deletes a report only if its cache
has no Policy, which under the first uid is before there was any report or after
the Policy went. So a cached report that names the generation of an enabled
Policy is still there (`CachedIsThere`), and if the engine, seeing it, writes
nothing, the generation it goes on to observe has its report. This is for the
first Policy of its name only (`Belongs(1)`), and has to be: TLC refutes it for
one that was deleted and created again, where a cached report of the predecessor
naming the same generation number is taken for the Policy's own.

*`ToolController`.* The finalizer is added and removed by patches that carry no
version, so `Copies` alone says nothing about `ReleasedClean`. `ToolInv` adds what the worker
has established on its way (`WorkerKnows`: while it stands before the removal of
the finalizer, no release but one it has taken for gone) and `DeletionKnows`: a Tool that is being deleted and
one that has followed it under its name mean the same release, as long as none
is moved. Without that proviso `ReleasedClean` fails: a Tool moved to another
namespace, then deleted, and moved back between the uninstall and the patch
leaves behind the release that stayed where it was first. `QuietIsInstalled` needs that a
reconciliation whose key is not queued again works from the Tool as it is
(`WorkerIsCurrent`), and that no other Tool touches its release, hence one Tool:
with two, disabling one uninstalls what the other reports as installed.

What holds of Tools that share a release is `ReleasesGuarded`: whatever state an
operation left it in, somebody will have to uninstall it, unless an uninstall
has taken it for gone. That exception is `missed` in all three properties; it is
exactly the defect `bug_overlooked` shows, and they say that nothing else loses a
release. The Tool that installs
it was read with the finalizer, or given it by the patch just before, several
calls ago; `InstallationKnows` says that it is still there and still means that
release, for who has the finalizer leaves only through this worker, and only
once it is marked. That a Tool read as marked is not unmarked by the time the
patch arrives is `DeletionIsMarked` (`Marked`): the patch goes by name, and the
Tool it meets may be another of that name, but while this worker holds the
old one nobody gives that one the finalizer. The same two facts give the
refinement of `ToolLifecycle`, for Tools that are moved as well.

Only model-checked: all liveness and everything under fairness, which TLAPS
1.4.5 does not handle: `ReportSettles`, `DeletionFinishes`,
`NothingOutlivesPolicy`, `DisabledStops`, `EnginesFollowSpec`,
`ConfigMapFollowsSpec`, `ReportCompletes`, `DisabledLeavesNothing`,
`DeletionEnds`, `OrphansCollected`, `InstallEnds`, `UninstallEnds`,
`ToolDeletionEnds`. Every other property that a passing run checks is stated by
a theorem.

## 5. What is not modelled

* Two managers at once: `--leader-elect` is set in the manifests, but a lease
  does not fence writes.
* Several Policies: Job names join policy and scan names by a hyphen, so two
  Policies can collide.
* A Policy that changes its type to or from trivy.
* Finalizers of others, foreground deletion, users who edit reports, Jobs,
  ConfigMaps or ChaosEngines.
* The details of a falco report (`pod_details.go` picks pods at random), string
  utilities, the findings of a scan beyond "vulnerable".
* Helm repositories, charts, values and their merging (values that are no object, which
  `LitmusService` refuses, the CRD schema refuses first), its lock file; delays and
  the five-minute wait of an upgrade, which blocks the only worker.
* Flags, TLS, metrics, generated code, CRD and RBAC manifests, the e2e tests.

Left for later: a watch with events in flight; two Policies with a colliding Job
name; a second manager over the same cluster; value merging and the choice of
the newest pod as operators with reference definitions.

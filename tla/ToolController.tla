---------------------------- MODULE ToolController ----------------------------
(***************************************************************************)
(* ToolReconciler.Reconcile for Tools of one type (say trivy), with the    *)
(* ToolService it calls and the Helm release and namespace those manage.   *)
(* A Tool is a namespaced object, but its release is named by its type     *)
(* alone and lives in spec.namespace or the type's default namespace: two  *)
(* Tools may mean the same release. The three services differ in names and *)
(* in the kind of workload they look at, not in what they do.              *)
(*                                                                         *)
(* The controller has one worker for all Tools. Its reads of Tools come    *)
(* from a cache, those of namespaces, releases and workloads do not.       *)
(***************************************************************************)
EXTENDS Naturals

CONSTANTS
  Tools,        \* Tool objects
  Namespaces,   \* namespaces a release may live in
  DefaultNs,    \* the one of the tool's type
  Omitted,      \* spec.namespace = "" (a model value)
  ToolSpecs,    \* the specs the user may write
  MaxMoves,     \* bound on the user's changes of spec.namespace of a Tool
  MaxEdits,     \* bound on the user's writes
  MaxBreaks,    \* bound on workloads that stop being ready
  MaxFaults     \* bound on failed calls and restarts

ToolSpecType ==
  [known : BOOLEAN,     \* spec.type is one of the three supported ones
   enabled : BOOLEAN,
   ns : Namespaces \cup {Omitted}]

ASSUME ToolsAssumption == Tools # {}
ASSUME DefaultNsAssumption == DefaultNs \in Namespaces
ASSUME OmittedAssumption == Omitted \notin Namespaces
ASSUME ToolSpecsAssumption == ToolSpecs \subseteq ToolSpecType
ASSUME ToolBoundsAssumption ==
  MaxEdits \in Nat /\ MaxMoves \in Nat /\ MaxBreaks \in Nat /\ MaxFaults \in Nat

VARIABLES
  tools,      \* tools[t]: the Tool in the API server
  cache,      \* cache[t]: the informer's copy
  queue,      \* the Tools whose key is in the work queue
  releases,   \* releases[n]: status of the last revision of the Helm release
  nss,        \* nss[n]: "absent", "active" or "terminating"
  ready,      \* ready[n]: is the release's Deployment or DaemonSet ready?
  tw,         \* the worker
  budget,     \* user writes, moves, breaks and faults so far
  missed      \* history: where an uninstall has taken a release for gone

vars == <<tools, cache, queue, releases, nss, ready, tw, budget, missed>>
-----------------------------------------------------------------------------
ReleaseStates == {"none", "pending", "deployed", "failed", "uninstalling"}

ToolObject ==
  [live : BOOLEAN, rv : Nat, spec : ToolSpecType, deleting : BOOLEAN,
   fin : BOOLEAN,
   installed : BOOLEAN, healthy : BOOLEAN,   \* status
   failed : BOOLEAN]                         \* condition Ready=False

NoSpec == [known |-> FALSE, enabled |-> FALSE, ns |-> Omitted]
NoTool ==
  [live |-> FALSE, rv |-> 0, spec |-> NoSpec, deleting |-> FALSE, fin |-> FALSE,
   installed |-> FALSE, healthy |-> FALSE, failed |-> FALSE]

ToolPCs == {"idle", "start", "service", "ensurens", "helm", "wait", "uninstall",
            "purge", "dropns", "health", "status", "unfinalize"}

ToolWorkerType ==
  [pc : ToolPCs, name : Tools, obj : ToolObject,
   final : BOOLEAN,      \* in handleDeletion
   healthy : BOOLEAN]    \* what CheckHealth said

Idle(t) ==
  [pc |-> "idle", name |-> t, obj |-> NoTool, final |-> FALSE, healthy |-> FALSE]

AnyTool == CHOOSE t \in Tools : TRUE

TypeOK ==
  /\ tools \in [Tools -> ToolObject]
  /\ cache \in [Tools -> ToolObject]
  /\ queue \subseteq Tools
  /\ releases \in [Namespaces -> ReleaseStates]
  /\ nss \in [Namespaces -> {"absent", "active", "terminating"}]
  /\ ready \in [Namespaces -> BOOLEAN]
  /\ tw \in ToolWorkerType
  /\ budget \in [edits : Nat, moves : Nat, breaks : Nat, faults : Nat]
  /\ missed \subseteq Namespaces

Init ==
  /\ tools = [t \in Tools |-> NoTool]
  /\ cache = tools
  /\ queue = {}
  /\ releases = [n \in Namespaces |-> "none"]
  /\ nss = [n \in Namespaces |-> "absent"]
  /\ ready = [n \in Namespaces |-> FALSE]
  /\ tw = Idle(AnyTool)
  /\ budget = [edits |-> 0, moves |-> 0, breaks |-> 0, faults |-> 0]
  /\ missed = {}
-----------------------------------------------------------------------------
(***************************************************************************)
(* The user and the cluster.                                               *)
(***************************************************************************)
UserWrites(t, new) ==
  /\ budget.edits < MaxEdits
  /\ LET moves == IF tools[t].live /\ new.live /\ new.spec.ns # tools[t].spec.ns
                    THEN budget.moves + 1 ELSE budget.moves
     IN  /\ moves <= MaxMoves
         /\ budget' = [budget EXCEPT !.edits = @ + 1, !.moves = moves]
  /\ tools' = [tools EXCEPT ![t] = new]
  /\ UNCHANGED <<cache, queue, releases, nss, ready, tw, missed>>

GoneTool(obj) == [NoTool EXCEPT !.rv = obj.rv + 1]

CreateTool(t, spec) ==
  /\ ~tools[t].live
  /\ UserWrites(t, [NoTool EXCEPT !.live = TRUE, !.rv = tools[t].rv + 1,
                                  !.spec = spec])

\* The type of a Tool, whose name it is, is not changed.
EditTool(t, spec) ==
  /\ tools[t].live
  /\ tools[t].spec # spec
  /\ spec.known = tools[t].spec.known
  /\ UserWrites(t, [tools[t] EXCEPT !.spec = spec, !.rv = @ + 1])

DeleteTool(t) ==
  /\ tools[t].live
  /\ ~tools[t].deleting
  /\ UserWrites(t, IF tools[t].fin
                     THEN [tools[t] EXCEPT !.deleting = TRUE, !.rv = @ + 1]
                     ELSE GoneTool(tools[t]))

User ==
  \E t \in Tools : \/ \E spec \in ToolSpecs : CreateTool(t, spec) \/ EditTool(t, spec)
                   \/ DeleteTool(t)

\* The informer: the latest object is cached and its key queued.
SyncTool(t) ==
  /\ cache[t] # tools[t]
  /\ cache' = [cache EXCEPT ![t] = tools[t]]
  /\ queue' = queue \cup {t}
  /\ UNCHANGED <<tools, releases, nss, ready, tw, budget, missed>>

\* The periodic resync; as long as the worker is busy it may as well wait.
Resync(t) ==
  /\ tw.pc = "idle"
  /\ cache[t].live
  /\ t \notin queue
  /\ queue' = queue \cup {t}
  /\ UNCHANGED <<tools, cache, releases, nss, ready, tw, budget, missed>>

\* The workload of a release comes up, or stops being ready.
WorkloadReady(n) ==
  /\ releases[n] \in {"pending", "deployed", "failed"}
  /\ ~ready[n]
  /\ ready' = [ready EXCEPT ![n] = TRUE]
  /\ UNCHANGED <<tools, cache, queue, releases, nss, tw, budget, missed>>

WorkloadBreaks(n) ==
  /\ budget.breaks < MaxBreaks
  /\ ready[n]
  /\ ready' = [ready EXCEPT ![n] = FALSE]
  /\ budget' = [budget EXCEPT !.breaks = @ + 1]
  /\ UNCHANGED <<tools, cache, queue, releases, nss, tw, missed>>

\* A terminating namespace takes with it what is in it, the release's records
\* included.
NamespaceGone(n) ==
  /\ nss[n] = "terminating"
  /\ nss' = [nss EXCEPT ![n] = "absent"]
  /\ releases' = [releases EXCEPT ![n] = "none"]
  /\ ready' = [ready EXCEPT ![n] = FALSE]
  /\ missed' = missed \ {n}
  /\ UNCHANGED <<tools, cache, queue, tw, budget>>

Kubernetes ==
  \/ \E t \in Tools : SyncTool(t)
  \/ \E n \in Namespaces : WorkloadReady(n) \/ WorkloadBreaks(n) \/ NamespaceGone(n)
-----------------------------------------------------------------------------
(***************************************************************************)
(* The worker.                                                             *)
(***************************************************************************)
Done  == tw' = Idle(tw.name) /\ UNCHANGED queue
Retry == tw' = Idle(tw.name) /\ queue' = queue \cup {tw.name}

Goto(pc) == tw' = [tw EXCEPT !.pc = pc] /\ UNCHANGED queue

me == tools[tw.name]

\* resolvedNamespace(spec.namespace, default) of a spec.
Resolved(spec) == IF spec.ns = Omitted THEN DefaultNs ELSE spec.ns
ns == Resolved(tw.obj.spec)

OnlyWorker == UNCHANGED <<tools, cache, releases, nss, ready, budget, missed>>
OnlyTools == UNCHANGED <<cache, releases, nss, ready, budget, missed>>
OnlyHelm == UNCHANGED <<tools, cache, nss, budget>>
OnlyNs == UNCHANGED <<tools, cache, releases, ready, budget, missed>>

ToolGet(t) ==
  /\ tw.pc = "idle"
  /\ t \in queue
  /\ queue' = queue \ {t}
  /\ tw' = IF cache[t].live
             THEN [Idle(t) EXCEPT !.pc = "start", !.obj = cache[t]]
             ELSE Idle(t)
  /\ OnlyWorker

\* Faulty variant: a disabled Tool is taken to have been uninstalled already.
BeginDeletionIfEnabled ==
  /\ tw.pc = "start"
  /\ tw.obj.deleting
  /\ tw' = [tw EXCEPT !.pc = IF tw.obj.spec.known /\ tw.obj.spec.enabled
                               THEN "uninstall" ELSE "unfinalize",
                      !.final = TRUE]
  /\ UNCHANGED queue
  /\ OnlyWorker

\* handleDeletion: uninstall, unless the type is unknown.
BeginDeletion ==
  /\ tw.pc = "start"
  /\ tw.obj.deleting
  /\ tw' = [tw EXCEPT !.pc = IF tw.obj.spec.known THEN "uninstall" ELSE "unfinalize",
                      !.final = TRUE]
  /\ UNCHANGED queue
  /\ OnlyWorker

\* Patch carries no version. It answers with the object as it is now, which
\* the rest of the reconciliation works on, be it marked deleted by now. An
\* object marked deleted has the finalizer (without one it is gone at once), so
\* the API server's rule against adding one to such an object never applies.
AddFinalizer ==
  /\ tw.pc = "start"
  /\ ~tw.obj.deleting
  /\ ~tw.obj.fin
  /\ \/ /\ me.live
        /\ LET new == IF me.fin THEN me ELSE [me EXCEPT !.fin = TRUE, !.rv = @ + 1]
           IN  /\ tools' = [tools EXCEPT ![tw.name] = new]
               /\ tw' = [tw EXCEPT !.pc = "service", !.obj = new]
        /\ UNCHANGED queue
     \/ /\ ~me.live
        /\ Retry
        /\ UNCHANGED tools
  /\ OnlyTools

\* Faulty variant: a Tool is installed before it carries the finalizer.
HasFinalizerOrNot ==
  /\ tw.pc = "start"
  /\ ~tw.obj.deleting
  /\ Goto("service")
  /\ OnlyWorker

HasFinalizer ==
  /\ tw.pc = "start"
  /\ ~tw.obj.deleting
  /\ tw.obj.fin
  /\ Goto("service")
  /\ OnlyWorker

\* Status().Update of the worker's copy, which ends the reconciliation.
CanWrite == me.live /\ tw.obj.rv = me.rv

Stored(new) == IF new = me THEN me ELSE [new EXCEPT !.rv = me.rv + 1]

\* setFailedCondition, for a type no service exists for.
UnsupportedType ==
  /\ tw.pc = "service"
  /\ ~tw.obj.spec.known
  /\ \/ /\ CanWrite
        /\ tools' = [tools EXCEPT ![tw.name] = Stored([tw.obj EXCEPT !.failed = TRUE])]
        /\ Done
     \/ /\ ~CanWrite
        /\ Retry
        /\ UNCHANGED tools
  /\ OnlyTools

ChooseService ==
  /\ tw.pc = "service"
  /\ tw.obj.spec.known
  /\ Goto(IF tw.obj.spec.enabled THEN "ensurens" ELSE "uninstall")
  /\ OnlyWorker
-----------------------------------------------------------------------------
(***************************************************************************)
(* EnsureInstalled: the namespace, then helm install or helm upgrade, each *)
(* with --wait.                                                            *)
(***************************************************************************)

\* A namespace that is terminating is there as far as EnsureNamespace can see.
EnsureNamespace ==
  /\ tw.pc = "ensurens"
  /\ Goto("helm")
  /\ nss' = IF nss[ns] = "absent" THEN [nss EXCEPT ![ns] = "active"] ELSE nss
  /\ OnlyNs

\* No release of that name: install. The record is written first; in a
\* terminating namespace nothing can be created.
HelmInstall ==
  /\ tw.pc = "helm"
  /\ releases[ns] = "none"
  /\ nss[ns] = "active"
  /\ Goto("wait")
  /\ releases' = [releases EXCEPT ![ns] = "pending"]
  /\ UNCHANGED <<ready, missed>>
  /\ OnlyHelm

\* A release whose last revision was deployed or failed is upgraded, whatever
\* it was installed with.
HelmUpgrade ==
  /\ tw.pc = "helm"
  /\ releases[ns] \in {"deployed", "failed"}
  /\ nss[ns] = "active"
  /\ Goto("wait")
  /\ releases' = [releases EXCEPT ![ns] = "pending"]
  /\ missed' = missed \ {ns}
  /\ UNCHANGED ready
  /\ OnlyHelm

\* Faulty variant: an operation helm refuses is not tried again.
HelmRefusesForGood ==
  /\ tw.pc = "helm"
  /\ releases[ns] \in {"pending", "uninstalling"} \/ nss[ns] # "active"
  /\ Done
  /\ OnlyWorker

\* "another operation is in progress" on a pending revision, "has no deployed
\* releases" on one being uninstalled, or a namespace that takes no objects.
HelmRefuses ==
  /\ tw.pc = "helm"
  /\ releases[ns] \in {"pending", "uninstalling"} \/ nss[ns] # "active"
  /\ Retry
  /\ OnlyWorker

\* helm waits until the workload is ready, for five minutes at most.
HelmSucceeds ==
  /\ tw.pc = "wait"
  /\ releases[ns] = "pending"
  /\ ready[ns]
  /\ Goto("health")
  /\ releases' = [releases EXCEPT ![ns] = "deployed"]
  /\ UNCHANGED <<ready, missed>>
  /\ OnlyHelm

HelmTimesOut ==
  /\ tw.pc = "wait"
  /\ releases[ns] = "pending"
  /\ ~ready[ns]
  /\ Retry
  /\ releases' = [releases EXCEPT ![ns] = "failed"]
  /\ UNCHANGED <<ready, missed>>
  /\ OnlyHelm
-----------------------------------------------------------------------------
(***************************************************************************)
(* EnsureUninstalled: helm uninstall, then the namespace if it was not     *)
(* named in the spec. Used for a disabled Tool and for a deleted one.      *)
(***************************************************************************)
\* Faulty variant: what is uninstalled need not be protected any more.
AfterUninstallAlways == "unfinalize"

AfterUninstall == IF tw.final THEN "unfinalize" ELSE "health"

AfterHelm == IF tw.obj.spec.ns = Omitted THEN "dropns" ELSE AfterUninstall

\* Faulty variant: a release that is not there cannot be uninstalled.
NoReleaseFails ==
  /\ tw.pc = "uninstall"
  /\ releases[ns] = "none"
  /\ Retry
  /\ OnlyWorker

NoRelease ==
  /\ tw.pc = "uninstall"
  /\ releases[ns] = "none"
  /\ Goto(AfterHelm)
  /\ OnlyWorker

\* The revision is marked, its objects deleted ...
HelmUninstall ==
  /\ tw.pc = "uninstall"
  /\ releases[ns] # "none"
  /\ Goto("purge")
  /\ releases' = [releases EXCEPT ![ns] = "uninstalling"]
  /\ ready' = [ready EXCEPT ![ns] = FALSE]
  /\ UNCHANGED missed
  /\ OnlyHelm

\* ... and its history purged.
HelmPurge ==
  /\ tw.pc = "purge"
  /\ Goto(AfterHelm)
  /\ releases' = [releases EXCEPT ![ns] = "none"]
  /\ missed' = missed \ {ns}
  /\ UNCHANGED ready
  /\ OnlyHelm

DeleteNamespace ==
  /\ tw.pc = "dropns"
  /\ Goto(AfterUninstall)
  /\ nss' = IF nss[ns] = "active" THEN [nss EXCEPT ![ns] = "terminating"] ELSE nss
  /\ OnlyNs

\* Patch without a version: a Tool that is marked deleted leaves with its
\* finalizer. A cache that lags may bring the worker here once more, when the
\* Tool is gone or another has its name.
RemoveFinalizer ==
  /\ tw.pc = "unfinalize"
  /\ \/ /\ me.live
        /\ tools' = [tools EXCEPT ![tw.name] =
                       IF me.deleting THEN GoneTool(me) ELSE Stored([me EXCEPT !.fin = FALSE])]
        /\ Done
     \/ /\ ~me.live
        /\ Retry
        /\ UNCHANGED tools
  /\ OnlyTools
-----------------------------------------------------------------------------
CheckHealth ==
  /\ tw.pc = "health"
  /\ tw' = [tw EXCEPT !.pc = "status", !.healthy = ready[ns]]
  /\ UNCHANGED queue
  /\ OnlyWorker

\* Faulty variant: nobody comes back to a Tool that is not healthy.
UpdateStatusOnce ==
  /\ tw.pc = "status"
  /\ \/ /\ CanWrite
        /\ tools' = [tools EXCEPT ![tw.name] =
                       Stored([tw.obj EXCEPT !.installed = tw.obj.spec.enabled,
                                             !.healthy = tw.healthy])]
        /\ Done
     \/ /\ ~CanWrite
        /\ Retry
        /\ UNCHANGED tools
  /\ OnlyTools

\* Installed says what was asked for. A Tool that is not healthy is looked at
\* again in five seconds, a disabled one too.
UpdateStatus ==
  /\ tw.pc = "status"
  /\ \/ /\ CanWrite
        /\ tools' = [tools EXCEPT ![tw.name] =
                       Stored([tw.obj EXCEPT !.installed = tw.obj.spec.enabled,
                                             !.healthy = tw.healthy])]
        /\ IF tw.healthy THEN Done ELSE Retry
     \/ /\ ~CanWrite
        /\ Retry
        /\ UNCHANGED tools
  /\ OnlyTools

WorkerStep ==
  \/ \E t \in Tools : ToolGet(t)
  \/ BeginDeletion \/ AddFinalizer \/ HasFinalizer
  \/ UnsupportedType \/ ChooseService
  \/ EnsureNamespace \/ HelmInstall \/ HelmUpgrade \/ HelmRefuses
  \/ HelmSucceeds \/ HelmTimesOut
  \/ NoRelease \/ HelmUninstall \/ HelmPurge \/ DeleteNamespace
  \/ RemoveFinalizer
  \/ CheckHealth \/ UpdateStatus
-----------------------------------------------------------------------------
SpendFault ==
  /\ budget.faults < MaxFaults
  /\ budget' = [budget EXCEPT !.faults = @ + 1]

\* A call fails (the API server, the chart repository, helm): retry. While helm
\* waits, a failure ends the revision as failed; see HelmTimesOut.
CallFails ==
  /\ tw.pc \notin {"idle", "wait"}
  /\ SpendFault
  /\ Retry
  /\ UNCHANGED <<tools, cache, releases, nss, ready, missed>>

\* But if what fails is helm's reading of the release's history, its error says
\* "Release not loaded", whatever the cause, and Uninstall takes that for there
\* being no release.
HistoryUnread ==
  /\ tw.pc = "uninstall"
  /\ releases[ns] # "none"
  /\ SpendFault
  /\ Goto(AfterHelm)
  /\ missed' = missed \cup {ns}
  /\ UNCHANGED <<tools, cache, releases, nss, ready>>

\* The manager restarts, in the middle of a helm operation perhaps.
Restart ==
  /\ SpendFault
  /\ tw' = Idle(AnyTool)
  /\ cache' = tools
  /\ queue' = {t \in Tools : tools[t].live}
  /\ UNCHANGED <<tools, releases, nss, ready, missed>>

Next ==
  \/ User \/ Kubernetes \/ WorkerStep
  \/ \E t \in Tools : Resync(t)
  \/ CallFails \/ HistoryUnread \/ Restart

Spec == Init /\ [][Next]_vars

\* The worker runs and serves every key, the informer catches up, the workload
\* of a release helm is waiting for comes up, a terminating namespace goes.
\* Nothing is promised about the resync, the user, the faults or the workload
\* of a release that has been deployed.
WorkerFairness ==
  /\ WF_vars(WorkerStep)
  /\ \A t \in Tools : SF_vars(ToolGet(t)) /\ WF_vars(SyncTool(t))

ClusterFairness ==
  \A n \in Namespaces : /\ WF_vars(WorkloadReady(n) /\ releases[n] # "deployed")
                        /\ WF_vars(NamespaceGone(n))

Fairness == WorkerFairness /\ ClusterFairness

ResyncFairness == \A t \in Tools : WF_vars(Resync(t))

FairSpec == Spec /\ Fairness

ResyncSpec == FairSpec /\ ResyncFairness

-----------------------------------------------------------------------------
(***************************************************************************)
(* Safety.                                                                 *)
(***************************************************************************)

\* There is no release, or an uninstall has taken it for gone.
Uninstalled(n) == releases[n] = "none" \/ n \in missed

\* As long as no Tool is moved to another namespace, the release a Tool asked
\* for is gone when it leaves with its finalizer, as handleDeletion of the
\* ToolReconciler promises, although the finalizer is removed by a patch that
\* would go through whatever has happened since the Tool was read; unless an
\* uninstall could not read the release's history (UninstalledFirst).
ReleasedClean ==
  [][\A t \in Tools : budget.moves = 0
       /\ tools[t].live /\ tools[t].fin /\ tools[t].spec.known /\ ~tools'[t].live
       => LET n == Resolved(tools[t].spec)
          IN  releases'[n] = "none" \/ n \in missed']_vars

Quiet(t) ==
  /\ tools[t].live /\ tools[t].spec.known
  /\ cache[t] = tools[t]
  /\ t \notin queue
  /\ tw.pc = "idle"

\* A Tool nobody is about to look at is as its status says: enabled, with its
\* release deployed in a namespace that stays, or disabled after an uninstall
\* that could not read the release's history, for a workload that is gone is
\* not ready. Every other outcome of a reconciliation (an error, a conflict, a
\* workload that is not ready, a Tool that is being deleted) puts the key back,
\* also after a restart in mid-operation.
QuietIsInstalled ==
  \A t \in Tools : Quiet(t) =>
    /\ ~tools[t].deleting /\ tools[t].fin
    /\ tools[t].healthy /\ tools[t].installed = tools[t].spec.enabled
    /\ LET n == Resolved(tools[t].spec)
       IN  IF tools[t].spec.enabled THEN releases[n] = "deployed" /\ nss[n] = "active"
                                    ELSE Uninstalled(n)

\* A namespace is deleted only for a Tool whose spec leaves it to the operator:
\* one the user named stays.
NamedNamespaceStays ==
  [][\A n \in Namespaces : nss[n] = "active" /\ nss'[n] = "terminating"
       => n = DefaultNs /\ tw.obj.spec.ns = Omitted]_vars

\* As long as no Tool is moved, a release, in whatever state a failed or cut
\* off operation left it, belongs to a Tool that is there, carries the finalizer
\* and will have to uninstall it before it goes; one it may share with others.
\* Only one that an uninstall has taken for gone may be left without.
ReleasesGuarded ==
  budget.moves = 0 =>
    \A n \in Namespaces : ~Uninstalled(n) =>
      \E t \in Tools : /\ tools[t].live /\ tools[t].fin /\ tools[t].spec.known
                       /\ Resolved(tools[t].spec) = n

Life(obj) ==
  IF ~obj.live THEN "absent"
  ELSE IF obj.deleting THEN "leaving"
  ELSE IF obj.fin THEN "protected" ELSE "bare"

ToolLife == INSTANCE ToolLifecycle WITH life <- [t \in Tools |-> Life(tools[t])]

\* A Tool keeps the finalizer it has been given until it goes: the patch that
\* removes it, which would go through on any Tool of that name, only ever finds
\* one that is marked deleted, whatever the cache has been read and written
\* since, and whoever was moved.
ToolsKeepLifecycle == ToolLife!Spec
-----------------------------------------------------------------------------
(***************************************************************************)
(* The inductive invariants behind them: modules ToolProofs and            *)
(* ToolQuietProofs.                                                        *)
(***************************************************************************)

\* A copy of a Tool is not ahead of it, and is the Tool if their versions agree.
Follows(copy, obj) == copy.rv <= obj.rv /\ (copy.rv = obj.rv => copy = obj)

Copies ==
  /\ \A t \in Tools : Follows(NoTool, tools[t]) /\ Follows(cache[t], tools[t])
  /\ Follows(tw.obj, me)

DeletingHasFinalizer == \A t \in Tools : tools[t].deleting => tools[t].fin

\* A namespace that is not there holds no release, one that goes only what was
\* taken for gone; what is not installed, or being uninstalled, has no workload.
NamespacesHoldReleases ==
  \A n \in Namespaces :
    /\ nss[n] = "absent" => releases[n] = "none"
    /\ nss[n] = "terminating" => Uninstalled(n)
    /\ n \in missed => releases[n] # "none"
    /\ releases[n] \in {"none", "uninstalling"} => ~ready[n]

\* What the worker has established on its way.
Installing   == {"ensurens", "helm", "wait"}
Uninstalling == {"uninstall", "purge", "dropns"}
Reporting    == {"health", "status"}

WorkerKnows ==
  /\ tw.pc # "idle" => tw.obj.live
  /\ tw.final => tw.pc \in Uninstalling \cup {"unfinalize"} /\ tw.obj.deleting
  /\ tw.pc = "unfinalize" => tw.final
  /\ tw.pc \notin {"idle", "start"} /\ ~tw.final => tw.obj.fin
  /\ tw.pc \in Installing => tw.obj.spec.enabled
  /\ tw.pc \in Uninstalling /\ ~tw.final => ~tw.obj.spec.enabled
  /\ tw.pc = "wait" => nss[ns] = "active"
  /\ tw.pc = "purge" => releases[ns] \in {"uninstalling", "none"}
  /\ tw.pc = "dropns" => tw.obj.spec.ns = Omitted
  /\ tw.pc = "dropns" \/ (tw.pc = "unfinalize" /\ tw.obj.spec.known) =>
       Uninstalled(ns)
  /\ tw.pc \in Reporting =>
       IF tw.obj.spec.enabled THEN releases[ns] = "deployed" /\ nss[ns] = "active"
                              ELSE Uninstalled(ns)

\* As long as no Tool is moved, whoever has read one that is being deleted, by
\* now perhaps followed by another of its name, means the release of any Tool
\* there is to take the finalizer from.
SameRelease(a, b) == a.spec.ns = b.spec.ns /\ a.spec.known = b.spec.known

DeletionKnows ==
  budget.moves = 0 =>
    /\ tw.pc # "idle" /\ tw.obj.deleting /\ me.live /\ me.fin =>
         SameRelease(me, tw.obj)
    /\ \A t \in Tools :
         cache[t].live /\ cache[t].deleting /\ tools[t].live /\ tools[t].fin =>
           SameRelease(tools[t], cache[t])
    /\ tw.pc = "start" /\ ~tw.obj.deleting /\ ~tw.obj.fin
       /\ cache[tw.name].live /\ cache[tw.name].deleting =>
         me.live /\ me.deleting

ToolInv ==
  /\ TypeOK /\ Copies /\ DeletingHasFinalizer
  /\ NamespacesHoldReleases /\ WorkerKnows /\ DeletionKnows

\* A worker that will not be called again works from the Tool as it is.
WorkerIsCurrent ==
  tw.pc # "idle" /\ cache[tw.name] = me /\ tw.name \notin queue =>
    /\ tw.obj = me
    /\ tw.pc # "start" => (tw.final <=> me.deleting)

\* Who has read a Tool that is marked deleted will find none that carries the
\* finalizer and is not, be there by now another of its name.
Marked(a, b) == a.live /\ a.deleting /\ b.live /\ b.fin => b.deleting

DeletionIsMarked ==
  /\ \A t \in Tools : Marked(cache[t], tools[t])
  /\ tw.pc # "idle" =>
       /\ Marked(tw.obj, me)
       /\ tw.pc = "start" \/ tw.final => Marked(tw.obj, cache[tw.name])
  /\ tw.pc = "start" /\ ~tw.obj.deleting /\ ~tw.obj.fin
     /\ cache[tw.name].live /\ cache[tw.name].deleting => me.live /\ me.deleting

\* As long as no Tool is moved, who has read a Tool with its finalizer has read
\* one that is there and means that release.
Guards(obj, t) == tools[t].live /\ tools[t].fin /\ SameRelease(tools[t], obj)

InstallationKnows ==
  budget.moves = 0 =>
    /\ \A t \in Tools :
         cache[t].live /\ cache[t].fin /\ ~cache[t].deleting => Guards(cache[t], t)
    /\ tw.pc = "start" /\ tw.obj.fin /\ ~tw.obj.deleting => Guards(tw.obj, tw.name)
    /\ tw.pc \notin {"idle", "start"} /\ ~tw.final => Guards(tw.obj, tw.name)

InstallsKnown == tw.pc \in Installing => tw.obj.spec.known

SharedInv ==
  /\ ToolInv /\ DeletionIsMarked
  /\ InstallsKnown /\ InstallationKnows /\ ReleasesGuarded

QuietInv == ToolInv /\ WorkerIsCurrent /\ QuietIsInstalled
-----------------------------------------------------------------------------
(***************************************************************************)
(* Liveness, under FairSpec.                                               *)
(***************************************************************************)
Wanted(t)   == tools[t].live /\ ~tools[t].deleting /\ tools[t].spec.known
                 /\ tools[t].spec.enabled
Unwanted(t) == tools[t].live /\ ~tools[t].deleting /\ tools[t].spec.known
                 /\ ~tools[t].spec.enabled

\* While nothing fails, an enabled Tool the user leaves alone ends up deployed
\* or, since every reconciliation upgrades, in an upgrade that will succeed, and
\* its status says so; also if it was enabled while its namespace was still
\* terminating, or moved from one namespace to another.
InstallEnds ==
  \A t \in Tools : <>[](Wanted(t) /\ budget.faults = 0 /\ budget.breaks = 0) =>
    <>[](/\ releases[Resolved(tools[t].spec)] \in {"pending", "deployed"}
         /\ ready[Resolved(tools[t].spec)]
         /\ tools[t].installed /\ tools[t].healthy)

\* A disabled one ends up with no release and a status that says so, whatever
\* has failed or broken before, unless an uninstall has taken the release for
\* gone. Even then it goes with the namespace if that is the operator's, but the
\* status may go on calling it healthy.
UninstallEnds ==
  \A t \in Tools :
    <>[](Unwanted(t) /\ Resolved(tools[t].spec) \notin missed) =>
      <>[](/\ releases[Resolved(tools[t].spec)] = "none" /\ ~tools[t].installed
           /\ tools[t].spec.ns # Omitted => ~tools[t].healthy)

\* A deleted Tool goes, whatever state its release was left in.
ToolDeletionEnds ==
  \A t \in Tools : tools[t].live /\ tools[t].deleting ~> ~tools[t].live
-----------------------------------------------------------------------------
(***************************************************************************)
(* What the documentation says and the code does not do. TLC refutes each. *)
(***************************************************************************)

\* README, tool controller flow: "If enabled: ToolService.EnsureInstalled (Helm
\* install/upgrade)". A restart while helm waits leaves a pending revision that
\* every later upgrade refuses.
EnabledGetsInstalled ==
  \A t \in Tools : <>[]Wanted(t) => <>(releases[Resolved(tools[t].spec)] = "deployed")

\* README, tool controller flow: "Tool CR deleted: ToolService.EnsureUninstalled,
\* Remove finalizer". An uninstall that cannot read the release's history ends
\* well, and the finalizer goes with the release still there.
UninstalledFirst ==
  [][\A t \in Tools :
       tools[t].live /\ tools[t].fin /\ tools[t].spec.known /\ ~tools'[t].live
       => releases'[Resolved(tools[t].spec)] = "none"]_vars
=============================================================================

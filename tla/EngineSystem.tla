----------------------------- MODULE EngineSystem -----------------------------
(***************************************************************************)
(* PolicyReconciler and PolicyReportReconciler for Policies of types falco *)
(* and litmus: each controller's own steps, around those of the engine or  *)
(* the handler that the factory chooses by type. Steps as in module        *)
(* PolicyController.                                                       *)
(***************************************************************************)
EXTENDS FalcoEngine, LitmusEngine

CONSTANT MaxFaults    \* bound on failed API calls and restarts

ASSUME EngineFaultsAssumption == MaxFaults \in Nat

VARIABLE faults       \* failed API calls and restarts so far

vars == <<clusterVars, pw, rw, faults>>
-----------------------------------------------------------------------------
(***************************************************************************)
(* PolicyReconciler.Reconcile.                                             *)
(***************************************************************************)
PolicyGet ==
  /\ pw.pc = "idle"
  /\ policyQueue
  /\ policyQueue' = FALSE
  /\ pw' = IF policyCache.live
             THEN [pw EXCEPT !.pc = "tool", !.pol = policyCache]
             ELSE IdlePolicyWorker
  /\ OnlyPolicyWorker

\* The Tool bears the name of the Policy's present type.
ToolFound == pw.pol.spec.type \in Installed

ToolNotFound ==
  /\ pw.pc = "tool"
  /\ ~ToolFound
  /\ PolicyRetry
  /\ OnlyPolicyWorker

UpdatePolicyAndStop(new) ==
  /\ IF CanWrite(pw.pol, policy)
       THEN policy' = new /\ PolicyDone
       ELSE UNCHANGED policy /\ PolicyRetry
  /\ PolicyWorkerKeeps(<<reports, cm, engines, rewrites>>)

Wanted == pw.pc = "tool" /\ ToolFound /\ ~pw.pol.deleting

AddFinalizer ==
  /\ Wanted
  /\ ~pw.pol.fin
  /\ UpdatePolicyAndStop(Stored([pw.pol EXCEPT !.fin = TRUE], policy))

\* A Policy that has changed its type gets one more owner.
SetOwner ==
  /\ Wanted
  /\ pw.pol.fin
  /\ pw.pol.spec.type \notin pw.pol.owners
  /\ UpdatePolicyAndStop(
       Stored([pw.pol EXCEPT !.owners = @ \cup {pw.pol.spec.type}], policy))

Owned == Wanted /\ pw.pol.fin /\ pw.pol.spec.type \in pw.pol.owners

BeginCleanup ==
  /\ \/ pw.pc = "tool" /\ ToolFound /\ pw.pol.deleting /\ pw.pol.fin
     \/ Owned /\ ~pw.pol.spec.enabled
  /\ PolicyGoes([pw EXCEPT !.pc = "cleanup", !.spaces = SpacesOf(pw.pol.spec)])
  /\ OnlyPolicyWorker

Valid(spec) == IF spec.type = "falco" THEN FalcoValid(spec) ELSE LitmusValid(spec)

RejectInvalid ==
  /\ Owned
  /\ pw.pol.spec.enabled
  /\ ~Valid(pw.pol.spec)
  /\ PolicyRetry
  /\ OnlyPolicyWorker

\* Faulty variant: the engine starts before the finalizer is there.
BeginReconcileEarly ==
  /\ Wanted
  /\ pw.pol.spec.enabled
  /\ Valid(pw.pol.spec)
  /\ PolicyGoes([pw EXCEPT !.pc = "reconcile", !.exps = Listed(pw.pol.spec)])
  /\ OnlyPolicyWorker

BeginReconcile ==
  /\ Owned
  /\ pw.pol.spec.enabled
  /\ Valid(pw.pol.spec)
  /\ PolicyGoes([pw EXCEPT !.pc = "reconcile", !.exps = Listed(pw.pol.spec)])
  /\ OnlyPolicyWorker
-----------------------------------------------------------------------------
\* Either engine's Cleanup ends with the reports that name the Policy, those of
\* the other type too, as the cache lists them.
ListReports ==
  /\ pw.pc = "list"
  /\ PolicyGoes([pw EXCEPT !.pc = "reports",
                           !.reps = {t \in Types : reportCache[t].live}])
  /\ OnlyPolicyWorker

Missing(listed, t) ==
  IF pw.pol.spec.type = "falco" THEN FalcoSkipsAfterMissing(listed, t)
                                ELSE LitmusSkipsAfterMissing(listed, t)

DeleteListedReport(t) ==
  /\ pw.pc = "reports"
  /\ t \in pw.reps
  /\ IF reports[t].live
       THEN /\ reports' = [reports EXCEPT ![t] = Gone(NoReport, reports[t])]
            /\ PolicyGoes([pw EXCEPT !.reps = @ \ {t}])
       ELSE UNCHANGED reports /\ PolicyGoes([pw EXCEPT !.reps = Missing(@, t)])
  /\ PolicyWorkerKeeps(<<policy, cm, engines, rewrites>>)

CleanedUp == pw.pc = "reports" /\ pw.reps = {}

DisabledDone ==
  /\ CleanedUp
  /\ ~pw.pol.deleting
  /\ PolicyDone
  /\ OnlyPolicyWorker

RemoveFinalizer ==
  /\ CleanedUp
  /\ pw.pol.deleting
  /\ UpdatePolicyAndStop(GonePolicy(policy))
-----------------------------------------------------------------------------
(***************************************************************************)
(* GenerateReport of both engines returns a fresh object that already      *)
(* names the current generation, so needsRescan is false and no report is  *)
(* ever reset. CreateOrUpdate then creates it or moves the one it finds to *)
(* the new generation, its result included.                                *)
(***************************************************************************)
type == pw.pol.spec.type

Upserted == PolicyGoes([pw EXCEPT !.pc = "status"])

UpsertCreate ==
  /\ pw.pc = "upsert"
  /\ ~reportCache[type].live
  /\ IF reports[type].live                       \* AlreadyExists
       THEN UNCHANGED reports /\ PolicyRetry
       ELSE /\ reports' = [reports EXCEPT ![type] =
                 [NoReport EXCEPT !.live = TRUE, !.rv = reports[type].rv + 1,
                                  !.uid = pw.pol.uid, !.gen = pw.pol.gen]]
            /\ Upserted
  /\ PolicyWorkerKeeps(<<policy, cm, engines, rewrites>>)

\* Faulty variant: any report will do.
ReportAlwaysRight == TRUE

ReportRight == reportCache[type].gen = pw.pol.gen

UpsertNothing ==
  /\ pw.pc = "upsert"
  /\ reportCache[type].live
  /\ ReportRight
  /\ Upserted
  /\ OnlyPolicyWorker

UpsertUpdate ==
  /\ pw.pc = "upsert"
  /\ reportCache[type].live
  /\ ~ReportRight
  /\ IF CanWrite(reportCache[type], reports[type])
       THEN /\ reports' = [reports EXCEPT ![type] =
                 [reportCache[type] EXCEPT !.uid = pw.pol.uid, !.gen = pw.pol.gen,
                                           !.rv = @ + 1]]
            /\ Upserted
       ELSE UNCHANGED reports /\ PolicyRetry
  /\ PolicyWorkerKeeps(<<policy, cm, engines, rewrites>>)

\* Faulty variant: the status is written whatever has become of the Policy.
UpdateStatusBlindly ==
  /\ pw.pc = "status"
  /\ policy.live
  /\ policy' = [policy EXCEPT !.obsGen = pw.pol.gen, !.rv = @ + 1]
  /\ PolicyDone
  /\ PolicyWorkerKeeps(<<reports, cm, engines, rewrites>>)

UpdateStatus ==
  /\ pw.pc = "status"
  /\ UpdatePolicyAndStop(Stored([pw.pol EXCEPT !.obsGen = pw.pol.gen], policy))

PolicyWorkerStep ==
  \/ PolicyGet \/ ToolNotFound \/ AddFinalizer \/ SetOwner
  \/ BeginCleanup \/ RejectInvalid \/ BeginReconcile
  \/ FalcoStep \/ LitmusStep
  \/ ListReports \/ \E t \in Types : DeleteListedReport(t)
  \/ DisabledDone \/ RemoveFinalizer
  \/ UpsertCreate \/ UpsertNothing \/ UpsertUpdate \/ UpdateStatus
-----------------------------------------------------------------------------
(***************************************************************************)
(* PolicyReportReconciler.Reconcile; one worker for the reports of either  *)
(* type.                                                                   *)
(***************************************************************************)
ReportGet(t) ==
  /\ rw.pc = "idle"
  /\ t \in reportQueue
  /\ reportQueue' = reportQueue \ {t}
  /\ rw' = IF reportCache[t].live /\ ~reportCache[t].done
             THEN [pc |-> "policy", type |-> t, rep |-> reportCache[t]]
             ELSE IdleReportWorker
  /\ ReportWorkerKeeps
  /\ UNCHANGED reports

PolicyFound ==
  /\ rw.pc = "policy"
  /\ policyCache.live
  /\ rw' = [rw EXCEPT !.pc = "handle"]
  /\ ReportWorkerKeeps
  /\ UNCHANGED <<reports, reportQueue>>

DeleteOrphan ==
  /\ rw.pc = "policy"
  /\ ~policyCache.live
  /\ IF reports[rw.type].live
       THEN /\ reports' = [reports EXCEPT ![rw.type] = Gone(NoReport, reports[rw.type])]
            /\ ReportDone
       ELSE UNCHANGED reports /\ ReportRetry
  /\ ReportWorkerKeeps

ReportWorkerStep ==
  \/ \E t \in Types : ReportGet(t)
  \/ PolicyFound \/ DeleteOrphan
  \/ FalcoHandle \/ FalcoHandleFails \/ LitmusHandle \/ LitmusHandleFails
-----------------------------------------------------------------------------
(***************************************************************************)
(* Faults, the resync and the system.                                      *)
(***************************************************************************)
Restart ==
  /\ pw' = IdlePolicyWorker /\ rw' = IdleReportWorker
  /\ policyCache' = policy /\ reportCache' = reports
  /\ cmCache' = cm /\ engineCache' = engines
  /\ policyQueue' = policy.live
  /\ reportQueue' = {t \in Types : reports[t].live}
  /\ UNCHANGED <<policy, reports, cm, engines, edits, rewrites>>

PolicyCallFails == pw.pc # "idle" /\ PolicyRetry /\ OnlyPolicyWorker

ReportCallFails ==
  rw.pc # "idle" /\ ReportRetry /\ ReportWorkerKeeps /\ UNCHANGED reports

Fault ==
  /\ faults < MaxFaults
  /\ faults' = faults + 1
  /\ PolicyCallFails \/ ReportCallFails \/ Restart

Resync ==
  /\ pw.pc = "idle"
  /\ ~policyQueue
  /\ policyCache.live
  /\ policyQueue' = TRUE
  /\ UNCHANGED pw
  /\ OnlyPolicyWorker

Init == EngineInit /\ faults = 0

Next ==
  \/ (UserStep \/ ClusterStep \/ Resync \/ PolicyWorkerStep \/ ReportWorkerStep)
       /\ UNCHANGED faults
  \/ Fault

Spec == Init /\ [][Next]_vars

\* Both workers run and serve every key, the informers and the garbage
\* collector catch up, and the resync comes. Nothing is promised about the
\* user, the faults, or whether Litmus runs what it is given.
NoFault(A) == A /\ UNCHANGED faults

FairSpec ==
  /\ Spec
  /\ WF_vars(NoFault(PolicyWorkerStep)) /\ WF_vars(NoFault(ReportWorkerStep))
  /\ WF_vars(NoFault(SyncPolicy)) /\ WF_vars(NoFault(SyncConfigMap))
  /\ WF_vars(NoFault(GCConfigMap)) /\ WF_vars(NoFault(Resync))
  /\ \A t \in Types : /\ SF_vars(NoFault(ReportGet(t)))
                      /\ WF_vars(NoFault(SyncReport(t)))
  /\ \A x \in Slots : WF_vars(NoFault(SyncEngine(x)))
-----------------------------------------------------------------------------
TypeOK == EngineTypeOK /\ faults \in Nat

FalcoReport == INSTANCE ReportLifecycle WITH
  live <- reports["falco"].live,
  asks <- [uid |-> reports["falco"].uid, gen |-> reports["falco"].gen],
  done <- reports["falco"].done,
  result <- [uid |-> reports["falco"].forUid, gen |-> reports["falco"].forGen]

LitmusReport == INSTANCE ReportLifecycle WITH
  live <- reports["litmus"].live,
  asks <- [uid |-> reports["litmus"].uid, gen |-> reports["litmus"].gen],
  done <- reports["litmus"].done,
  result <- [uid |-> reports["litmus"].forUid, gen |-> reports["litmus"].forGen]

\* The reports of both types live the life of module ReportLifecycle: although
\* the handlers read the Policy from a cache and Cleanup deletes reports while
\* they work, nothing is completed twice or from a Policy older than the report
\* asks for.
ReportsFollowLifecycle == FalcoReport!Spec /\ LitmusReport!Spec

(***************************************************************************)
(* The inductive invariant behind it: module EngineProofs.                 *)
(***************************************************************************)

\* A copy is not ahead of the object, and is the object if their versions agree.
Follows(copy, obj) == copy.rv <= obj.rv /\ (copy.rv = obj.rv => copy = obj)

\* What a asks for, or is, is no newer than what b is.
Upto(a, b) == a.uid < b.uid \/ (a.uid = b.uid /\ a.gen <= b.gen)

Copies ==
  /\ Follows(policyCache, policy)
  /\ pw.pc # "idle" => Follows(pw.pol, policy)
  /\ \A t \in Types : Follows(reportCache[t], reports[t])
  /\ rw.pc # "idle" => Follows(rw.rep, reports[rw.type])

\* No report asks for a Policy that the handlers cannot see yet.
Chain ==
  /\ Upto(policyCache, policy)
  /\ \A t \in Types : Upto(reports[t], policyCache)
  /\ pw.pc # "idle" => /\ Upto(pw.pol, policyCache)
                       /\ \A t \in Types : Upto(reports[t], pw.pol)

\* Nothing is left of a report that is gone, and none is completed twice.
ReportsKnown ==
  /\ \A t \in Types : ~reports[t].live =>
       /\ reports[t].uid = 0 /\ reports[t].gen = 0 /\ ~reports[t].done
       /\ reports[t].forUid = 0 /\ reports[t].forGen = 0
  /\ rw.pc # "idle" => ~rw.rep.done

\* The policy worker reconciles experiments its copy of the Policy lists.
ExperimentsKnown ==
  /\ pw.exps \subseteq Listed(pw.pol.spec)
  /\ pw.pc = "idle" => pw.exps = {}

EngineInv == TypeOK /\ Copies /\ Chain /\ ReportsKnown /\ ExperimentsKnown
-----------------------------------------------------------------------------
(***************************************************************************)
(* Safety: what the controllers make, and what they say of it.             *)
(***************************************************************************)

\* What Litmus has written to a ChaosEngine's status is not undone by an engine
\* that writes the whole object from its cache (litmus.Engine.Reconcile).
LitmusStatusKept ==
  [][\A x \in Slots :
       engines[x].live /\ engines[x].ran /\ engines'[x].live => engines'[x].ran]_vars

\* As for a Policy of type trivy, whatever the type or its changes: see module
\* PolicyLifecycle.
PolicyLife == INSTANCE PolicyLifecycle WITH
  live <- policy.live,
  version <- [uid |-> policy.uid, gen |-> policy.gen],
  fin <- policy.fin,
  deleting <- policy.deleting,
  obs <- policy.obsGen

PolicyKeepsLifecycle == PolicyLife!Spec

\* The ConfigMap goes when its Policy does, through the garbage collector or
\* Cleanup; the reports, which nobody owns, have Cleanup alone, and so no Policy
\* has one without a finalizer.
Belongs(uid) == policy.live /\ policy.uid = uid

Serving(p) == p.spec.enabled /\ ~p.deleting

NothingUnguarded ==
  /\ cm.live => cm.owner # 0 /\ (Belongs(cm.owner) => policy.fin)
  /\ \A t \in Types : reports[t].live /\ Belongs(reports[t].uid) => policy.fin

\* A Policy whose present generation is called observed has a report that names
\* that generation, whatever Cleanup, the report controller and the caches have
\* been through. The first Policy of its name only: the engines take a cached
\* report of an earlier one for their own if it names the same generation.
ReportThere(p) ==
  LET r == reports[p.spec.type] IN r.live /\ r.uid = p.uid /\ r.gen = p.gen

ObservedHasReport ==
  Belongs(1) /\ policy.obsGen = policy.gen => ReportThere(policy)

\* The ConfigMap of a falco Policy whose present generation is called observed,
\* if there is one, is its own: the garbage collector will not take it as an
\* earlier Policy's, whichever of the two engine and cache were about
\* (falco.Engine.Reconcile sets the controller reference before it writes).
ObservedOwnsConfigMap ==
  /\ policy.live /\ Serving(policy) /\ policy.spec.type = "falco"
  /\ policy.obsGen = policy.gen /\ cm.live
  => cm.owner = policy.uid

\* A Policy nobody is about to look at has all that a reconciliation gives it,
\* and its present generation is called observed; a disabled one has nothing
\* that Cleanup would stop at. So every other end of a reconciliation (a
\* conflict, a Tool that is missing, a failed call, a panic, a restart) must put the key back.
PolicyQuiet ==
  policy.live /\ policyCache = policy /\ ~policyQueue /\ pw.pc = "idle"

Cleanable(spec) == spec.type = "litmus" => spec.litmus # Absent

QuietIsServed ==
  PolicyQuiet =>
    /\ ~policy.deleting /\ policy.fin
    /\ policy.spec.type \in policy.owners \cap Installed
    /\ IF policy.spec.enabled
         THEN Valid(policy.spec) /\ policy.obsGen = policy.gen
         ELSE Cleanable(policy.spec)

\* Likewise a report of either type nobody is about to look at is Completed,
\* although the one worker serves both types and may fail with either.
ReportQuiet(t) ==
  /\ reports[t].live /\ reportCache[t] = reports[t] /\ t \notin reportQueue
  /\ rw.pc = "idle" \/ rw.type # t

QuietReportsAreDone == \A t \in Types : ReportQuiet(t) => reports[t].done

(***************************************************************************)
(* The inductive invariants behind it: module EngineGuardProofs.           *)
(***************************************************************************)
ObjectCopies ==
  /\ Follows(cmCache, cm)
  /\ \A x \in Slots : Follows(engineCache[x], engines[x])

\* Copy a of the Policy was taken from b at some time: as long as b lives under
\* the same uid, so did a, the finalizer stays, and a generation has one spec.
Earlier(a, b) ==
  b.live /\ a.uid = b.uid =>
    /\ a.live
    /\ a.fin => b.fin
    /\ a.gen = b.gen => a.spec = b.spec /\ a.deleting = b.deleting

PastFinalizer ==
  /\ policy.live => policy.uid # 0 /\ policy.gen # 0
  /\ ~policy.live => ~policy.fin /\ ~policy.deleting /\ policy.obsGen = 0
  /\ policyCache.live => policyCache.uid # 0
  /\ Earlier(policyCache, policy)
  /\ pw.pc # "idle" =>
       /\ pw.pol.live /\ pw.pol.uid # 0
       /\ Earlier(pw.pol, policy) /\ Earlier(pw.pol, policyCache)
  /\ pw.pc \notin {"idle", "tool"} => pw.pol.fin
  /\ pw.pc \in {"cleanup", "list", "reports"} => ~Serving(pw.pol)
  /\ pw.pc \in {"reconcile", "upsert", "status"} => Serving(pw.pol)

\* No Policy owns or owned anything before it was created.
OwnerKnown == cm.live => cm.owner <= policy.uid

GuardInv ==
  EngineInv /\ ObjectCopies /\ PastFinalizer /\ OwnerKnown /\ NothingUnguarded

\* The generation observed is one the cache has shown, and the worker's copy is
\* no older; it is not one that asks for a cleanup.
ObservedIsSeen ==
  policy.live =>
    /\ policy.obsGen <= policy.gen
    /\ policy.obsGen = policy.gen => Serving(policy)
    /\ policy.obsGen # 0 =>
         /\ policy.uid = policyCache.uid /\ policy.obsGen <= policyCache.gen
         /\ pw.pc # "idle" => policy.uid = pw.pol.uid /\ policy.obsGen <= pw.pol.gen

\* No cached report asks for a Policy that is not in the cache yet, and one that
\* names the generation of an enabled Policy is still there.
CachedIsThere(p) ==
  LET r == reportCache[p.spec.type]
  IN  p.uid = 1 /\ Serving(p) /\ r.live /\ r.gen = p.gen => ReportThere(p)

CachedReports ==
  /\ \A t \in Types :
       /\ Upto(reportCache[t], policyCache)
       /\ pw.pc # "idle" => Upto(reportCache[t], pw.pol)
       /\ reportCache[t].live => reportCache[t].uid # 0
       /\ reports[t].live => reports[t].uid # 0
  /\ Belongs(1) =>
       /\ CachedIsThere(policy) /\ CachedIsThere(policyCache)
       /\ pw.pc # "idle" => CachedIsThere(pw.pol)
       /\ pw.pc = "status" => ReportThere(pw.pol)

EngineObservedInv == GuardInv /\ ObservedIsSeen /\ CachedReports /\ ObservedHasReport

\* The ConfigMap's owner, there and in the cache, is no later Policy than the
\* one in the cache or the worker's, and past the engine it is the worker's.
ConfigMapKnown ==
  /\ \A c \in {cm, cmCache} : c.live =>
       /\ c.owner <= policyCache.uid
       /\ pw.pc # "idle" => c.owner <= pw.pol.uid
  /\ cm.live /\ cmCache.live => cmCache.owner <= cm.owner
  /\ pw.pc \in {"upsert", "status"} /\ pw.pol.spec.type = "falco" /\ cm.live =>
       cm.owner = pw.pol.uid

EngineOwnerInv == EngineObservedInv /\ ConfigMapKnown /\ ObservedOwnsConfigMap

\* A worker that has not been called again has the Policy the cache has, and
\* what it has checked holds of it.
WorkerChecked ==
  /\ pw.pc # "idle" /\ ~policyQueue => pw.pol = policyCache
  /\ pw.pc \notin {"idle", "tool"} =>
       /\ pw.pol.spec.type \in Installed
       /\ pw.pol.deleting \/ pw.pol.spec.type \in pw.pol.owners
  /\ pw.pc \in {"reconcile", "upsert", "status"} => Valid(pw.pol.spec)
  /\ pw.pc \in {"list", "reports"} => Cleanable(pw.pol.spec)

QuietInv == EngineObservedInv /\ WorkerChecked /\ QuietIsServed /\ QuietReportsAreDone
-----------------------------------------------------------------------------
\* The Policy exists and the user does not delete it, its type is t and its Tool
\* is there.
Serves(t) ==
  policy.live /\ ~policy.deleting /\ policy.spec.type = t /\ t \in Installed

Active(t) == Serves(t) /\ policy.spec.enabled /\ Valid(policy.spec)

\* A falco Policy the user leaves alone ends up with a ConfigMap of its own that
\* holds its spec, also after an edit, or when the ConfigMap of an earlier
\* Policy of that name is still about or, in the cache only, seems to be
\* (falco.Engine.Reconcile).
ConfigMapFollowsSpec ==
  <>[]Active("falco")
  => <>[](cm.live /\ cm.owner = policy.uid /\ cm.data = policy.spec.falco)

\* A litmus Policy the user leaves alone ends up with a ChaosEngine for every
\* experiment, in its namespace and as the spec has it, whatever Litmus writes
\* to it meanwhile (litmus.Engine.Reconcile).
EnginesFollowSpec ==
  <>[]Active("litmus")
  => <>[](\A e \in Listed(policy.spec) :
            /\ engines[SlotOf(policy.spec, e)].live
            /\ engines[SlotOf(policy.spec, e)].app = policy.spec.litmus[e].app)

\* Such a Policy ends up with a Completed report that names its generation.
\* What the result was computed from is another matter: neither engine's report is
\* ever reset, so an edit may leave it with the result of the spec before.
ReportCompletes ==
  \A t \in Types :
    <>[](Active(t) /\ (t = "falco" => HasRuleRef(policy.spec)))
    => <>[](reports[t].live /\ reports[t].done /\ reports[t].gen = policy.gen)

\* A disabled Policy ends up with none of its type's objects in the namespaces
\* its spec names and with no report of either type, although Cleanup works from
\* cached lists and falco's stops at the first report that is already gone.
DisabledLeavesNothing ==
  \A t \in Types :
    <>[](Serves(t) /\ ~policy.spec.enabled /\ (t = "litmus" => policy.spec.litmus # Absent))
    => <>[](/\ \A u \in Types : ~reports[u].live
            /\ t = "falco" => ~cm.live
            /\ t = "litmus" => \A e \in Experiments, f \in Listed(policy.spec) :
                                 ~engines[e, policy.spec.litmus[f].ns].live)

Deletable ==
  policy.spec.type \in Installed
  /\ (policy.spec.type = "litmus" => policy.spec.litmus # Absent)

\* A deleted Policy goes, if the Tool of its type is there and it has the
\* section its type needs: no Policy stays marked for ever, and a mark goes only
\* with its Policy.
DeletionEnds ==
  <>[](policy.live => Deletable) => ~<>[](policy.live /\ policy.deleting)

\* Once the Policy is gone for good, so are its ConfigMap, which it owns, and
\* every report the report controller can still find unfinished; Cleanup alone,
\* which works from a cache, promises neither.
OrphansCollected ==
  <>[](~policy.live)
  => <>[](~cm.live /\ \A t \in Types : reports[t].live => reports[t].done)
-----------------------------------------------------------------------------
(***************************************************************************)
(* What the documentation says and the code does not do. TLC refutes it.   *)
(***************************************************************************)

\* README: "Policy CR deleted: Engine.Cleanup (delete Jobs / ConfigMaps /
\* ChaosEngines / Reports)". A ChaosEngine in a namespace the spec no longer
\* names, or not yet in the cache, is not found.
NoChaosAfterDeletion ==
  <>[](~policy.live) => <>[](\A x \in Slots : ~engines[x].live)
=============================================================================

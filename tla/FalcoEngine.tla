------------------------------ MODULE FalcoEngine ------------------------------
(***************************************************************************)
(* falco.Engine, which turns a Policy into a ConfigMap, and                *)
(* FalcoReportHandler, which completes its report.                         *)
(***************************************************************************)
EXTENDS EngineCluster

HasRuleRef(spec) == spec.falco # Absent /\ spec.falco.ref # NoRule

\* Validate: spec.falco with either a ruleRef or a ruleSelector. A ruleRef
\* with an empty name, refused too, is not among the specs modelled.
FalcoValid(spec) == spec.falco # Absent /\ HasRuleRef(spec) # spec.falco.selector

FalcoTurn(pc) == pw.pc = pc /\ pw.pol.spec.type = "falco"

\* Faulty variant: nobody owns the ConfigMap.
FreshConfigMapUnowned ==
  [live |-> TRUE, rv |-> cm.rv + 1, owner |-> 0, data |-> pw.pol.spec.falco]

FreshConfigMap ==
  [live |-> TRUE, rv |-> cm.rv + 1, owner |-> pw.pol.uid,
   data |-> pw.pol.spec.falco]

\* Reconcile: CreateOrUpdate of the ConfigMap.
CreateConfigMap ==
  /\ FalcoTurn("reconcile")
  /\ ~cmCache.live
  /\ IF cm.live                                  \* AlreadyExists
       THEN UNCHANGED cm /\ PolicyRetry
       ELSE cm' = FreshConfigMap /\ PolicyGoes([pw EXCEPT !.pc = "upsert"])
  /\ PolicyWorkerKeeps(<<policy, reports, engines, rewrites>>)

CachedConfigMap == FalcoTurn("reconcile") /\ cmCache.live

\* Faulty variants: a ConfigMap that exists is left as it is, or looked at for
\* its data only.
ConfigMapAlwaysRight == TRUE

ConfigMapRightByData == cmCache.data = pw.pol.spec.falco

\* The mutate function sets the controller reference and the data.
\* SetControllerReference knows the owner by group, kind and name: to it an
\* earlier Policy of that name is this one, whose uid it replaces.
ConfigMapRight == cmCache.owner = pw.pol.uid /\ cmCache.data = pw.pol.spec.falco

KeepConfigMap ==
  /\ CachedConfigMap
  /\ ConfigMapRight
  /\ PolicyGoes([pw EXCEPT !.pc = "upsert"])
  /\ OnlyPolicyWorker

UpdatedConfigMap ==
  [cmCache EXCEPT !.owner = pw.pol.uid, !.data = pw.pol.spec.falco, !.rv = @ + 1]

\* Faulty variant: a conflict is left to the next event, and ConfigMaps have none.
UpdateConfigMapOnce ==
  /\ CachedConfigMap
  /\ ~ConfigMapRight
  /\ IF CanWrite(cmCache, cm)
       THEN cm' = UpdatedConfigMap /\ PolicyGoes([pw EXCEPT !.pc = "upsert"])
       ELSE UNCHANGED cm /\ PolicyDone
  /\ PolicyWorkerKeeps(<<policy, reports, engines, rewrites>>)

UpdateConfigMap ==
  /\ CachedConfigMap
  /\ ~ConfigMapRight
  /\ IF CanWrite(cmCache, cm)
       THEN cm' = UpdatedConfigMap /\ PolicyGoes([pw EXCEPT !.pc = "upsert"])
       ELSE UNCHANGED cm /\ PolicyRetry
  /\ PolicyWorkerKeeps(<<policy, reports, engines, rewrites>>)

\* Faulty variants: a ConfigMap the cache does not show is an error, or the end
\* of the cleanup.
ConfigMapMustExist ==
  FalcoTurn("cleanup") /\ ~cmCache.live /\ PolicyRetry /\ OnlyPolicyWorker

NoConfigMapNoReport ==
  /\ FalcoTurn("cleanup")
  /\ ~cmCache.live
  /\ PolicyGoes([pw EXCEPT !.pc = "reports"])
  /\ OnlyPolicyWorker

\* Cleanup, first half: a ConfigMap the cache shows is deleted, and it is an
\* error if it is gone by then.
NoConfigMapFound ==
  /\ FalcoTurn("cleanup")
  /\ ~cmCache.live
  /\ PolicyGoes([pw EXCEPT !.pc = "list"])
  /\ OnlyPolicyWorker

DeleteConfigMap ==
  /\ FalcoTurn("cleanup")
  /\ cmCache.live
  /\ IF cm.live
       THEN cm' = Gone(NoConfigMap, cm) /\ PolicyGoes([pw EXCEPT !.pc = "list"])
       ELSE UNCHANGED cm /\ PolicyRetry
  /\ PolicyWorkerKeeps(<<policy, reports, engines, rewrites>>)

\* Cleanup, second half: the first report that is gone already ends it.
FalcoSkipsAfterMissing(listed, t) == {}

FalcoStep ==
  \/ CreateConfigMap \/ KeepConfigMap \/ UpdateConfigMap
  \/ NoConfigMapFound \/ DeleteConfigMap
-----------------------------------------------------------------------------
\* FalcoReportHandler.Reconcile: between none and four events, drawn at random,
\* decide the verdict. The pods it names are left out.
FalcoHandle ==
  /\ rw.pc = "handle"
  /\ rw.type = "falco"
  /\ policyCache.live
  /\ HasRuleRef(policyCache.spec)
  /\ \E eventCount \in 0..4 :
       WriteResult(policyCache, IF eventCount > 0 THEN "Fail" ELSE "Pass")
  /\ ReportWorkerKeeps

\* Faulty variant: a report that cannot be completed yet is forgotten.
FalcoHandleFailsOnce ==
  /\ rw.pc = "handle"
  /\ rw.type = "falco"
  /\ ~(policyCache.live /\ HasRuleRef(policyCache.spec))
  /\ ReportDone
  /\ ReportWorkerKeeps
  /\ UNCHANGED reports

\* No Policy in the cache is an error, no ruleRef a nil dereference.
FalcoHandleFails ==
  /\ rw.pc = "handle"
  /\ rw.type = "falco"
  /\ ~(policyCache.live /\ HasRuleRef(policyCache.spec))
  /\ ReportRetry
  /\ ReportWorkerKeeps
  /\ UNCHANGED reports
=============================================================================

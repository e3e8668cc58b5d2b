------------------------------ MODULE LitmusEngine ------------------------------
(***************************************************************************)
(* litmus.Engine, which keeps a ChaosEngine for every experiment of a      *)
(* Policy, in the namespace the experiment names, and LitmusReportHandler, *)
(* which completes its report.                                             *)
(***************************************************************************)
EXTENDS EngineCluster

\* The experiments a spec lists, and the slot of each.
Listed(spec) ==
  IF spec.litmus = Absent THEN {}
  ELSE {e \in Experiments : spec.litmus[e] # Unlisted}

SlotOf(spec, e) == <<e, spec.litmus[e].ns>>

\* Validate. Experiments with an incomplete appInfo, refused too, are not among
\* the specs modelled.
LitmusValid(spec) == Listed(spec) # {}

LitmusTurn(pc) == pw.pc = pc /\ pw.pol.spec.type = "litmus"

EngineKeeps == PolicyWorkerKeeps(<<policy, reports, cm>>)

Reached(e) == PolicyGoes([pw EXCEPT !.exps = @ \ {e}])

AtExperiment(e) == LitmusTurn("reconcile") /\ e \in pw.exps

\* Reconcile: CreateOrUpdate of the ChaosEngine of one experiment.
CreateChaosEngine(e) ==
  LET x == SlotOf(pw.pol.spec, e)
  IN  /\ AtExperiment(e)
      /\ ~engineCache[x].live
      /\ IF engines[x].live                      \* AlreadyExists
           THEN UNCHANGED engines /\ PolicyRetry
           ELSE /\ engines' = [engines EXCEPT ![x] =
                     [live |-> TRUE, rv |-> engines[x].rv + 1,
                      app |-> pw.pol.spec.litmus[e].app, ran |-> FALSE]]
                /\ Reached(e)
      /\ EngineKeeps
      /\ UNCHANGED rewrites

\* Faulty variant: a ChaosEngine that exists is left as it is.
EngineAlwaysRight(e) == engineCache[SlotOf(pw.pol.spec, e)].live

EngineRight(e) ==
  LET seen == engineCache[SlotOf(pw.pol.spec, e)]
  IN  seen.live /\ seen.app = pw.pol.spec.litmus[e].app

KeepChaosEngine(e) ==
  /\ AtExperiment(e)
  /\ EngineRight(e)
  /\ Reached(e)
  /\ EngineKeeps
  /\ UNCHANGED <<engines, rewrites>>

\* Faulty variant: the version of the ChaosEngine is not checked.
WriteChaosEngineBlindly(e) ==
  LET x == SlotOf(pw.pol.spec, e)
  IN  /\ IF engines[x].live
           THEN /\ engines' = [engines EXCEPT ![x] =
                     [engineCache[x] EXCEPT !.app = pw.pol.spec.litmus[e].app,
                                            !.rv = engines[x].rv + 1]]
                /\ Reached(e)
           ELSE UNCHANGED engines /\ PolicyRetry
      /\ EngineKeeps

\* Faulty variant: a conflict is left to the event of the other write, which
\* no one watches.
WriteChaosEngineOnce(e) ==
  LET x == SlotOf(pw.pol.spec, e)
  IN  /\ IF CanWrite(engineCache[x], engines[x])
           THEN /\ engines' = [engines EXCEPT ![x] =
                     [engineCache[x] EXCEPT !.app = pw.pol.spec.litmus[e].app,
                                            !.rv = @ + 1]]
                /\ Reached(e)
           ELSE UNCHANGED engines /\ PolicyDone
      /\ EngineKeeps

WriteChaosEngine(e) ==
  LET x == SlotOf(pw.pol.spec, e)
  IN  /\ IF CanWrite(engineCache[x], engines[x])
           THEN /\ engines' = [engines EXCEPT ![x] =
                     [engineCache[x] EXCEPT !.app = pw.pol.spec.litmus[e].app,
                                            !.rv = @ + 1]]
                /\ Reached(e)
           ELSE UNCHANGED engines /\ PolicyRetry
      /\ EngineKeeps

UpdateChaosEngine(e) ==
  /\ AtExperiment(e)
  /\ engineCache[SlotOf(pw.pol.spec, e)].live
  /\ ~EngineRight(e)
  /\ WriteChaosEngine(e)
  /\ UNCHANGED rewrites

\* buildEnvVars lists the parameters in the order of a map iteration, so that
\* an unchanged ChaosEngine may be written again.
RewriteChaosEngine(e) ==
  /\ rewrites < MaxRewrites
  /\ AtExperiment(e)
  /\ EngineRight(e)
  /\ WriteChaosEngine(e)
  /\ rewrites' = rewrites + 1

ReconciledAll ==
  /\ LitmusTurn("reconcile")
  /\ pw.exps = {}
  /\ PolicyGoes([pw EXCEPT !.pc = "upsert"])
  /\ OnlyPolicyWorker
-----------------------------------------------------------------------------
\* Cleanup ranges over spec.litmus.experiments, a nil dereference without one.
LitmusCleanupPanics ==
  /\ LitmusTurn("cleanup")
  /\ pw.pol.spec.litmus = Absent
  /\ PolicyRetry
  /\ OnlyPolicyWorker

\* Faulty variant: only the Policy's own namespace is looked through.
SpacesOfHome(spec) == {HomeNs}

SpacesOf(spec) == {HomeNs} \cup {spec.litmus[e].ns : e \in Listed(spec)}

\* The ChaosEngines are listed, from the cache, in one namespace after another.
ListChaosEngines(n) ==
  /\ LitmusTurn("cleanup")
  /\ pw.pol.spec.litmus # Absent
  /\ n \in pw.spaces
  /\ pw.doomed = {}
  /\ PolicyGoes([pw EXCEPT !.spaces = @ \ {n},
                   !.doomed = {<<e, n>> : e \in {e \in Experiments : engineCache[e, n].live}}])
  /\ OnlyPolicyWorker

\* One that is already gone is no error.
DeleteChaosEngine(x) ==
  /\ LitmusTurn("cleanup")
  /\ x \in pw.doomed
  /\ PolicyGoes([pw EXCEPT !.doomed = @ \ {x}])
  /\ engines' = IF engines[x].live
                  THEN [engines EXCEPT ![x] = Gone(NoEngine, engines[x])]
                  ELSE engines
  /\ EngineKeeps
  /\ UNCHANGED rewrites

CleanedEngines ==
  /\ LitmusTurn("cleanup")
  /\ pw.pol.spec.litmus # Absent
  /\ pw.spaces = {} /\ pw.doomed = {}
  /\ PolicyGoes([pw EXCEPT !.pc = "list"])
  /\ OnlyPolicyWorker

LitmusSkipsAfterMissing(listed, t) == listed \ {t}

LitmusStep ==
  \/ \E e \in Experiments : \/ CreateChaosEngine(e) \/ KeepChaosEngine(e)
                            \/ UpdateChaosEngine(e) \/ RewriteChaosEngine(e)
  \/ ReconciledAll \/ LitmusCleanupPanics \/ CleanedEngines
  \/ \E n \in Namespaces : ListChaosEngines(n)
  \/ \E x \in Slots : DeleteChaosEngine(x)
-----------------------------------------------------------------------------
\* LitmusReportHandler.Reconcile: every listed experiment passes. The status it
\* builds always differs from that of a report that is not Completed.
LitmusHandle ==
  /\ rw.pc = "handle"
  /\ rw.type = "litmus"
  /\ policyCache.live
  /\ policyCache.spec.litmus # Absent
  /\ WriteResult(policyCache, "Pass")
  /\ ReportWorkerKeeps

LitmusHandleFails ==
  /\ rw.pc = "handle"
  /\ rw.type = "litmus"
  /\ ~(policyCache.live /\ policyCache.spec.litmus # Absent)
  /\ ReportRetry
  /\ ReportWorkerKeeps
  /\ UNCHANGED reports
=============================================================================

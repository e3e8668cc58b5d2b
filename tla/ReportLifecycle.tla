---------------------------- MODULE ReportLifecycle ----------------------------
(***************************************************************************)
(* What a PolicyReport promises to whoever reads it, whatever produces it: *)
(* it asks for the evaluation of one version of a Policy, is given at most *)
(* one result for it, and that result is never older than what was asked.  *)
(* A version is the uid and the generation of the Policy.                  *)
(***************************************************************************)
EXTENDS Naturals

VARIABLES
  live,      \* does the report exist?
  asks,      \* the version its spec.policyRef names
  done,      \* is its phase Completed?
  result     \* the version its result was computed from, if it is

vars == <<live, asks, done, result>>

Version == [uid : Nat, gen : Nat]
None    == [uid |-> 0, gen |-> 0]

\* Version v is not newer than w.
NotNewer(v, w) == v.uid < w.uid \/ (v.uid = w.uid /\ v.gen <= w.gen)

Init == ~live /\ asks = None /\ ~done /\ result = None

Appear ==
  /\ ~live
  /\ live'
  /\ asks' \in Version
  /\ UNCHANGED <<done, result>>

\* The report is asked for a later version; a result it has stays until Reset.
AskAgain ==
  /\ live
  /\ asks' \in Version
  /\ NotNewer(asks, asks')
  /\ UNCHANGED <<live, done, result>>

Reset ==
  /\ live
  /\ ~done'
  /\ result' = None
  /\ UNCHANGED <<live, asks>>

Complete ==
  /\ live
  /\ ~done
  /\ done'
  /\ result' \in Version
  /\ NotNewer(asks, result')
  /\ UNCHANGED <<live, asks>>

Vanish ==
  /\ live
  /\ ~live'
  /\ ~done'
  /\ asks' = None
  /\ result' = None

Next == Appear \/ AskAgain \/ Reset \/ Complete \/ Vanish

Spec == Init /\ [][Next]_vars
=============================================================================

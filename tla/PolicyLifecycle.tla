---------------------------- MODULE PolicyLifecycle ----------------------------
(***************************************************************************)
(* What the life of a Policy looks like from outside, whatever its type:   *)
(* the operator protects it with a finalizer before it does anything for   *)
(* it, reports as observed only the generation it has at that moment, and  *)
(* lets it go only after somebody has asked for that.                      *)
(***************************************************************************)
EXTENDS Naturals

VARIABLES
  live,       \* does the Policy exist?
  version,    \* its uid and generation, those of its predecessor if not
  fin,        \* does it carry the finalizer?
  deleting,   \* is it marked deleted?
  obs         \* status.observedGeneration

vars == <<live, version, fin, deleting, obs>>

Init == ~live /\ ~fin /\ ~deleting /\ obs = 0

Create ==
  /\ ~live
  /\ live'
  /\ version' = [uid |-> version.uid + 1, gen |-> 1]
  /\ UNCHANGED <<fin, deleting, obs>>

Grown == [version EXCEPT !.gen = @ + 1]

Edit ==
  /\ live
  /\ version' = Grown
  /\ UNCHANGED <<live, fin, deleting, obs>>

Protect ==
  /\ live /\ ~deleting
  /\ fin'
  /\ UNCHANGED <<live, version, deleting, obs>>

Observe ==
  /\ live /\ fin /\ ~deleting
  /\ obs' = version.gen
  /\ UNCHANGED <<live, version, fin, deleting>>

Mark ==
  /\ live /\ fin /\ ~deleting
  /\ deleting'
  /\ version' = Grown
  /\ UNCHANGED <<live, fin, obs>>

\* An unprotected Policy goes at once, a protected one after it was marked.
Leave ==
  /\ live
  /\ fin <=> deleting
  /\ ~live' /\ ~fin' /\ ~deleting' /\ obs' = 0
  /\ UNCHANGED version

Next == Create \/ Edit \/ Protect \/ Observe \/ Mark \/ Leave

Spec == Init /\ [][Next]_vars
=============================================================================

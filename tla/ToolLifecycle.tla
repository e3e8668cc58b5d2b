----------------------------- MODULE ToolLifecycle -----------------------------
(***************************************************************************)
(* What the life of a Tool looks like from outside: it is protected by a   *)
(* finalizer once, keeps it until somebody asks for its deletion, and goes *)
(* with it. A Tool is never left alive without the finalizer it had.       *)
(***************************************************************************)
CONSTANT Tools

VARIABLE life    \* life[t]: "absent", "bare", "protected" or "leaving"

Init == life = [t \in Tools |-> "absent"]

Becomes(t, from, to) ==
  /\ life[t] = from
  /\ life' = [life EXCEPT ![t] = to]

Create(t)  == Becomes(t, "absent", "bare")
Drop(t)    == Becomes(t, "bare", "absent")
Protect(t) == Becomes(t, "bare", "protected")
Mark(t)    == Becomes(t, "protected", "leaving")
Leave(t)   == Becomes(t, "leaving", "absent")

Next == \E t \in Tools : Create(t) \/ Drop(t) \/ Protect(t) \/ Mark(t) \/ Leave(t)

Spec == Init /\ [][Next]_life
=============================================================================

---------------------------- MODULE MCEngineSystem ----------------------------
(* Small instances of EngineSystem for TLC. *)
EXTENDS EngineSystem, TLC

CONSTANTS r1, r2, e1, home, away, app1, app2

Falco(on, f)   == [type |-> "falco", enabled |-> on, falco |-> f, litmus |-> Absent]
Litmus(on, exps) == [type |-> "litmus", enabled |-> on, falco |-> Absent, litmus |-> exps]

Ref(r)   == [ref |-> r, selector |-> FALSE]
Selector == [ref |-> NoRule, selector |-> TRUE]
One(n, a) == [e \in Experiments |-> [ns |-> n, app |-> a]]

\* A rule the user may exchange, a selector in its place, or a Policy disabled.
FalcoSpecs == {Falco(TRUE, Ref(r1)), Falco(TRUE, Ref(r2)), Falco(FALSE, Ref(r1)),
               Falco(TRUE, Selector)}

\* An experiment the user may change or move to another namespace, or disable.
LitmusSpecs == {Litmus(TRUE, One(home, app1)), Litmus(TRUE, One(away, app2)),
                Litmus(FALSE, One(home, app1))}

\* A Policy of either type, complete or not, that changes into any other.
MixedSpecs == {Falco(TRUE, Selector), Falco(FALSE, Selector),
               Litmus(TRUE, One(away, app1)), Litmus(TRUE, One(away, app2)),
               Litmus(FALSE, One(away, app1)), Litmus(TRUE, Absent)}
=============================================================================

---------------------------- MODULE MCPolicySystem ----------------------------
(* Small instances of PolicySystem for TLC. *)
EXTENDS PolicySystem, TLC

CONSTANTS s1, good, bad

Pol(on, f) == [enabled |-> on, given |-> TRUE, scans |-> f]

\* Scans whose image the user may exchange, always wanted.
ExchangeSpecs ==
  {Pol(TRUE, [s \in Scans |-> good]), Pol(TRUE, [s \in Scans |-> bad])}

\* Scans that never change.
PlainSpecs == {Pol(TRUE, [s \in Scans |-> good])}

\* Those, or a Policy without its spec.trivy.
NilSpecs ==
  PlainSpecs \cup {[enabled |-> TRUE, given |-> FALSE,
                    scans |-> [s \in Scans |-> NoImage]]}

\* Any of these, or a Policy that is not wanted.
OnOffSpecs == NilSpecs \cup {Pol(FALSE, [s \in Scans |-> good])}

\* Two writes to the Policy.
PolicyTwice == {<<p, 0>> : p \in 1..2}

\* The Policy created and the Tool deleted and created again.
ToolTwice == {<<p, t>> : p \in 0..1, t \in 0..2}

\* That, or three writes to the Policy: created, deleted, created again.
EitherAgain == ToolTwice \cup {<<p, 0>> : p \in 1..3}

\* Where no image is vulnerable, one is as good as the other.
ImageSymmetry == Permutations(Images)
=============================================================================

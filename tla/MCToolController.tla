--------------------------- MODULE MCToolController ---------------------------
(* Small instances of ToolController for TLC. *)
EXTENDS ToolController, TLC

CONSTANTS t1, home, other

On(n)  == [known |-> TRUE, enabled |-> TRUE, ns |-> n]
Off(n) == [known |-> TRUE, enabled |-> FALSE, ns |-> n]

\* Enabled or not, in the operator's namespace or the user's, or of no known type.
AllSpecs ==
  {On(Omitted), Off(Omitted), On(other), Off(other),
   [known |-> FALSE, enabled |-> TRUE, ns |-> Omitted]}

\* Always enabled, in the operator's namespace.
OnSpecs == {On(Omitted)}
=============================================================================

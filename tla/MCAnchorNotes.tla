--------------------------- MODULE MCAnchorNotes ---------------------------
(***************************************************************************)
(* Two processes, one position with two captures and one commit; one kind  *)
(* that can be anchored and one that cannot.                               *)
(***************************************************************************)
EXTENDS AnchorNotes, TLC

CONSTANTS p1, p2, a1, c1, x, y

TwoProcesses == {p1, p2}
OnePosition == {a1}
OneCommit == {c1}
TwoHints == {x, y}

\* A comment: its text, a binding, which is an `Option', and what may be left out.
Comment ==
    [body   |-> [node |-> "String", optional |-> FALSE, has_default |-> FALSE],
     binding |-> [node |-> "Binding", optional |-> TRUE, has_default |-> FALSE],
     reply  |-> [node |-> "Other", optional |-> TRUE, has_default |-> FALSE]]

\* Two bindings: neither is the binding field.
Pair ==
    [from |-> [node |-> "Binding", optional |-> FALSE, has_default |-> FALSE],
     to   |-> [node |-> "Binding", optional |-> FALSE, has_default |-> FALSE]]

TwoKinds == {"comment", "pair"}
Schemas == [k \in TwoKinds |-> IF k = "comment" THEN Comment ELSE Pair]

Symmetry == Permutations(TwoProcesses) \cup Permutations(TwoHints)
=============================================================================

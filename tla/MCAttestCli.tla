---------------------------- MODULE MCAttestCli ----------------------------
(***************************************************************************)
(* Instances of AttestCli for TLC.                                         *)
(***************************************************************************)
EXTENDS AttestCli, TLC

CONSTANTS p1, p2,   \* processes
          ed1, ed2, \* ssh-ed25519 keys
          c1        \* a commit

TwoProcesses == {p1, p2}
TwoKeys == {ed1, ed2}
SomeSubject == {c1}
\* Processes are alike, and so are the keys.
Symmetry == Permutations({p1, p2}) \cup Permutations({ed1, ed2})
=============================================================================

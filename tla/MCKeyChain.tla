----------------------------- MODULE MCKeyChain -----------------------------
(***************************************************************************)
(* Instances of KeyChain for TLC.                                          *)
(***************************************************************************)
EXTENDS KeyChain, TLC

CONSTANTS p1, p2,   \* processes
          ed1, ed2  \* ssh-ed25519 keys

TwoProcesses == {p1, p2}
NoSubject == {}
TwoKeys == {ed1, ed2}
AndAnotherArmor == {ed1, ed2, OtherArmor}
\* Processes are alike, and so are the two ssh keys.
Symmetry == Permutations({p1, p2}) \cup Permutations({ed1, ed2})
=============================================================================

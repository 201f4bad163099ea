---------------------------- MODULE MCClaimChain ----------------------------
(***************************************************************************)
(* Instances of ClaimChain for TLC.                                        *)
(***************************************************************************)
EXTENDS ClaimChain

CONSTANTS w1, w2, w3,  \* writers
          c1           \* a commit

TwoWriters == {w1, w2}
ThreeWriters == {w1, w2, w3}
OneCommit == {c1}

\* A caller of sign may also write the label of a revocation.
Labels == {"note", REVOCATION_KIND}
=============================================================================

----------------------------- MODULE ClaimGraph -----------------------------
(***************************************************************************)
(* The claims of a repository as a graph of commits, with no mention of    *)
(* who writes them: every target has a ref with a history, a claim lands   *)
(* on top of one history at one instant, under an id of its own, and cites *)
(* only claims that have landed, by its key or as what it is about.        *)
(*                                                                         *)
(* ClaimChain implements it by a loop of two reads and an expectation.     *)
(* KeyChain and AttestCli append a claim in one step, on the strength of   *)
(* that.                                                                   *)
(***************************************************************************)
EXTENDS Sequences

CONSTANTS Target,  \* what claims are about; each has one ref
          Id       \* names of claims

VARIABLE refs  \* the claims of each target, oldest first: [id, cites]

Landed == UNION {{refs[t][i].id : i \in DOMAIN refs[t]} : t \in Target}

Init == refs = [t \in Target |-> <<>>]

Land(t) ==
    \E id \in Id \ Landed, cites \in SUBSET Landed :
        refs' = [refs EXCEPT ![t] = Append(@, [id |-> id, cites |-> cites])]

Next == \E t \in Target : Land(t)

Spec == Init /\ [][Next]_refs
=============================================================================

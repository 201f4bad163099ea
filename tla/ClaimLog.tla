------------------------------ MODULE ClaimLog ------------------------------
(***************************************************************************)
(* What git-attest promises of its claim chains, with no mention of how    *)
(* they are written: every target has one log; a call appends at most one  *)
(* claim, at one instant between its start and its end; a claim that has   *)
(* landed stays where it is, and its stored sequence is its position.      *)
(*                                                                         *)
(* ClaimChain is the retry loop over a compare-and-swap that implements    *)
(* this log.                                                               *)
(***************************************************************************)
EXTENDS Naturals, Sequences

CONSTANTS Target,  \* what claims are about; each has one log
          Call     \* requests: [op, on, envelope], on being the target whose log is appended to

VARIABLES calls,    \* every request made so far, oldest first
          open,     \* the requests still in flight, by index in calls
          log,      \* the claims of each target, oldest first
          answered  \* the requests whose caller was given the claim id

vars == <<calls, open, log, answered>>

\* The claim that request n becomes when it lands at 0-based position p.
Entry(n, p) == [id |-> n, envelope |-> calls[n].envelope, sequence |-> p]

Landed(n) == \E i \in DOMAIN log[calls[n].on] : log[calls[n].on][i].id = n

Init ==
    /\ calls = <<>>
    /\ open = {}
    /\ log = [t \in Target |-> <<>>]
    /\ answered = {}

Start(c) ==
    /\ calls' = Append(calls, c)
    /\ open' = open \cup {Len(calls) + 1}
    /\ UNCHANGED <<log, answered>>

Land(n) ==
    /\ ~Landed(n)
    /\ log' = [log EXCEPT ![calls[n].on] = Append(@, Entry(n, Len(@)))]
    /\ UNCHANGED <<calls, open, answered>>

Answer(n) ==
    /\ Landed(n)
    /\ open' = open \ {n}
    /\ answered' = answered \cup {n}
    /\ UNCHANGED <<calls, log>>

\* An error or a crash ends a request, landed or not, with no answer.
GiveUp(n) ==
    /\ open' = open \ {n}
    /\ UNCHANGED <<calls, log, answered>>

Next ==
    \/ \E c \in Call : Start(c)
    \/ \E n \in open : Land(n) \/ Answer(n) \/ GiveUp(n)

Spec == Init /\ [][Next]_vars
=============================================================================

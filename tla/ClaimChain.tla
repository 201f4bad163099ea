----------------------------- MODULE ClaimChain -----------------------------
(***************************************************************************)
(* crates/git-attest/src/chain.rs: claims as chained commits.              *)
(*                                                                         *)
(* Writer processes share one repository. `Claims::sign' and               *)
(* `Claims::revoke' both end in `Claims::append', a loop that reads the    *)
(* target's ref, reads its history to number the claim, and publishes a    *)
(* commit under the expectation that the ref still is what was read. Each  *)
(* of those three is a step of its own here, because each is a separate    *)
(* read or write of the repository.                                        *)
(*                                                                         *)
(* A commit id determines the commit and, through its parent, the whole    *)
(* history, so a ref is represented by the history it points at: comparing *)
(* two tips is comparing two histories, and a commit whose parent is `tip' *)
(* is Append(tip, claim). The id by which other claims name a claim is the *)
(* number of the call that wrote it: commits are distinct, and one that    *)
(* lost its race is unreachable and named by nobody.                       *)
(*                                                                         *)
(* Left out: the signature and `Envelope::key' (see KeyChain), payload     *)
(* bytes, and the hashing of a target to its ref name, which is injective. *)
(***************************************************************************)
EXTENDS Naturals, Sequences, SequencesExt, FiniteSetsExt

CONSTANTS Writer,       \* processes and threads calling sign or revoke
          Subject,      \* things claims are about, other than claims
          PayloadKind,  \* labels a caller of sign may put on an envelope
          MaxCalls      \* bound: how many calls are made in all

ASSUME ClaimChainAssumption == MaxCalls \in Nat

CLAIM_TARGET_KIND == "claim"
REVOCATION_KIND == "revocation"

ClaimId == 1..MaxCalls

\* `Target': a kind and an id. Only the kind "claim" means anything here; all
\* other kinds are represented by one.
Target == [kind : {"commit"}, id : Subject]
            \cup [kind : {CLAIM_TARGET_KIND}, id : ClaimId]

AboutClaim(c) == [kind |-> CLAIM_TARGET_KIND, id |-> c]

Envelope == [target : Target, payload_kind : PayloadKind \cup {REVOCATION_KIND}]

Claim == [id : ClaimId, envelope : Envelope, sequence : Nat]

Call == [op : {"sign", "revoke"}, on : Target, envelope : Envelope]

VARIABLES chain,     \* refs/claims/<target key>: the history at its tip, oldest first
          calls,     \* every call made so far
          pc,        \* where each writer is in its call
          serving,   \* the call it serves, as an index in calls
          tip,       \* `current': the history of the ref when it was read
          sequence,  \* the number it is about to give its claim
          answered   \* calls that returned their claim id

locals == <<pc, serving, tip, sequence>>
vars == <<chain, calls, locals, answered>>

On(w) == calls[serving[w]].on

IsRevocation(envelope) ==
    /\ envelope.target.kind = CLAIM_TARGET_KIND
    /\ envelope.payload_kind = REVOCATION_KIND

Landed(c) == \E t \in Target : \E i \in DOMAIN chain[t] : chain[t][i].id = c

-----------------------------------------------------------------------------
Init ==
    /\ chain = [t \in Target |-> <<>>]
    /\ calls = <<>>
    /\ pc = [w \in Writer |-> "idle"]
    /\ serving = [w \in Writer |-> 0]
    /\ tip = [w \in Writer |-> <<>>]
    /\ sequence = [w \in Writer |-> 0]
    /\ answered = {}

Invoke(w, call) ==
    /\ pc[w] = "idle"
    /\ Len(calls) < MaxCalls
    /\ calls' = Append(calls, call)
    /\ serving' = [serving EXCEPT ![w] = Len(calls) + 1]
    /\ pc' = [pc EXCEPT ![w] = "read"]
    /\ UNCHANGED <<chain, tip, sequence, answered>>

\* The call is over, and its locals with it.
Leave(w) ==
    /\ pc' = [pc EXCEPT ![w] = "idle"]
    /\ serving' = [serving EXCEPT ![w] = 0]
    /\ tip' = [tip EXCEPT ![w] = <<>>]
    /\ sequence' = [sequence EXCEPT ![w] = 0]

\* `sign': the claim goes on the chain of its own target. A target that is a
\* claim is one whose id the caller has seen.
Sign(w) ==
    \E t \in Target, k \in PayloadKind :
        /\ t.kind = CLAIM_TARGET_KIND => Landed(t.id)
        /\ Invoke(w, [op |-> "sign", on |-> t,
                      envelope |-> [target |-> t, payload_kind |-> k]])

\* Variant: a revocation treated like any claim, on the chain of its target.
RevokeOnOwnTarget(w) ==
    \E t \in Target : \E i \in DOMAIN chain[t] :
        LET target == AboutClaim(chain[t][i].id)
        IN  Invoke(w, [op |-> "revoke", on |-> target,
                       envelope |-> [target |-> target, payload_kind |-> REVOCATION_KIND]])

\* `revoke': reads the claim's envelope and appends to the chain of that
\* envelope's target.
Revoke(w) ==
    \E t \in Target : \E i \in DOMAIN chain[t] :
        Invoke(w, [op |-> "revoke",
                   on |-> chain[t][i].envelope.target,
                   envelope |-> [target |-> AboutClaim(chain[t][i].id),
                                 payload_kind |-> REVOCATION_KIND]])

\* Variant: the sequence is taken as the index of the tip, absent or not.
ReadTipIndex(w) ==
    /\ pc[w] = "read"
    /\ tip' = [tip EXCEPT ![w] = chain[On(w)]]
    /\ sequence' = [sequence EXCEPT ![w] = Len(chain[On(w)]) - 1]
    /\ pc' = [pc EXCEPT ![w] = "publish"]
    /\ UNCHANGED <<chain, calls, serving, answered>>

\* Top of the loop of `append': `kind.read(&name)?.present()'.
ReadTip(w) ==
    /\ pc[w] = "read"
    /\ tip' = [tip EXCEPT ![w] = chain[On(w)]]
    /\ sequence' = [sequence EXCEPT ![w] = 0]
    /\ pc' = [pc EXCEPT ![w] = IF chain[On(w)] = <<>> THEN "publish" ELSE "history"]
    /\ UNCHANGED <<chain, calls, serving, answered>>

\* `kind.history(&name)?.len()': the ref is read a second time.
ReadHistory(w) ==
    /\ pc[w] = "history"
    /\ sequence' = [sequence EXCEPT ![w] = Len(chain[On(w)])]
    /\ pc' = [pc EXCEPT ![w] = "publish"]
    /\ UNCHANGED <<chain, calls, serving, tip, answered>>

NewClaim(w) == [id |-> serving[w],
                envelope |-> calls[serving[w]].envelope,
                sequence |-> sequence[w]]

\* The ref is left pointing at history h.
MoveRef(w, h) ==
    /\ chain' = [chain EXCEPT ![On(w)] = h]
    /\ pc' = [pc EXCEPT ![w] = "return"]
    /\ UNCHANGED <<calls, serving, tip, sequence, answered>>

\* Variant: no expectation; the backend puts the commit on whatever is there.
PublishOnCurrent(w) == pc[w] = "publish" /\ MoveRef(w, Append(chain[On(w)], NewClaim(w)))

\* Variant: no expectation; the ref is moved from whatever it was.
PublishUnchecked(w) == pc[w] = "publish" /\ MoveRef(w, Append(tip[w], NewClaim(w)))

\* Variant: the parent is forgotten, so that the claim starts a new history.
PublishOrphan(w) ==
    /\ pc[w] = "publish"
    /\ chain[On(w)] = tip[w]
    /\ MoveRef(w, <<NewClaim(w)>>)

\* Variant: the ref was moved and an error reported all the same; the loop
\* goes round again.
PublishAndRetry(w) ==
    /\ pc[w] = "publish"
    /\ chain[On(w)] = tip[w]
    /\ chain' = [chain EXCEPT ![On(w)] = Append(tip[w], NewClaim(w))]
    /\ \E next \in {"read", "return"} : pc' = [pc EXCEPT ![w] = next]
    /\ UNCHANGED <<calls, serving, tip, sequence, answered>>

\* `publish_prepared' succeeds: the ref is what the loop expected, and now
\* points at a commit whose parent is that tip.
Publish(w) ==
    /\ pc[w] = "publish"
    /\ chain[On(w)] = tip[w]
    /\ MoveRef(w, Append(tip[w], NewClaim(w)))

\* Variant: the commit is published again as it is, with nothing read afresh.
Republish(w) ==
    /\ pc[w] = "publish"
    /\ UNCHANGED vars

\* Back to the top of the loop: `continue'.
Retry(w) ==
    /\ pc[w] = "publish"
    /\ pc' = [pc EXCEPT ![w] = "read"]
    /\ UNCHANGED <<chain, calls, serving, tip, sequence, answered>>

\* `publish_prepared' fails with a `Backend' error because the ref has moved.
LoseRace(w) == Retry(w) /\ chain[On(w)] # tip[w]

\* It fails with a `Backend' error for any other reason, a ref lock held by
\* another process for one: the loop makes no difference.
BackendFault(w) == Retry(w)

\* A read fails, or publishing fails with any other error: it is returned.
Fail(w) ==
    /\ pc[w] \in {"read", "history", "publish"}
    /\ Leave(w)
    /\ UNCHANGED <<chain, calls, answered>>

\* The process dies, perhaps after the ref moved and before the id got out.
Crash(w) ==
    /\ pc[w] # "idle"
    /\ Leave(w)
    /\ UNCHANGED <<chain, calls, answered>>

Return(w) ==
    /\ pc[w] = "return"
    /\ answered' = answered \cup {serving[w]}
    /\ Leave(w)
    /\ UNCHANGED <<chain, calls>>

\* One iteration of the loop, and the way out of it.
Step(w) ==
    \/ ReadTip(w)
    \/ ReadHistory(w)
    \/ Publish(w)
    \/ LoseRace(w)
    \/ Return(w)

Next ==
    \E w \in Writer :
        \/ Sign(w)
        \/ Revoke(w)
        \/ ReadTip(w)
        \/ ReadHistory(w)
        \/ Publish(w)
        \/ LoseRace(w)
        \/ BackendFault(w)
        \/ Fail(w)
        \/ Crash(w)
        \/ Return(w)

Spec == Init /\ [][Next]_vars

\* A live process keeps executing its loop, and a backend does not fail every
\* attempt of a call for ever.
Fairness == \A w \in Writer : WF_vars(Step(w)) /\ SF_vars(Publish(w))

FairSpec == Spec /\ Fairness

-----------------------------------------------------------------------------
\* `resolve': the chain is walked newest first and `get_or_insert' keeps the
\* first revocation met, so a claim is marked by the newest one naming it.
\* 0 is `None'.
RevokedBy(ch, i) ==
    LET marks == {j \in DOMAIN ch : /\ IsRevocation(ch[j].envelope)
                                    /\ ch[j].envelope.target.id = ch[i].id}
    IN  IF marks = {} THEN 0 ELSE ch[Max(marks)].id

-----------------------------------------------------------------------------
(***************************************************************************)
(* Properties                                                              *)
(***************************************************************************)
\* The type invariant: chains are of claims, and what a writer read is a history.
TypeOK ==
    /\ chain \in [Target -> Seq(Claim)]
    /\ calls \in Seq(Call)
    /\ Len(calls) <= MaxCalls
    /\ pc \in [Writer -> {"idle", "read", "history", "publish", "return"}]
    /\ serving \in [Writer -> 0..MaxCalls]
    /\ tip \in [Writer -> Seq(Claim)]
    /\ sequence \in [Writer -> Nat]
    /\ answered \subseteq ClaimId

\* The `sequence' a claim stores is its position on its chain, although it is
\* counted by a read of the ref that is separate from the one whose result
\* becomes the parent (chain.rs:156-160), with other writers in between.
SequenceIsPosition ==
    \A t \in Target : \A i \in DOMAIN chain[t] : chain[t][i].sequence = i - 1

\* However often a call loses its race and retries, at most one claim of it
\* is ever on a chain, and on one chain only (tests/chain.rs:107-122).
EachCallLandsOnce ==
    \A t, u \in Target : \A i \in DOMAIN chain[t], j \in DOMAIN chain[u] :
        chain[t][i].id = chain[u][j].id => t = u /\ i = j

\* A claim id handed to a caller names a claim that is on its chain, and still
\* is after everything other writers did since.
AnsweredClaimsStay ==
    \A n \in answered : \E i \in DOMAIN chain[calls[n].on] :
        chain[calls[n].on][i].id = n

\* Between the read of a tip and the publish, the chain has at most grown
\* beyond that tip: a lost race is always another writer's progress, and never
\* a ref that was deleted, rewound or replaced.
RetryMeansProgress ==
    \A w \in Writer : pc[w] \in {"history", "publish"} => IsPrefix(tip[w], chain[On(w)])

\* Revoking a claim that lives on its own target's chain is seen by reading
\* that chain: once `revoke' has returned, `resolve' marks the claim.
RevokedIsMarked ==
    \A n \in answered, t \in Target :
        calls[n].op = "revoke" =>
            \A i \in DOMAIN chain[t] :
                /\ chain[t][i].id = calls[n].envelope.target.id
                /\ chain[t][i].envelope.target = t
                => RevokedBy(chain[t], i) # 0

\* A mark is the number of a call to `revoke' for that very claim, whose own claim
\* is above it: `sign' marks nothing, although it lets its caller write any label
\* about any claim.
OnlyRevokeMarks ==
    \A t \in Target : \A i \in DOMAIN chain[t] :
        LET n == RevokedBy(chain[t], i)
        IN  n # 0 =>
                /\ calls[n].op = "revoke"
                /\ calls[n].envelope.target.id = chain[t][i].id
                /\ \E j \in i + 1..Len(chain[t]) : chain[t][j].id = n

\* What `resolve' makes of the chain of a target is what was revoked there.
MarksAreRevocations == RevokedIsMarked /\ OnlyRevokeMarks

\* The same for every claim, revocations included, as the documentation of
\* `revoke' has it: the revocation goes to "*`claim`'s own ref*", so that
\* "reading the chain is enough to see it" (chain.rs:123-126).
EveryRevokedClaimIsMarked ==
    \A n \in answered, t \in Target :
        calls[n].op = "revoke" =>
            \A i \in DOMAIN chain[t] :
                chain[t][i].id = calls[n].envelope.target.id => RevokedBy(chain[t], i) # 0

\* A claim ref only ever advances: no step forks, rewinds or rewrites a chain.
OnlyAppends == [][\A t \in Target : IsPrefix(chain[t], chain'[t])]_vars

\* Every call returns: a lost race is retried until it is won.
EveryCallEnds == \A w \in Writer : pc[w] # "idle" ~> pc[w] = "idle"

\* The calls not yet returned.
InFlight == {serving[w] : w \in {v \in Writer : pc[v] # "idle"}}

Log == INSTANCE ClaimLog WITH log <- chain, open <- InFlight

\* The loop of `append' implements the abstract log: each call takes effect at
\* one instant between its start and its end.
ImplementsClaimLog == Log!Spec

\* The claims an envelope points at.
Cites(envelope) ==
    IF envelope.target.kind = CLAIM_TARGET_KIND THEN {envelope.target.id} ELSE {}

\* The claims without what they say.
Outline ==
    [t \in Target |-> [i \in DOMAIN chain[t] |->
        [id |-> chain[t][i].id, cites |-> Cites(chain[t][i].envelope)]]]

Graph == INSTANCE ClaimGraph WITH refs <- Outline, Id <- ClaimId

\* The loop implements the graph as well: it lands a claim over its parent in one
\* step, and what the claim is about has landed by then.
ImplementsClaimGraph == Graph!Spec
=============================================================================

------------------------------ MODULE KeyChain ------------------------------
(***************************************************************************)
(* The life of keys in git-attest (crates/git-attest/src/key.rs): key-add  *)
(* and rotation claims, and everything else that `sign' and `revoke' put   *)
(* on the same refs, written by processes whose stores may be signing with *)
(* any key at all.                                                         *)
(*                                                                         *)
(* A call that publishes a key reads the envelope it starts from, writes   *)
(* the key's document, and appends; the chain the envelope was on can have *)
(* moved by the time its claim lands. `sign' and `revoke' only append: the *)
(* one envelope `revoke' reads is in a commit, and cannot go stale.        *)
(* Appending is one step: ClaimChain implements ClaimLog, in which a claim *)
(* lands at one instant.                                                   *)
(***************************************************************************)
EXTENDS KeyResolution

CONSTANTS Process,
          Signature  \* what their stores sign with

ASSUME KeyChainAssumption ==
    /\ IsFiniteSet(Process)
    /\ Signature \subseteq Key \cup {Unsigned, OtherArmor}

KeyTargets == [kind : {KEY_TARGET_KIND}, id : Key]

\* A claim commit: its id, its envelope, and its signature. `written' remembers
\* that the claim was made by `add_key' or `rotate_key'; it is no part of the
\* commit. Any other claim can look like theirs, and point at any tree.
Claim ==
    [id : ClaimId, target : KeyTargets, payload : Key, payload_kind : {KEY_KIND},
     key : ClaimId \cup {NoKey}, by : Signature, written : {TRUE}]
    \cup
    [id : ClaimId, target : Target, payload : Key \cup {OtherTree},
     payload_kind : {KEY_KIND, "revocation", "note"},
     key : ClaimId \cup {NoKey}, by : Signature, written : {FALSE}]

\* A commit with an id, or with none while the claim has not landed.
Envelope(id, target, payload, payload_kind, key, by, written) ==
    [id |-> id, target |-> target, payload |-> payload, payload_kind |-> payload_kind,
     key |-> key, by |-> by, written |-> written]

VARIABLES chain,  \* the claim refs
          docs,   \* refs/keys/*: key documents that are reachable
          pc,     \* where each process is in its call
          draft   \* the claim that publishes the key it is writing

vars == <<chain, docs, pc, draft>>

Landed == Ids(chain)

Busy == {p \in Process : pc[p] # "idle"}

NoDraft == [id |-> 0]

-----------------------------------------------------------------------------
Init ==
    /\ chain = [t \in Target |-> <<>>]
    /\ docs = {}
    /\ pc = [p \in Process |-> "idle"]
    /\ draft = [p \in Process |-> NoDraft]

\* There is an id for one claim more, besides those under way.
Room == Cardinality(Landed) + Cardinality(Busy) < MaxClaims

NextId == Cardinality(Landed) + 1

\* A process can take on a call.
Ready(p) == pc[p] = "idle" /\ Room

\* The call has read what it needs and goes on to its first write.
Begin(p, step, target, k, key, by) ==
    /\ pc' = [pc EXCEPT ![p] = step]
    /\ draft' = [draft EXCEPT ![p] = Envelope(0, target, k, KEY_KIND, key, by, TRUE)]
    /\ UNCHANGED <<chain, docs>>

\* Variant: the claim goes out before the document it points at.
AddKeyUnwritten(p) ==
    /\ Ready(p)
    /\ \E k \in Key, by \in Signature : Begin(p, "append", KeyTarget(k), k, NoKey, by)

\* `add_key': the root of the key's chain, or one more claim on it.
AddKey(p) ==
    /\ Ready(p)
    /\ \E k \in Key, by \in Signature : Begin(p, "write_key", KeyTarget(k), k, NoKey, by)

\* Variant: whatever claim is named is rotated.
RotateAnyClaim(p) ==
    /\ Ready(p)
    /\ \E previous \in Landed, k \in Key, by \in Signature :
            Begin(p, "write_key", ClaimAt(chain, previous).target, k, previous, by)

\* `rotate_key': the next claim on the chain of the link it names, which it has
\* to be able to read. Whose key the store signs with is not looked at.
RotateKey(p) ==
    /\ Ready(p)
    /\ \E previous \in Landed, k \in Key, by \in Signature :
            LET link == ClaimAt(chain, previous)
            IN  /\ IsKeyClaim(link) /\ link.payload \in Key
                /\ Begin(p, "write_key", link.target, k, previous, by)

\* The claim lands on top of t's chain.
Lands(t, claim) ==
    /\ chain' = [chain EXCEPT ![t] = Append(@, claim)]
    /\ UNCHANGED docs

\* What a claim can be about: the id of a claim is the hash of a commit, and
\* cannot be named before there is one.
About == {t \in Target : t.kind = "claim" => t.id \in Landed}

\* `sign', of any envelope: about anything, under any label, pointing at any
\* tree and naming any claim or none as its key. "note" is every label but the
\* one that is looked at; where the claim is no key claim one tree stands for
\* all, as nothing reads it.
Sign ==
    /\ Room
    /\ \E t \in About, payload \in Key \cup {OtherTree}, kind \in {KEY_KIND, "note"},
            key \in Landed \cup {NoKey}, by \in Signature :
        LET claim == Envelope(NextId, t, payload, kind, key, by, FALSE)
        IN  /\ IsKeyClaim(claim) \/ payload = OtherTree
            /\ Lands(t, claim)
            /\ UNCHANGED <<pc, draft>>

\* `revoke', of any claim: on the chain of what that claim is about.
Revoke ==
    /\ Room
    /\ \E c \in Landed, key \in Landed \cup {NoKey}, by \in Signature :
        /\ Lands(ClaimAt(chain, c).target,
                 Envelope(NextId, AboutClaim(c), OtherTree, "revocation", key, by, FALSE))
        /\ UNCHANGED <<pc, draft>>

\* `write_key': the document becomes an entity of its own.
WriteKey(p) ==
    /\ pc[p] = "write_key"
    /\ docs' = docs \cup {draft[p].payload}
    /\ pc' = [pc EXCEPT ![p] = "append"]
    /\ UNCHANGED <<chain, draft>>

Leave(p) ==
    /\ pc' = [pc EXCEPT ![p] = "idle"]
    /\ draft' = [draft EXCEPT ![p] = NoDraft]

\* `append': the key's claim lands on whatever the chain is by now.
AppendClaim(p) ==
    /\ pc[p] = "append"
    /\ Lands(draft[p].target, [draft[p] EXCEPT !.id = NextId])
    /\ Leave(p)

\* A crash, or an error of the store, between two writes.
Abandon(p) ==
    /\ p \in Busy
    /\ Leave(p)
    /\ UNCHANGED <<chain, docs>>

Next ==
    \/ \E p \in Process :
        \/ AddKey(p)
        \/ RotateKey(p)
        \/ WriteKey(p)
        \/ AppendClaim(p)
        \/ Abandon(p)
    \/ Sign
    \/ Revoke

Spec == Init /\ [][Next]_vars

-----------------------------------------------------------------------------
(***************************************************************************)
(* Properties                                                              *)
(***************************************************************************)
\* The type invariant: chains are of claims, and `add_key' and `rotate_key' only
\* ever publish a key on the chain of a key.
TypeOK ==
    /\ chain \in [Target -> Seq(Claim)]
    /\ docs \subseteq Key
    /\ pc \in [Process -> {"idle", "write_key", "append"}]
    /\ \A p \in Busy : draft[p].written /\ [draft[p] EXCEPT !.id = 1] \in Claim

\* What verification says of a claim, at one time or another, whatever documents
\* it can read then; that a document could not be read is no answer.
Verdicts(C, D, c) == {Verify(C, S, c) : S \in Readings(D)} \ {"Store"}

\* The same of what a link resolves to.
Resolutions(C, D, c) == {Resolve(C, S, c) : S \in Readings(D)} \ {Error("Store")}

\* What verification says of a claim it says for ever, and the same of the key
\* a link resolves to: nothing that lands later, on the same chain or on the
\* chain of the key it names, and no document that comes or goes beneath it,
\* changes either into another answer.
VerdictsAreFinal ==
    [][\A c \in Landed :
            /\ Verdicts(chain', docs', c) = Verdicts(chain, docs, c)
            /\ Resolutions(chain', docs', c) = Resolutions(chain, docs, c)
            /\ Cardinality(Verdicts(chain, docs, c)) <= 1
            /\ Cardinality(Resolutions(chain, docs, c)) <= 1]_vars

\* A link resolves, and to the key it publishes, if and only if it publishes one
\* that can be read and is the root, or the link right below it resolves to the
\* very key that signed it. Nothing mends a broken chain, and the claim a
\* rotation names as its key is not asked: see RotationsFollowTheirLink.
LinksResolveInTurn ==
    \A S \in Readings(docs), k \in Key : \A i \in DOMAIN chain[KeyTarget(k)] :
        LET log == chain[KeyTarget(k)]
            signer == [tag |-> "key", key |-> log[i].by]
            handed == Resolve(chain, S, log[i - 1].id) = signer /\ log[i].by \in Shipped
            resolved == Resolve(chain, S, log[i].id)
        IN  IF KeyDocument(S, log[i]).tag = "document" /\ (i = 1 \/ handed)
            THEN resolved = [tag |-> "key", key |-> log[i].payload]
            ELSE resolved.tag # "key"

\* A claim verifies if and only if it names a key that resolves and that can be
\* verified with, and was signed by it: no rotation by a stranger, however far
\* down the chain of the key it names, lets a claim through, and nothing that
\* shares a chain with good links holds one back.
VerifiedUnderResolvedKey ==
    \A S \in Readings(docs), c \in Landed :
        LET claim == ClaimAt(chain, c)
        IN  Verify(chain, S, c) = "Verified" <=>
                /\ claim.key \in Landed
                /\ claim.by \in Shipped
                /\ Resolve(chain, S, claim.key) = [tag |-> "key", key |-> claim.by]

\* A link is an error to read, whatever signed it, if and only if it or a claim
\* beneath it on its chain publishes no key document that is there: a revocation
\* of the key-add, say, takes every link that lands after it, although each of
\* them publishes a key. `Claims::key' is documented to fail with NotAKeyClaim
\* "when `claim` does not publish a key" (key.rs:183).
PoisonedFromBelow ==
    \A S \in Readings(docs), k \in Key : \A i \in DOMAIN chain[KeyTarget(k)] :
        LET log == chain[KeyTarget(k)]
        IN  Resolve(chain, S, log[i].id).tag = "error" <=>
                \E j \in 1..i : KeyDocument(S, log[j]).tag = "error"

\* A read of a link fails for want of a document only if the link, or one beneath
\* it, is a claim that `sign' was given, with the document left to its caller:
\* what `add_key' and `rotate_key' publish stays readable, wherever the process
\* that published it or any other died, and whatever is pruned.
DocumentsReachable ==
    \A S \in Readings(docs), k \in Key : \A i \in DOMAIN chain[KeyTarget(k)] :
        LET log == chain[KeyTarget(k)]
        IN  Resolve(chain, S, log[i].id) = Error("Store") =>
                \E j \in 1..i : IsKeyClaim(log[j]) /\ ~log[j].written

\* Where only `add_key' and `rotate_key' wrote, a rotation that resolves was signed
\* with the key of the link it rotates: it "names `previous` as the key it was
\* signed with. The store must therefore be signing with `previous`'s key for the
\* rotation to resolve" (key.rs:151-155).
RotationsFollowTheirLink ==
    \A k \in Key : \A i \in DOMAIN chain[KeyTarget(k)] :
        LET log == chain[KeyTarget(k)]
        IN  /\ \A j \in 1..i : log[j].written
            /\ log[i].key # NoKey
            /\ Resolve(chain, Key, log[i].id).tag = "key"
            => log[i].by = ClaimAt(chain, log[i].key).payload
=============================================================================

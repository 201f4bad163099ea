----------------------------- MODULE AttestCli -----------------------------
(***************************************************************************)
(* `git attest sign' and `git attest revoke' (git-attest/src/main.rs), run *)
(* by several users at once on one repository.                             *)
(*                                                                         *)
(* A command is a script of separate reads and writes: publish attest's    *)
(* schemas if they are missing; find the claim that published the signing  *)
(* key, or publish it; write the payload; append the claim. Every step can *)
(* be the last one a process executes. Appending is one step (ClaimChain   *)
(* implements ClaimLog). Rotation is not a command: a program using the    *)
(* library does it, in one step here (see KeyChain for its own).           *)
(*                                                                         *)
(* The signing key is a pair of files (signer.rs): the public half is read *)
(* once, when the command starts, and the private half again each time     *)
(* something is signed, and the user may replace either at any time.       *)
(***************************************************************************)
EXTENDS KeyResolution

CONSTANTS Process,
          MaxCommands, \* bound: how many commands are run
          MaxChanges   \* bound: how many times a key is rotated, or a user's
                       \* key files replaced

CLAIM_KIND == "claims"

\* There is no <key>.pub.
NoSidecar == "none"

ASSUME AttestCliAssumption ==
    /\ MaxCommands \in Nat
    /\ MaxChanges \in Nat
    /\ MaxClaims # 0
    /\ NoSidecar \notin Key

\* A claim commit: ssh-keygen makes every signature, so all of them are SSHSIG
\* blocks. The last three fields remember how the claim was made and are no parts
\* of it: the public key its command read, whether the link it names as its key
\* was chosen by default, was given with --key, or neither, and whether what made
\* it also wrote the document it points at.
Claim ==
    [id : ClaimId, target : Target, payload : Key \cup {OtherTree},
     payload_kind : {KEY_KIND, "revocation", "note"},
     key : ClaimId \cup {NoKey}, by : Key, public : Key,
     named : {"default", "given", "neither"}, built : BOOLEAN]

VARIABLES schemas,   \* refs/schema/*: which of attest's kinds are published
          entities,  \* documents that are reachable
          chain,     \* the claim refs
          commands,  \* how many commands were started
          changes,   \* how many rotations and replacements there were
          disk,      \* each user's key files: the private half, and <key>.pub
          pc,        \* where each process is in its command
          on,        \* the target whose chain the command appends to
          draft      \* the claim it is putting together

locals == <<pc, on, draft>>
vars == <<schemas, entities, chain, commands, changes, disk, locals>>

Landed == Ids(chain)

\* The key documents that are.
Kept == entities \cap Key

Idle == [pc |-> "idle", on |-> KeyTarget("none"), draft |-> [id |-> 0]]

-----------------------------------------------------------------------------
Init ==
    /\ schemas = {}
    /\ entities = {}
    /\ chain = [t \in Target |-> <<>>]
    /\ commands = 0
    /\ changes = 0
    /\ disk \in [Process -> {[private |-> k, sidecar |-> k] : k \in Key}]
    /\ pc = [p \in Process |-> Idle.pc]
    /\ on = [p \in Process |-> Idle.on]
    /\ draft = [p \in Process |-> Idle.draft]

Goto(p, step) == pc' = [pc EXCEPT ![p] = step]

Leave(p) ==
    /\ Goto(p, Idle.pc)
    /\ on' = [on EXCEPT ![p] = Idle.on]
    /\ draft' = [draft EXCEPT ![p] = Idle.draft]

\* `public_line': <key>.pub when it is there, else derived from the private half.
PublicLine(p) == IF disk[p].sidecar = NoSidecar THEN disk[p].private ELSE disk[p].sidecar

\* `sign' runs ssh-keygen on the private half as it is by then.
SignsWith(p) == disk[p].private

\* A command can be given.
Ready(p) == pc[p] = "idle" /\ commands < MaxCommands

\* `main' has parsed its arguments and resolved the signing key.
Begin(p, target, claim) ==
    /\ commands' = commands + 1
    /\ Goto(p, "kinds")
    /\ on' = [on EXCEPT ![p] = target]
    /\ draft' = [draft EXCEPT ![p] = claim]
    /\ UNCHANGED <<schemas, entities, chain, changes, disk>>

\* --key names a claim, or is absent.
KeyArgument == Landed \cup {NoKey}

\* What the command line asks for, before the key is known.
Request(p, target, payload, kind, built, key) ==
    [id |-> 0, target |-> target, payload |-> payload, payload_kind |-> kind, key |-> key,
     by |-> PublicLine(p), public |-> PublicLine(p),
     named |-> IF key = NoKey THEN "default" ELSE "given", built |-> built]

\* `sign', of anything there is, claims and keys included, under any label, with
\* any tree as its payload or with a document built from --json. "note" is every
\* label but the one that is looked at. A document built under the label of keys is
\* a key document, and none other is. Two readers look at a payload: of a claim
\* that publishes a key, and of any claim on the chain of that very key; in all
\* others one tree stands for all.
Sign(p) ==
    /\ Ready(p)
    /\ \E t \in Target, kind \in {KEY_KIND, "note"}, payload \in Key \cup {OtherTree},
            built \in BOOLEAN, key \in KeyArgument :
        /\ t.kind = "claim" => t.id \in Landed
        /\ built => (kind = KEY_KIND <=> payload \in Key)
        /\ \/ built \/ payload = OtherTree
           \/ t.kind = KEY_TARGET_KIND /\ (kind = KEY_KIND \/ payload = t.id)
        /\ Begin(p, t, Request(p, t, payload, kind, built, key))

\* `revoke', of a claim that is there to be read.
Revoke(p) ==
    /\ Ready(p)
    /\ \E c \in Landed, key \in KeyArgument :
            Begin(p, ClaimAt(chain, c).target,
                  Request(p, AboutClaim(c), OtherTree, "revocation", FALSE, key))

\* `ensure_schemas': both kinds, or both are registered.
EnsureSchemas(p) ==
    /\ pc[p] = "kinds"
    /\ Goto(p, IF {CLAIM_KIND, KEY_KIND} \subseteq schemas THEN "key" ELSE "register_claims")
    /\ UNCHANGED <<schemas, entities, chain, commands, changes, disk, on, draft>>

\* `register_schemas': two refs, one after the other.
RegisterClaims(p) ==
    /\ pc[p] = "register_claims"
    /\ schemas' = schemas \cup {CLAIM_KIND}
    /\ Goto(p, "register_keys")
    /\ UNCHANGED <<entities, chain, commands, changes, disk, on, draft>>

RegisterKeys(p) ==
    /\ pc[p] = "register_keys"
    /\ schemas' = schemas \cup {KEY_KIND}
    /\ Goto(p, "key")
    /\ UNCHANGED <<entities, chain, commands, changes, disk, on, draft>>

\* The command knows which link to name, and goes on.
Name(p, link) ==
    /\ draft' = [draft EXCEPT ![p].key = link]
    /\ Goto(p, IF draft[p].built THEN "payload" ELSE "append")
    /\ UNCHANGED <<on, commands, changes, disk>>

\* Variant: any object will do for --key.
GivenAnyKey(p) ==
    /\ pc[p] = "key"
    /\ draft[p].named = "given"
    /\ Name(p, draft[p].key)
    /\ UNCHANGED <<schemas, entities, chain>>

\* `key_claim' with --key: the claim has to resolve, to a key or to a verdict. Any
\* key document can be in the store by then, if nothing prunes it: `key_claim'
\* itself leaves the document of the signing key there without a name.
GivenKey(p) ==
    /\ pc[p] = "key"
    /\ draft[p].named = "given"
    /\ Resolve(chain, Key, draft[p].key).tag # "error"
    /\ Name(p, draft[p].key)
    /\ UNCHANGED <<schemas, entities, chain>>

\* The claims that point at this document on its own chain, by position: their
\* labels are not looked at.
Published(k) == {i \in DOMAIN chain[KeyTarget(k)] : chain[KeyTarget(k)][i].payload = k}

\* Variant: the newest match.
FindNewestKey(p) ==
    /\ pc[p] = "key"
    /\ draft[p].named = "default"
    /\ Published(draft[p].public) # {}
    /\ Name(p, chain[KeyTarget(draft[p].public)][Max(Published(draft[p].public))].id)
    /\ UNCHANGED <<schemas, entities, chain>>

\* Without --key: the oldest claim on the signing key's chain to point at it.
FindKey(p) ==
    /\ pc[p] = "key"
    /\ draft[p].named = "default"
    /\ Published(draft[p].public) # {}
    /\ Name(p, chain[KeyTarget(draft[p].public)][Min(Published(draft[p].public))].id)
    /\ UNCHANGED <<schemas, entities, chain>>

\* Variant: the claim before the document.
MissKeyUnwritten(p) ==
    /\ pc[p] = "key"
    /\ draft[p].named = "default"
    /\ Published(draft[p].public) = {}
    /\ Goto(p, "add_key")
    /\ UNCHANGED <<schemas, entities, chain, commands, changes, disk, on, draft>>

\* Variant: the command goes on with no key to name.
MissKeyUnnamed(p) ==
    /\ pc[p] = "key"
    /\ draft[p].named = "default"
    /\ Published(draft[p].public) = {}
    /\ Goto(p, "append")
    /\ UNCHANGED <<schemas, entities, chain, commands, changes, disk, on, draft>>

\* There is none: the key is added, its document first.
MissKey(p) ==
    /\ pc[p] = "key"
    /\ draft[p].named = "default"
    /\ Published(draft[p].public) = {}
    /\ Goto(p, "write_key")
    /\ UNCHANGED <<schemas, entities, chain, commands, changes, disk, on, draft>>

WriteKey(p) ==
    /\ pc[p] = "write_key"
    /\ entities' = entities \cup {draft[p].public}
    /\ Goto(p, "add_key")
    /\ UNCHANGED <<schemas, chain, commands, changes, disk, on, draft>>

NextId == Cardinality(Landed) + 1

\* Claims take ids up to MaxClaims.
Room == NextId <= MaxClaims

\* The claim goes on top of t's chain, signed with this key.
Lands(t, claim, by) ==
    chain' = [chain EXCEPT ![t] = Append(@, [claim EXCEPT !.id = NextId, !.by = by])]

\* What publishes k on the chain of t, naming this link.
Publication(t, k, link) ==
    [id |-> 0, target |-> t, payload |-> k, payload_kind |-> KEY_KIND, key |-> link,
     by |-> k, public |-> k, named |-> "neither", built |-> TRUE]

KeyAdd(k) == Publication(KeyTarget(k), k, NoKey)

\* `add_key', which returns the id of the claim it appended.
AddKey(p) ==
    /\ pc[p] = "add_key"
    /\ Room
    /\ Lands(KeyTarget(draft[p].public), KeyAdd(draft[p].public), SignsWith(p))
    /\ Name(p, NextId)
    /\ UNCHANGED <<schemas, entities>>

\* `write_payload', for a payload built from --json.
WritePayload(p) ==
    /\ pc[p] = "payload"
    /\ entities' = entities \cup {draft[p].payload}
    /\ Goto(p, "append")
    /\ UNCHANGED <<schemas, chain, commands, changes, disk, on, draft>>

\* The claim itself, and the end of the command.
AppendClaim(p) ==
    /\ pc[p] = "append"
    /\ Room
    /\ Lands(on[p], draft[p], SignsWith(p))
    /\ Leave(p)
    /\ UNCHANGED <<schemas, entities, commands, changes, disk>>

\* A crash or an interrupt, an error of the store, a --key that is no key claim.
Abandon(p) ==
    /\ pc[p] # "idle"
    /\ Leave(p)
    /\ UNCHANGED <<schemas, entities, chain, commands, changes, disk>>

\* A program rotates a key through the library, signing with any key.
Rotate ==
    /\ changes < MaxChanges
    /\ Room
    /\ \E previous \in Landed, k \in Key, by \in Key :
        LET link == ClaimAt(chain, previous)
        IN  /\ IsKeyClaim(link) /\ link.payload \in Key
            /\ entities' = entities \cup {k}
            /\ Lands(link.target, Publication(link.target, k, previous), by)
    /\ changes' = changes + 1
    /\ UNCHANGED <<schemas, commands, disk, locals>>

\* The user puts another private key in place, with its <key>.pub, beside the old
\* one's, or with none.
ReplaceKey(p) ==
    /\ changes < MaxChanges
    /\ \E k \in Key : \E sidecar \in {k, disk[p].sidecar, NoSidecar} :
            disk' = [disk EXCEPT ![p] = [private |-> k, sidecar |-> sidecar]]
    /\ changes' = changes + 1
    /\ UNCHANGED <<schemas, entities, chain, commands, locals>>

Next ==
    \/ \E p \in Process :
        \/ Sign(p)
        \/ Revoke(p)
        \/ EnsureSchemas(p)
        \/ RegisterClaims(p)
        \/ RegisterKeys(p)
        \/ GivenKey(p)
        \/ FindKey(p)
        \/ MissKey(p)
        \/ WriteKey(p)
        \/ AddKey(p)
        \/ WritePayload(p)
        \/ AppendClaim(p)
        \/ Abandon(p)
        \/ ReplaceKey(p)
    \/ Rotate

Spec == Init /\ [][Next]_vars

-----------------------------------------------------------------------------
(***************************************************************************)
(* Properties                                                              *)
(***************************************************************************)
\* The type invariant: what a command is putting together is a claim, and it names
\* a key that has landed by the time it writes.
TypeOK ==
    /\ schemas \subseteq {CLAIM_KIND, KEY_KIND}
    /\ entities \subseteq Key \cup {OtherTree}
    /\ chain \in [Target -> Seq(Claim)]
    /\ commands \in 0..MaxCommands
    /\ changes \in 0..MaxChanges
    /\ disk \in [Process -> [private : Key, sidecar : Key \cup {NoSidecar}]]
    /\ \A p \in Process :
        \/ pc[p] = "idle" /\ on[p] = Idle.on /\ draft[p] = Idle.draft
        \/ /\ pc[p] \in {"kinds", "register_claims", "register_keys", "key",
                         "write_key", "add_key", "payload", "append"}
           /\ on[p] \in Target
           /\ [draft[p] EXCEPT !.id = 1] \in Claim
           /\ pc[p] \in {"payload", "append"} => draft[p].key \in Landed

\* Whatever is on a chain can be read: the schemas of claims and keys were
\* published before it landed, although they are looked for and published
\* without any lock, and so was the document it points at if it was its command
\* that made one, wherever that command or any other was cut short.
ClaimsAreReadable ==
    \A c \in Landed :
        /\ {CLAIM_KIND, KEY_KIND} \subseteq schemas
        /\ ClaimAt(chain, c).built => ClaimAt(chain, c).payload \in entities

\* The position at which a link is on the chain of key k.
LinkAt(k, c) == CHOOSE i \in DOMAIN chain[KeyTarget(k)] : chain[KeyTarget(k)][i].id = c

\* What `add_key' makes of k.
IsKeyAdd(claim, k) == claim = [KeyAdd(k) EXCEPT !.id = claim.id, !.by = claim.by]

\* The link at place i, or a claim beneath it, publishes no key.
Strayed(log, i) == \E j \in 1..i : ~IsKeyClaim(log[j])

\* The link at place i of k's chain does not resolve to k: something beneath it
\* publishes another document, or it or a link beneath it, but for the root, was
\* not signed with k. So it is when two commands raced to add k and a rotation got
\* in between, or when claims were made on k's chain before k was added.
Contested(log, i, k) ==
    \/ \E j \in 1..(i - 1) : log[j].payload # k
    \/ \E j \in 2..i : log[j].by # k

\* A claim signed without --key names the oldest claim to point at the signing key
\* on its chain, or the key-add its own command made. If that or anything beneath
\* it is no key claim, as after `git attest sign key:<k> <k> --kind note', it is an
\* error to verify. Else, unless the link is contested, the claim verifies if and
\* only if the private key that signed it is the one whose public half was read
\* when its command started, whatever shares the chain further up and whatever
\* becomes of the files in between.
DefaultKeyDecides ==
    \A c \in {d \in Landed : ClaimAt(chain, d).named = "default"} :
        LET claim == ClaimAt(chain, c)
            k == claim.public
            log == chain[KeyTarget(k)]
            i == LinkAt(k, claim.key)
            verdict == IF claim.by = k THEN "Verified" ELSE "BadSignature"
        IN  /\ i = Min(Published(k)) \/ IsKeyAdd(log[i], k)
            /\ \A S \in Readings(Kept) :
                /\ Strayed(log, i) => Verify(chain, S, c) \in {"NotAKeyClaim", "Store"}
                /\ k \in S \cap Shipped /\ ~Strayed(log, i) /\ ~Contested(log, i, k) =>
                        Verify(chain, S, c) = verdict

\* A claim signed with --key gets a verdict for ever, good or bad, and never an
\* error: the check made before the claim was put together still holds. It is out
\* of reach only for want of a document, and only if the link it names, or one
\* beneath that, points at a document that whoever signed it did not write.
GivenKeyHasVerdict ==
    \A c \in {d \in Landed : ClaimAt(chain, d).named = "given"}, S \in Readings(Kept) :
        LET log == chain[ClaimAt(chain, ClaimAt(chain, c).key).target]
        IN  \/ Verify(chain, S, c) \in {"Verified", "BadSignature", "UnknownKeyFormat"}
            \/ /\ Verify(chain, S, c) = "Store"
               /\ \E i \in DOMAIN log : \E j \in 1..i :
                    log[i].id = ClaimAt(chain, c).key /\ ~log[j].built
=============================================================================

--------------------------- MODULE KeyResolution ---------------------------
(***************************************************************************)
(* Reading keys and verdicts off claim chains: `Claims::key' and           *)
(* `Claims::verify' of git-attest (key.rs, verify.rs).                     *)
(*                                                                         *)
(* A read looks at one ref once and then only at commits, which never      *)
(* change, and at the key documents those point at, which may not be in    *)
(* the store: each read is an operator over the chains and the documents   *)
(* at that instant. A public key stands for its whole document (and so for *)
(* the key id, which is the document's hash): documents that differ in the *)
(* machine bit alone, and so share a key, are left out. A signature stands *)
(* for the key that made it, over the very bytes that are on the chain.    *)
(***************************************************************************)
EXTENDS Naturals, Sequences, SequencesExt, FiniteSetsExt

CONSTANTS Key,        \* trees that are key documents
          Ed25519,    \* those of format ssh-ed25519
          Parsing,    \* those whose key bytes parse as an SSH public key
          Subject,    \* things claims are about, other than keys and claims
          MaxClaims   \* bound: how many claims are made in all

\* What a store without a signer writes in place of a signature.
Unsigned == "unsigned"

\* A signature that is no armored SSHSIG block.
OtherArmor == "pgp"

\* A tree that is no key document.
OtherTree == "tree"

ASSUME KeyResolutionAssumption ==
    /\ Ed25519 \subseteq Key
    /\ Parsing \subseteq Key
    /\ MaxClaims \in Nat
    /\ Key \cap {Unsigned, OtherArmor, OtherTree} = {}

\* The keys whose signatures can be checked: there is one shipped verifier.
Shipped == Ed25519 \cap Parsing

KEY_TARGET_KIND == "key"
KEY_KIND == "keys"

ClaimId == 1..MaxClaims

Target == [kind : {KEY_TARGET_KIND}, id : Key]
            \cup [kind : {"commit"}, id : Subject]
            \cup [kind : {"claim"}, id : ClaimId]

\* A key's own claim chain.
KeyTarget(k) == [kind |-> KEY_TARGET_KIND, id |-> k]

AboutClaim(c) == [kind |-> "claim", id |-> c]

\* The null oid: the envelope of a key-add names no key.
NoKey == 0

\* `key_document' accepts an envelope that publishes a key on a key's chain.
IsKeyClaim(claim) ==
    /\ claim.target.kind = KEY_TARGET_KIND
    /\ claim.payload_kind = KEY_KIND

\* `verify_commit', and `SshEd25519::verify' behind it: whether the claim's
\* commit is signed by this key. The format is looked at first, then whether
\* there is a signature, then its armor, and only then the bytes of the key.
VerifyCommit(claim, key) ==
    IF key \notin Ed25519 THEN "UnknownKeyFormat"
    ELSE IF claim.by = Unsigned THEN "BadSignature"
    ELSE IF claim.by = OtherArmor \/ key \notin Parsing THEN "UnknownKeyFormat"
    ELSE IF claim.by = key THEN "Verified" ELSE "BadSignature"

\* The ids on some chain.
Ids(chain) == UNION {{chain[t][i].id : i \in DOMAIN chain[t]} : t \in DOMAIN chain}

\* `envelope_at': the claim commit with this id, wherever it is.
ClaimAt(chain, c) ==
    LET t == CHOOSE t \in DOMAIN chain : \E i \in DOMAIN chain[t] : chain[t][i].id = c
    IN  chain[t][CHOOSE i \in DOMAIN chain[t] : chain[t][i].id = c]

Error(e) == [tag |-> "error", error |-> e]

\* `key_document': the document a key claim's envelope points at, decoded from
\* the trees that are in the store. Nothing else looks at a payload.
KeyDocument(docs, claim) ==
    IF ~IsKeyClaim(claim) THEN Error("NotAKeyClaim")
    ELSE IF claim.payload \notin docs \cap Key THEN Error("Store")
    ELSE [tag |-> "document", key |-> claim.payload]

\* The places, up to n, of the claims of a log whose document cannot be had.
Faults(docs, log, n) == {j \in 1..n : KeyDocument(docs, log[j]).tag = "error"}

\* Variant: every entry of the log is a link, whichever claim was asked for.
KeyChainWhole(chain, docs, c) ==
    LET log == chain[ClaimAt(chain, c).target]
    IN  [tag |-> "links", links |-> log]

\* Variant: what publishes no key is passed over.
KeyChainSkipping(chain, docs, c) ==
    LET claim == ClaimAt(chain, c)
        log == chain[claim.target]
        at == {i \in DOMAIN log : log[i].id = c}
    IN  IF KeyDocument(docs, claim).tag = "error" THEN KeyDocument(docs, claim)
        ELSE [tag |-> "links",
              links |-> SelectSeq(SubSeq(log, 1, Max(at)), IsKeyClaim)]

\* `key_chain': the links from the root of c's chain up to c, walked newest
\* first. c has to publish a key, and so does every claim beneath it.
KeyChain(chain, docs, c) ==
    LET claim == ClaimAt(chain, c)
        log == chain[claim.target]
        at == {i \in DOMAIN log : log[i].id = c}
        faults == Faults(docs, log, Max(at))
    IN  IF KeyDocument(docs, claim).tag = "error" THEN KeyDocument(docs, claim)
        ELSE IF at = {} THEN Error("ClaimOffChain")
        ELSE IF faults # {} THEN KeyDocument(docs, log[Max(faults)])
        ELSE [tag |-> "links", links |-> SubSeq(log, 1, Max(at))]

\* Variant: only the last handover is checked.
BadLinksLast(links) ==
    {i \in {Len(links)} \ {1} : VerifyCommit(links[i], links[i - 1].payload) # "Verified"}

\* The links that are not signed by the key of the link before them.
BadLinks(links) ==
    {i \in 2..Len(links) : VerifyCommit(links[i], links[i - 1].payload) # "Verified"}

\* `resolve_key_with': the key of the last link, or the verdict on the first
\* link that fails. The root is not checked.
Resolve(chain, docs, c) ==
    LET walk == KeyChain(chain, docs, c)
    IN  IF walk.tag = "error" THEN walk
        ELSE LET bad == BadLinks(walk.links)
             IN  IF bad = {}
                 THEN [tag |-> "key", key |-> Last(walk.links).payload]
                 ELSE [tag |-> "rejected",
                       verdict |-> VerifyCommit(walk.links[Min(bad)],
                                                walk.links[Min(bad) - 1].payload)]

\* Variant: a rejected key chain is not looked at before the signature is.
VerifyUnchained(chain, docs, c) ==
    LET claim == ClaimAt(chain, c)
        document == KeyDocument(docs, ClaimAt(chain, claim.key))
    IN  IF claim.key \notin Ids(chain) THEN "MissingClaim"
        ELSE IF document.tag = "error" THEN document.error
        ELSE VerifyCommit(claim, document.key)

\* `verify': the verdict on claim c, or the error that stopped the walk.
Verify(chain, docs, c) ==
    LET claim == ClaimAt(chain, c)
        resolved == Resolve(chain, docs, claim.key)
    IN  IF claim.key \notin Ids(chain) THEN "MissingClaim"
        ELSE IF resolved.tag = "error" THEN resolved.error
        ELSE IF resolved.tag = "rejected" THEN resolved.verdict
        ELSE VerifyCommit(claim, resolved.key)

\* What a read may find of the key documents while these are reachable: all of
\* them, and of the rest what is still there. An object nothing refers to may
\* have been written by hand or by a call that got no further, and be pruned.
Readings(docs) == {S \in SUBSET Key : docs \subseteq S}
=============================================================================

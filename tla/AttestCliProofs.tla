--------------------------- MODULE AttestCliProofs ---------------------------
(***************************************************************************)
(* Theorems about AttestCli, for any users, keys and subjects and any      *)
(* number of commands.                                                     *)
(*                                                                         *)
(* The invariant has two halves. One says what the refs hold: claims with  *)
(* ids of their own, whose schemas, links and built payloads were there    *)
(* before them. The other says what each command has ascertained by each   *)
(* of its steps. What a command has ascertained stays so whatever the      *)
(* others do, because refs only grow: that is the argument for doing       *)
(* without a lock.                                                         *)
(***************************************************************************)
EXTENDS AttestCli, KeyResolutionProofs

Kinds == {CLAIM_KIND, KEY_KIND}

\* Claim c may be named by a command that signs with k and was given no --key: the
\* oldest on the chain of k to point at k, or a key-add of k.
DefaultLink(C, k, c) ==
    \E i \in DOMAIN C[KeyTarget(k)] :
        LET log == C[KeyTarget(k)]
        IN  /\ log[i].id = c
            /\ \/ log[i].payload = k /\ \A j \in 1..(i - 1) : log[j].payload # k
               \/ IsKeyAdd(log[i], k)

\* The link a claim names is one that its command may name.
WellNamed(C, claim) ==
    /\ claim.named = "given" =>
            claim.key \in Ids(C) /\ Resolve(C, Key, claim.key).tag # "error"
    /\ claim.named = "default" => DefaultLink(C, claim.public, claim.key)

\* A claim whose link and, if its command made one, whose document are there, E
\* being the documents that are.
Sound(C, E, claim) ==
    /\ WellNamed(C, claim)
    /\ claim.built => claim.payload \in E
    /\ claim.built /\ IsKeyClaim(claim) => claim.payload \in Key

\* The chains D hold what C held, where it was, and links resolve as they did.
Extended(C, D) ==
    /\ Ids(C) \subseteq Ids(D)
    /\ \A c \in Ids(C) : Resolve(D, Key, c) = Resolve(C, Key, c)
    /\ \A t \in Target : \A i \in DOMAIN C[t] : i \in DOMAIN D[t] /\ D[t][i] = C[t][i]

\* What is on the chains.
ClaimsHold ==
    \A t \in Target : \A i \in DOMAIN chain[t] : Sound(chain, entities, chain[t][i])

Numbered == \E n \in Nat : Ids(chain) = 1..n

Documents == Key \cup {OtherTree}

\* The refs, and the objects they keep.
Store ==
    /\ schemas \subseteq Kinds
    /\ entities \subseteq Documents
    /\ chain \in [Target -> Seq(Claim)]
    /\ commands \in 0..MaxCommands
    /\ changes \in 0..MaxChanges
    /\ disk \in [Process -> [private : Key, sidecar : Key \cup {NoSidecar}]]
    /\ Distinct(chain)
    /\ Placed(chain)
    /\ Numbered
    /\ Landed # {} => Kinds \subseteq schemas
    /\ ClaimsHold

\* What is known of the draft of process p while its command runs.
Working(p) ==
    /\ on[p] \in Target
    /\ [draft[p] EXCEPT !.id = 1] \in Claim
    /\ draft[p].named \in {"default", "given"}
    /\ IsKeyClaim(draft[p]) => draft[p].target = on[p]
    /\ draft[p].built /\ IsKeyClaim(draft[p]) => draft[p].payload \in Key

\* What the command of process p has ascertained.
Ascertained(p) ==
    /\ pc[p] = "register_keys" => CLAIM_KIND \in schemas
    /\ pc[p] \in {"key", "write_key", "add_key", "payload", "append"} => Kinds \subseteq schemas
    /\ draft[p].named = "given" => draft[p].key \in Landed
    /\ pc[p] \in {"write_key", "add_key"} => draft[p].named = "default"
    /\ pc[p] = "add_key" => draft[p].public \in entities
    /\ pc[p] \in {"payload", "append"} => draft[p].key \in Landed /\ WellNamed(chain, draft[p])
    /\ pc[p] = "append" /\ draft[p].built => draft[p].payload \in entities

Steps == {"kinds", "register_claims", "register_keys", "key", "write_key", "add_key",
          "payload", "append"}

Command(p) ==
    \/ pc[p] = "idle" /\ on[p] = Idle.on /\ draft[p] = Idle.draft
    \/ pc[p] \in Steps /\ Working(p) /\ Ascertained(p)

\* The inductive invariant.
CliInv ==
    /\ Store
    /\ DOMAIN pc = Process /\ DOMAIN on = Process /\ DOMAIN draft = Process
    /\ \A p \in Process : Command(p)

-----------------------------------------------------------------------------
(***************************************************************************)
(* Records                                                                 *)
(***************************************************************************)

Fields ==
    {"id", "target", "payload", "payload_kind", "key", "by", "public", "named", "built"}

LEMMA ClaimFields ==
    ASSUME NEW c \in Claim
    PROVE  /\ c.id \in ClaimId /\ c.target \in Target /\ c.key \in ClaimId \cup {NoKey}
           /\ c.by \in Key /\ c.public \in Key /\ c.payload \in Documents
BY DEF Claim, Documents

\* A draft that lands gets its id and its signature.
Signed(d, k, by) == [d EXCEPT !.id = k, !.by = by]

LEMMA DraftLands ==
    ASSUME NEW d, [d EXCEPT !.id = 1] \in Claim, NEW k \in ClaimId, NEW by \in Key
    PROVE  LET claim == Signed(d, k, by)
           IN  /\ claim \in Claim
               /\ claim.id = k /\ claim.by = by
               /\ claim.target = d.target /\ claim.payload = d.payload
               /\ claim.payload_kind = d.payload_kind /\ claim.key = d.key
               /\ claim.public = d.public /\ claim.named = d.named /\ claim.built = d.built
<1> DEFINE e == [d EXCEPT !.id = 1]
           claim == Signed(d, k, by)
<1> USE DEF Fields
<1>1. DOMAIN e = Fields
    BY DEF Claim
<1>2. DOMAIN d = Fields
    BY <1>1
<1>3. claim = [e EXCEPT !.id = k, !.by = by]
    BY <1>1, <1>2 DEF Signed
<1>4. /\ claim.id = k /\ claim.by = by
      /\ claim.target = d.target /\ claim.payload = d.payload
      /\ claim.payload_kind = d.payload_kind /\ claim.key = d.key
      /\ claim.public = d.public /\ claim.named = d.named /\ claim.built = d.built
    BY <1>2 DEF Signed
<1> HIDE DEF e
<1>5. [e EXCEPT !.id = k, !.by = by] \in Claim
    BY DEF Claim, e
<1>6. QED
    BY <1>3, <1>4, <1>5

\* A draft that is given its link.
LEMMA DraftNames ==
    ASSUME NEW d, [d EXCEPT !.id = 1] \in Claim, NEW link \in ClaimId
    PROVE  LET named == [d EXCEPT !.key = link]
           IN  /\ [named EXCEPT !.id = 1] \in Claim
               /\ named.key = link
               /\ named.target = d.target /\ named.payload = d.payload
               /\ named.payload_kind = d.payload_kind
               /\ named.public = d.public /\ named.named = d.named /\ named.built = d.built
<1> DEFINE e == [d EXCEPT !.id = 1]
           named == [d EXCEPT !.key = link]
<1> USE DEF Fields
<1>1. DOMAIN e = Fields
    BY DEF Claim
<1>2. DOMAIN d = Fields
    BY <1>1
<1>3. [named EXCEPT !.id = 1] = [e EXCEPT !.key = link]
    BY <1>1, <1>2
<1>4. /\ named.key = link
      /\ named.target = d.target /\ named.payload = d.payload
      /\ named.payload_kind = d.payload_kind
      /\ named.public = d.public /\ named.named = d.named /\ named.built = d.built
    BY <1>2
<1> HIDE DEF e
<1>5. [e EXCEPT !.key = link] \in Claim
    BY DEF Claim, e
<1>6. QED
    BY <1>3, <1>4, <1>5

\* A draft's fields, as those of a claim.
LEMMA DraftFields ==
    ASSUME NEW d, [d EXCEPT !.id = 1] \in Claim
    PROVE  /\ d.target \in Target /\ d.public \in Key /\ d.key \in ClaimId \cup {NoKey}
           /\ d.payload \in Documents
<1> DEFINE e == [d EXCEPT !.id = 1]
<1> USE DEF Fields
<1>1. DOMAIN e = Fields
    BY DEF Claim
<1>2. DOMAIN d = Fields
    BY <1>1
<1>3. e.target = d.target /\ e.public = d.public /\ e.key = d.key /\ e.payload = d.payload
    BY <1>2
<1> HIDE DEF e
<1>4. e \in Claim
    BY DEF e
<1>5. QED
    BY <1>3, <1>4, ClaimFields

LEMMA FirstId == 1 \in ClaimId
BY KeyResolutionAssumption, AttestCliAssumption DEF ClaimId

LEMMA KeyTargets == \A k \in Key : KeyTarget(k) \in Target
BY DEF Target, KeyTarget

\* What publishes a key, on the chain it is put on.
LEMMA PublicationIs ==
    ASSUME NEW t \in Target, t.kind = KEY_TARGET_KIND, NEW k \in Key,
           NEW link \in ClaimId \cup {NoKey}
    PROVE  LET claim == Publication(t, k, link)
           IN  /\ [claim EXCEPT !.id = 1] \in Claim
               /\ claim.target = t /\ claim.payload = k
               /\ claim.payload_kind = KEY_KIND /\ claim.key = link
               /\ claim.named = "neither" /\ IsKeyClaim(claim)
<1> DEFINE made(built) ==
             [id |-> 0, target |-> t, payload |-> k, payload_kind |-> KEY_KIND, key |-> link,
              by |-> k, public |-> k, named |-> "neither", built |-> built]
           fields(claim) == /\ [claim EXCEPT !.id = 1] \in Claim
                            /\ claim.target = t /\ claim.payload = k
                            /\ claim.payload_kind = KEY_KIND /\ claim.key = link
                            /\ claim.named = "neither"
<1>1. ASSUME NEW built \in BOOLEAN PROVE fields(made(built))
    <2>1. [made(built) EXCEPT !.id = 1] =
            [id |-> 1, target |-> t, payload |-> k, payload_kind |-> KEY_KIND, key |-> link,
             by |-> k, public |-> k, named |-> "neither", built |-> built]
        OBVIOUS
    <2>2. [made(built) EXCEPT !.id = 1] \in Claim
        BY <2>1, FirstId DEF Claim
    <2>3. QED
        BY <2>2
<1> HIDE DEF fields
<1>2. \E built \in BOOLEAN : Publication(t, k, link) = made(built)
    BY Zenon DEF Publication
<1> HIDE DEF made
<1>3. fields(Publication(t, k, link))
    BY <1>1, <1>2
<1>4. QED
    BY <1>3 DEF fields, IsKeyClaim

LEMMA KeyAddIs ==
    ASSUME NEW k \in Key
    PROVE  /\ [KeyAdd(k) EXCEPT !.id = 1] \in Claim
           /\ KeyAdd(k).target = KeyTarget(k) /\ KeyAdd(k).payload = k
           /\ KeyAdd(k).payload_kind = KEY_KIND /\ KeyAdd(k).named = "neither"
           /\ IsKeyClaim(KeyAdd(k))
<1>1. KeyTarget(k) \in Target /\ KeyTarget(k).kind = KEY_TARGET_KIND
    BY KeyTargets DEF KeyTarget
<1>2. QED
    BY <1>1, PublicationIs DEF KeyAdd

\* A key-add on its chain.
LEMMA LandedKeyAdd ==
    ASSUME NEW k \in Key, NEW claim, IsKeyAdd(claim, k), claim.id \in ClaimId, claim.by \in Key
    PROVE  claim.payload = k /\ IsKeyClaim(claim)
<1> DEFINE add == KeyAdd(k)
<1>1. /\ [add EXCEPT !.id = 1] \in Claim
      /\ add.payload = k /\ IsKeyClaim(add)
    BY KeyAddIs
<1>2. claim = Signed(add, claim.id, claim.by)
    BY DEF IsKeyAdd, Signed
<1> HIDE DEF add
<1>3. /\ claim.payload = add.payload /\ claim.target = add.target
      /\ claim.payload_kind = add.payload_kind
    BY <1>1, <1>2, DraftLands
<1>4. QED
    BY <1>1, <1>3 DEF IsKeyClaim

-----------------------------------------------------------------------------
(***************************************************************************)
(* Growing                                                                 *)
(***************************************************************************)

LEMMA SameIsExtended == ASSUME NEW C PROVE Extended(C, C)
BY DEF Extended

\* A claim that is well named stays so.
LEMMA StaysNamed ==
    ASSUME NEW C, NEW D, Chains(C, Claim), Extended(C, D),
           NEW claim, claim.public \in Key, WellNamed(C, claim)
    PROVE  WellNamed(D, claim)
<1>1. claim.named = "given" => claim.key \in Ids(D) /\ Resolve(D, Key, claim.key).tag # "error"
    BY DEF Extended, WellNamed
<1>2. ASSUME claim.named = "default" PROVE DefaultLink(D, claim.public, claim.key)
    <2> DEFINE t == KeyTarget(claim.public)
    <2>1. t \in Target /\ C[t] \in Seq(Claim)
        BY KeyTargets DEF Chains
    <2>2. PICK i \in DOMAIN C[t] :
            /\ C[t][i].id = claim.key
            /\ \/ /\ C[t][i].payload = claim.public
                  /\ \A j \in 1..(i - 1) : C[t][j].payload # claim.public
               \/ IsKeyAdd(C[t][i], claim.public)
        BY <1>2 DEF WellNamed, DefaultLink
    <2>3. i \in DOMAIN D[t] /\ D[t][i] = C[t][i]
        BY <2>1 DEF Extended
    <2>4. \A j \in 1..(i - 1) : D[t][j] = C[t][j]
        <3>1. \A j \in 1..(i - 1) : j \in DOMAIN C[t]
            BY <2>1, <2>2
        <3>2. QED
            BY <2>1, <3>1 DEF Extended
    <2> HIDE DEF t
    <2>5. \/ /\ D[t][i].payload = claim.public
             /\ \A j \in 1..(i - 1) : D[t][j].payload # claim.public
          \/ IsKeyAdd(D[t][i], claim.public)
        BY <2>2, <2>3, <2>4
    <2>6. QED
        BY <2>2, <2>3, <2>5 DEF DefaultLink, t
<1>3. QED
    BY <1>1, <1>2 DEF WellNamed

LEMMA StaysSound ==
    ASSUME NEW C, NEW D, Chains(C, Claim), Extended(C, D), NEW E, NEW F, E \subseteq F,
           NEW claim, claim.public \in Key, Sound(C, E, claim)
    PROVE  Sound(D, F, claim)
BY StaysNamed DEF Sound

\* A command that does not move keeps what it has ascertained.
LEMMA OtherKeeps ==
    ASSUME NEW q \in Process, Command(q), Chains(chain, Claim), Extended(chain, chain'),
           schemas \subseteq schemas', entities \subseteq entities',
           pc'[q] = pc[q], on'[q] = on[q], draft'[q] = draft[q]
    PROVE  Command(q)'
<1>1. CASE pc[q] = "idle" /\ on[q] = Idle.on /\ draft[q] = Idle.draft
    BY <1>1 DEF Command
<1>2. CASE pc[q] \in Steps /\ Working(q) /\ Ascertained(q)
    <2>1. Working(q)'
        BY <1>2 DEF Working
    <2>2. /\ pc[q] = "register_keys" => CLAIM_KIND \in schemas'
          /\ pc[q] \in {"key", "write_key", "add_key", "payload", "append"} =>
                Kinds \subseteq schemas'
          /\ draft[q].named = "given" => draft[q].key \in Ids(chain')
          /\ pc[q] = "add_key" => draft[q].public \in entities'
          /\ pc[q] = "append" /\ draft[q].built => draft[q].payload \in entities'
        BY <1>2 DEF Ascertained, Extended, Landed
    <2>3. ASSUME pc[q] \in {"payload", "append"}
          PROVE  draft[q].key \in Ids(chain') /\ WellNamed(chain', draft[q])
        <3>1. draft[q].key \in Ids(chain) /\ WellNamed(chain, draft[q])
            BY <1>2, <2>3 DEF Ascertained, Landed
        <3>2. draft[q].public \in Key
            BY <1>2, DraftFields DEF Working
        <3>3. QED
            BY <3>1, <3>2, StaysNamed DEF Extended
    <2>4. Ascertained(q)'
        BY <1>2, <2>2, <2>3 DEF Ascertained, Landed
    <2>5. QED
        BY <1>2, <2>1, <2>4 DEF Command
<1>3. QED
    BY <1>1, <1>2 DEF Command

\* The chains of a store.
LEMMA StoreChains ==
    ASSUME Store
    PROVE  /\ Chains(chain, Claim) /\ Distinct(chain) /\ Placed(chain)
           /\ DOMAIN chain = Target
BY DEF Store, Chains

\* A step of one process that lands no claim.
LEMMA QuietStep ==
    ASSUME CliInv, NEW p \in Process, chain' = chain,
           schemas \subseteq schemas', schemas' \subseteq Kinds,
           entities \subseteq entities', entities' \subseteq Documents,
           commands' \in 0..MaxCommands, changes' \in 0..MaxChanges,
           disk' \in [Process -> [private : Key, sidecar : Key \cup {NoSidecar}]],
           DOMAIN pc' = Process, DOMAIN on' = Process, DOMAIN draft' = Process,
           \A q \in Process : q # p =>
                pc'[q] = pc[q] /\ on'[q] = on[q] /\ draft'[q] = draft[q],
           Command(p)'
    PROVE  CliInv'
<1>1. Distinct(chain)' /\ Placed(chain)' /\ Numbered'
    <2>1. Distinct(chain) /\ Placed(chain) /\ Numbered
        BY DEF CliInv, Store
    <2>2. Distinct(chain)' /\ Placed(chain)'
        BY <2>1 DEF Distinct, Placed
    <2>3. Numbered'
        BY <2>1 DEF Numbered
    <2>4. QED
        BY <2>2, <2>3
<1>2. Landed' = Landed
    BY DEF Landed
<1>3. ClaimsHold'
    <2>1. ASSUME NEW t \in Target, NEW i \in DOMAIN chain[t]
          PROVE  Sound(chain, entities', chain[t][i])
        <3>1. Chains(chain, Claim) /\ Sound(chain, entities, chain[t][i])
            BY StoreChains DEF CliInv, Store, ClaimsHold
        <3>2. chain[t][i].public \in Key
            BY <3>1, ClaimFields DEF Chains
        <3>3. QED
            BY <3>1, <3>2, SameIsExtended, StaysSound
    <2>2. QED
        BY <2>1 DEF ClaimsHold
<1>4. Store'
    BY <1>1, <1>2, <1>3 DEF CliInv, Store
<1>5. \A q \in Process : Command(q)'
    BY SameIsExtended, OtherKeeps, StoreChains DEF CliInv
<1>6. QED
    BY <1>4, <1>5 DEF CliInv

\* A claim that lands on top of a chain, with the next id.
LEMMA LandingStep ==
    ASSUME Store, NEW t \in Target, NEW claim \in Claim,
           claim.id = NextId, chain' = [chain EXCEPT ![t] = Append(chain[t], claim)],
           Kinds \subseteq schemas, schemas' = schemas,
           entities \subseteq entities', entities' \subseteq Documents,
           commands' \in 0..MaxCommands, changes' \in 0..MaxChanges, disk' = disk,
           IsKeyClaim(claim) => claim.target = t, Sound(chain, entities', claim)
    PROVE  /\ Store' /\ Extended(chain, chain')
           /\ Landed' = Landed \cup {claim.id}
           /\ Len(chain[t]) + 1 \in DOMAIN chain'[t]
           /\ chain'[t][Len(chain[t]) + 1] = claim
<1> DEFINE top == Len(chain[t]) + 1
<1>1. /\ Chains(chain, Claim) /\ Distinct(chain) /\ Placed(chain)
      /\ DOMAIN chain = Target
    BY StoreChains
<1>2. PICK n \in Nat : Ids(chain) = 1..n
    BY DEF Store, Numbered
<1>3. NextId = n + 1
    <2>1. Cardinality(1..n) = n
        BY <1>2, FS_Interval
    <2>2. QED
        BY <1>2, <2>1 DEF NextId, Landed
<1>4. Grown(chain, chain', t, claim)
    BY <1>2, <1>3 DEF Grown
<1>5. /\ Chains(chain', Claim)
      /\ chain'[t][top] = claim
      /\ \A u \in Target : \A i \in DOMAIN chain[u] :
            i \in DOMAIN chain'[u] /\ chain'[u][i] = chain[u][i]
      /\ \A u \in Target : \A i \in DOMAIN chain'[u] :
            i \in DOMAIN chain[u] \/ (u = t /\ i = top)
    BY <1>1, <1>4, GrownChains
<1>6. top \in DOMAIN chain'[t]
    <2>1. chain[t] \in Seq(Claim) /\ chain'[t] = Append(chain[t], claim)
        BY <1>1 DEF Chains
    <2>2. QED
        BY <2>1
<1>7. Distinct(chain')
    BY <1>1, <1>4, GrownDistinct
<1>8. Ids(chain') = Ids(chain) \cup {claim.id}
    BY <1>1, <1>4, GrownIds
<1>9. Placed(chain')
    <2>1. DOMAIN chain' = Target
        BY <1>5 DEF Chains
    <2>2. claim.target \in Target
        BY ClaimFields
    <2>3. ASSUME NEW u \in Target, NEW i \in DOMAIN chain'[u]
          PROVE  /\ chain'[u][i].target \in Target
                 /\ IsKeyClaim(chain'[u][i]) => chain'[u][i].target = u
        <3>1. CASE i \in DOMAIN chain[u]
            BY <1>1, <1>5, <3>1 DEF Placed
        <3>2. CASE u = t /\ i = top
            BY <1>5, <2>2, <3>2
        <3>3. QED
            BY <1>5, <3>1, <3>2
    <2>4. QED
        BY <2>1, <2>3 DEF Placed
<1>10. Extended(chain, chain')
    <2>1. \A c \in Ids(chain) : Resolve(chain', Key, c) = Resolve(chain, Key, c)
        BY <1>1, <1>4, <1>9, GrownResolve
    <2>2. QED
        BY <1>5, <1>8, <2>1 DEF Extended
<1>11. Numbered'
    <2>1. (1..n) \cup {n + 1} = 1..(n + 1) /\ n + 1 \in Nat
        OBVIOUS
    <2>2. claim.id = n + 1
        BY <1>3
    <2>3. Ids(chain') = 1..(n + 1)
        BY <1>2, <1>8, <2>1, <2>2
    <2>4. QED
        BY <2>1, <2>3 DEF Numbered
<1>12. ClaimsHold'
    <2>1. ASSUME NEW u \in Target, NEW i \in DOMAIN chain'[u]
          PROVE  Sound(chain', entities', chain'[u][i])
        <3>1. CASE i \in DOMAIN chain[u]
            <4>1. chain'[u][i] = chain[u][i] /\ Sound(chain, entities, chain[u][i])
                BY <1>5, <3>1 DEF Store, ClaimsHold
            <4>2. chain[u][i].public \in Key
                BY <1>1, <3>1, ClaimFields DEF Chains
            <4>3. QED
                BY <1>1, <1>10, <4>1, <4>2, StaysSound
        <3>2. CASE u = t /\ i = top
            <4>1. chain'[u][i] = claim
                BY <1>5, <3>2
            <4>2. claim.public \in Key
                BY ClaimFields
            <4>3. Sound(chain', entities', claim)
                BY <1>1, <1>10, <4>2, StaysSound
            <4>4. QED
                BY <4>1, <4>3
        <3>3. QED
            BY <1>5, <3>1, <3>2
    <2>2. QED
        BY <2>1 DEF ClaimsHold
<1>13. Store'
    <2>1. chain' \in [Target -> Seq(Claim)]
        BY <1>5 DEF Chains
    <2>2. Distinct(chain)' /\ Placed(chain)'
        BY <1>7, <1>9
    <2>3. QED
        BY <1>11, <1>12, <2>1, <2>2 DEF Store
<1>14. QED
    BY <1>5, <1>6, <1>8, <1>10, <1>13 DEF Landed

-----------------------------------------------------------------------------
(***************************************************************************)
(* The invariant                                                           *)
(***************************************************************************)

LEMMA CliInit == Init => CliInv
<1> SUFFICES ASSUME Init PROVE CliInv
    OBVIOUS
<1>1. /\ DOMAIN chain = Target
      /\ \A t \in Target : DOMAIN chain[t] = {}
      /\ chain \in [Target -> Seq(Claim)]
    BY EmptySeq DEF Init
<1>2. Ids(chain) = {}
    BY <1>1 DEF Ids
<1>3. Numbered
    <2>1. Ids(chain) = 1..0
        BY <1>2
    <2>2. QED
        BY <2>1 DEF Numbered
<1>4. Distinct(chain) /\ Placed(chain) /\ ClaimsHold
    BY <1>1 DEF Distinct, Placed, ClaimsHold
<1>5. disk \in [Process -> [private : Key, sidecar : Key \cup {NoSidecar}]]
    BY DEF Init
<1>6. commands \in 0..MaxCommands /\ changes \in 0..MaxChanges
    BY AttestCliAssumption DEF Init
<1>7. Store
    BY <1>1, <1>2, <1>3, <1>4, <1>5, <1>6 DEF Init, Store, Landed
<1>8. \A p \in Process : Command(p)
    <2>1. Idle.pc = "idle"
        BY DEF Idle
    <2>2. QED
        BY <2>1 DEF Init, Command
<1>9. QED
    BY <1>7, <1>8 DEF Init, CliInv

\* A process in its command.
LEMMA AtWork ==
    ASSUME CliInv, NEW p \in Process, pc[p] # "idle"
    PROVE  /\ pc[p] \in Steps /\ Working(p) /\ Ascertained(p)
           /\ draft[p].public \in Key /\ draft[p].payload \in Documents
BY DraftFields DEF CliInv, Command, Working, Idle

\* Going from one step of a command to another.
LEMMA GoneTo ==
    ASSUME CliInv, NEW p \in Process, NEW step, Goto(p, step)
    PROVE  /\ DOMAIN pc' = Process /\ pc'[p] = step
           /\ \A q \in Process : q # p => pc'[q] = pc[q]
BY DEF CliInv, Goto

\* A landed claim.
LEMMA LandedClaim ==
    ASSUME Store, NEW c \in Landed
    PROVE  /\ c \in ClaimId /\ ClaimAt(chain, c) \in Claim
           /\ Kinds \subseteq schemas
           /\ Sound(chain, entities, ClaimAt(chain, c))
           /\ \E t \in Target : \E i \in DOMAIN chain[t] :
                /\ ClaimAt(chain, c) = chain[t][i] /\ chain[t][i].id = c
                /\ IsKeyClaim(chain[t][i]) => chain[t][i].target = t
<1>1. Chains(chain, Claim) /\ Distinct(chain) /\ Placed(chain) /\ DOMAIN chain = Target
    BY StoreChains
<1>2. PICK t \in Target : \E i \in DOMAIN chain[t] :
            ClaimAt(chain, c) = chain[t][i] /\ chain[t][i].id = c /\ chain[t][i] \in Claim
    BY <1>1, ClaimAtSome DEF Landed
<1>3. PICK i \in DOMAIN chain[t] :
            ClaimAt(chain, c) = chain[t][i] /\ chain[t][i].id = c /\ chain[t][i] \in Claim
    BY <1>2
<1>4. IsKeyClaim(chain[t][i]) => chain[t][i].target = t
    BY <1>1 DEF Placed
<1>5. Sound(chain, entities, chain[t][i])
    BY DEF Store, ClaimsHold
<1>6. c \in ClaimId /\ ClaimAt(chain, c) \in Claim /\ Kinds \subseteq schemas
    BY <1>3, ClaimFields DEF Store
<1>7. QED
    BY <1>3, <1>4, <1>5, <1>6

LEMMA BeginKeeps ==
    ASSUME CliInv, NEW p \in Process, Ready(p), NEW target \in Target, NEW claim,
           Begin(p, target, claim),
           [claim EXCEPT !.id = 1] \in Claim,
           claim.named \in {"default", "given"},
           claim.named = "given" => claim.key \in Landed,
           IsKeyClaim(claim) => claim.target = target,
           claim.built /\ IsKeyClaim(claim) => claim.payload \in Key
    PROVE  CliInv'
<1>1. /\ UNCHANGED <<schemas, entities, chain, changes, disk>>
      /\ DOMAIN pc' = Process /\ DOMAIN on' = Process /\ DOMAIN draft' = Process
      /\ pc'[p] = "kinds" /\ on'[p] = target /\ draft'[p] = claim
      /\ \A q \in Process : q # p =>
            pc'[q] = pc[q] /\ on'[q] = on[q] /\ draft'[q] = draft[q]
    BY GoneTo DEF Begin, CliInv
<1>2. commands' \in 0..MaxCommands
    BY AttestCliAssumption DEF Begin, Ready, CliInv, Store
<1>3. Working(p)' /\ Ascertained(p)'
    BY <1>1 DEF Working, Ascertained, Landed
<1>4. Command(p)'
    BY <1>1, <1>3 DEF Command, Steps
<1>5. QED
    BY <1>1, <1>2, <1>4, QuietStep DEF CliInv, Store

\* What a command line comes to.
LEMMA RequestIs ==
    ASSUME CliInv, NEW p \in Process, NEW t \in Target, NEW payload \in Documents,
           NEW kind \in {KEY_KIND, "revocation", "note"}, NEW built \in BOOLEAN,
           NEW key \in KeyArgument
    PROVE  LET claim == Request(p, t, payload, kind, built, key)
           IN  /\ [claim EXCEPT !.id = 1] \in Claim
               /\ claim.named \in {"default", "given"}
               /\ claim.named = "given" => claim.key \in Landed
               /\ claim.target = t /\ claim.payload = payload
               /\ claim.payload_kind = kind /\ claim.built = built
<1> DEFINE public == PublicLine(p)
           named == IF key = NoKey THEN "default" ELSE "given"
           claim == [id |-> 0, target |-> t, payload |-> payload, payload_kind |-> kind,
                     key |-> key, by |-> public, public |-> public, named |-> named,
                     built |-> built]
<1>1. public \in Key
    BY DEF PublicLine, CliInv, Store
<1>2. key \in ClaimId \cup {NoKey}
    BY LandedClaim DEF KeyArgument, CliInv
<1>3. named \in {"default", "given"} /\ (named = "given" => key \in Landed)
    BY DEF KeyArgument
<1>4. Request(p, t, payload, kind, built, key) = claim
    BY DEF Request
<1> HIDE DEF public, named
<1>5. [claim EXCEPT !.id = 1] \in Claim
    <2>1. [claim EXCEPT !.id = 1] =
            [id |-> 1, target |-> t, payload |-> payload, payload_kind |-> kind,
             key |-> key, by |-> public, public |-> public, named |-> named,
             built |-> built]
        OBVIOUS
    <2>2. QED
        BY <1>1, <1>2, <1>3, <2>1, FirstId DEF Claim, Documents
<1>6. /\ claim.target = t /\ claim.payload = payload /\ claim.payload_kind = kind
      /\ claim.built = built /\ claim.named = named /\ claim.key = key
    OBVIOUS
<1> HIDE DEF claim
<1>7. QED
    BY <1>3, <1>4, <1>5, <1>6

LEMMA SignKeeps == ASSUME CliInv, NEW p \in Process, Sign(p) PROVE CliInv'
<1>1. PICK t \in Target, kind \in {KEY_KIND, "note"}, payload \in Documents,
           built \in BOOLEAN, key \in KeyArgument :
        /\ built => (kind = KEY_KIND <=> payload \in Key)
        /\ Begin(p, t, Request(p, t, payload, kind, built, key))
    BY DEF Sign, Documents
<1> DEFINE claim == Request(p, t, payload, kind, built, key)
<1>2. /\ [claim EXCEPT !.id = 1] \in Claim
      /\ claim.named \in {"default", "given"}
      /\ claim.named = "given" => claim.key \in Landed
      /\ claim.target = t /\ claim.payload = payload
      /\ claim.payload_kind = kind /\ claim.built = built
    BY RequestIs
<1>3. Begin(p, t, claim) /\ Ready(p)
    BY <1>1 DEF Sign
<1> HIDE DEF claim
<1>4. claim.built /\ IsKeyClaim(claim) => claim.payload \in Key
    BY <1>1, <1>2 DEF IsKeyClaim
<1>5. QED
    BY <1>2, <1>3, <1>4, BeginKeeps

LEMMA RevokeKeeps == ASSUME CliInv, NEW p \in Process, Revoke(p) PROVE CliInv'
<1>1. PICK c \in Landed, key \in KeyArgument, built \in BOOLEAN :
        Begin(p, ClaimAt(chain, c).target,
              Request(p, AboutClaim(c), OtherTree, "revocation", built, key))
    BY Zenon DEF Revoke
<1> DEFINE t == ClaimAt(chain, c).target
           claim == Request(p, AboutClaim(c), OtherTree, "revocation", built, key)
<1>2. t \in Target /\ AboutClaim(c) \in Target
    BY LandedClaim, ClaimFields DEF CliInv, AboutClaim, Target
<1>3. /\ [claim EXCEPT !.id = 1] \in Claim
      /\ claim.named \in {"default", "given"}
      /\ claim.named = "given" => claim.key \in Landed
      /\ claim.payload_kind = "revocation"
    BY <1>2, RequestIs DEF Documents
<1>4. Begin(p, t, claim) /\ Ready(p)
    BY <1>1 DEF Revoke
<1> HIDE DEF claim, t
<1>5. ~IsKeyClaim(claim)
    BY <1>3 DEF IsKeyClaim, KEY_KIND
<1>6. QED
    BY <1>2, <1>3, <1>4, <1>5, BeginKeeps

\* A step that moves a process on and publishes at most something.
LEMMA MoveKeeps ==
    ASSUME CliInv, NEW p \in Process, pc[p] # "idle", NEW step \in Steps, Goto(p, step),
           UNCHANGED <<chain, commands, changes, disk, on, draft>>,
           schemas \subseteq schemas', schemas' \subseteq Kinds,
           entities \subseteq entities', entities' \subseteq Documents,
           Ascertained(p)'
    PROVE  CliInv'
<1>1. Working(p)'
    BY AtWork DEF Working
<1>2. Command(p)'
    BY <1>1, GoneTo DEF Command
<1>3. QED
    BY <1>2, GoneTo, QuietStep DEF CliInv, Store

LEMMA SchemasKeep ==
    ASSUME CliInv, NEW p \in Process, EnsureSchemas(p) \/ RegisterClaims(p) \/ RegisterKeys(p)
    PROVE  CliInv'
<1> USE DEF Steps, Kinds
<1>1. schemas \subseteq Kinds /\ entities \subseteq Documents
    BY DEF CliInv, Store
<1>2. pc[p] # "idle" => (draft[p].named = "given" => draft[p].key \in Landed)
    BY AtWork DEF Ascertained
<1>3. CASE EnsureSchemas(p)
    <2>1. CASE Kinds \subseteq schemas
        <3>1. Goto(p, "key") /\ pc[p] # "idle"
              /\ UNCHANGED <<schemas, entities, chain, commands, changes, disk, on, draft>>
            BY <1>3, <2>1 DEF EnsureSchemas
        <3>2. Ascertained(p)'
            BY <1>2, <2>1, <3>1, GoneTo DEF Ascertained, Landed
        <3>3. QED
            BY <1>1, <3>1, <3>2, MoveKeeps
    <2>2. CASE ~(Kinds \subseteq schemas)
        <3>1. Goto(p, "register_claims") /\ pc[p] # "idle"
              /\ UNCHANGED <<schemas, entities, chain, commands, changes, disk, on, draft>>
            BY <1>3, <2>2 DEF EnsureSchemas
        <3>2. Ascertained(p)'
            BY <1>2, <3>1, GoneTo DEF Ascertained, Landed
        <3>3. QED
            BY <1>1, <3>1, <3>2, MoveKeeps
    <2>3. QED
        BY <2>1, <2>2
<1>4. CASE RegisterClaims(p)
    <2>1. Ascertained(p)'
        BY <1>2, <1>4, GoneTo DEF RegisterClaims, Ascertained, Landed
    <2>2. QED
        BY <1>1, <1>4, <2>1, MoveKeeps DEF RegisterClaims
<1>5. CASE RegisterKeys(p)
    <2>1. CLAIM_KIND \in schemas
        BY <1>5, AtWork DEF RegisterKeys, Ascertained
    <2>2. Ascertained(p)'
        BY <1>2, <1>5, <2>1, GoneTo DEF RegisterKeys, Ascertained, Landed
    <2>3. QED
        BY <1>1, <1>5, <2>2, MoveKeeps DEF RegisterKeys
<1>6. QED
    BY <1>3, <1>4, <1>5

LEMMA MissAndWriteKeep ==
    ASSUME CliInv, NEW p \in Process, MissKey(p) \/ WriteKey(p) \/ WritePayload(p)
    PROVE  CliInv'
<1> USE DEF Steps
<1>1. schemas \subseteq Kinds /\ entities \subseteq Documents
    BY DEF CliInv, Store
<1>2. CASE MissKey(p)
    <2>1. Kinds \subseteq schemas
        BY <1>2, AtWork DEF MissKey, Ascertained
    <2>2. Ascertained(p)'
        BY <1>2, <2>1, GoneTo DEF MissKey, Ascertained
    <2>3. QED
        BY <1>1, <1>2, <2>2, MoveKeeps DEF MissKey
<1>3. CASE WriteKey(p)
    <2>1. Kinds \subseteq schemas /\ draft[p].named = "default" /\ draft[p].public \in Key
        BY <1>3, AtWork DEF WriteKey, Ascertained
    <2>2. Ascertained(p)'
        BY <1>3, <2>1, GoneTo DEF WriteKey, Ascertained
    <2>3. entities' \subseteq Documents
        BY <1>1, <1>3, <2>1 DEF WriteKey, Documents
    <2>4. QED
        BY <1>1, <1>3, <2>2, <2>3, MoveKeeps DEF WriteKey
<1>4. CASE WritePayload(p)
    <2>1. /\ Kinds \subseteq schemas
          /\ draft[p].key \in Landed /\ WellNamed(chain, draft[p])
          /\ draft[p].payload \in Documents
        BY <1>4, AtWork DEF WritePayload, Ascertained
    <2>2. Ascertained(p)'
        BY <1>4, <2>1, GoneTo DEF WritePayload, Ascertained, Landed
    <2>3. QED
        BY <1>1, <1>4, <2>1, <2>2, MoveKeeps DEF WritePayload
<1>5. QED
    BY <1>2, <1>3, <1>4

\* What naming a link comes to.
LEMMA NameDoes ==
    ASSUME CliInv, NEW p \in Process, pc[p] \in {"key", "add_key"}, NEW link \in ClaimId,
           Name(p, link), schemas' = schemas, link \in Ids(chain'),
           draft[p].named = "given" => Resolve(chain', Key, link).tag # "error",
           draft[p].named = "default" => DefaultLink(chain', draft[p].public, link)
    PROVE  /\ Command(p)'
           /\ DOMAIN pc' = Process /\ DOMAIN on' = Process /\ DOMAIN draft' = Process
           /\ \A q \in Process : q # p =>
                pc'[q] = pc[q] /\ on'[q] = on[q] /\ draft'[q] = draft[q]
           /\ commands' = commands /\ changes' = changes /\ disk' = disk
<1> DEFINE d == draft[p]
           step == IF d.built THEN "payload" ELSE "append"
           named == [d EXCEPT !.key = link]
<1>1. /\ Working(p) /\ Kinds \subseteq schemas
    BY AtWork DEF Ascertained
<1>2. /\ DOMAIN pc' = Process /\ DOMAIN on' = Process /\ DOMAIN draft' = Process
      /\ pc'[p] = step /\ on'[p] = on[p] /\ draft'[p] = named
      /\ \A q \in Process : q # p =>
            pc'[q] = pc[q] /\ on'[q] = on[q] /\ draft'[q] = draft[q]
      /\ commands' = commands /\ changes' = changes /\ disk' = disk
    BY GoneTo DEF Name, CliInv
<1>3. /\ [named EXCEPT !.id = 1] \in Claim
      /\ named.key = link /\ named.payload = d.payload
      /\ named.payload_kind = d.payload_kind /\ named.target = d.target
      /\ named.public = d.public /\ named.named = d.named /\ named.built = d.built
    <2>1. [d EXCEPT !.id = 1] \in Claim
        BY <1>1 DEF Working
    <2> HIDE DEF d
    <2>2. QED
        BY <2>1, DraftNames
<1> HIDE DEF named
<1>4. Working(p)'
    BY <1>1, <1>2, <1>3 DEF Working, IsKeyClaim
<1>5. WellNamed(chain', named)
    BY <1>3 DEF WellNamed
<1>6. Ascertained(p)'
    <2>1. pc'[p] = "append" => ~named.built
        BY <1>2, <1>3
    <2>2. pc'[p] \in {"payload", "append"}
        BY <1>2
    <2>3. Ids(chain)' = Ids(chain')
        BY DEF Ids
    <2>4. named.key \in Landed' /\ WellNamed(chain, draft[p])'
        BY <1>2, <1>3, <1>5, <2>3 DEF Landed
    <2> HIDE DEF step, d
    <2>5. QED
        BY <1>1, <1>2, <2>1, <2>2, <2>4 DEF Ascertained
<1>7. Command(p)'
    BY <1>2, <1>4, <1>6 DEF Command, Steps
<1>8. QED
    BY <1>2, <1>7

LEMMA GivenKeyKeeps == ASSUME CliInv, NEW p \in Process, GivenKey(p) PROVE CliInv'
<1>1. /\ pc[p] = "key" /\ draft[p].named = "given"
      /\ Resolve(chain, Key, draft[p].key).tag # "error"
      /\ Name(p, draft[p].key)
      /\ UNCHANGED <<schemas, entities, chain>>
    BY DEF GivenKey
<1>2. draft[p].key \in Landed /\ draft[p].key \in ClaimId
    BY <1>1, AtWork, LandedClaim DEF Ascertained, CliInv
<1> DEFINE link == draft[p].key
<1> HIDE DEF link
<1>3. /\ link \in ClaimId /\ Name(p, link) /\ link \in Ids(chain')
      /\ Resolve(chain', Key, link).tag # "error"
    BY <1>1, <1>2 DEF link, Landed
<1>4. QED
    BY <1>1, <1>3, NameDoes, QuietStep DEF CliInv, Store

\* The place of the oldest claim to point at a key on its chain.
LEMMA OldestIs ==
    ASSUME Store, NEW k \in Key, Published(k) # {}
    PROVE  /\ Min(Published(k)) \in DOMAIN chain[KeyTarget(k)]
           /\ chain[KeyTarget(k)][Min(Published(k))].payload = k
           /\ \A j \in 1..(Min(Published(k)) - 1) : chain[KeyTarget(k)][j].payload # k
<1> DEFINE log == chain[KeyTarget(k)]
           least == Min(Published(k))
<1>1. log \in Seq(Claim)
    BY KeyTargets DEF Store
<1>2. Published(k) \in SUBSET Nat
    BY <1>1 DEF Published
<1>3. \E x \in Published(k) : \A y \in Published(k) : x <= y
    BY <1>2, LeastPlace
<1>4. least \in Published(k) /\ \A y \in Published(k) : least <= y
    BY <1>3 DEF Min
<1> HIDE DEF least
<1>5. least \in DOMAIN log /\ log[least].payload = k
    BY <1>4 DEF Published
<1>6. ASSUME NEW j \in 1..(least - 1) PROVE log[j].payload # k
    <2>1. j \in DOMAIN log /\ ~(least <= j)
        BY <1>1, <1>5
    <2>2. QED
        BY <1>4, <2>1 DEF Published
<1>7. QED
    BY <1>5, <1>6 DEF least

LEMMA FindKeyKeeps == ASSUME CliInv, NEW p \in Process, FindKey(p) PROVE CliInv'
<1> DEFINE k == draft[p].public
           least == Min(Published(k))
           link == chain[KeyTarget(k)][least].id
<1>1. /\ pc[p] = "key" /\ draft[p].named = "default" /\ Published(k) # {}
      /\ Name(p, link)
      /\ UNCHANGED <<schemas, entities, chain>>
    BY DEF FindKey
<1>2. k \in Key
    BY <1>1, AtWork
<1>3. /\ least \in DOMAIN chain[KeyTarget(k)]
      /\ chain[KeyTarget(k)][least].payload = k
      /\ \A j \in 1..(least - 1) : chain[KeyTarget(k)][j].payload # k
    BY <1>1, <1>2, OldestIs DEF CliInv
<1> HIDE DEF least
<1>4. /\ KeyTarget(k) \in DOMAIN chain
      /\ chain[KeyTarget(k)][least] \in Claim
    BY <1>2, <1>3, KeyTargets DEF CliInv, Store
<1>5. link \in ClaimId /\ link \in Ids(chain)
    BY <1>3, <1>4, ClaimFields, IdsAreOnChains
<1>6. DefaultLink(chain, k, link)
    BY <1>3 DEF DefaultLink
<1> HIDE DEF link, k
<1>7. /\ Ids(chain') = Ids(chain)
      /\ DefaultLink(chain', k, link)
    BY <1>1, <1>6
<1>8. draft[p].named # "given"
    BY <1>1
<1>9. QED
    BY <1>1, <1>5, <1>7, <1>8, NameDoes, QuietStep DEF CliInv, Store, k

\* Ids are taken within the bound.
LEMMA NextIdIs == ASSUME Store, Room PROVE NextId \in ClaimId
<1>1. PICK n \in Nat : Ids(chain) = 1..n
    BY DEF Store, Numbered
<1>2. Cardinality(1..n) = n
    BY <1>1, FS_Interval
<1>3. QED
    BY <1>1, <1>2, KeyResolutionAssumption DEF Room, NextId, Landed, ClaimId

\* What publishes a key is sound once its document is there.
LEMMA PublicationIsSound ==
    ASSUME NEW C, NEW E, NEW k \in E, k \in Key, NEW claim,
           claim.payload = k, claim.named = "neither"
    PROVE  Sound(C, E, claim)
BY DEF Sound, WellNamed

LEMMA AddKeyKeeps == ASSUME CliInv, NEW p \in Process, AddKey(p) PROVE CliInv'
<1> DEFINE k == draft[p].public
           t == KeyTarget(k)
           by == SignsWith(p)
           link == NextId
           add == KeyAdd(k)
           claim == Signed(add, link, by)
<1>1. /\ pc[p] = "add_key" /\ Room
      /\ chain' = [chain EXCEPT ![t] = Append(chain[t], claim)]
      /\ Name(p, link)
      /\ schemas' = schemas /\ entities' = entities
    BY DEF AddKey, Lands, Signed
<1>2. /\ k \in Key /\ t \in Target /\ by \in Key /\ link \in ClaimId
      /\ Kinds \subseteq schemas /\ draft[p].named = "default" /\ k \in entities
    <2>1. by \in Key
        BY DEF SignsWith, CliInv, Store
    <2>2. QED
        BY <1>1, <2>1, AtWork, KeyTargets, NextIdIs DEF Ascertained, CliInv
<1>3. /\ [add EXCEPT !.id = 1] \in Claim
      /\ add.target = t /\ add.payload = k /\ add.payload_kind = KEY_KIND
      /\ add.named = "neither" /\ IsKeyClaim(add)
    BY <1>2, KeyAddIs
<1> HIDE DEF add, by, link
<1>4. /\ claim \in Claim /\ claim.id = link /\ claim.by = by
      /\ claim.target = t /\ claim.payload = k /\ claim.named = "neither"
    BY <1>2, <1>3, DraftLands
<1>5. IsKeyAdd(claim, k)
    <2>1. claim = Signed(add, claim.id, claim.by)
        BY <1>4
    <2>2. QED
        BY <2>1 DEF IsKeyAdd, Signed, add
<1> HIDE DEF claim, k, t
<1>6. commands' = commands /\ changes' = changes /\ disk' = disk
    BY <1>1 DEF Name
<1>7. /\ Store' /\ Extended(chain, chain')
      /\ Landed' = Landed \cup {link}
      /\ Len(chain[t]) + 1 \in DOMAIN chain'[t]
      /\ chain'[t][Len(chain[t]) + 1] = claim
    <2>1. /\ entities \subseteq entities' /\ entities' \subseteq Documents
          /\ commands' \in 0..MaxCommands /\ changes' \in 0..MaxChanges
        BY <1>1, <1>6 DEF CliInv, Store
    <2>2. Store
        BY DEF CliInv
    <2>3. Sound(chain, entities', claim)
        BY <1>1, <1>2, <1>4, PublicationIsSound
    <2> HIDE DEF CliInv, Store
    <2>4. claim.id = NextId
        BY <1>4 DEF link
    <2>5. QED
        BY <1>1, <1>2, <1>4, <1>6, <2>1, <2>2, <2>3, <2>4, LandingStep
<1>8. DefaultLink(chain', k, link)
    BY <1>4, <1>5, <1>7 DEF DefaultLink, t
<1>9. link \in Ids(chain')
    BY <1>7 DEF Landed
<1> HIDE DEF link
<1>10. draft[p].named # "given"
    BY <1>2
<1>11. /\ Command(p)'
       /\ DOMAIN pc' = Process /\ DOMAIN on' = Process /\ DOMAIN draft' = Process
       /\ \A q \in Process : q # p =>
            pc'[q] = pc[q] /\ on'[q] = on[q] /\ draft'[q] = draft[q]
    BY <1>1, <1>2, <1>8, <1>9, <1>10, NameDoes DEF k
<1>12. \A q \in Process : q # p => Command(q)'
    BY <1>1, <1>7, <1>11, OtherKeeps, StoreChains DEF CliInv
<1>13. QED
    BY <1>7, <1>11, <1>12 DEF CliInv

\* A command that ends, however it does.
LEMMA LeaveDoes ==
    ASSUME CliInv, NEW p \in Process, Leave(p)
    PROVE  /\ Command(p)'
           /\ DOMAIN pc' = Process /\ DOMAIN on' = Process /\ DOMAIN draft' = Process
           /\ \A q \in Process : q # p =>
                pc'[q] = pc[q] /\ on'[q] = on[q] /\ draft'[q] = draft[q]
<1>1. Idle.pc = "idle"
    BY DEF Idle
<1>2. /\ DOMAIN pc' = Process /\ DOMAIN on' = Process /\ DOMAIN draft' = Process
      /\ pc'[p] = "idle" /\ on'[p] = Idle.on /\ draft'[p] = Idle.draft
      /\ \A q \in Process : q # p =>
            pc'[q] = pc[q] /\ on'[q] = on[q] /\ draft'[q] = draft[q]
    BY <1>1, GoneTo DEF Leave, CliInv
<1>3. QED
    BY <1>2 DEF Command

LEMMA AbandonKeeps == ASSUME CliInv, NEW p \in Process, Abandon(p) PROVE CliInv'
<1>1. Leave(p) /\ UNCHANGED <<schemas, entities, chain, commands, changes, disk>>
    BY DEF Abandon
<1>2. QED
    BY <1>1, LeaveDoes, QuietStep DEF CliInv, Store

LEMMA AppendKeeps == ASSUME CliInv, NEW p \in Process, AppendClaim(p) PROVE CliInv'
<1> DEFINE d == draft[p]
           t == on[p]
           by == SignsWith(p)
           link == NextId
           claim == Signed(d, link, by)
<1>1. /\ pc[p] = "append" /\ Room /\ Leave(p)
      /\ chain' = [chain EXCEPT ![t] = Append(chain[t], claim)]
      /\ UNCHANGED <<schemas, entities, commands, changes, disk>>
    BY DEF AppendClaim, Lands, Signed
<1>2. Working(p) /\ Ascertained(p) /\ d.public \in Key
    BY <1>1, AtWork
<1>3. by \in Key /\ link \in ClaimId
    BY <1>1, NextIdIs DEF SignsWith, CliInv, Store
<1>4. /\ claim \in Claim /\ claim.id = link
      /\ claim.payload = d.payload /\ claim.payload_kind = d.payload_kind
      /\ claim.key = d.key /\ claim.public = d.public
      /\ claim.named = d.named /\ claim.built = d.built
      /\ claim.target = d.target
    <2>1. [d EXCEPT !.id = 1] \in Claim
        BY <1>2 DEF Working
    <2> HIDE DEF by, d, link
    <2>2. QED
        BY <1>3, <2>1, DraftLands
<1> HIDE DEF claim, d, t, by
<1>5. /\ t \in Target /\ Kinds \subseteq schemas
      /\ d.built => d.payload \in entities
      /\ d.built /\ IsKeyClaim(d) => d.payload \in Key
      /\ IsKeyClaim(d) => d.target = t
      /\ WellNamed(chain, d)
    BY <1>1, <1>2 DEF Working, Ascertained, d, t
<1>6. IsKeyClaim(claim) <=> IsKeyClaim(d)
    BY <1>4 DEF IsKeyClaim
<1>7. IsKeyClaim(claim) => claim.target = t
    BY <1>4, <1>5, <1>6
<1>8. Sound(chain, entities', claim)
    <2>1. WellNamed(chain, claim)
        BY <1>4, <1>5 DEF WellNamed
    <2>2. entities' = entities
        BY <1>1
    <2>3. claim.built => claim.payload \in entities'
        BY <1>4, <1>5, <2>2
    <2>4. claim.built /\ IsKeyClaim(claim) => claim.payload \in Key
        BY <1>4, <1>5, <1>6
    <2>5. QED
        BY <2>1, <2>3, <2>4 DEF Sound
<1>9. Store' /\ Extended(chain, chain')
    <2>1. /\ entities \subseteq entities' /\ entities' \subseteq Documents
          /\ commands' \in 0..MaxCommands /\ changes' \in 0..MaxChanges
        BY <1>1 DEF CliInv, Store
    <2>2. Store
        BY DEF CliInv
    <2> HIDE DEF CliInv, Store
    <2>3. QED
        BY <1>1, <1>4, <1>5, <1>7, <1>8, <2>1, <2>2, LandingStep
<1>10. \A q \in Process : q # p => Command(q)'
    BY <1>1, <1>9, LeaveDoes, OtherKeeps, StoreChains DEF CliInv
<1>11. QED
    BY <1>1, <1>9, <1>10, LeaveDoes DEF CliInv

LEMMA RotateKeeps == ASSUME CliInv, Rotate PROVE CliInv'
<1>1. PICK previous \in Landed, k \in Key, by \in Key :
        LET link == ClaimAt(chain, previous)
        IN  /\ IsKeyClaim(link)
            /\ entities' = entities \cup {k}
            /\ Lands(link.target, Publication(link.target, k, previous), by)
    BY DEF Rotate
<1> DEFINE t == ClaimAt(chain, previous).target
           id == NextId
           draftOf == Publication(t, k, previous)
           claim == Signed(draftOf, id, by)
<1>2. /\ IsKeyClaim(ClaimAt(chain, previous)) /\ Room
      /\ changes < MaxChanges /\ changes' = changes + 1
      /\ entities' = entities \cup {k}
      /\ chain' = [chain EXCEPT ![t] = Append(chain[t], claim)]
      /\ schemas' = schemas /\ commands' = commands /\ disk' = disk
      /\ pc' = pc /\ on' = on /\ draft' = draft
    BY <1>1 DEF Rotate, Lands, Signed, locals
<1>3. /\ previous \in ClaimId /\ t \in Target /\ t.kind = KEY_TARGET_KIND
      /\ Kinds \subseteq schemas
    BY <1>2, LandedClaim, ClaimFields DEF CliInv, IsKeyClaim
<1>4. id \in ClaimId
    BY <1>2, NextIdIs DEF CliInv
<1> HIDE DEF t, id
<1>5. /\ [draftOf EXCEPT !.id = 1] \in Claim
      /\ draftOf.payload = k /\ draftOf.target = t /\ draftOf.named = "neither"
    BY <1>3, PublicationIs
<1> HIDE DEF draftOf
<1>6. /\ claim \in Claim /\ claim.id = id
      /\ claim.target = t /\ claim.payload = k /\ claim.named = "neither"
    BY <1>4, <1>5, DraftLands
<1> HIDE DEF claim
<1>7. Store' /\ Extended(chain, chain')
    <2>1. /\ entities \subseteq entities' /\ entities' \subseteq Documents
          /\ commands' \in 0..MaxCommands /\ changes' \in 0..MaxChanges
        BY <1>2, AttestCliAssumption DEF CliInv, Store, Documents
    <2>2. Sound(chain, entities', claim)
        BY <1>2, <1>6, PublicationIsSound
    <2>3. claim.id = NextId
        BY <1>6 DEF id
    <2>4. Store
        BY DEF CliInv
    <2> HIDE DEF CliInv, Store
    <2>5. QED
        BY <1>2, <1>3, <1>6, <2>1, <2>2, <2>3, <2>4, LandingStep
<1>8. \A q \in Process : Command(q)'
    BY <1>2, <1>7, OtherKeeps, StoreChains DEF CliInv
<1>9. QED
    BY <1>2, <1>7, <1>8 DEF CliInv

LEMMA ReplaceKeyKeeps == ASSUME CliInv, NEW p \in Process, ReplaceKey(p) PROVE CliInv'
<1>1. PICK k \in Key, sidecar \in Key \cup {NoSidecar} :
        disk' = [disk EXCEPT ![p] = [private |-> k, sidecar |-> sidecar]]
    <2>1. \A k \in Key : \A sidecar \in {k, disk[p].sidecar, NoSidecar} :
            sidecar \in Key \cup {NoSidecar}
        BY DEF CliInv, Store
    <2>2. QED
        BY <2>1 DEF ReplaceKey
<1>2. disk' \in [Process -> [private : Key, sidecar : Key \cup {NoSidecar}]]
    BY <1>1 DEF CliInv, Store
<1>3. /\ UNCHANGED <<schemas, entities, chain, commands>>
      /\ changes' \in 0..MaxChanges
      /\ pc' = pc /\ on' = on /\ draft' = draft
    BY AttestCliAssumption DEF ReplaceKey, locals, CliInv, Store
<1>4. Command(p)'
    BY <1>3, SameIsExtended, OtherKeeps, StoreChains DEF CliInv
<1>5. QED
    BY <1>2, <1>3, <1>4, QuietStep DEF CliInv, Store

LEMMA CliNext == CliInv /\ [Next]_vars => CliInv'
<1> SUFFICES ASSUME CliInv, [Next]_vars PROVE CliInv'
    OBVIOUS
<1>1. CASE UNCHANGED vars
    <2>1. /\ UNCHANGED <<schemas, entities, chain, commands, changes, disk>>
          /\ pc' = pc /\ on' = on /\ draft' = draft
        BY <1>1 DEF vars, locals
    <2>2. \A q \in Process : Command(q)'
        BY <2>1, SameIsExtended, OtherKeeps, StoreChains DEF CliInv
    <2>3. Distinct(chain)' /\ Placed(chain)' /\ Numbered' /\ ClaimsHold'
        <3>1. Distinct(chain) /\ Placed(chain) /\ Numbered /\ ClaimsHold
            BY DEF CliInv, Store
        <3>2. Distinct(chain)' /\ Placed(chain)'
            BY <2>1, <3>1 DEF Distinct, Placed
        <3>3. Numbered' /\ ClaimsHold'
            BY <2>1, <3>1 DEF Numbered, ClaimsHold
        <3>4. QED
            BY <3>2, <3>3
    <2>4. Store'
        BY <2>1, <2>3 DEF CliInv, Store, Landed
    <2>5. QED
        BY <2>1, <2>2, <2>4 DEF CliInv
<1>2. CASE Next
    BY <1>2, SignKeeps, RevokeKeeps, SchemasKeep, GivenKeyKeeps, FindKeyKeeps,
       MissAndWriteKeep, AddKeyKeeps, AppendKeeps, AbandonKeeps, RotateKeeps, ReplaceKeyKeeps
       DEF Next
<1>3. QED
    BY <1>1, <1>2

\* The invariant holds of every reachable state.
THEOREM CliInvariant == Spec => []CliInv
BY CliInit, CliNext, PTL DEF Spec

\* The type invariant: what a command puts together is a claim, and its link has
\* landed before it writes (git-attest/src/main.rs).
THEOREM CliTypeCorrect == Spec => []TypeOK
<1>1. ASSUME CliInv PROVE TypeOK
    <2>1. \A p \in Process :
            \/ pc[p] = "idle" /\ on[p] = Idle.on /\ draft[p] = Idle.draft
            \/ /\ pc[p] \in {"kinds", "register_claims", "register_keys", "key",
                             "write_key", "add_key", "payload", "append"}
               /\ on[p] \in Target
               /\ [draft[p] EXCEPT !.id = 1] \in Claim
               /\ pc[p] \in {"payload", "append"} => draft[p].key \in Landed
        BY <1>1 DEF CliInv, Command, Working, Ascertained, Steps
    <2>2. QED
        BY <1>1, <2>1 DEF CliInv, Store, TypeOK, Kinds, Documents
<1>2. QED
    BY <1>1, CliInvariant, PTL

\* Whatever lands can be read: its schemas were published before it, and so was its
\* payload if its command made that (ensure_schemas and write_payload come first,
\* and nothing is ever taken away).
THEOREM LandedIsReadable == Spec => []ClaimsAreReadable
<1>1. CliInv => ClaimsAreReadable
    BY LandedClaim DEF CliInv, Sound, ClaimsAreReadable, Kinds
<1>2. QED
    BY <1>1, CliInvariant, PTL

-----------------------------------------------------------------------------
(***************************************************************************)
(* Verdicts                                                                *)
(***************************************************************************)

Verdicts == {"Verified", "BadSignature", "UnknownKeyFormat"}

\* `verify', once the key it names is resolved.
LEMMA VerifyIs ==
    ASSUME NEW C, NEW K, NEW c, NEW read, read = Resolve(C, K, ClaimAt(C, c).key),
           ClaimAt(C, c).key \in Ids(C)
    PROVE  /\ read.tag = "error" => Verify(C, K, c) = read.error
           /\ read.tag = "rejected" => Verify(C, K, c) = read.verdict
           /\ read.tag = "key" => Verify(C, K, c) = VerifyCommit(ClaimAt(C, c), read.key)
BY DEF Verify

\* The key a claim names, read with these documents: as it reads with all of them,
\* to a key or to a verdict, or else one of the links points at a document that is
\* not among these.
LEMMA LinkReads ==
    ASSUME Store, NEW S \in SUBSET Key, NEW c \in Landed, Resolve(chain, Key, c).tag # "error"
    PROVE  LET log == chain[ClaimAt(chain, c).target]
               read == Resolve(chain, S, c)
           IN  \/ read.tag = "key"
               \/ read.tag = "rejected" /\ read.verdict \in Verdicts
               \/ /\ read.tag = "error" /\ read.error = "Store"
                  /\ \E i \in DOMAIN log : \E j \in 1..i :
                        /\ j \in DOMAIN log /\ log[i].id = c
                        /\ IsKeyClaim(log[j]) /\ log[j].payload \in Key \ S
<1>1. Chains(chain, Claim) /\ Distinct(chain) /\ Placed(chain) /\ DOMAIN chain = Target
    BY StoreChains
<1>2. PICK t \in Target : \E i \in DOMAIN chain[t] :
            /\ ClaimAt(chain, c) = chain[t][i] /\ chain[t][i].id = c
            /\ IsKeyClaim(chain[t][i]) => chain[t][i].target = t
    BY LandedClaim
<1>3. PICK i \in DOMAIN chain[t] :
            /\ ClaimAt(chain, c) = chain[t][i] /\ chain[t][i].id = c
            /\ IsKeyClaim(chain[t][i]) => chain[t][i].target = t
    BY <1>2
<1> DEFINE log == chain[t]
<1>4. log \in Seq(Claim) /\ i \in 1..i /\ i \in Nat
    BY <1>1 DEF Chains
<1>5. Faults(Key, log, i) = {}
    <2>1. ASSUME Faults(Key, log, i) # {} PROVE FALSE
        <3>1. Resolve(chain, Key, log[i].id) = KeyDocument(Key, log[Max(Faults(Key, log, i))])
            BY <1>1, <2>1, FaultAt
        <3>2. KeyDocument(Key, log[Max(Faults(Key, log, i))]).tag = "error"
            BY <1>4, <2>1, LastFault
        <3>3. QED
            BY <1>3, <3>1, <3>2
    <2>2. QED
        BY <2>1
<1>6. \A j \in 1..i : IsKeyClaim(log[j]) /\ log[j].payload \in Key
    BY <1>5, DocumentRead DEF Faults
<1>7. chain[ClaimAt(chain, c).target] = log
    BY <1>3, <1>4, <1>6
<1> DEFINE read == Resolve(chain, S, log[i].id)
<1>8. /\ Faults(S, log, i) # {} => read = KeyDocument(S, log[Max(Faults(S, log, i))])
      /\ Faults(S, log, i) = {} /\ Bad(log, i) = {} =>
            read = [tag |-> "key", key |-> log[i].payload]
      /\ Faults(S, log, i) = {} /\ Bad(log, i) # {} =>
            /\ read.tag = "rejected"
            /\ \E j \in Bad(log, i) : read.verdict = VerifyCommit(log[j], log[j - 1].payload)
    <2>1. Faults(S, log, i) # {} => read = KeyDocument(S, log[Max(Faults(S, log, i))])
        BY <1>1, FaultAt
    <2>2. Faults(S, log, i) = {} /\ Bad(log, i) = {} =>
            read = [tag |-> "key", key |-> log[i].payload]
        BY <1>1, ResolveAt
    <2>3. Faults(S, log, i) = {} /\ Bad(log, i) # {} =>
            /\ read.tag = "rejected"
            /\ \E j \in Bad(log, i) : read.verdict = VerifyCommit(log[j], log[j - 1].payload)
        BY <1>1, ResolveAt
    <2>4. QED
        BY <2>1, <2>2, <2>3
<1>9. read = Resolve(chain, S, c)
    BY <1>3
<1> HIDE DEF read
<1>10. CASE Faults(S, log, i) # {}
    <2>1. PICK m \in 1..i : /\ KeyDocument(S, log[m]).tag = "error"
                            /\ read = KeyDocument(S, log[m])
        BY <1>4, <1>8, <1>10, LastFault
    <2>2. /\ log[m].payload \notin S
          /\ read.tag = "error" /\ read.error = "Store"
        BY <1>6, <2>1, DocumentRead
    <2>3. m \in DOMAIN log
        BY <1>4
    <2>4. QED
        BY <1>3, <1>6, <1>7, <1>9, <2>2, <2>3
<1>11. CASE Faults(S, log, i) = {} /\ Bad(log, i) = {}
    <2>1. read.tag = "key"
        BY <1>8, <1>11
    <2>2. QED
        BY <1>9, <2>1
<1>12. CASE Faults(S, log, i) = {} /\ Bad(log, i) # {}
    <2>1. \A one, key : VerifyCommit(one, key) \in Verdicts
        BY DEF VerifyCommit, Verdicts
    <2>2. QED
        BY <1>8, <1>9, <1>12, <2>1
<1>13. QED
    BY <1>10, <1>11, <1>12

\* A claim signed with --key has a verdict for ever, if the documents of the links
\* are there: that its link resolves was checked before the claim was put together,
\* and links resolve the same for ever (key_claim).
THEOREM GivenKeyIsVerified == Spec => []GivenKeyHasVerdict
<1>1. ASSUME CliInv, NEW c \in Landed, ClaimAt(chain, c).named = "given",
             NEW S \in Readings(Kept)
      PROVE  LET log == chain[ClaimAt(chain, ClaimAt(chain, c).key).target]
             IN  \/ Verify(chain, S, c) \in Verdicts
                 \/ /\ Verify(chain, S, c) = "Store"
                    /\ \E i \in DOMAIN log : \E j \in 1..i :
                            log[i].id = ClaimAt(chain, c).key /\ ~log[j].built
    <2> DEFINE claim == ClaimAt(chain, c)
               link == claim.key
               log == chain[ClaimAt(chain, link).target]
               read == Resolve(chain, S, link)
    <2>1. Store /\ S \in SUBSET Key /\ Kept \subseteq S
        BY <1>1 DEF CliInv, Readings
    <2>2. link \in Landed /\ Resolve(chain, Key, link).tag # "error"
        BY <1>1, <2>1, LandedClaim DEF Sound, WellNamed, Landed
    <2>3. /\ read.tag = "error" => Verify(chain, S, c) = read.error
          /\ read.tag = "rejected" => Verify(chain, S, c) = read.verdict
          /\ read.tag = "key" => Verify(chain, S, c) = VerifyCommit(claim, read.key)
        BY <2>2, VerifyIs DEF Landed
    <2>4. \/ read.tag = "key"
          \/ read.tag = "rejected" /\ read.verdict \in Verdicts
          \/ /\ read.tag = "error" /\ read.error = "Store"
             /\ \E i \in DOMAIN log : \E j \in 1..i :
                    /\ j \in DOMAIN log /\ log[i].id = link
                    /\ IsKeyClaim(log[j]) /\ log[j].payload \in Key \ S
        BY <2>1, <2>2, LinkReads
    <2>5. VerifyCommit(claim, read.key) \in Verdicts
        BY DEF VerifyCommit, Verdicts
    <2>6. \A j \in DOMAIN log : IsKeyClaim(log[j]) /\ log[j].payload \in Key \ S => ~log[j].built
        <3>1. ClaimAt(chain, link).target \in Target
            BY <2>1, <2>2, LandedClaim, ClaimFields
        <3>2. \A j \in DOMAIN log : Sound(chain, entities, log[j])
            BY <2>1, <3>1 DEF Store, ClaimsHold
        <3>3. \A k \in Key \ S : k \notin entities
            BY <2>1 DEF Kept
        <3> HIDE DEF log
        <3>4. QED
            BY <3>2, <3>3 DEF Sound
    <2> HIDE DEF claim, link, log, read
    <2>7. \/ Verify(chain, S, c) \in Verdicts
          \/ /\ Verify(chain, S, c) = "Store"
             /\ \E i \in DOMAIN log : \E j \in 1..i : log[i].id = link /\ ~log[j].built
        BY <2>3, <2>4, <2>5, <2>6
    <2>8. QED
        BY <2>7 DEF claim, link, log
<1>2. CliInv => GivenKeyHasVerdict
    BY <1>1 DEF GivenKeyHasVerdict, Verdicts
<1>3. QED
    BY <1>2, CliInvariant, PTL

\* The link of a claim signed without --key, where it is.
LEMMA DefaultPlace ==
    ASSUME Store, NEW k \in Key, NEW c, DefaultLink(chain, k, c)
    PROVE  LET log == chain[KeyTarget(k)]
               i == LinkAt(k, c)
           IN  /\ i \in DOMAIN log /\ log[i].id = c /\ c \in Landed
               /\ log[i].payload = k
               /\ i = Min(Published(k)) \/ IsKeyAdd(log[i], k)
<1> DEFINE t == KeyTarget(k)
           log == chain[t]
<1>1. PICK i \in DOMAIN log :
        /\ log[i].id = c
        /\ \/ log[i].payload = k /\ \A j \in 1..(i - 1) : log[j].payload # k
           \/ IsKeyAdd(log[i], k)
    BY DEF DefaultLink
<1>2. /\ t \in Target /\ DOMAIN chain = Target /\ log \in Seq(Claim)
      /\ Chains(chain, Claim) /\ Distinct(chain)
    BY KeyTargets, StoreChains DEF Chains
<1>3. LinkAt(k, c) = i
    <2>1. \A j \in DOMAIN log : log[j].id = c <=> j = i
        BY <1>1, <1>2 DEF Distinct
    <2>2. QED
        BY <2>1 DEF LinkAt
<1>4. c \in Landed
    BY <1>1, <1>2, IdsAreOnChains DEF Landed
<1>5. log[i].payload = k
    <2>1. log[i] \in Claim
        BY <1>1, <1>2
    <2>2. QED
        BY <1>1, <2>1, ClaimFields, LandedKeyAdd
<1>6. i = Min(Published(k)) \/ IsKeyAdd(log[i], k)
    <2>1. ASSUME log[i].payload = k, \A j \in 1..(i - 1) : log[j].payload # k
          PROVE  i = Min(Published(k))
        <3>1. Published(k) \in SUBSET Nat /\ i \in Published(k)
            BY <1>2, <2>1 DEF Published
        <3>2. \A y \in Published(k) : i <= y
            <4>1. ASSUME NEW y \in Published(k), y < i PROVE FALSE
                <5>1. y \in DOMAIN log /\ log[y].payload = k
                    BY DEF Published
                <5>2. y \in 1..(i - 1)
                    BY <1>2, <4>1, <5>1
                <5>3. QED
                    BY <2>1, <5>1, <5>2
            <4>2. QED
                BY <3>1, <4>1
        <3>3. \A x \in Published(k) : (\A y \in Published(k) : x <= y) => x = i
            BY <3>1, <3>2
        <3>4. QED
            BY <3>1, <3>2, <3>3 DEF Min
    <2>2. QED
        BY <1>1, <2>1
<1>7. QED
    BY <1>1, <1>3, <1>4, <1>5, <1>6

\* A link above a claim that publishes no key is an error.
LEMMA StrayedReads ==
    ASSUME Store, NEW S, NEW t \in Target, NEW i \in DOMAIN chain[t], Strayed(chain[t], i)
    PROVE  LET read == Resolve(chain, S, chain[t][i].id)
           IN  read.tag = "error" /\ read.error \in {"NotAKeyClaim", "Store"}
<1> DEFINE log == chain[t]
<1>1. Chains(chain, Claim) /\ Distinct(chain) /\ Placed(chain) /\ i \in Nat
    BY StoreChains DEF Chains
<1>2. PICK j \in 1..i : ~IsKeyClaim(log[j])
    BY DEF Strayed
<1>3. j \in Faults(S, log, i)
    BY <1>2, DocumentRead DEF Faults
<1>4. Resolve(chain, S, log[i].id) = KeyDocument(S, log[Max(Faults(S, log, i))])
    BY <1>1, <1>3, FaultAt
<1>5. KeyDocument(S, log[Max(Faults(S, log, i))]).tag = "error"
    BY <1>1, <1>3, LastFault
<1>6. QED
    BY <1>4, <1>5, DocumentRead

\* A link to k that nothing beneath it contests resolves to k.
LEMMA UncontestedResolves ==
    ASSUME Store, NEW S, NEW k \in Key, k \in S \cap Shipped,
           NEW t \in Target, NEW i \in DOMAIN chain[t], chain[t][i].payload = k,
           ~Strayed(chain[t], i), ~Contested(chain[t], i, k)
    PROVE  Resolve(chain, S, chain[t][i].id) = [tag |-> "key", key |-> k]
<1> DEFINE log == chain[t]
<1>1. Chains(chain, Claim) /\ Distinct(chain) /\ Placed(chain) /\ i \in Nat
    BY StoreChains DEF Chains
<1>2. /\ \A j \in 1..i : IsKeyClaim(log[j]) /\ log[j].payload = k
      /\ \A j \in 2..i : log[j].by = k
    BY <1>1 DEF Strayed, Contested
<1>3. Faults(S, log, i) = {}
    BY <1>2, DocumentRead DEF Faults
<1>4. Bad(log, i) = {}
    <2>1. \A j \in 2..i : log[j].by = k /\ log[j - 1].payload = k
        BY <1>1, <1>2
    <2>2. QED
        BY <2>1, VerifiedMeans DEF Bad
<1>5. QED
    BY <1>1, <1>3, <1>4, ResolveAt

\* A claim signed without --key names the oldest claim to point at its key, or the
\* key-add its command made. If that is no link of keys the claim is an error for
\* ever; if it is one that nothing contests, the claim verifies exactly when the
\* private key that signed it is the one whose public half was looked up
\* (key_claim, which looks at payloads and not at labels).
THEOREM DefaultKeyIsVerified == Spec => []DefaultKeyDecides
<1>1. ASSUME CliInv, NEW c \in Landed, ClaimAt(chain, c).named = "default"
      PROVE  LET claim == ClaimAt(chain, c)
                 k == claim.public
                 log == chain[KeyTarget(k)]
                 i == LinkAt(k, claim.key)
                 verdict == IF claim.by = k THEN "Verified" ELSE "BadSignature"
             IN  /\ i = Min(Published(k)) \/ IsKeyAdd(log[i], k)
                 /\ \A S \in Readings(Kept) :
                    /\ Strayed(log, i) => Verify(chain, S, c) \in {"NotAKeyClaim", "Store"}
                    /\ k \in S \cap Shipped /\ ~Strayed(log, i) /\ ~Contested(log, i, k) =>
                            Verify(chain, S, c) = verdict
    <2> DEFINE claim == ClaimAt(chain, c)
               k == claim.public
               t == KeyTarget(k)
               log == chain[t]
               i == LinkAt(k, claim.key)
               verdict == IF claim.by = k THEN "Verified" ELSE "BadSignature"
    <2>1. Store /\ Sound(chain, entities, claim) /\ claim \in Claim
        BY <1>1, LandedClaim DEF CliInv
    <2>2. k \in Key /\ claim.by \in Key /\ t \in Target
        BY <2>1, ClaimFields, KeyTargets
    <2>3. DefaultLink(chain, k, claim.key)
        BY <1>1, <2>1 DEF Sound, WellNamed
    <2>4. /\ i \in DOMAIN log /\ log[i].id = claim.key /\ claim.key \in Landed
          /\ log[i].payload = k
          /\ i = Min(Published(k)) \/ IsKeyAdd(log[i], k)
        BY <2>1, <2>2, <2>3, DefaultPlace
    <2> HIDE DEF i, t, k, claim
    <2>5. ASSUME NEW S \in Readings(Kept), Strayed(log, i)
          PROVE  Verify(chain, S, c) \in {"NotAKeyClaim", "Store"}
        <3> DEFINE read == Resolve(chain, S, claim.key)
        <3>1. read.tag = "error" /\ read.error \in {"NotAKeyClaim", "Store"}
            BY <2>1, <2>2, <2>4, <2>5, StrayedReads
        <3>2. Verify(chain, S, c) = read.error
            BY <2>4, <3>1, VerifyIs DEF claim, Landed
        <3>3. QED
            BY <3>1, <3>2
    <2>6. ASSUME NEW S \in Readings(Kept), k \in S \cap Shipped,
                 ~Strayed(log, i), ~Contested(log, i, k)
          PROVE  Verify(chain, S, c) = verdict
        <3> DEFINE read == Resolve(chain, S, claim.key)
        <3>1. read = [tag |-> "key", key |-> k]
            BY <2>1, <2>2, <2>4, <2>6, UncontestedResolves
        <3> HIDE DEF read
        <3>2. read.tag = "key" /\ read.key = k
            BY <3>1
        <3>3. Verify(chain, S, c) = VerifyCommit(claim, k)
            BY <2>4, <3>2, VerifyIs DEF claim, Landed, read
        <3>4. claim.by # Unsigned /\ claim.by # OtherArmor
            BY <2>2, KeyResolutionAssumption
        <3>5. k \in Ed25519 /\ k \in Parsing
            BY <2>6 DEF Shipped
        <3>6. QED
            BY <3>3, <3>4, <3>5 DEF VerifyCommit
    <2>7. QED
        BY <2>4, <2>5, <2>6 DEF i, t, k, claim
<1>2. CliInv => DefaultKeyDecides
    BY <1>1 DEF DefaultKeyDecides
<1>3. QED
    BY <1>2, CliInvariant, PTL
=============================================================================

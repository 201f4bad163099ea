--------------------------- MODULE KeyChainProofs ---------------------------
(***************************************************************************)
(* Theorems about KeyChain, for any processes, keys and subjects and any   *)
(* number of claims.                                                       *)
(*                                                                         *)
(* The invariant says of the chains that ids are numbered as claims land,  *)
(* that a claim which publishes a key is on the chain it is about, that    *)
(* the key a claim names had landed before it did, and that the documents  *)
(* of the claims `add_key' and `rotate_key' made are there. The rest       *)
(* follows from what walking such chains comes to (KeyResolutionProofs).   *)
(***************************************************************************)
EXTENDS KeyChain, KeyResolutionProofs

\* Ids are given in order.
Numbered == \E n \in Nat : Ids(chain) = 1..n

\* What a call has yet to write is counted.
Counted == Cardinality(Landed) + Cardinality(Busy) <= MaxClaims

\* Keys are named once they have landed.
Named ==
    /\ \A t \in Target : \A i \in DOMAIN chain[t] : chain[t][i].key \in Landed \cup {NoKey}
    /\ \A p \in Busy : draft[p].key \in Landed \cup {NoKey}

\* Documents are written first.
Written ==
    /\ \A t \in Target : \A i \in DOMAIN chain[t] :
            chain[t][i].written => chain[t][i].payload \in docs
    /\ \A p \in Busy : pc[p] = "append" => draft[p].payload \in docs

\* The inductive invariant.
KeyInv ==
    /\ TypeOK
    /\ DOMAIN draft = Process
    /\ Distinct(chain)
    /\ Placed(chain)
    /\ Numbered
    /\ Counted
    /\ Named
    /\ Written

LEMMA ChainsOfClaims == TypeOK => Chains(chain, Claim)
BY DEF TypeOK, Chains

LEMMA NoClaims ==
    ASSUME NEW C, C = [t \in Target |-> <<>>]
    PROVE  Ids(C) = {}
<1>1. \A t \in DOMAIN C : DOMAIN C[t] = {}
    OBVIOUS
<1>2. QED
    BY <1>1 DEF Ids

\* A claim's type, field by field.
LEMMA ClaimFields ==
    ASSUME NEW c \in Claim
    PROVE  /\ c.id \in ClaimId
           /\ c.target \in Target
           /\ c.key \in ClaimId \cup {NoKey}
           /\ c.written => /\ c.target \in KeyTargets
                           /\ c.payload \in Key
                           /\ c.payload_kind = KEY_KIND
<1>1. KeyTargets \subseteq Target
    BY DEF KeyTargets, Target
<1>2. CASE c \in [id : ClaimId, target : KeyTargets, payload : Key, payload_kind : {KEY_KIND},
                  key : ClaimId \cup {NoKey}, by : Signature, written : {TRUE}]
    BY <1>1, <1>2
<1>3. CASE c \in [id : ClaimId, target : Target, payload : Key \cup {OtherTree},
                  payload_kind : {KEY_KIND, "revocation", "note"},
                  key : ClaimId \cup {NoKey}, by : Signature, written : {FALSE}]
    <2>1. c.id \in ClaimId /\ c.target \in Target /\ c.key \in ClaimId \cup {NoKey}
        BY <1>3
    <2>2. c.written = FALSE
        BY <1>3
    <2>3. QED
        BY <2>1, <2>2
<1>4. QED
    BY <1>2, <1>3 DEF Claim

\* A claim that `add_key' or `rotate_key' made publishes the key it carries.
LEMMA WrittenClaim ==
    ASSUME NEW c \in Claim, c.written
    PROVE  IsKeyClaim(c) /\ c.payload \in Key
BY ClaimFields DEF IsKeyClaim, KeyTargets

\* A draft gets its id when it lands.
LEMMA LandedDraft ==
    ASSUME NEW d, [d EXCEPT !.id = 1] \in Claim, NEW k \in ClaimId
    PROVE  LET claim == [d EXCEPT !.id = k]
           IN  /\ claim \in Claim
               /\ claim.id = k
               /\ claim.target = d.target /\ claim.payload = d.payload
               /\ claim.payload_kind = d.payload_kind /\ claim.key = d.key
               /\ claim.written = d.written
<1> DEFINE e == [d EXCEPT !.id = 1]
           claim == [d EXCEPT !.id = k]
           fields == {"id", "target", "payload", "payload_kind", "key", "by", "written"}
<1>1. DOMAIN e = fields
    BY DEF Claim
<1>2. DOMAIN d = fields
    BY <1>1
<1>3. claim = [e EXCEPT !.id = k]
    BY <1>1, <1>2
<1>4. /\ claim.id = k
      /\ claim.target = d.target /\ claim.payload = d.payload
      /\ claim.payload_kind = d.payload_kind /\ claim.key = d.key
      /\ claim.written = d.written
    BY <1>2
<1> HIDE DEF e
<1>5. [e EXCEPT !.id = k] \in Claim
    BY DEF Claim, e
<1>6. QED
    BY <1>3, <1>4, <1>5

\* What a claim under way says.
LEMMA DraftFields ==
    ASSUME TypeOK, NEW p \in Busy
    PROVE  /\ 1 \in ClaimId
           /\ draft[p].written
           /\ draft[p].target \in KeyTargets /\ draft[p].target \in Target
           /\ draft[p].payload \in Key
           /\ IsKeyClaim(draft[p])
<1> DEFINE claim == [draft[p] EXCEPT !.id = 1]
<1>1. claim \in Claim /\ draft[p].written
    BY DEF TypeOK
<1>2. 1 \in ClaimId
    <2>1. DOMAIN claim = {"id", "target", "payload", "payload_kind", "key", "by", "written"}
        BY <1>1 DEF Claim
    <2>2. claim.id = 1
        BY <2>1
    <2> HIDE DEF claim
    <2>3. QED
        BY <1>1, <2>2, ClaimFields
<1>3. /\ claim.target = draft[p].target /\ claim.payload = draft[p].payload
      /\ claim.payload_kind = draft[p].payload_kind /\ claim.written = draft[p].written
    BY <1>1, <1>2, LandedDraft
<1> HIDE DEF claim
<1>4. claim.written
    BY <1>1, <1>3
<1>5. IsKeyClaim(claim) /\ claim.payload \in Key /\ claim.target \in KeyTargets
      /\ claim.target \in Target
    BY <1>1, <1>4, WrittenClaim, ClaimFields
<1>6. QED
    BY <1>1, <1>2, <1>3, <1>5 DEF IsKeyClaim

LEMMA KeyInit == Init => KeyInv
<1> SUFFICES ASSUME Init PROVE KeyInv
    OBVIOUS
<1>1. /\ chain \in [Target -> Seq(Claim)]
      /\ \A t \in Target : DOMAIN chain[t] = {}
      /\ DOMAIN chain = Target
    BY EmptySeq DEF Init
<1>2. Ids(chain) = {}
    BY NoClaims DEF Init
<1>3. Busy = {}
    BY DEF Init, Busy
<1>4. TypeOK
    BY <1>1, <1>3 DEF TypeOK, Init
<1>5. Numbered
    <2>1. Ids(chain) = 1..0 /\ 0 \in Nat
        BY <1>2
    <2>2. QED
        BY <2>1 DEF Numbered
<1>6. Counted
    <2>1. Cardinality({}) = 0
        BY FS_EmptySet
    <2>2. QED
        BY <1>2, <1>3, <2>1, KeyResolutionAssumption DEF Counted, Landed
<1>7. DOMAIN draft = Process /\ Distinct(chain) /\ Placed(chain) /\ Named /\ Written
    BY <1>1, <1>3 DEF Init, Distinct, Placed, Named, Written
<1>8. QED
    BY <1>4, <1>5, <1>6, <1>7 DEF KeyInv

\* How many claims there are.
LEMMA Counting ==
    ASSUME KeyInv
    PROVE  /\ IsFiniteSet(Busy) /\ Cardinality(Busy) \in Nat
           /\ Cardinality(Landed) \in Nat
           /\ Landed = 1..Cardinality(Landed)
<1>1. PICK n \in Nat : Ids(chain) = 1..n
    BY DEF KeyInv, Numbered
<1>2. Cardinality(1..n) = n
    BY <1>1, FS_Interval
<1>3. IsFiniteSet(Busy) /\ Cardinality(Busy) \in Nat
    <2>1. Busy \subseteq Process
        BY DEF Busy
    <2>2. QED
        BY <2>1, KeyChainAssumption, FS_Subset, FS_CardinalityType
<1>4. QED
    BY <1>1, <1>2, <1>3 DEF Landed

\* There is an id for the claim that lands next.
LEMMA NextIdFits ==
    ASSUME KeyInv, Room \/ Busy # {}
    PROVE  NextId \in ClaimId /\ NextId \notin Landed
<1>1. /\ Landed = 1..Cardinality(Landed) /\ Cardinality(Landed) \in Nat
      /\ Cardinality(Busy) \in Nat
      /\ Cardinality(Landed) + Cardinality(Busy) <= MaxClaims
    BY Counting DEF KeyInv, Counted
<1>2. Cardinality(Landed) < MaxClaims
    <2>1. CASE Room
        BY <1>1, <2>1, KeyResolutionAssumption DEF Room
    <2>2. CASE Busy # {}
        <3>1. Cardinality(Busy) # 0
            BY <2>2, Counting, FS_EmptySet
        <3>2. QED
            BY <1>1, <3>1, KeyResolutionAssumption
    <2>3. QED
        BY <2>1, <2>2
<1>3. NextId \in 1..MaxClaims /\ NextId \notin 1..Cardinality(Landed)
    BY <1>1, <1>2, KeyResolutionAssumption DEF NextId
<1>4. QED
    BY <1>1, <1>3 DEF ClaimId

LEMMA BeginKeeps ==
    ASSUME KeyInv, NEW p \in Process, Ready(p),
           NEW target \in KeyTargets, NEW k \in Key,
           NEW key \in Landed \cup {NoKey}, NEW by \in Signature,
           Begin(p, "write_key", target, k, key, by)
    PROVE  KeyInv'
<1> DEFINE claim == Envelope(0, target, k, KEY_KIND, key, by, TRUE)
<1>1. /\ pc[p] = "idle" /\ p \notin Busy
      /\ UNCHANGED <<chain, docs>>
      /\ Landed' = Landed
      /\ Cardinality(Landed) + Cardinality(Busy) < MaxClaims
    BY DEF Begin, Ready, Room, Busy, Landed
<1>2. /\ pc' \in [Process -> {"idle", "write_key", "append"}]
      /\ pc'[p] = "write_key"
      /\ \A q \in Process : q # p => pc'[q] = pc[q]
    BY DEF Begin, KeyInv, TypeOK
<1>3. /\ Busy' = Busy \cup {p}
      /\ \A q \in Busy : q # p
    BY <1>1, <1>2 DEF Busy
<1>4. /\ DOMAIN draft' = Process
      /\ draft'[p] = claim
      /\ \A q \in Process : q # p => draft'[q] = draft[q]
    BY DEF Begin, KeyInv
<1>5. claim.key = key /\ claim.written
    BY DEF Envelope
<1>6. [claim EXCEPT !.id = 1] \in Claim
    <2>1. key \in ClaimId \cup {NoKey} /\ 1 \in ClaimId
        <3>1. Landed \subseteq 1..MaxClaims /\ 1 \in 1..MaxClaims
            BY <1>1, Counting, KeyResolutionAssumption
        <3>2. QED
            BY <3>1 DEF ClaimId
    <2>2. [claim EXCEPT !.id = 1] = Envelope(1, target, k, KEY_KIND, key, by, TRUE)
        <3>1. \A written :
                [Envelope(0, target, k, KEY_KIND, key, by, written) EXCEPT !.id = 1] =
                    Envelope(1, target, k, KEY_KIND, key, by, written)
            BY DEF Envelope
        <3>2. QED
            BY <3>1, Zenon
    <2>3. Envelope(1, target, k, KEY_KIND, key, by, TRUE) \in Claim
        BY <2>1 DEF Envelope, Claim
    <2>4. QED
        BY <2>2, <2>3
<1> HIDE DEF claim
<1>7. TypeOK'
    <2>1. chain' \in [Target -> Seq(Claim)] /\ docs' \subseteq Key
        BY <1>1 DEF KeyInv, TypeOK
    <2>2. ASSUME NEW q \in Busy'
          PROVE  draft'[q].written /\ [draft'[q] EXCEPT !.id = 1] \in Claim
        <3>1. CASE q = p
            BY <1>4, <1>5, <1>6, <3>1
        <3>2. CASE q # p
            BY <1>3, <1>4, <3>2 DEF KeyInv, TypeOK, Busy
        <3>3. QED
            BY <3>1, <3>2
    <2>3. QED
        BY <1>2, <2>1, <2>2 DEF TypeOK
<1>8. Distinct(chain)' /\ Placed(chain)' /\ Numbered'
    BY <1>1 DEF KeyInv, Distinct, Placed, Numbered
<1>9. Counted'
    <2>1. Cardinality(Busy \cup {p}) = Cardinality(Busy) + 1
        BY <1>1, Counting, FS_AddElement
    <2>2. QED
        BY <1>1, <1>3, <2>1, Counting, KeyResolutionAssumption DEF Counted
<1>10. Named'
    <2>1. ASSUME NEW q \in Busy'
          PROVE  draft'[q].key \in Landed' \cup {NoKey}
        <3>1. CASE q = p
            BY <1>1, <1>4, <1>5, <3>1
        <3>2. CASE q # p
            BY <1>1, <1>3, <1>4, <3>2 DEF KeyInv, Named, Busy
        <3>3. QED
            BY <3>1, <3>2
    <2>2. QED
        BY <1>1, <2>1 DEF KeyInv, Named
<1>11. Written'
    <2>1. ASSUME NEW q \in Busy', pc'[q] = "append"
          PROVE  draft'[q].payload \in docs'
        <3>1. q # p
            BY <1>2, <2>1
        <3>2. q \in Busy /\ pc[q] = "append" /\ draft'[q] = draft[q]
            BY <1>2, <1>3, <1>4, <2>1, <3>1 DEF Busy
        <3>3. QED
            BY <1>1, <3>2 DEF KeyInv, Written
    <2>2. QED
        BY <1>1, <2>1 DEF KeyInv, Written
<1>12. QED
    BY <1>4, <1>7, <1>8, <1>9, <1>10, <1>11 DEF KeyInv

\* What leaving does to the processes.
LEMMA LeaveDoes ==
    ASSUME KeyInv, NEW p \in Busy, Leave(p)
    PROVE  /\ pc' \in [Process -> {"idle", "write_key", "append"}]
           /\ DOMAIN draft' = Process
           /\ Busy' = Busy \ {p}
           /\ Cardinality(Busy') + 1 = Cardinality(Busy)
           /\ Cardinality(Busy') \in Nat
           /\ \A q \in Busy' : /\ q \in Busy /\ q # p
                              /\ pc'[q] = pc[q] /\ draft'[q] = draft[q]
<1>1. /\ pc' \in [Process -> {"idle", "write_key", "append"}]
      /\ DOMAIN draft' = Process
      /\ pc'[p] = "idle"
      /\ \A q \in Process : q # p => pc'[q] = pc[q] /\ draft'[q] = draft[q]
    BY DEF Leave, KeyInv, TypeOK, Busy
<1>2. Busy' = Busy \ {p}
    BY <1>1 DEF Busy
<1>3. Cardinality(Busy \ {p}) = Cardinality(Busy) - 1 /\ IsFiniteSet(Busy \ {p})
    BY Counting, FS_RemoveElement
<1>4. Cardinality(Busy \ {p}) \in Nat
    BY <1>3, FS_CardinalityType
<1>5. Cardinality(Busy') + 1 = Cardinality(Busy) /\ Cardinality(Busy') \in Nat
    <2>1. \A m, n \in Nat : m = n - 1 => m + 1 = n
        OBVIOUS
    <2>2. Cardinality(Busy) \in Nat
        BY Counting
    <2>3. QED
        BY <1>2, <1>3, <1>4, <2>1, <2>2
<1>6. \A q \in Busy' : q \in Process /\ q \in Busy /\ q # p
    BY <1>2 DEF Busy
<1>7. QED
    BY <1>1, <1>2, <1>5, <1>6

LEMMA AbandonKeeps == ASSUME KeyInv, NEW p \in Process, Abandon(p) PROVE KeyInv'
<1>1. p \in Busy /\ Leave(p) /\ UNCHANGED <<chain, docs>> /\ Landed' = Landed
    BY DEF Abandon, Landed
<1>2. TypeOK' /\ DOMAIN draft' = Process
    <2>1. chain' \in [Target -> Seq(Claim)] /\ docs' \subseteq Key
        BY <1>1 DEF KeyInv, TypeOK
    <2>2. \A q \in Busy' : draft'[q].written /\ [draft'[q] EXCEPT !.id = 1] \in Claim
        BY <1>1, LeaveDoes DEF KeyInv, TypeOK
    <2>3. QED
        BY <1>1, <2>1, <2>2, LeaveDoes DEF TypeOK
<1>3. Distinct(chain)' /\ Placed(chain)' /\ Numbered'
    BY <1>1 DEF KeyInv, Distinct, Placed, Numbered
<1>4. Counted'
    <2>1. Cardinality(Landed) + Cardinality(Busy) <= MaxClaims
        BY DEF KeyInv, Counted
    <2>2. Cardinality(Landed)' = Cardinality(Landed)
        BY <1>1
    <2>3. QED
        BY <1>1, <2>1, <2>2, LeaveDoes, Counting, KeyResolutionAssumption DEF Counted
<1>5. Named' /\ Written'
    BY <1>1, LeaveDoes DEF KeyInv, Named, Written
<1>6. QED
    BY <1>2, <1>3, <1>4, <1>5 DEF KeyInv

LEMMA WriteKeyKeeps == ASSUME KeyInv, NEW p \in Process, WriteKey(p) PROVE KeyInv'
<1>1. /\ pc[p] = "write_key" /\ p \in Busy
      /\ docs' = docs \cup {draft[p].payload}
      /\ UNCHANGED <<chain, draft>>
      /\ Landed' = Landed
    BY DEF WriteKey, Busy, Landed
<1>2. /\ pc' \in [Process -> {"idle", "write_key", "append"}]
      /\ pc'[p] = "append"
      /\ \A q \in Process : q # p => pc'[q] = pc[q]
      /\ Busy' = Busy
    BY DEF WriteKey, KeyInv, TypeOK, Busy
<1>3. draft[p].payload \in Key
    BY <1>1, DraftFields DEF KeyInv
<1>4. TypeOK' /\ DOMAIN draft' = Process
    BY <1>1, <1>2, <1>3 DEF KeyInv, TypeOK
<1>5. Distinct(chain)' /\ Placed(chain)' /\ Numbered' /\ Counted'
    BY <1>1, <1>2 DEF KeyInv, Distinct, Placed, Numbered, Counted
<1>6. Named'
    BY <1>1, <1>2 DEF KeyInv, Named
<1>7. Written'
    BY <1>1, <1>2 DEF KeyInv, Written, Busy
<1>8. QED
    BY <1>4, <1>5, <1>6, <1>7 DEF KeyInv

\* A claim fit to land on a chain.
Fits(t, claim) ==
    /\ claim.id = NextId
    /\ claim.key \in Landed \cup {NoKey}
    /\ IsKeyClaim(claim) => claim.target = t
    /\ claim.written => claim.payload \in docs

\* Landing a claim grows the chains by one, and keeps what is said of them.
LEMMA Landing ==
    ASSUME KeyInv, Room \/ Busy # {}, NEW t \in Target, NEW claim \in Claim,
           Lands(t, claim), Fits(t, claim)
    PROVE  /\ Grown(chain, chain', t, claim)
           /\ chain' \in [Target -> Seq(Claim)] /\ docs' = docs
           /\ Distinct(chain)' /\ Placed(chain)' /\ Numbered'
           /\ Landed \subseteq Landed'
           /\ Cardinality(Landed') = Cardinality(Landed) + 1
           /\ \A u \in Target : \A i \in DOMAIN chain'[u] :
                /\ chain'[u][i].key \in Landed' \cup {NoKey}
                /\ chain'[u][i].written => chain'[u][i].payload \in docs'
<1> DEFINE top == Len(chain[t]) + 1
<1>1. Chains(chain, Claim) /\ Distinct(chain) /\ Placed(chain) /\ docs' = docs
    BY ChainsOfClaims DEF KeyInv, Lands
<1>2. Grown(chain, chain', t, claim)
    BY NextIdFits DEF Grown, Lands, Fits, Landed
<1>3. /\ Chains(chain', Claim)
      /\ chain'[t][top] = claim
      /\ \A u \in Target : \A i \in DOMAIN chain'[u] :
            \/ i \in DOMAIN chain[u] /\ chain'[u][i] = chain[u][i]
            \/ u = t /\ i = top
    BY <1>1, <1>2, GrownChains
<1>4. Distinct(chain')
    BY <1>1, <1>2, GrownDistinct
<1>5. Distinct(chain)'
    BY <1>4 DEF Distinct
<1>6. Landed' = Landed \cup {claim.id}
    BY <1>1, <1>2, GrownIds DEF Landed
<1>7. /\ Landed' = 1..(Cardinality(Landed) + 1)
      /\ Cardinality(Landed') = Cardinality(Landed) + 1
    <2>1. Landed = 1..Cardinality(Landed) /\ Cardinality(Landed) \in Nat
        BY Counting
    <2> DEFINE n == Cardinality(Landed)
    <2> HIDE DEF n
    <2>2. n \in Nat /\ 1..(n + 1) = (1..n) \cup {n + 1}
        BY <2>1 DEF n
    <2>3. claim.id = n + 1
        BY DEF Fits, NextId, n
    <2>4. Landed' = 1..(n + 1)
        BY <1>6, <2>1, <2>2, <2>3 DEF n
    <2>5. Cardinality(1..(n + 1)) = n + 1
        BY <2>2, FS_Interval
    <2>6. QED
        BY <2>4, <2>5 DEF n
<1>8. Numbered'
    BY <1>7, Counting DEF Numbered, Landed
<1>9. Placed(chain)'
    <2>1. DOMAIN chain = Target /\ DOMAIN chain' = Target
        BY <1>1, <1>3 DEF Chains
    <2>2. claim.target \in Target /\ (IsKeyClaim(claim) => claim.target = t)
        BY ClaimFields DEF Fits
    <2>3. ASSUME NEW u \in Target, NEW i \in DOMAIN chain'[u]
          PROVE  /\ chain'[u][i].target \in Target
                 /\ IsKeyClaim(chain'[u][i]) => chain'[u][i].target = u
        <3>1. CASE i \in DOMAIN chain[u] /\ chain'[u][i] = chain[u][i]
            BY <1>1, <2>1, <3>1 DEF Placed
        <3>2. CASE u = t /\ i = top
            BY <1>3, <2>2, <3>2
        <3>3. QED
            BY <1>3, <3>1, <3>2
    <2>4. QED
        BY <2>1, <2>3 DEF Placed
<1>10. ASSUME NEW u \in Target, NEW i \in DOMAIN chain'[u]
       PROVE  /\ chain'[u][i].key \in Landed' \cup {NoKey}
              /\ chain'[u][i].written => chain'[u][i].payload \in docs'
    <2>1. CASE i \in DOMAIN chain[u] /\ chain'[u][i] = chain[u][i]
        BY <1>1, <1>6, <2>1 DEF KeyInv, Named, Written
    <2>2. CASE u = t /\ i = top
        BY <1>1, <1>3, <1>6, <2>2 DEF Fits
    <2>3. QED
        BY <1>3, <2>1, <2>2
<1>11. chain' \in [Target -> Seq(Claim)]
    BY <1>3 DEF Chains
<1>12. QED
    BY <1>1, <1>2, <1>5, <1>6, <1>7, <1>8, <1>9, <1>10, <1>11

\* A call's claim is fit to land.
LEMMA DraftLands ==
    ASSUME KeyInv, NEW p \in Process, AppendClaim(p)
    PROVE  \E claim \in Claim :
                Lands(draft[p].target, claim) /\ Fits(draft[p].target, claim)
<1> DEFINE claim == [draft[p] EXCEPT !.id = NextId]
<1>1. p \in Busy /\ pc[p] = "append" /\ Lands(draft[p].target, claim)
    BY DEF AppendClaim, Busy
<1>2. NextId \in ClaimId
    BY <1>1, NextIdFits
<1>3. [draft[p] EXCEPT !.id = 1] \in Claim
    BY <1>1 DEF KeyInv, TypeOK
<1>4. /\ claim \in Claim
      /\ claim.id = NextId
      /\ claim.target = draft[p].target /\ claim.payload = draft[p].payload
      /\ claim.key = draft[p].key
    BY <1>2, <1>3, LandedDraft
<1> HIDE DEF claim
<1>5. draft[p].key \in Landed \cup {NoKey} /\ draft[p].payload \in docs
    BY <1>1 DEF KeyInv, Named, Written
<1>6. Fits(draft[p].target, claim)
    BY <1>4, <1>5 DEF Fits
<1>7. QED
    BY <1>1, <1>4, <1>6

LEMMA AppendKeeps == ASSUME KeyInv, NEW p \in Process, AppendClaim(p) PROVE KeyInv'
<1>1. p \in Busy /\ Leave(p) /\ draft[p].target \in Target
    BY DraftFields DEF AppendClaim, Busy, KeyInv
<1>2. PICK claim \in Claim :
        Lands(draft[p].target, claim) /\ Fits(draft[p].target, claim)
    BY DraftLands
<1>3. /\ chain' \in [Target -> Seq(Claim)] /\ docs' = docs
      /\ Distinct(chain)' /\ Placed(chain)' /\ Numbered'
      /\ Landed \subseteq Landed'
      /\ Cardinality(Landed') = Cardinality(Landed) + 1
      /\ \A u \in Target : \A i \in DOMAIN chain'[u] :
            /\ chain'[u][i].key \in Landed' \cup {NoKey}
            /\ chain'[u][i].written => chain'[u][i].payload \in docs'
    BY <1>1, <1>2, Landing
<1>4. TypeOK' /\ DOMAIN draft' = Process
    <2>1. \A q \in Busy' : draft'[q].written /\ [draft'[q] EXCEPT !.id = 1] \in Claim
        BY <1>1, LeaveDoes DEF KeyInv, TypeOK
    <2>2. docs' \subseteq Key
        BY <1>3 DEF KeyInv, TypeOK
    <2>3. QED
        BY <1>1, <1>3, <2>1, <2>2, LeaveDoes DEF TypeOK
<1>5. Counted'
    <2>1. Cardinality(Landed) + Cardinality(Busy) <= MaxClaims
        BY DEF KeyInv, Counted
    <2>2. Cardinality(Busy') + 1 = Cardinality(Busy) /\ Cardinality(Busy') \in Nat
        BY <1>1, LeaveDoes
    <2>3. Cardinality(Landed') + Cardinality(Busy') <= MaxClaims
        BY <1>3, <2>1, <2>2, Counting, KeyResolutionAssumption
    <2>4. QED
        BY <2>3 DEF Counted
<1>6. Named'
    <2>1. ASSUME NEW q \in Busy' PROVE draft'[q].key \in Landed' \cup {NoKey}
        <3>1. q \in Busy /\ draft'[q] = draft[q]
            BY <1>1, LeaveDoes
        <3>2. QED
            BY <1>3, <3>1 DEF KeyInv, Named
    <2>2. QED
        BY <1>3, <2>1 DEF Named
<1>7. Written'
    <2>1. ASSUME NEW q \in Busy', pc'[q] = "append" PROVE draft'[q].payload \in docs'
        <3>1. q \in Busy /\ pc'[q] = pc[q] /\ draft'[q] = draft[q]
            BY <1>1, LeaveDoes
        <3>2. QED
            BY <1>3, <2>1, <3>1 DEF KeyInv, Written
    <2>2. QED
        BY <1>3, <2>1 DEF Written
<1>8. QED
    BY <1>3, <1>4, <1>5, <1>6, <1>7 DEF KeyInv

\* A claim that lands while the calls stay where they are.
LEMMA OutrightKeeps ==
    ASSUME KeyInv, Room, NEW t \in Target, NEW claim \in Claim,
           Lands(t, claim), Fits(t, claim), UNCHANGED <<pc, draft>>
    PROVE  KeyInv'
<1>1. /\ chain' \in [Target -> Seq(Claim)] /\ docs' = docs
      /\ Distinct(chain)' /\ Placed(chain)' /\ Numbered'
      /\ Landed \subseteq Landed'
      /\ Cardinality(Landed') = Cardinality(Landed) + 1
      /\ \A u \in Target : \A i \in DOMAIN chain'[u] :
            /\ chain'[u][i].key \in Landed' \cup {NoKey}
            /\ chain'[u][i].written => chain'[u][i].payload \in docs'
    BY Landing
<1>2. pc' = pc /\ draft' = draft /\ Busy' = Busy
    BY DEF Busy
<1>3. TypeOK' /\ DOMAIN draft' = Process
    BY <1>1, <1>2 DEF KeyInv, TypeOK
<1>4. Counted'
    <2>1. Cardinality(Landed) + Cardinality(Busy) < MaxClaims
        BY DEF Room
    <2>2. Cardinality(Landed') + Cardinality(Busy') <= MaxClaims
        BY <1>1, <1>2, <2>1, Counting, KeyResolutionAssumption
    <2>3. QED
        BY <2>2 DEF Counted
<1>5. Named' /\ Written'
    BY <1>1, <1>2 DEF KeyInv, Named, Written
<1>6. QED
    BY <1>1, <1>3, <1>4, <1>5 DEF KeyInv

\* Where a landed claim is, and what it is.
LEMMA LandedClaim ==
    ASSUME KeyInv, NEW c \in Landed
    PROVE  /\ c \in ClaimId
           /\ ClaimAt(chain, c) \in Claim
           /\ ClaimAt(chain, c).id = c
           /\ ClaimAt(chain, c).key \in Landed \cup {NoKey}
<1>1. PICK t \in Target : \E i \in DOMAIN chain[t] :
            ClaimAt(chain, c) = chain[t][i] /\ chain[t][i].id = c /\ chain[t][i] \in Claim
    BY ChainsOfClaims, ClaimAtSome DEF KeyInv, Landed
<1>2. PICK i \in DOMAIN chain[t] :
            ClaimAt(chain, c) = chain[t][i] /\ chain[t][i].id = c /\ chain[t][i] \in Claim
    BY <1>1
<1>3. c \in ClaimId
    BY <1>2, ClaimFields
<1>4. QED
    BY <1>2, <1>3 DEF KeyInv, Named

LEMMA AddKeyKeeps == ASSUME KeyInv, NEW p \in Process, AddKey(p) PROVE KeyInv'
<1>1. PICK k \in Key, by \in Signature :
        Begin(p, "write_key", KeyTarget(k), k, NoKey, by)
    BY DEF AddKey
<1>2. KeyTarget(k) \in KeyTargets /\ Ready(p)
    BY DEF KeyTargets, KeyTarget, AddKey
<1>3. QED
    BY <1>1, <1>2, BeginKeeps

LEMMA RotateKeyKeeps == ASSUME KeyInv, NEW p \in Process, RotateKey(p) PROVE KeyInv'
<1>1. PICK previous \in Landed, k \in Key, by \in Signature :
        /\ IsKeyClaim(ClaimAt(chain, previous))
        /\ Begin(p, "write_key", ClaimAt(chain, previous).target, k, previous, by)
    BY DEF RotateKey
<1>2. ClaimAt(chain, previous).target \in KeyTargets /\ Ready(p)
    <2>1. ClaimAt(chain, previous).target \in Target
        BY LandedClaim, ClaimFields
    <2>2. ClaimAt(chain, previous).target.kind = KEY_TARGET_KIND
        BY <1>1 DEF IsKeyClaim
    <2>3. QED
        BY <2>1, <2>2 DEF KeyTargets, Target, KEY_TARGET_KIND, RotateKey
<1>3. QED
    BY <1>1, <1>2, BeginKeeps

\* What `sign' and `revoke' do.
LEMMA OutrightLands ==
    ASSUME KeyInv, Sign \/ Revoke
    PROVE  /\ Room /\ UNCHANGED <<pc, draft>>
           /\ \E t \in Target : \E claim \in Claim : Lands(t, claim) /\ Fits(t, claim)
<1>1. Room /\ UNCHANGED <<pc, draft>>
    BY DEF Sign, Revoke
<1>2. NextId \in ClaimId /\ Landed \cup {NoKey} \subseteq ClaimId \cup {NoKey}
    BY <1>1, NextIdFits, LandedClaim
<1>3. CASE Sign
    <2>1. PICK t \in About, payload \in Key \cup {OtherTree}, kind \in {KEY_KIND, "note"},
               key \in Landed \cup {NoKey}, by \in Signature :
            Lands(t, Envelope(NextId, t, payload, kind, key, by, FALSE))
        BY <1>3 DEF Sign
    <2> DEFINE claim == Envelope(NextId, t, payload, kind, key, by, FALSE)
    <2>2. t \in Target
        BY DEF About
    <2>3. claim \in Claim
        BY <1>2, <2>2 DEF Envelope, Claim
    <2>4. /\ claim.id = NextId /\ claim.target = t /\ claim.key = key
          /\ claim.written = FALSE
        BY DEF Envelope
    <2> HIDE DEF claim
    <2>5. Fits(t, claim)
        BY <2>4 DEF Fits
    <2>6. Lands(t, claim)
        BY <2>1 DEF claim
    <2>7. QED
        BY <1>1, <2>2, <2>3, <2>4, <2>5, <2>6
<1>4. CASE Revoke
    <2>1. PICK c \in Landed, key \in Landed \cup {NoKey}, by \in Signature :
            Lands(ClaimAt(chain, c).target,
                  Envelope(NextId, AboutClaim(c), OtherTree, "revocation", key, by, FALSE))
        BY <1>4 DEF Revoke
    <2> DEFINE t == ClaimAt(chain, c).target
               claim == Envelope(NextId, AboutClaim(c), OtherTree, "revocation", key, by, FALSE)
    <2>2. t \in Target /\ AboutClaim(c) \in Target
        BY LandedClaim, ClaimFields DEF AboutClaim, Target
    <2>3. claim \in Claim
        BY <1>2, <2>2 DEF Envelope, Claim
    <2>4. /\ claim.id = NextId /\ claim.target = AboutClaim(c) /\ claim.key = key
          /\ claim.payload_kind = "revocation" /\ claim.written = FALSE
        BY DEF Envelope
    <2> HIDE DEF claim, t
    <2>5. Fits(t, claim)
        BY <2>4 DEF Fits, IsKeyClaim, KEY_KIND
    <2>6. Lands(t, claim)
        BY <2>1 DEF claim, t
    <2>7. QED
        BY <1>1, <2>2, <2>3, <2>4, <2>5, <2>6
<1>5. QED
    BY <1>3, <1>4

LEMMA OutrightStepKeeps == ASSUME KeyInv, Sign \/ Revoke PROVE KeyInv'
BY OutrightLands, OutrightKeeps

LEMMA KeyNext == KeyInv /\ [Next]_vars => KeyInv'
<1> SUFFICES ASSUME KeyInv, [Next]_vars PROVE KeyInv'
    OBVIOUS
<1>1. CASE UNCHANGED vars
    BY <1>1 DEF vars, KeyInv, TypeOK, Distinct, Placed, Numbered, Counted, Named, Written,
                Landed, Busy
<1>2. CASE Next
    BY <1>2, AddKeyKeeps, RotateKeyKeeps, OutrightStepKeeps, WriteKeyKeeps,
       AppendKeeps, AbandonKeeps DEF Next
<1>3. QED
    BY <1>1, <1>2

\* The invariant holds of every reachable state.
THEOREM KeysInvariant == Spec => []KeyInv
BY KeyInit, KeyNext, PTL DEF Spec

\* The type invariant: chains are of claims, and keys are published on the
\* chains of keys (key.rs).
THEOREM KeysTypeCorrect == Spec => []TypeOK
<1>1. KeyInv => TypeOK
    BY DEF KeyInv
<1>2. QED
    BY <1>1, KeysInvariant, PTL

\* What is read at a place, whatever documents are at hand.
LEMMA ReadAt ==
    ASSUME KeyInv, NEW K, NEW t \in Target, NEW i \in DOMAIN chain[t]
    PROVE  LET read == Resolve(chain, K, chain[t][i].id)
               faults == Faults(K, chain[t], i)
           IN  /\ faults # {} => /\ read = KeyDocument(K, chain[t][Max(faults)])
                                 /\ read.tag = "error"
               /\ faults = {} /\ Bad(chain[t], i) = {} =>
                    read = [tag |-> "key", key |-> chain[t][i].payload]
               /\ faults = {} /\ Bad(chain[t], i) # {} =>
                    /\ read.tag = "rejected"
                    /\ \E j \in Bad(chain[t], i) : read.verdict =
                            VerifyCommit(chain[t][j], chain[t][j - 1].payload)
<1>1. Chains(chain, Claim) /\ Distinct(chain) /\ Placed(chain)
    BY ChainsOfClaims DEF KeyInv
<1> HIDE DEF KeyInv
<1>2. QED
    BY <1>1, ResolveAt, Zenon

\* A read for which there is a document at every place up to its own is no error.
LEMMA ErrorsAt ==
    ASSUME KeyInv, NEW K, NEW t \in Target, NEW i \in DOMAIN chain[t]
    PROVE  Resolve(chain, K, chain[t][i].id).tag = "error" <=> Faults(K, chain[t], i) # {}
<1> DEFINE read == Resolve(chain, K, chain[t][i].id)
<1>1. CASE Faults(K, chain[t], i) # {}
    BY <1>1, ReadAt
<1>2. CASE Faults(K, chain[t], i) = {} /\ Bad(chain[t], i) = {}
    <2>1. read = [tag |-> "key", key |-> chain[t][i].payload]
        BY <1>2, ReadAt
    <2> HIDE DEF read
    <2>2. read.tag = "key"
        BY <2>1
    <2>3. QED
        BY <1>2, <2>2 DEF read
<1>3. CASE Faults(K, chain[t], i) = {} /\ Bad(chain[t], i) # {}
    <2>1. read.tag = "rejected"
        BY <1>3, ReadAt
    <2>2. QED
        BY <1>3, <2>1
<1>4. QED
    BY <1>1, <1>2, <1>3

\* What `add_key' and `rotate_key' publish stays readable: a read of a link that
\* fails for want of a document fails on a claim that `sign' was given (key.rs
\* writes the document first, and refs/keys keeps it).
THEOREM DocumentsStayReachable == Spec => []DocumentsReachable
<1>1. ASSUME KeyInv, NEW K \in Readings(docs), NEW t \in Target, NEW i \in DOMAIN chain[t],
             Resolve(chain, K, chain[t][i].id) = Error("Store")
      PROVE  \E j \in 1..i : IsKeyClaim(chain[t][j]) /\ ~chain[t][j].written
    <2> DEFINE faults == Faults(K, chain[t], i)
               m == Max(faults)
    <2>1. i \in Nat /\ chain[t] \in Seq(Claim)
        BY <1>1 DEF KeyInv, TypeOK
    <2>2. faults # {}
        <3>1. Error("Store").tag = "error"
            BY DEF Error
        <3>2. QED
            BY <1>1, <3>1, ErrorsAt
    <2>3. m \in 1..i
        BY <2>1, <2>2, LastFault
    <2>4. KeyDocument(K, chain[t][m]) = Error("Store")
        BY <1>1, <2>2, ReadAt
    <2> HIDE DEF m
    <2>5. IsKeyClaim(chain[t][m]) /\ chain[t][m].payload \notin K \cap Key
        <3>1. KeyDocument(K, chain[t][m]).error = "Store"
            BY <2>4 DEF Error
        <3>2. KeyDocument(K, chain[t][m]).tag = "error"
            BY <2>4 DEF Error
        <3>3. QED
            BY <3>1, <3>2, DocumentRead
    <2>6. ASSUME chain[t][m].written PROVE FALSE
        <3>1. m \in DOMAIN chain[t] /\ chain[t][m] \in Claim
            BY <2>1, <2>3
        <3>2. chain[t][m].payload \in docs /\ docs \subseteq K
            BY <1>1, <2>6, <3>1 DEF KeyInv, Written, Readings
        <3>3. chain[t][m].payload \in Key
            BY <2>6, <3>1, WrittenClaim
        <3>4. QED
            BY <2>5, <3>2, <3>3
    <2>7. QED
        BY <2>3, <2>5, <2>6
<1>2. KeyInv => DocumentsReachable
    <2>1. \A k \in Key : KeyTarget(k) \in Target
        BY DEF Target, KeyTarget
    <2>2. QED
        BY <1>1, <2>1 DEF DocumentsReachable
<1>3. QED
    BY <1>2, KeysInvariant, PTL

\* A step either leaves the chains alone or grows one of them by a claim.
LEMMA StepGrows ==
    ASSUME KeyInv, [Next]_vars
    PROVE  \/ chain' = chain
           \/ \E t \in Target : \E claim \in Claim : Grown(chain, chain', t, claim)
<1>1. CASE UNCHANGED vars
    BY <1>1 DEF vars
<1>2. ASSUME NEW p \in Process, AppendClaim(p)
      PROVE  \E t \in Target : \E claim \in Claim : Grown(chain, chain', t, claim)
    <2>1. p \in Busy /\ draft[p].target \in Target
        <3>1. p \in Busy
            BY <1>2 DEF AppendClaim, Busy
        <3>2. QED
            BY <3>1, DraftFields DEF KeyInv
    <2>2. PICK claim \in Claim : Lands(draft[p].target, claim) /\ Fits(draft[p].target, claim)
        BY <1>2, DraftLands
    <2>3. Grown(chain, chain', draft[p].target, claim)
        BY <2>1, <2>2, Landing
    <2>4. QED
        BY <2>1, <2>3
<1>3. ASSUME Sign \/ Revoke
      PROVE  \E t \in Target : \E claim \in Claim : Grown(chain, chain', t, claim)
    <2>1. PICK t \in Target : \E claim \in Claim : Lands(t, claim) /\ Fits(t, claim)
        BY <1>3, OutrightLands
    <2>2. PICK claim \in Claim : Lands(t, claim) /\ Fits(t, claim)
        BY <2>1
    <2>3. Room
        BY <1>3, OutrightLands
    <2>4. Grown(chain, chain', t, claim)
        BY <2>2, <2>3, Landing
    <2>5. QED
        BY <2>4
<1>4. ASSUME NEW p \in Process, AddKey(p) \/ RotateKey(p) \/ WriteKey(p) \/ Abandon(p)
      PROVE  chain' = chain
    BY <1>4 DEF AddKey, RotateKey, WriteKey, Abandon, Begin
<1>5. QED
    BY <1>1, <1>2, <1>3, <1>4 DEF Next

LEMMA AtMostOne == ASSUME NEW x, NEW y PROVE Cardinality({x} \ {y}) <= 1
<1>1. IsFiniteSet({x}) /\ Cardinality({x}) = 1
    BY FS_Singleton
<1>2. Cardinality({x} \ {y}) <= Cardinality({x})
    BY <1>1, FS_Subset
<1>3. QED
    BY <1>1, <1>2

\* Documents decide whether there is an answer, not which.
LEMMA OneAnswer ==
    ASSUME NEW C, Chains(C, Claim), Distinct(C), Placed(C), NEW D \in SUBSET Key,
           NEW c \in Ids(C)
    PROVE  /\ Verdicts(C, D, c) = {Verify(C, Key, c)} \ {"Store"}
           /\ Resolutions(C, D, c) = {Resolve(C, Key, c)} \ {Error("Store")}
<1>1. Key \in Readings(D) /\ \A S \in Readings(D) : S \in SUBSET Key
    BY DEF Readings
<1>2. \A S \in SUBSET Key : Verify(C, S, c) = "Store" \/ Verify(C, S, c) = Verify(C, Key, c)
    BY VerifyReads
<1>3. \A S \in SUBSET Key : \/ Resolve(C, S, c) = Error("Store")
                            \/ Resolve(C, S, c) = Resolve(C, Key, c)
    BY ResolveReads
<1>4. Verdicts(C, D, c) = {Verify(C, Key, c)} \ {"Store"}
    BY <1>1, <1>2 DEF Verdicts
<1>5. Resolutions(C, D, c) = {Resolve(C, Key, c)} \ {Error("Store")}
    BY <1>1, <1>3 DEF Resolutions
<1>6. QED
    BY <1>4, <1>5

\* Nothing that lands later, and no document that comes or goes, changes what a
\* key resolves to or what verification says of a claim: a signed history is
\* judged the same whenever it can be read (`Claims::verify' and `Claims::key'
\* read only what is beneath a claim).
THEOREM VerdictsStand == Spec => VerdictsAreFinal
<1>1. ASSUME KeyInv, KeyInv', [Next]_vars, NEW c \in Landed
      PROVE  /\ Verdicts(chain', docs', c) = Verdicts(chain, docs, c)
             /\ Resolutions(chain', docs', c) = Resolutions(chain, docs, c)
             /\ Cardinality(Verdicts(chain, docs, c)) <= 1
             /\ Cardinality(Resolutions(chain, docs, c)) <= 1
    <2>1. /\ Chains(chain, Claim) /\ Distinct(chain) /\ Placed(chain)
          /\ docs \in SUBSET Key /\ c \in Ids(chain)
        BY <1>1, ChainsOfClaims DEF KeyInv, TypeOK, Landed
    <2>2. /\ Chains(chain', Claim) /\ Distinct(chain') /\ Placed(chain')
          /\ docs' \in SUBSET Key
        BY <1>1 DEF KeyInv, TypeOK, Chains, Distinct, Placed
    <2>3. /\ Verify(chain', Key, c) = Verify(chain, Key, c)
          /\ Resolve(chain', Key, c) = Resolve(chain, Key, c)
          /\ c \in Ids(chain')
        <3>1. CASE chain' = chain
            BY <2>1, <3>1
        <3>2. ASSUME NEW t \in Target, NEW claim \in Claim, Grown(chain, chain', t, claim)
              PROVE  /\ Verify(chain', Key, c) = Verify(chain, Key, c)
                     /\ Resolve(chain', Key, c) = Resolve(chain, Key, c)
                     /\ c \in Ids(chain')
            <4>1. claim.id # ClaimAt(chain, c).key
                <5>1. ClaimAt(chain, c).key \in Landed \cup {NoKey}
                    BY <1>1, LandedClaim
                <5>2. claim.id \notin Landed /\ claim.id # NoKey
                    BY <3>2, ClaimFields, KeyResolutionAssumption
                       DEF Grown, Landed, ClaimId, NoKey
                <5>3. QED
                    BY <5>1, <5>2
            <4>2. c \in Ids(chain')
                BY <2>1, <3>2, GrownIds
            <4>3. QED
                BY <2>1, <2>2, <3>2, <4>1, <4>2, GrownResolve, GrownVerify
        <3>3. QED
            BY <1>1, <3>1, <3>2, StepGrows
    <2>4. /\ Verdicts(chain, docs, c) = {Verify(chain, Key, c)} \ {"Store"}
          /\ Resolutions(chain, docs, c) = {Resolve(chain, Key, c)} \ {Error("Store")}
        BY <2>1, OneAnswer
    <2>5. /\ Verdicts(chain', docs', c) = {Verify(chain', Key, c)} \ {"Store"}
          /\ Resolutions(chain', docs', c) = {Resolve(chain', Key, c)} \ {Error("Store")}
        <3>1. PICK C : C = chain'
            OBVIOUS
        <3>2. PICK D : D = docs'
            OBVIOUS
        <3>3. Chains(C, Claim) /\ Distinct(C) /\ Placed(C) /\ D \in SUBSET Key /\ c \in Ids(C)
            BY <2>2, <2>3, <3>1, <3>2
        <3>4. /\ Verdicts(C, D, c) = {Verify(C, Key, c)} \ {"Store"}
              /\ Resolutions(C, D, c) = {Resolve(C, Key, c)} \ {Error("Store")}
            BY <3>3, OneAnswer
        <3>5. QED
            BY <3>1, <3>2, <3>4
    <2>6. QED
        BY <2>3, <2>4, <2>5, AtMostOne
<1> DEFINE Answered == \A c \in Landed :
                         /\ Verdicts(chain', docs', c) = Verdicts(chain, docs, c)
                         /\ Resolutions(chain', docs', c) = Resolutions(chain, docs, c)
                         /\ Cardinality(Verdicts(chain, docs, c)) <= 1
                         /\ Cardinality(Resolutions(chain, docs, c)) <= 1
<1>2. KeyInv /\ KeyInv' /\ [Next]_vars => [Answered]_vars
    BY <1>1
<1>3. QED
    BY <1>2, KeysInvariant, PTL DEF Spec, VerdictsAreFinal

\* What reading a landed key comes to.
LEMMA ReadKey ==
    ASSUME KeyInv, NEW K, NEW c \in Landed
    PROVE  LET read == Resolve(chain, K, c)
           IN  \/ read.tag = "error" /\ read.error # "Verified"
               \/ \E k : read = [tag |-> "key", key |-> k]
               \/ read.tag = "rejected" /\ read.verdict # "Verified"
<1>1. PICK t \in Target : \E i \in DOMAIN chain[t] : chain[t][i].id = c
    BY ChainsOfClaims, ClaimAtSome DEF KeyInv, Landed
<1>2. PICK i \in DOMAIN chain[t] : chain[t][i].id = c
    BY <1>1
<1> DEFINE read == Resolve(chain, K, chain[t][i].id)
           faults == Faults(K, chain[t], i)
<1>3. CASE faults # {}
    <2>1. read = KeyDocument(K, chain[t][Max(faults)]) /\ read.tag = "error"
        BY <1>3, ReadAt
    <2> HIDE DEF read, faults
    <2>2. read.error # "Verified"
        BY <2>1, DocumentRead
    <2>3. QED
        BY <1>2, <2>1, <2>2 DEF read
<1>4. CASE faults = {} /\ Bad(chain[t], i) = {}
    <2>1. read = [tag |-> "key", key |-> chain[t][i].payload]
        BY <1>4, ReadAt
    <2>2. QED
        BY <1>2, <2>1
<1>5. CASE faults = {} /\ Bad(chain[t], i) # {}
    <2>1. /\ read.tag = "rejected"
          /\ \E j \in Bad(chain[t], i) : read.verdict =
                VerifyCommit(chain[t][j], chain[t][j - 1].payload)
        BY <1>5, ReadAt
    <2>2. QED
        BY <1>2, <2>1 DEF Bad
<1>6. QED
    BY <1>3, <1>4, <1>5

\* A claim verifies exactly when it names a key that resolves to the one that
\* signed it, and signatures of that kind can be checked (verify.rs: no other way
\* out of `verify' says Verified, and none refuses such a claim).
THEOREM VerifiedIsSigned == Spec => []VerifiedUnderResolvedKey
<1>1. ASSUME KeyInv, NEW K \in Readings(docs), NEW c \in Landed
      PROVE  Verify(chain, K, c) = "Verified" <=>
                /\ ClaimAt(chain, c).key \in Landed
                /\ ClaimAt(chain, c).by \in Shipped
                /\ Resolve(chain, K, ClaimAt(chain, c).key) =
                        [tag |-> "key", key |-> ClaimAt(chain, c).by]
    <2> DEFINE claim == ClaimAt(chain, c)
               resolved == Resolve(chain, K, claim.key)
    <2> HIDE DEF claim
    <2>1. Verify(chain, K, c) =
            IF claim.key \notin Ids(chain) THEN "MissingClaim"
            ELSE IF resolved.tag = "error" THEN resolved.error
            ELSE IF resolved.tag = "rejected" THEN resolved.verdict
            ELSE VerifyCommit(claim, resolved.key)
        BY DEF Verify, claim
    <2>2. ASSUME Verify(chain, K, c) = "Verified"
          PROVE  /\ claim.key \in Landed /\ claim.by \in Shipped
                 /\ resolved = [tag |-> "key", key |-> claim.by]
        <3>1. claim.key \in Landed
            BY <2>1, <2>2 DEF Landed
        <3>2. ~(resolved.tag = "error" /\ resolved.error # "Verified")
            BY <2>1, <2>2, <3>1 DEF Landed
        <3>3. ~(resolved.tag = "rejected" /\ resolved.verdict # "Verified")
            BY <2>1, <2>2, <3>1 DEF Landed
        <3>4. PICK k : resolved = [tag |-> "key", key |-> k]
            BY <1>1, <3>1, <3>2, <3>3, ReadKey
        <3>5. resolved.tag = "key" /\ resolved.key = k
            BY <3>4
        <3> HIDE DEF resolved
        <3>6. VerifyCommit(claim, k) = "Verified"
            BY <2>1, <2>2, <3>1, <3>5 DEF Landed
        <3>7. k \in Shipped /\ claim.by = k
            BY <3>6, VerifiedMeans
        <3>8. QED
            BY <3>1, <3>4, <3>7
    <2>3. ASSUME claim.key \in Landed, claim.by \in Shipped,
                 resolved = [tag |-> "key", key |-> claim.by]
          PROVE  Verify(chain, K, c) = "Verified"
        <3>1. resolved.tag = "key" /\ resolved.key = claim.by
            BY <2>3
        <3> HIDE DEF resolved
        <3>2. Verify(chain, K, c) = VerifyCommit(claim, claim.by)
            BY <2>1, <2>3, <3>1 DEF Landed
        <3>3. QED
            BY <2>3, <3>2, VerifiedMeans
    <2>4. QED
        BY <2>2, <2>3 DEF claim
<1>2. KeyInv => VerifiedUnderResolvedKey
    BY <1>1 DEF VerifiedUnderResolvedKey
<1>3. QED
    BY <1>2, KeysInvariant, PTL

\* The links up to a place are good: each has a document that can be read, and each
\* but the root is signed by the key below it.
Good(K, log, i) == Faults(K, log, i) = {} /\ Bad(log, i) = {}

\* A place resolves exactly when the links up to it are good, and then to the key
\* published there.
LEMMA GoodResolves ==
    ASSUME KeyInv, NEW K, NEW t \in Target, NEW i \in DOMAIN chain[t]
    PROVE  IF Good(K, chain[t], i)
           THEN Resolve(chain, K, chain[t][i].id) = [tag |-> "key", key |-> chain[t][i].payload]
           ELSE Resolve(chain, K, chain[t][i].id).tag # "key"
<1>1. CASE Good(K, chain[t], i)
    BY <1>1, ReadAt DEF Good
<1>2. CASE Faults(K, chain[t], i) # {}
    <2>1. Resolve(chain, K, chain[t][i].id).tag = "error"
        BY <1>2, ErrorsAt
    <2>2. QED
        BY <1>2, <2>1 DEF Good
<1>3. CASE Faults(K, chain[t], i) = {} /\ Bad(chain[t], i) # {}
    <2>1. Resolve(chain, K, chain[t][i].id).tag = "rejected"
        BY <1>3, ReadAt
    <2>2. QED
        BY <1>3, <2>1 DEF Good
<1>4. QED
    BY <1>1, <1>2, <1>3 DEF Good

\* Links are good one at a time.
LEMMA GoodInTurn ==
    ASSUME NEW S, NEW log \in Seq(S), NEW K, NEW i \in DOMAIN log
    PROVE  Good(K, log, i) <=>
              /\ KeyDocument(K, log[i]).tag = "document"
              /\ i = 1 \/ (Good(K, log, i - 1) /\ log[i - 1].payload \in Shipped
                                              /\ log[i].by = log[i - 1].payload)
<1>1. i \in Nat /\ i >= 1
    OBVIOUS
<1>2. KeyDocument(K, log[i]).tag = "document" <=> KeyDocument(K, log[i]).tag # "error"
    BY DocumentRead
<1>3. CASE i = 1
    <2>1. Faults(K, log, 1) = {} <=> KeyDocument(K, log[1]).tag # "error"
        BY DEF Faults
    <2>2. Bad(log, 1) = {}
        BY DEF Bad
    <2>3. QED
        BY <1>2, <1>3, <2>1, <2>2 DEF Good
<1>4. CASE i > 1
    <2>1. Faults(K, log, i) = {} <=>
            Faults(K, log, i - 1) = {} /\ KeyDocument(K, log[i]).tag # "error"
        <3>1. \A j \in 1..i : j \in 1..(i - 1) \/ j = i
            BY <1>1
        <3>2. i \in 1..i /\ \A j \in 1..(i - 1) : j \in 1..i
            BY <1>1
        <3>3. QED
            BY <3>1, <3>2 DEF Faults
    <2>2. Bad(log, i) = {} <=>
            Bad(log, i - 1) = {} /\ VerifyCommit(log[i], log[i - 1].payload) = "Verified"
        <3>1. \A j \in 2..i : j \in 2..(i - 1) \/ j = i
            BY <1>1, <1>4
        <3>2. i \in 2..i /\ \A j \in 2..(i - 1) : j \in 2..i
            BY <1>1, <1>4
        <3>3. QED
            BY <3>1, <3>2 DEF Bad
    <2>3. QED
        BY <1>2, <1>4, <2>1, <2>2, VerifiedMeans DEF Good
<1>5. QED
    BY <1>1, <1>3, <1>4

\* A link resolves exactly when its document can be read and it is the root or
\* signed by the key the link below it resolves to: what the walk from the root
\* decides is decided one link at a time (`resolve_key_with').
THEOREM LinksResolve == Spec => []LinksResolveInTurn
<1>1. ASSUME KeyInv, NEW K \in Readings(docs), NEW t \in Target, NEW i \in DOMAIN chain[t]
      PROVE  LET log == chain[t]
                 signer == [tag |-> "key", key |-> log[i].by]
                 handed == Resolve(chain, K, log[i - 1].id) = signer /\ log[i].by \in Shipped
                 resolved == Resolve(chain, K, log[i].id)
             IN  IF KeyDocument(K, log[i]).tag = "document" /\ (i = 1 \/ handed)
                 THEN resolved = [tag |-> "key", key |-> log[i].payload]
                 ELSE resolved.tag # "key"
    <2> DEFINE log == chain[t]
               handed == /\ Resolve(chain, K, log[i - 1].id) = [tag |-> "key", key |-> log[i].by]
                         /\ log[i].by \in Shipped
    <2>1. log \in Seq(Claim) /\ i \in Nat /\ i >= 1
        BY <1>1 DEF KeyInv, TypeOK
    <2>2. ASSUME i # 1
          PROVE  handed <=> Good(K, log, i - 1) /\ log[i - 1].payload \in Shipped
                                               /\ log[i].by = log[i - 1].payload
        <3>1. PICK below \in DOMAIN log : below = i - 1
            BY <2>1, <2>2
        <3> DEFINE read == Resolve(chain, K, log[below].id)
        <3>2. IF Good(K, log, below) THEN read = [tag |-> "key", key |-> log[below].payload]
                                     ELSE read.tag # "key"
            BY <1>1, GoodResolves
        <3> HIDE DEF read
        <3>3. \A k, l : [tag |-> "key", key |-> k] = [tag |-> "key", key |-> l] => k = l
            <4>1. \A k : [tag |-> "key", key |-> k].key = k
                OBVIOUS
            <4>2. QED
                BY <4>1
        <3>4. read = [tag |-> "key", key |-> log[i].by] <=>
                Good(K, log, below) /\ log[i].by = log[below].payload
            BY <3>2, <3>3
        <3>5. QED
            BY <3>1, <3>4 DEF read
    <2>3. Good(K, log, i) <=> KeyDocument(K, log[i]).tag = "document" /\ (i = 1 \/ handed)
        <3>1. Good(K, log, i) <=>
                 /\ KeyDocument(K, log[i]).tag = "document"
                 /\ i = 1 \/ (Good(K, log, i - 1) /\ log[i - 1].payload \in Shipped
                                                 /\ log[i].by = log[i - 1].payload)
            BY <2>1, GoodInTurn
        <3> HIDE DEF handed
        <3>2. QED
            BY <2>2, <3>1
    <2>4. IF Good(K, log, i)
          THEN Resolve(chain, K, log[i].id) = [tag |-> "key", key |-> log[i].payload]
          ELSE Resolve(chain, K, log[i].id).tag # "key"
        BY <1>1, GoodResolves
    <2>5. QED
        BY <2>3, <2>4
<1>2. KeyInv => LinksResolveInTurn
    <2>1. \A k \in Key : KeyTarget(k) \in Target
        BY DEF Target, KeyTarget
    <2>2. QED
        BY <1>1, <2>1 DEF LinksResolveInTurn
<1>3. QED
    BY <1>2, KeysInvariant, PTL

\* A key chain that is broken stays broken: no link above one that does not
\* resolve ever resolves.
BrokenStaysBroken ==
    \A S \in Readings(docs), k \in Key : \A i, j \in DOMAIN chain[KeyTarget(k)] :
        LET read(n) == Resolve(chain, S, chain[KeyTarget(k)][n].id)
        IN  i < j /\ read(i).tag # "key" => read(j).tag # "key"

\* Nothing above a link that does not resolve resolves, however far up: a chain
\* of keys that is broken cannot be mended by rotating further.
THEOREM BrokenChainsStayBroken == Spec => []BrokenStaysBroken
<1>1. ASSUME KeyInv, NEW K, NEW t \in Target,
             NEW i \in DOMAIN chain[t], NEW j \in DOMAIN chain[t],
             i < j, Resolve(chain, K, chain[t][j].id).tag = "key"
      PROVE  Resolve(chain, K, chain[t][i].id).tag = "key"
    <2>1. Good(K, chain[t], j)
        BY <1>1, GoodResolves
    <2>2. i \in Nat /\ j \in Nat
        BY <1>1 DEF KeyInv, TypeOK
    <2>3. Good(K, chain[t], i)
        BY <1>1, <2>1, <2>2 DEF Good, Faults, Bad
    <2>4. Resolve(chain, K, chain[t][i].id) = [tag |-> "key", key |-> chain[t][i].payload]
        BY <1>1, <2>3, GoodResolves
    <2>5. QED
        BY <2>4
<1>2. KeyInv => BrokenStaysBroken
    <2>1. \A k \in Key : KeyTarget(k) \in Target
        BY DEF Target, KeyTarget
    <2>2. QED
        BY <1>1, <2>1 DEF BrokenStaysBroken
<1>3. QED
    BY <1>2, KeysInvariant, PTL

\* One claim on a key's chain that publishes no key, a revocation say, makes every
\* link that lands above it unreadable for good, and so does one whose document is
\* not there; nothing else ever does (`key_chain' reads the document of every link).
THEOREM OneStrayClaimPoisons == Spec => []PoisonedFromBelow
<1>1. ASSUME KeyInv, NEW K, NEW t \in Target, NEW i \in DOMAIN chain[t]
      PROVE  Resolve(chain, K, chain[t][i].id).tag = "error" <=>
                \E j \in 1..i : KeyDocument(K, chain[t][j]).tag = "error"
    <2>1. Faults(K, chain[t], i) # {} <=> \E j \in 1..i : KeyDocument(K, chain[t][j]).tag = "error"
        BY DEF Faults
    <2>2. QED
        BY <1>1, <2>1, ErrorsAt
<1>2. KeyInv => PoisonedFromBelow
    <2>1. \A k \in Key : KeyTarget(k) \in Target
        BY DEF Target, KeyTarget
    <2>2. QED
        BY <1>1, <2>1 DEF PoisonedFromBelow
<1>3. QED
    BY <1>2, KeysInvariant, PTL
=============================================================================

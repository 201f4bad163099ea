------------------------ MODULE KeyResolutionProofs ------------------------
(***************************************************************************)
(* What reading keys and verdicts off claim chains comes to, for any       *)
(* chains whose claims have ids of their own: lemmas about the operators   *)
(* of KeyResolution, for the proofs of the modules that use them.          *)
(*                                                                         *)
(* A chain is grown by putting one claim with a new id on top of one of    *)
(* them. What is read from claims that were there is what was read before. *)
(***************************************************************************)
EXTENDS KeyResolution, FiniteSetTheorems, SequenceTheorems, TLAPS

\* No two places on the chains hold claims of one id.
Distinct(C) ==
    \A t, u \in DOMAIN C : \A i \in DOMAIN C[t], j \in DOMAIN C[u] :
        C[t][i].id = C[u][j].id => t = u /\ i = j

\* The chains are sequences, by target.
Chains(C, S) == C \in [Target -> Seq(S)]

\* A claim that publishes a key is on the chain of the key it is about.
Placed(C) ==
    \A t \in DOMAIN C : \A i \in DOMAIN C[t] :
        C[t][i].target \in Target /\ (IsKeyClaim(C[t][i]) => C[t][i].target = t)

\* D is C with one claim more, of a new id.
Grown(C, D, t, claim) ==
    /\ t \in Target
    /\ claim.id \notin Ids(C)
    /\ D = [C EXCEPT ![t] = Append(C[t], claim)]

LEMMA ClaimAtPlace ==
    ASSUME NEW C, Distinct(C), NEW t \in DOMAIN C, NEW i \in DOMAIN C[t]
    PROVE  ClaimAt(C, C[t][i].id) = C[t][i]
<1> DEFINE c == C[t][i].id
           holder == CHOOSE u \in DOMAIN C : \E j \in DOMAIN C[u] : C[u][j].id = c
           place == CHOOSE j \in DOMAIN C[holder] : C[holder][j].id = c
<1>1. holder \in DOMAIN C /\ \E j \in DOMAIN C[holder] : C[holder][j].id = c
    OBVIOUS
<1>2. place \in DOMAIN C[holder] /\ C[holder][place].id = c
    BY <1>1
<1>3. ClaimAt(C, c) = C[holder][place]
    BY DEF ClaimAt
<1> HIDE DEF holder, place
<1>4. holder = t /\ place = i
    BY <1>1, <1>2 DEF Distinct
<1>5. QED
    BY <1>3, <1>4

LEMMA IdsAreOnChains ==
    ASSUME NEW C, NEW c
    PROVE  c \in Ids(C) <=> \E t \in DOMAIN C : \E i \in DOMAIN C[t] : C[t][i].id = c
BY DEF Ids

\* A landed claim is at some place.
LEMMA ClaimAtSome ==
    ASSUME NEW S, NEW C, Chains(C, S), Distinct(C), NEW c \in Ids(C)
    PROVE  \E t \in Target : \E i \in DOMAIN C[t] :
                ClaimAt(C, c) = C[t][i] /\ C[t][i].id = c /\ C[t][i] \in S
<1>1. DOMAIN C = Target
    BY DEF Chains
<1>2. PICK t \in Target : \E i \in DOMAIN C[t] : C[t][i].id = c
    BY <1>1, IdsAreOnChains
<1>3. PICK i \in DOMAIN C[t] : C[t][i].id = c
    BY <1>2
<1>4. C[t] \in Seq(S)
    BY DEF Chains
<1>5. C[t][i] \in S
    BY <1>4
<1>6. QED
    BY <1>1, <1>3, <1>5, ClaimAtPlace

\* What growing does to the chains.
LEMMA GrownChains ==
    ASSUME NEW S, NEW C, NEW D, NEW t, NEW claim,
           Chains(C, S), claim \in S, Grown(C, D, t, claim)
    PROVE  /\ Chains(D, S)
           /\ Len(D[t]) = Len(C[t]) + 1
           /\ D[t][Len(C[t]) + 1] = claim
           /\ \A u \in Target : \A i \in DOMAIN C[u] : i \in DOMAIN D[u] /\ D[u][i] = C[u][i]
           /\ \A u \in Target : \A i \in DOMAIN D[u] :
                i \in DOMAIN C[u] \/ (u = t /\ i = Len(C[t]) + 1)
<1>1. C[t] \in Seq(S) /\ DOMAIN C = Target /\ t \in Target
    BY DEF Chains, Grown
<1>2. Append(C[t], claim) \in Seq(S)
    BY <1>1
<1>3. /\ DOMAIN D = Target
      /\ D[t] = Append(C[t], claim)
      /\ \A u \in Target : u # t => D[u] = C[u]
    BY <1>1 DEF Grown
<1>4. Chains(D, S)
    BY <1>1, <1>2 DEF Grown, Chains
<1>5. /\ Len(D[t]) = Len(C[t]) + 1
      /\ DOMAIN D[t] = 1..Len(C[t]) + 1
      /\ DOMAIN C[t] = 1..Len(C[t])
      /\ Len(C[t]) \in Nat
      /\ D[t][Len(C[t]) + 1] = claim
      /\ \A i \in 1..Len(C[t]) : D[t][i] = C[t][i]
    BY <1>1, <1>3
<1>6. QED
    BY <1>3, <1>4, <1>5

LEMMA GrownIds ==
    ASSUME NEW S, NEW C, NEW D, NEW t, NEW claim,
           Chains(C, S), claim \in S, Grown(C, D, t, claim)
    PROVE  Ids(D) = Ids(C) \cup {claim.id}
<1>1. /\ DOMAIN C = Target /\ DOMAIN D = Target
      /\ t \in Target
      /\ Len(C[t]) + 1 \in DOMAIN D[t]
      /\ D[t][Len(C[t]) + 1] = claim
      /\ \A u \in Target : \A i \in DOMAIN C[u] : i \in DOMAIN D[u] /\ D[u][i] = C[u][i]
      /\ \A u \in Target : \A i \in DOMAIN D[u] :
            i \in DOMAIN C[u] \/ (u = t /\ i = Len(C[t]) + 1)
    <2>1. D[t] \in Seq(S) /\ C[t] \in Seq(S)
        BY GrownChains DEF Chains, Grown
    <2>2. Len(C[t]) + 1 \in DOMAIN D[t]
        BY <2>1, GrownChains
    <2>3. QED
        BY <2>2, GrownChains DEF Chains, Grown
<1>2. ASSUME NEW c \in Ids(D) PROVE c \in Ids(C) \cup {claim.id}
    BY <1>1, IdsAreOnChains
<1>3. ASSUME NEW c \in Ids(C) PROVE c \in Ids(D)
    BY <1>1, IdsAreOnChains
<1>4. claim.id \in Ids(D)
    BY <1>1, IdsAreOnChains
<1>5. QED
    BY <1>2, <1>3, <1>4

LEMMA GrownDistinct ==
    ASSUME NEW S, NEW C, NEW D, NEW t, NEW claim,
           Chains(C, S), claim \in S, Distinct(C), Grown(C, D, t, claim)
    PROVE  Distinct(D)
<1>1. DOMAIN C = Target /\ DOMAIN D = Target
    BY GrownChains DEF Chains
<1>2. SUFFICES ASSUME NEW u \in Target, NEW v \in Target,
                      NEW i \in DOMAIN D[u], NEW j \in DOMAIN D[v],
                      D[u][i].id = D[v][j].id
               PROVE  u = v /\ i = j
    BY <1>1 DEF Distinct
<1>3. \A w \in Target : \A k \in DOMAIN C[w] : C[w][k].id # claim.id
    BY <1>1, IdsAreOnChains DEF Grown
<1>4. CASE i \in DOMAIN C[u] /\ j \in DOMAIN C[v]
    BY <1>1, <1>2, <1>4, GrownChains DEF Distinct
<1>5. CASE i \in DOMAIN C[u] /\ j \notin DOMAIN C[v]
    BY <1>2, <1>3, <1>5, GrownChains
<1>6. CASE i \notin DOMAIN C[u] /\ j \in DOMAIN C[v]
    BY <1>2, <1>3, <1>6, GrownChains
<1>7. CASE i \notin DOMAIN C[u] /\ j \notin DOMAIN C[v]
    BY <1>7, GrownChains
<1>8. QED
    BY <1>4, <1>5, <1>6, <1>7

\* A claim is found by its id as it was.
LEMMA GrownClaimAt ==
    ASSUME NEW S, NEW C, NEW D, NEW t, NEW claim,
           Chains(C, S), claim \in S, Distinct(C), Grown(C, D, t, claim),
           NEW c \in Ids(C)
    PROVE  ClaimAt(D, c) = ClaimAt(C, c)
<1>1. DOMAIN C = Target /\ DOMAIN D = Target
    BY GrownChains DEF Chains
<1>2. PICK u \in Target : \E i \in DOMAIN C[u] : C[u][i].id = c
    BY <1>1, IdsAreOnChains
<1>3. PICK i \in DOMAIN C[u] : C[u][i].id = c
    BY <1>2
<1>4. i \in DOMAIN D[u] /\ D[u][i] = C[u][i]
    BY GrownChains
<1>5. ClaimAt(C, c) = C[u][i]
    BY <1>1, <1>3, ClaimAtPlace
<1>6. ClaimAt(D, D[u][i].id) = D[u][i]
    BY <1>1, <1>4, GrownDistinct, ClaimAtPlace
<1>7. QED
    BY <1>3, <1>4, <1>5, <1>6

-----------------------------------------------------------------------------
(***************************************************************************)
(* Signatures                                                              *)
(***************************************************************************)

\* A signature is good for the key that made it, if there is a verifier for it.
LEMMA VerifiedMeans ==
    ASSUME NEW claim, NEW key
    PROVE  VerifyCommit(claim, key) = "Verified" <=> key \in Shipped /\ claim.by = key
<1>1. \A k \in Shipped : k # Unsigned /\ k # OtherArmor
    BY KeyResolutionAssumption DEF Shipped
<1>2. QED
    BY <1>1 DEF VerifyCommit, Shipped

-----------------------------------------------------------------------------
(***************************************************************************)
(* Walks                                                                   *)
(***************************************************************************)

\* Every non-empty set of positions has a least one.
LEMMA LeastPlace ==
    ASSUME NEW S \in SUBSET Nat, S # {}
    PROVE  \E x \in S : \A y \in S : x <= y
<1> DEFINE Segments == {0..n : n \in S}
<1>1. Segments \subseteq FiniteSubsetsOf(Nat)
    <2>1. \A n \in Nat : IsFiniteSet(0..n) /\ 0..n \subseteq Nat
        BY FS_Interval
    <2>2. QED
        BY <2>1 DEF FiniteSubsetsOf
<1>2. PICK s \in Segments : \A r \in Segments : <<r, s>> \notin StrictSubsetOrdering(Nat)
    <2>1. Segments # {}
        OBVIOUS
    <2>2. IsWellFoundedOn(StrictSubsetOrdering(Nat), FiniteSubsetsOf(Nat))
        BY FS_StrictSubsetOrderingWellFounded
    <2> HIDE DEF Segments
    <2>3. QED
        BY <1>1, <2>1, <2>2, WFMin
<1>3. PICK x \in S : s = 0..x
    BY <1>2
<1>4. ASSUME NEW y \in S, y < x PROVE FALSE
    <2>1. 0..y \subseteq 0..x /\ 0..y # 0..x
        BY <1>4
    <2>2. <<0..y, s>> \in StrictSubsetOrdering(Nat)
        BY <2>1, <1>3 DEF StrictSubsetOrdering
    <2>3. QED
        BY <2>2, <1>2
<1>5. QED
    BY <1>4

LEMMA MinOfPlaces ==
    ASSUME NEW n \in Nat, NEW S \in SUBSET (0..n), S # {}
    PROVE  Min(S) \in S
<1>1. \E x \in S : \A y \in S : x <= y
    BY LeastPlace
<1>2. QED
    BY <1>1 DEF Min

LEMMA MaxOfPlaces ==
    ASSUME NEW n \in Nat, NEW S \in SUBSET (1..n), S # {}
    PROVE  Max(S) \in S /\ \A y \in S : y <= Max(S)
<1> DEFINE R == {n - x : x \in S}
<1>1. R \in SUBSET Nat /\ R # {}
    OBVIOUS
<1> HIDE DEF R
<1>2. PICK m \in R : \A y \in R : m <= y
    BY <1>1, LeastPlace
<1>3. PICK x \in S : m = n - x
    BY <1>2 DEF R
<1>4. ASSUME NEW y \in S PROVE y <= x
    <2>1. m <= n - y
        BY <1>2 DEF R
    <2>2. x \in Nat /\ y \in Nat
        OBVIOUS
    <2>3. QED
        BY <1>3, <2>1, <2>2
<1>5. \E z \in S : \A y \in S : z >= y
    BY <1>4
<1>6. Max(S) \in S /\ \A y \in S : Max(S) >= y
    BY <1>5 DEF Max
<1>7. QED
    BY <1>6

\* What reading one document comes to.
LEMMA DocumentRead ==
    ASSUME NEW K, NEW claim
    PROVE  \/ /\ IsKeyClaim(claim) /\ claim.payload \in K \cap Key
              /\ KeyDocument(K, claim).tag = "document"
              /\ KeyDocument(K, claim).key = claim.payload
           \/ /\ IsKeyClaim(claim) /\ claim.payload \notin K \cap Key
              /\ KeyDocument(K, claim) = Error("Store")
              /\ KeyDocument(K, claim).tag = "error"
              /\ KeyDocument(K, claim).error = "Store"
           \/ /\ ~IsKeyClaim(claim)
              /\ KeyDocument(K, claim) = Error("NotAKeyClaim")
              /\ KeyDocument(K, claim).tag = "error"
              /\ KeyDocument(K, claim).error = "NotAKeyClaim"
BY DEF KeyDocument, Error

\* The rotations among the first n claims of a log that the key of the link
\* below did not sign.
Bad(log, n) == {j \in 2..n : VerifyCommit(log[j], log[j - 1].payload) # "Verified"}

LEMMA MaxOfOne == ASSUME NEW n \in Nat PROVE Max({n}) = n
<1>1. Max({n}) = CHOOSE x \in {n} : \A y \in {n} : x >= y
    BY DEF Max
<1>2. \E x \in {n} : \A y \in {n} : x >= y
    OBVIOUS
<1>3. QED
    BY <1>1, <1>2

\* A fault is a place in the log, and there is a last one.
LEMMA LastFault ==
    ASSUME NEW K, NEW log, NEW n \in Nat, Faults(K, log, n) # {}
    PROVE  /\ Max(Faults(K, log, n)) \in Faults(K, log, n)
           /\ Max(Faults(K, log, n)) \in 1..n
           /\ \A j \in Faults(K, log, n) : j <= Max(Faults(K, log, n))
           /\ KeyDocument(K, log[Max(Faults(K, log, n))]).tag = "error"
<1> DEFINE F == Faults(K, log, n)
<1>1. F \in SUBSET (1..n) /\ \A j \in F : KeyDocument(K, log[j]).tag = "error"
    BY DEF Faults
<1> HIDE DEF F
<1>2. F # {}
    BY DEF F
<1>3. Max(F) \in F /\ \A y \in F : y <= Max(F)
    BY <1>1, <1>2, MaxOfPlaces
<1>4. Max(F) \in 1..n /\ KeyDocument(K, log[Max(F)]).tag = "error"
    BY <1>1, <1>3
<1>5. QED
    BY <1>3, <1>4 DEF F

\* A walk reads the log up to the claim it was asked for.
LEMMA WalkAt ==
    ASSUME NEW S, NEW C, Chains(C, S), Distinct(C), Placed(C), NEW K,
           NEW t \in Target, NEW i \in DOMAIN C[t]
    PROVE  KeyChain(C, K, C[t][i].id) =
                IF KeyDocument(K, C[t][i]).tag = "error" THEN KeyDocument(K, C[t][i])
                ELSE IF Faults(K, C[t], i) # {}
                THEN KeyDocument(K, C[t][Max(Faults(K, C[t], i))])
                ELSE [tag |-> "links", links |-> SubSeq(C[t], 1, i)]
<1> DEFINE c == C[t][i].id
           claim == ClaimAt(C, c)
           log == C[claim.target]
           at == {k \in DOMAIN log : log[k].id = c}
<1>1. KeyChain(C, K, c) =
        IF KeyDocument(K, claim).tag = "error" THEN KeyDocument(K, claim)
        ELSE IF at = {} THEN Error("ClaimOffChain")
        ELSE IF Faults(K, log, Max(at)) # {} THEN KeyDocument(K, log[Max(Faults(K, log, Max(at)))])
        ELSE [tag |-> "links", links |-> SubSeq(log, 1, Max(at))]
    BY DEF KeyChain
<1>2. DOMAIN C = Target
    BY DEF Chains
<1>3. claim = C[t][i]
    BY <1>2, ClaimAtPlace
<1>4. CASE KeyDocument(K, C[t][i]).tag = "error"
    <2> HIDE DEF claim, at, log
    <2>1. QED
        BY <1>1, <1>3, <1>4
<1>5. CASE KeyDocument(K, C[t][i]).tag # "error"
    <2>1. IsKeyClaim(C[t][i])
        BY <1>5, DocumentRead
    <2>2. log = C[t]
        BY <1>2, <1>3, <2>1 DEF Placed
    <2>3. at = {i} /\ i \in Nat
        BY <1>2, <2>2 DEF Distinct, Chains
    <2>4. Max(at) = i
        BY <2>3, MaxOfOne
    <2> HIDE DEF at, log, claim
    <2>5. QED
        BY <1>1, <1>3, <1>5, <2>2, <2>3, <2>4
<1>6. QED
    BY <1>4, <1>5

\* A walk that meets nothing but links.
LEMMA LinkedWalk ==
    ASSUME NEW S, NEW C, Chains(C, S), Distinct(C), Placed(C), NEW K,
           NEW t \in Target, NEW i \in DOMAIN C[t], Faults(K, C[t], i) = {}
    PROVE  KeyChain(C, K, C[t][i].id) = [tag |-> "links", links |-> SubSeq(C[t], 1, i)]
<1>1. i \in 1..i
    BY DEF Chains
<1>2. KeyDocument(K, C[t][i]).tag # "error"
    BY <1>1 DEF Faults
<1>3. QED
    BY <1>2, WalkAt

\* A walk that meets something else stops there.
LEMMA FaultyWalk ==
    ASSUME NEW S, NEW C, Chains(C, S), Distinct(C), Placed(C), NEW K,
           NEW t \in Target, NEW i \in DOMAIN C[t], Faults(K, C[t], i) # {}
    PROVE  KeyChain(C, K, C[t][i].id) = KeyDocument(K, C[t][Max(Faults(K, C[t], i))])
<1>1. i \in 1..i /\ i \in Nat
    BY DEF Chains
<1>2. CASE KeyDocument(K, C[t][i]).tag = "error"
    <2>1. i \in Faults(K, C[t], i)
        BY <1>1, <1>2 DEF Faults
    <2>2. Max(Faults(K, C[t], i)) = i
        <3> DEFINE m == Max(Faults(K, C[t], i))
        <3>1. m \in 1..i /\ i <= m
            BY <1>1, <2>1, LastFault
        <3> HIDE DEF m
        <3>2. m = i
            BY <1>1, <3>1
        <3>3. QED
            BY <3>2 DEF m
    <2>3. KeyChain(C, K, C[t][i].id) = KeyDocument(K, C[t][i])
        BY <1>2, WalkAt
    <2>4. QED
        BY <2>2, <2>3
<1>3. CASE KeyDocument(K, C[t][i]).tag # "error"
    BY <1>3, WalkAt
<1>4. QED
    BY <1>2, <1>3

\* What a walk returns.
LEMMA LinksAt ==
    ASSUME NEW S, NEW log \in Seq(S), NEW n \in DOMAIN log
    PROVE  /\ Len(SubSeq(log, 1, n)) = n
           /\ \A j \in 1..n : SubSeq(log, 1, n)[j] = log[j]
           /\ Last(SubSeq(log, 1, n)) = log[n]
           /\ BadLinks(SubSeq(log, 1, n)) = Bad(log, n)
<1>1. n \in Nat /\ n >= 1 /\ n <= Len(log)
    OBVIOUS
<1>2. /\ Len(SubSeq(log, 1, n)) = n
      /\ \A j \in 1..n : SubSeq(log, 1, n)[j] = log[j]
    BY <1>1, SubSeqProperties
<1> DEFINE links == SubSeq(log, 1, n)
<1> HIDE DEF links
<1>3. /\ Len(links) = n
      /\ \A j \in 1..n : links[j] = log[j]
    BY <1>2 DEF links
<1>4. Last(links) = log[n]
    BY <1>1, <1>3 DEF Last
<1>5. BadLinks(links) = Bad(log, n)
    <2>1. \A j \in 2..n : links[j] = log[j] /\ links[j - 1] = log[j - 1]
        BY <1>1, <1>3
    <2>2. QED
        BY <1>3, <2>1 DEF BadLinks, Bad
<1>6. QED
    BY <1>2, <1>4, <1>5 DEF links

\* A link with a fault at or beneath it.
LEMMA FaultAt ==
    ASSUME NEW S, NEW C, Chains(C, S), Distinct(C), Placed(C), NEW K,
           NEW t \in Target, NEW i \in DOMAIN C[t], Faults(K, C[t], i) # {}
    PROVE  Resolve(C, K, C[t][i].id) = KeyDocument(K, C[t][Max(Faults(K, C[t], i))])
<1> DEFINE c == C[t][i].id
           document == KeyDocument(K, C[t][Max(Faults(K, C[t], i))])
<1>1. KeyChain(C, K, c) = document
    BY FaultyWalk
<1>2. document.tag = "error"
    <2>1. i \in Nat
        BY DEF Chains
    <2>2. QED
        BY <2>1, LastFault
<1> HIDE DEF c, document
<1>3. Resolve(C, K, c) = document
    BY <1>1, <1>2 DEF Resolve
<1>4. QED
    BY <1>3 DEF c, document

\* What a link resolves to.
LEMMA ResolveAt ==
    ASSUME NEW S, NEW C, Chains(C, S), Distinct(C), Placed(C), NEW K,
           NEW t \in Target, NEW i \in DOMAIN C[t]
    PROVE  /\ Faults(K, C[t], i) # {} =>
                /\ Resolve(C, K, C[t][i].id) = KeyDocument(K, C[t][Max(Faults(K, C[t], i))])
                /\ Resolve(C, K, C[t][i].id).tag = "error"
           /\ Faults(K, C[t], i) = {} /\ Bad(C[t], i) = {} =>
                Resolve(C, K, C[t][i].id) = [tag |-> "key", key |-> C[t][i].payload]
           /\ Faults(K, C[t], i) = {} /\ Bad(C[t], i) # {} =>
                /\ Resolve(C, K, C[t][i].id).tag = "rejected"
                /\ \E j \in Bad(C[t], i) : Resolve(C, K, C[t][i].id).verdict =
                        VerifyCommit(C[t][j], C[t][j - 1].payload)
<1> DEFINE c == C[t][i].id
           walk == KeyChain(C, K, c)
           bad == BadLinks(walk.links)
           faults == Faults(K, C[t], i)
<1>1. Resolve(C, K, c) =
        IF walk.tag = "error" THEN walk
        ELSE IF bad = {}
             THEN [tag |-> "key", key |-> Last(walk.links).payload]
             ELSE [tag |-> "rejected",
                   verdict |-> VerifyCommit(walk.links[Min(bad)],
                                            walk.links[Min(bad) - 1].payload)]
    BY DEF Resolve
<1>2. C[t] \in Seq(S)
    BY DEF Chains
<1>3. CASE faults # {}
    <2>1. i \in Nat
        BY <1>2
    <2>2. KeyDocument(K, C[t][Max(faults)]).tag = "error"
        BY <1>3, <2>1, LastFault
    <2>3. Resolve(C, K, c) = KeyDocument(K, C[t][Max(faults)])
        BY <1>3, FaultAt
    <2> HIDE DEF faults, walk, c
    <2>4. Resolve(C, K, c).tag = "error"
        BY <2>2, <2>3
    <2>5. QED
        BY <1>3, <2>3, <2>4 DEF faults, c
<1>4. CASE faults = {}
    <2>1. walk.tag = "links" /\ walk.links = SubSeq(C[t], 1, i)
        <3>1. walk = [tag |-> "links", links |-> SubSeq(C[t], 1, i)]
            BY <1>4, LinkedWalk
        <3> DEFINE links == SubSeq(C[t], 1, i)
        <3> HIDE DEF walk, links
        <3>2. walk = [tag |-> "links", links |-> links]
            BY <3>1 DEF links
        <3>3. walk.tag = "links" /\ walk.links = links
            BY <3>2
        <3>4. QED
            BY <3>3 DEF links
    <2> DEFINE links == walk.links
    <2>2. /\ \A j \in 1..i : links[j] = C[t][j]
          /\ Last(links) = C[t][i]
          /\ bad = Bad(C[t], i)
        BY <1>2, <2>1, LinksAt
    <2> HIDE DEF walk, bad
    <2>3. ASSUME bad # {}
          PROVE  \E j \in Bad(C[t], i) : /\ Min(bad) = j
                                         /\ links[j] = C[t][j]
                                         /\ links[j - 1] = C[t][j - 1]
        <3>1. bad \in SUBSET (0..i) /\ i \in Nat
            BY <1>2, <2>2 DEF Bad
        <3>2. Min(bad) \in bad
            BY <2>3, <3>1, MinOfPlaces
        <3>3. Min(bad) \in 2..i
            BY <2>2, <3>2 DEF Bad
        <3>4. QED
            BY <2>2, <3>1, <3>2, <3>3
    <2>4. CASE bad = {}
        <3>1. Resolve(C, K, c) = [tag |-> "key", key |-> C[t][i].payload]
            BY <1>1, <2>1, <2>2, <2>4 DEF links
        <3>2. QED
            BY <1>4, <2>2, <2>4, <3>1
    <2>5. CASE bad # {}
        <3>1. PICK j \in Bad(C[t], i) : /\ Min(bad) = j
                                       /\ links[j] = C[t][j]
                                       /\ links[j - 1] = C[t][j - 1]
            BY <2>3, <2>5
        <3>2. Resolve(C, K, c) = [tag |-> "rejected",
                                  verdict |-> VerifyCommit(links[j], links[j - 1].payload)]
            BY <1>1, <2>1, <2>5, <3>1 DEF links
        <3> HIDE DEF c, links
        <3>3. /\ Resolve(C, K, c).tag = "rejected"
              /\ Resolve(C, K, c).verdict = VerifyCommit(C[t][j], C[t][j - 1].payload)
            BY <3>1, <3>2
        <3>4. QED
            BY <1>4, <2>2, <2>5, <3>3 DEF c
    <2>6. QED
        BY <2>4, <2>5
<1>5. QED
    BY <1>3, <1>4

\* Growing the chains changes what no claim that was there resolves to.
LEMMA GrownResolve ==
    ASSUME NEW S, NEW C, NEW D, NEW t, NEW claim,
           Chains(C, S), claim \in S, Distinct(C), Placed(C), Grown(C, D, t, claim),
           Placed(D), NEW K, NEW c \in Ids(C)
    PROVE  Resolve(D, K, c) = Resolve(C, K, c)
<1>1. DOMAIN C = Target /\ Chains(D, S) /\ Distinct(D)
    BY GrownChains, GrownDistinct DEF Chains
<1>2. PICK u \in Target : \E i \in DOMAIN C[u] : C[u][i].id = c
    BY <1>1, IdsAreOnChains
<1>3. PICK i \in DOMAIN C[u] : C[u][i].id = c
    BY <1>2
<1>4. /\ i \in DOMAIN D[u] /\ D[u][i].id = c
      /\ C[u] \in Seq(S) /\ D[u] \in Seq(S)
    BY <1>1, <1>3, GrownChains DEF Chains
<1>5. \A j \in 1..i : j \in DOMAIN C[u] /\ D[u][j] = C[u][j]
    BY <1>3, <1>4, GrownChains
<1>6. Faults(K, D[u], i) = Faults(K, C[u], i)
    BY <1>5 DEF Faults
<1>7. SubSeq(D[u], 1, i) = SubSeq(C[u], 1, i)
    <2>1. i \in Nat /\ i >= 1 /\ i <= Len(C[u]) /\ i <= Len(D[u])
        BY <1>3, <1>4
    <2>2. /\ SubSeq(D[u], 1, i) \in Seq(S) /\ SubSeq(C[u], 1, i) \in Seq(S)
          /\ Len(SubSeq(D[u], 1, i)) = i /\ Len(SubSeq(C[u], 1, i)) = i
          /\ \A j \in 1..i : SubSeq(D[u], 1, i)[j] = D[u][j]
          /\ \A j \in 1..i : SubSeq(C[u], 1, i)[j] = C[u][j]
        BY <1>4, <2>1, SubSeqProperties
    <2> DEFINE one == SubSeq(D[u], 1, i)
               other == SubSeq(C[u], 1, i)
    <2> HIDE DEF one, other
    <2>3. /\ one \in Seq(S) /\ other \in Seq(S) /\ Len(one) = i /\ Len(other) = i
          /\ \A j \in 1..i : one[j] = other[j]
        BY <1>5, <2>2 DEF one, other
    <2>4. one = other
        BY <2>3, SeqEqual
    <2>5. QED
        BY <2>4 DEF one, other
<1>8. KeyChain(D, K, c) = KeyChain(C, K, c)
    <2>1. CASE Faults(K, C[u], i) = {}
        <3>1. KeyChain(C, K, c) = [tag |-> "links", links |-> SubSeq(C[u], 1, i)]
            BY <1>3, <2>1, LinkedWalk
        <3>2. KeyChain(D, K, c) = [tag |-> "links", links |-> SubSeq(D[u], 1, i)]
            <4>1. Faults(K, D[u], i) = {}
                BY <1>6, <2>1
            <4>2. KeyChain(D, K, D[u][i].id) = [tag |-> "links", links |-> SubSeq(D[u], 1, i)]
                BY <1>1, <1>4, <4>1, LinkedWalk
            <4>3. QED
                BY <1>4, <4>1, <4>2
        <3>3. QED
            BY <1>7, <3>1, <3>2
    <2>2. CASE Faults(K, C[u], i) # {}
        <3> DEFINE m == Max(Faults(K, C[u], i))
        <3>1. KeyChain(C, K, c) = KeyDocument(K, C[u][m])
            BY <1>3, <2>2, FaultyWalk
        <3>2. KeyChain(D, K, c) = KeyDocument(K, D[u][m])
            <4>1. Faults(K, D[u], i) # {} /\ m = Max(Faults(K, D[u], i))
                BY <1>6, <2>2
            <4> HIDE DEF m
            <4>2. KeyChain(D, K, D[u][i].id) = KeyDocument(K, D[u][Max(Faults(K, D[u], i))])
                BY <1>1, <1>4, <4>1, FaultyWalk
            <4>3. QED
                BY <1>4, <4>1, <4>2
        <3>3. m \in 1..i
            BY <1>4, <2>2, LastFault
        <3> HIDE DEF m
        <3>4. QED
            BY <1>5, <3>1, <3>2, <3>3
    <2>3. QED
        BY <2>1, <2>2
<1>9. QED
    BY <1>8 DEF Resolve

\* Nor does it change any verdict, if what a claim names as its key had landed
\* when the claim did.
LEMMA GrownVerify ==
    ASSUME NEW S, NEW C, NEW D, NEW t, NEW claim,
           Chains(C, S), claim \in S, Distinct(C), Placed(C), Grown(C, D, t, claim),
           Placed(D), NEW K, NEW c \in Ids(C), claim.id # ClaimAt(C, c).key
    PROVE  Verify(D, K, c) = Verify(C, K, c)
<1>1. ClaimAt(D, c) = ClaimAt(C, c)
    BY GrownClaimAt
<1>2. Ids(D) = Ids(C) \cup {claim.id}
    BY GrownIds
<1> DEFINE key == ClaimAt(C, c).key
<1>3. key \in Ids(D) <=> key \in Ids(C)
    BY <1>2
<1>4. CASE key \notin Ids(C)
    BY <1>1, <1>3, <1>4 DEF Verify
<1>5. CASE key \in Ids(C)
    <2>1. Resolve(D, K, key) = Resolve(C, K, key)
        BY <1>5, GrownResolve
    <2>2. QED
        BY <1>1, <1>3, <2>1 DEF Verify
<1>6. QED
    BY <1>4, <1>5

-----------------------------------------------------------------------------
(***************************************************************************)
(* Documents                                                               *)
(***************************************************************************)

\* Documents that are missing make a read fail, and change no answer.
LEMMA ResolveReads ==
    ASSUME NEW S, NEW C, Chains(C, S), Distinct(C), Placed(C),
           NEW K \in SUBSET Key, NEW c \in Ids(C)
    PROVE  Resolve(C, K, c) = Error("Store") \/ Resolve(C, K, c) = Resolve(C, Key, c)
<1>1. DOMAIN C = Target
    BY DEF Chains
<1>2. PICK t \in Target : \E i \in DOMAIN C[t] : C[t][i].id = c
    BY <1>1, IdsAreOnChains
<1>3. PICK i \in DOMAIN C[t] : C[t][i].id = c
    BY <1>2
<1>4. i \in Nat
    <2>1. C[t] \in Seq(S)
        BY DEF Chains
    <2>2. QED
        BY <2>1
<1> DEFINE few == Faults(Key, C[t], i)
           many == Faults(K, C[t], i)
<1>5. few \subseteq many
    <2>1. ASSUME NEW claim, KeyDocument(Key, claim).tag = "error"
          PROVE  KeyDocument(K, claim).tag = "error"
        BY <2>1 DEF KeyDocument, Error
    <2>2. QED
        BY <2>1 DEF Faults
<1>6. CASE many = {}
    <2>1. few = {}
        BY <1>5, <1>6
    <2>2. KeyChain(C, K, c) = KeyChain(C, Key, c)
        <3> HIDE DEF few, many
        <3>1. KeyChain(C, K, C[t][i].id) = [tag |-> "links", links |-> SubSeq(C[t], 1, i)]
            BY <1>6, LinkedWalk DEF many
        <3>2. KeyChain(C, Key, C[t][i].id) = [tag |-> "links", links |-> SubSeq(C[t], 1, i)]
            BY <2>1, LinkedWalk DEF few
        <3>3. QED
            BY <1>3, <3>1, <3>2
    <2>3. QED
        BY <2>2 DEF Resolve
<1>7. CASE many # {}
    <2> DEFINE m == Max(many)
    <2>1. /\ m \in many /\ m \in 1..i
          /\ \A j \in many : j <= m
          /\ KeyDocument(K, C[t][m]).tag = "error"
        BY <1>4, <1>7, LastFault
    <2>2. Resolve(C, K, c) = KeyDocument(K, C[t][m])
        <3>1. Resolve(C, K, C[t][i].id) = KeyDocument(K, C[t][Max(Faults(K, C[t], i))])
            BY <1>7, FaultAt
        <3>2. QED
            BY <1>3, <3>1
    <2> HIDE DEF m
    <2>3. CASE IsKeyClaim(C[t][m])
        BY <2>1, <2>2, <2>3, DocumentRead
    <2>4. CASE ~IsKeyClaim(C[t][m])
        <3>1. /\ KeyDocument(K, C[t][m]) = Error("NotAKeyClaim")
              /\ KeyDocument(Key, C[t][m]) = Error("NotAKeyClaim")
              /\ KeyDocument(Key, C[t][m]).tag = "error"
            BY <2>4, DocumentRead
        <3>2. m \in few
            BY <2>1, <3>1 DEF Faults
        <3>3. Max(few) = m
            <4> DEFINE n == Max(few)
            <4>1. n \in few /\ m <= n /\ n \in 1..i
                BY <1>4, <3>2, LastFault
            <4> HIDE DEF n
            <4>2. n <= m
                BY <1>5, <2>1, <4>1
            <4>3. n = m
                BY <1>4, <2>1, <4>1, <4>2
            <4>4. QED
                BY <4>3 DEF n
        <3>4. Resolve(C, Key, c) = KeyDocument(Key, C[t][m])
            <4>1. Faults(Key, C[t], i) # {}
                BY <3>2
            <4>2. Resolve(C, Key, C[t][i].id) = KeyDocument(Key, C[t][Max(Faults(Key, C[t], i))])
                BY <4>1, FaultAt
            <4>3. QED
                BY <1>3, <3>3, <4>2
        <3>5. QED
            BY <2>2, <3>1, <3>4
    <2>5. QED
        BY <2>3, <2>4
<1>8. QED
    BY <1>6, <1>7

\* The same of verdicts.
LEMMA VerifyReads ==
    ASSUME NEW S, NEW C, Chains(C, S), Distinct(C), Placed(C),
           NEW K \in SUBSET Key, NEW c
    PROVE  Verify(C, K, c) = "Store" \/ Verify(C, K, c) = Verify(C, Key, c)
<1> DEFINE key == ClaimAt(C, c).key
<1>1. CASE key \notin Ids(C)
    BY <1>1 DEF Verify
<1>2. CASE key \in Ids(C)
    <2>1. CASE Resolve(C, K, key) = Error("Store")
        <3>1. Resolve(C, K, key).tag = "error" /\ Resolve(C, K, key).error = "Store"
            BY <2>1 DEF Error
        <3>2. QED
            BY <1>2, <3>1 DEF Verify
    <2>2. CASE Resolve(C, K, key) = Resolve(C, Key, key)
        BY <2>2 DEF Verify
    <2>3. QED
        BY <1>2, <2>1, <2>2, ResolveReads
<1>3. QED
    BY <1>1, <1>2
=============================================================================

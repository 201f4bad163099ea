-------------------------- MODULE ClaimChainProofs --------------------------
(***************************************************************************)
(* Theorems about ClaimChain, for any number of writers, subjects, labels  *)
(* and calls.                                                              *)
(***************************************************************************)
EXTENDS ClaimChain, SequenceTheorems, FiniteSetTheorems, TLAPS

Busy(w) == pc[w] # "idle"

-----------------------------------------------------------------------------
(***************************************************************************)
(* Prefixes of sequences                                                   *)
(***************************************************************************)

\* Appending to a history keeps it a prefix of itself: what publishing a
\* commit over its parent does to a ref.
LEMMA AppendKeepsPrefix ==
    ASSUME NEW S, NEW s \in Seq(S), NEW t \in Seq(S), NEW e \in S, IsPrefix(s, t)
    PROVE  IsPrefix(s, Append(t, e))
BY DEF IsPrefix

LEMMA PrefixOfItself ==
    ASSUME NEW S, NEW s \in Seq(S)
    PROVE  IsPrefix(s, s)
BY DEF IsPrefix

LEMMA PrefixTransitive ==
    ASSUME NEW S, NEW s \in Seq(S), NEW t \in Seq(S), NEW u \in Seq(S),
           IsPrefix(s, t), IsPrefix(t, u)
    PROVE  IsPrefix(s, u)
BY DEF IsPrefix

\* A prefix of the same length is the whole: comparing lengths is enough to
\* tell that a ref has not moved.
LEMMA PrefixOfSameLength ==
    ASSUME NEW S, NEW s \in Seq(S), NEW t \in Seq(S), IsPrefix(s, t), Len(s) = Len(t)
    PROVE  s = t
BY DEF IsPrefix

-----------------------------------------------------------------------------
(***************************************************************************)
(* Type correctness                                                        *)
(***************************************************************************)

\* A writer in the loop is serving a call that was made.
CallsServed == \A w \in Writer : Busy(w) => serving[w] \in 1..Len(calls)

Typed == TypeOK /\ CallsServed

LEMMA TypedInit == Init => Typed
BY ClaimChainAssumption DEF Init, Typed, TypeOK, CallsServed, Busy

\* Starting a call, from either operation.
LEMMA InvokeTyped ==
    ASSUME Typed, NEW w \in Writer, NEW call \in Call, Invoke(w, call)
    PROVE  Typed'
<1> USE ClaimChainAssumption DEF Invoke, Typed, TypeOK
<1>1. /\ calls' \in Seq(Call)
      /\ Len(calls') = Len(calls) + 1
      /\ Len(calls') <= MaxCalls
    OBVIOUS
<1>2. serving' \in [Writer -> 0..MaxCalls]
    <2>1. Len(calls) + 1 \in 0..MaxCalls
        OBVIOUS
    <2>2. QED
        BY <2>1
<1>3. pc' \in [Writer -> {"idle", "read", "history", "publish", "return"}]
    OBVIOUS
<1>4. CallsServed'
    BY <1>1 DEF CallsServed, Busy
<1>5. QED
    BY <1>1, <1>2, <1>3, <1>4

\* The request a busy writer is serving, and the claim it would publish.
LEMMA ServedCall ==
    ASSUME Typed, NEW w \in Writer, Busy(w)
    PROVE  /\ serving[w] \in 1..Len(calls)
           /\ serving[w] \in ClaimId
           /\ calls[serving[w]] \in Call
           /\ On(w) \in Target
           /\ NewClaim(w) \in Claim
<1>1. /\ serving[w] \in 1..Len(calls)
      /\ serving[w] \in ClaimId
    BY ClaimChainAssumption DEF Typed, TypeOK, CallsServed, ClaimId
<1>2. calls[serving[w]] \in Call
    BY <1>1 DEF Typed, TypeOK
<1>3. sequence[w] \in Nat
    BY DEF Typed, TypeOK
<1>4. QED
    BY <1>1, <1>2, <1>3 DEF On, NewClaim, Claim, Call

\* Leaving a call, however it ended.
LEMMA LeaveTyped ==
    ASSUME Typed, NEW w \in Writer, Leave(w), UNCHANGED <<chain, calls>>,
           answered' \subseteq ClaimId
    PROVE  Typed'
<1>1. 0 \in 0..MaxCalls
    BY ClaimChainAssumption
<1>2. QED
    BY <1>1 DEF Leave, Typed, TypeOK, CallsServed, Busy

\* A revocation is a call like any other.
LEMMA RevokeInvokes ==
    ASSUME Typed, NEW w \in Writer, Revoke(w)
    PROVE  \E call \in Call : Invoke(w, call)
<1> DEFINE Revocation(claim) ==
        [op |-> "revoke",
         on |-> claim.envelope.target,
         envelope |-> [target |-> AboutClaim(claim.id), payload_kind |-> REVOCATION_KIND]]
<1>1. PICK t \in Target : \E i \in DOMAIN chain[t] : Invoke(w, Revocation(chain[t][i]))
    BY DEF Revoke
<1>2. PICK i \in DOMAIN chain[t] : Invoke(w, Revocation(chain[t][i]))
    BY <1>1
<1>3. chain[t][i] \in Claim
    BY DEF Typed, TypeOK
<1>4. Revocation(chain[t][i]) \in Call
    BY <1>3 DEF Call, Envelope, Claim, Target, AboutClaim
<1>5. QED
    BY <1>2, <1>4

LEMMA TypedNext == Typed /\ [Next]_vars => Typed'
<1> SUFFICES ASSUME Typed, [Next]_vars PROVE Typed'
    OBVIOUS
<1> USE ClaimChainAssumption
<1>1. ASSUME NEW w \in Writer, Sign(w) PROVE Typed'
    BY <1>1, InvokeTyped DEF Sign, Call, Envelope
<1>2. ASSUME NEW w \in Writer, Revoke(w) PROVE Typed'
    BY <1>2, RevokeInvokes, InvokeTyped
<1>3. ASSUME NEW w \in Writer, ReadTip(w) PROVE Typed'
    <2>1. On(w) \in Target /\ chain[On(w)] \in Seq(Claim)
        BY <1>3, ServedCall DEF ReadTip, Busy, Typed, TypeOK
    <2>2. QED
        BY <1>3, <2>1 DEF ReadTip, Typed, TypeOK, CallsServed, Busy
<1>4. ASSUME NEW w \in Writer, ReadHistory(w) PROVE Typed'
    <2>1. On(w) \in Target /\ Len(chain[On(w)]) \in Nat
        BY <1>4, ServedCall DEF ReadHistory, Busy, Typed, TypeOK
    <2>2. QED
        BY <1>4, <2>1 DEF ReadHistory, Typed, TypeOK, CallsServed, Busy
<1>5. ASSUME NEW w \in Writer, Publish(w) PROVE Typed'
    <2>1. On(w) \in Target /\ Append(tip[w], NewClaim(w)) \in Seq(Claim)
        BY <1>5, ServedCall DEF Publish, Busy, Typed, TypeOK
    <2>2. QED
        BY <1>5, <2>1 DEF Publish, MoveRef, Typed, TypeOK, CallsServed, Busy
<1>6. ASSUME NEW w \in Writer, LoseRace(w) \/ BackendFault(w) PROVE Typed'
    BY <1>6 DEF LoseRace, BackendFault, Retry, Typed, TypeOK, CallsServed, Busy
<1>7. ASSUME NEW w \in Writer, Fail(w) \/ Crash(w) PROVE Typed'
    BY <1>7, LeaveTyped DEF Fail, Crash, Typed, TypeOK
<1>8. ASSUME NEW w \in Writer, Return(w) PROVE Typed'
    <2>1. answered' \subseteq ClaimId
        BY <1>8, ServedCall DEF Return, Busy, Typed, TypeOK
    <2>2. QED
        BY <1>8, <2>1, LeaveTyped DEF Return
<1>9. CASE UNCHANGED vars
    BY <1>9 DEF vars, locals, Typed, TypeOK, CallsServed, Busy
<1>10. QED
    BY <1>1, <1>2, <1>3, <1>4, <1>5, <1>6, <1>7, <1>8, <1>9 DEF Next

\* Every ref holds a sequence of claims, every writer is at a known point of
\* the loop with a history it read, and no more calls are made than allowed.
THEOREM TypeCorrect == Spec => []TypeOK
<1>1. Typed => TypeOK
    BY DEF Typed
<1>2. QED
    BY <1>1, TypedInit, TypedNext, PTL DEF Spec

-----------------------------------------------------------------------------
(***************************************************************************)
(* A ref only advances                                                     *)
(***************************************************************************)

\* What publishing does to the chains.
LEMMA PublishAppends ==
    ASSUME Typed, NEW w \in Writer, Publish(w)
    PROVE  /\ On(w) \in Target
           /\ NewClaim(w) \in Claim
           /\ chain' = [chain EXCEPT ![On(w)] = Append(@, NewClaim(w))]
BY ServedCall DEF Publish, MoveRef, Busy, Typed, TypeOK

\* Nothing else changes them.
LEMMA OnlyPublishMovesRefs ==
    ASSUME [Next]_vars
    PROVE  chain' = chain \/ \E w \in Writer : Publish(w)
BY DEF Next, vars, Sign, Revoke, Invoke, ReadTip, ReadHistory, LoseRace, BackendFault,
    Retry, Fail, Crash, Return

\* Calls are only ever added.
LEMMA CallsGrow ==
    ASSUME Typed, [Next]_vars
    PROVE  calls' = calls \/ \E c \in Call : calls' = Append(calls, c)
<1>1. ASSUME NEW w \in Writer, Sign(w) PROVE \E c \in Call : calls' = Append(calls, c)
    BY <1>1 DEF Sign, Invoke, Call, Envelope
<1>2. ASSUME NEW w \in Writer, Revoke(w) PROVE \E c \in Call : calls' = Append(calls, c)
    BY <1>2, RevokeInvokes DEF Invoke
<1>3. QED
    BY <1>1, <1>2 DEF Next, vars, ReadTip, ReadHistory, Publish, MoveRef, LoseRace,
        BackendFault, Retry, Fail, Crash, Return

LEMMA ChainStep ==
    ASSUME Typed, [Next]_vars, NEW t \in Target
    PROVE  IsPrefix(chain[t], chain'[t])
<1>1. chain[t] \in Seq(Claim)
    BY DEF Typed, TypeOK
<1>2. CASE chain' = chain
    BY <1>1, <1>2, PrefixOfItself
<1>3. ASSUME NEW w \in Writer, Publish(w) PROVE IsPrefix(chain[t], chain'[t])
    <2>1. chain'[t] = IF t = On(w) THEN Append(chain[t], NewClaim(w)) ELSE chain[t]
        BY <1>3, PublishAppends DEF Typed, TypeOK
    <2>2. NewClaim(w) \in Claim
        BY <1>3, PublishAppends
    <2>3. QED
        BY <1>1, <2>1, <2>2, PrefixOfItself, AppendKeepsPrefix
<1>4. QED
    BY <1>2, <1>3, OnlyPublishMovesRefs

\* No step of any writer forks, rewinds or rewrites a chain.
THEOREM AppendOnly == Spec => OnlyAppends
<1>1. Typed /\ [Next]_vars => [\A t \in Target : IsPrefix(chain[t], chain'[t])]_vars
    BY ChainStep
<1>2. QED
    BY <1>1, TypedInit, TypedNext, PTL DEF Spec, OnlyAppends

-----------------------------------------------------------------------------
(***************************************************************************)
(* What a writer has read is a past of the ref, and the number it computed *)
(* lies between that past and the present                                  *)
(***************************************************************************)

ReadsArePast ==
    \A w \in Writer :
        /\ pc[w] \in {"history", "publish"} => IsPrefix(tip[w], chain[On(w)])
        /\ pc[w] = "publish" => sequence[w] \in Len(tip[w])..Len(chain[On(w)])

Numbered == Typed /\ ReadsArePast /\ SequenceIsPosition

LEMMA NumberedInit == Init => Numbered
BY TypedInit DEF Init, Numbered, ReadsArePast, SequenceIsPosition

\* A writer whose own variables a step leaves alone.
LEMMA BystanderReads ==
    ASSUME Typed, ReadsArePast, [Next]_vars, NEW v \in Writer,
           pc'[v] = pc[v], serving'[v] = serving[v], tip'[v] = tip[v],
           sequence'[v] = sequence[v]
    PROVE  /\ pc'[v] \in {"history", "publish"} => IsPrefix(tip'[v], chain'[On(v)'])
           /\ pc'[v] = "publish" => sequence'[v] \in Len(tip'[v])..Len(chain'[On(v)'])
<1> SUFFICES ASSUME pc[v] \in {"history", "publish"}
             PROVE  /\ IsPrefix(tip[v], chain'[On(v)'])
                    /\ pc[v] = "publish" => sequence[v] \in Len(tip[v])..Len(chain'[On(v)'])
    OBVIOUS
<1>1. Busy(v) /\ On(v) \in Target /\ serving[v] \in 1..Len(calls)
    BY ServedCall DEF Busy
<1>2. calls' = calls \/ \E c \in Call : calls' = Append(calls, c)
    BY CallsGrow
<1>3. On(v)' = On(v)
    BY <1>1, <1>2 DEF On, Typed, TypeOK
<1>4. IsPrefix(chain[On(v)], chain'[On(v)])
    BY <1>1, ChainStep
<1>5. Typed'
    BY TypedNext
<1>6. /\ tip[v] \in Seq(Claim)
      /\ chain[On(v)] \in Seq(Claim)
      /\ chain'[On(v)] \in Seq(Claim)
      /\ sequence[v] \in Nat
    BY <1>1, <1>5 DEF Typed, TypeOK
<1>7. IsPrefix(tip[v], chain'[On(v)])
    BY <1>4, <1>6, PrefixTransitive DEF ReadsArePast
<1>8. Len(chain[On(v)]) <= Len(chain'[On(v)])
    BY <1>4 DEF IsPrefix
<1>9. QED
    BY <1>3, <1>6, <1>7, <1>8 DEF ReadsArePast

LEMMA ReadsArePastNext == Typed /\ ReadsArePast /\ [Next]_vars => ReadsArePast'
<1> SUFFICES ASSUME Typed, ReadsArePast, [Next]_vars, NEW v \in Writer
             PROVE  /\ pc'[v] \in {"history", "publish"} => IsPrefix(tip'[v], chain'[On(v)'])
                    /\ pc'[v] = "publish" =>
                            sequence'[v] \in Len(tip'[v])..Len(chain'[On(v)'])
    BY DEF ReadsArePast
<1>1. CASE /\ pc'[v] = pc[v]
           /\ serving'[v] = serving[v]
           /\ tip'[v] = tip[v]
           /\ sequence'[v] = sequence[v]
    BY <1>1, BystanderReads
<1>2. CASE pc'[v] \notin {"history", "publish"}
    BY <1>2
<1>3. CASE ReadTip(v)
    <2>1. Busy(v) /\ On(v) \in Target
        BY <1>3, ServedCall DEF ReadTip, Busy
    <2>2. chain[On(v)] \in Seq(Claim)
        BY <2>1 DEF Typed, TypeOK
    <2>3. On(v)' = On(v) /\ tip'[v] = chain[On(v)] /\ chain' = chain /\ sequence'[v] = 0
        BY <1>3 DEF ReadTip, On, Typed, TypeOK
    <2>4. pc'[v] = "publish" => Len(chain[On(v)]) = 0
        BY <1>3, <2>2 DEF ReadTip, Typed, TypeOK
    <2>5. QED
        BY <2>2, <2>3, <2>4, PrefixOfItself
<1>4. CASE ReadHistory(v)
    <2>1. Busy(v) /\ On(v) \in Target
        BY <1>4, ServedCall DEF ReadHistory, Busy
    <2>2. chain[On(v)] \in Seq(Claim) /\ tip[v] \in Seq(Claim)
        BY <2>1 DEF Typed, TypeOK
    <2>3. /\ On(v)' = On(v)
          /\ tip'[v] = tip[v]
          /\ chain' = chain
          /\ sequence'[v] = Len(chain[On(v)])
        BY <1>4 DEF ReadHistory, On, Typed, TypeOK
    <2>4. IsPrefix(tip[v], chain[On(v)])
        BY <1>4 DEF ReadHistory, ReadsArePast
    <2>5. QED
        BY <2>2, <2>3, <2>4 DEF IsPrefix
<1>5. CASE UNCHANGED vars
    BY <1>1, <1>5 DEF vars, locals
<1>6. ASSUME NEW w \in Writer, w # v,
             \/ Sign(w) \/ Revoke(w) \/ ReadTip(w) \/ ReadHistory(w) \/ Publish(w) \/ LoseRace(w)
             \/ BackendFault(w) \/ Fail(w) \/ Crash(w) \/ Return(w)
      PROVE  /\ pc'[v] = pc[v]
             /\ serving'[v] = serving[v]
             /\ tip'[v] = tip[v]
             /\ sequence'[v] = sequence[v]
    <2>1. CASE Sign(w) \/ Revoke(w)
        BY <1>6, <2>1 DEF Sign, Revoke, Invoke, Typed, TypeOK
    <2>2. CASE ReadTip(w) \/ ReadHistory(w)
        BY <1>6, <2>2 DEF ReadTip, ReadHistory, Typed, TypeOK
    <2>3. CASE Publish(w)
        BY <1>6, <2>3 DEF Publish, MoveRef, Typed, TypeOK
    <2>4. CASE LoseRace(w) \/ BackendFault(w)
        BY <1>6, <2>4 DEF LoseRace, BackendFault, Retry, Typed, TypeOK
    <2>5. CASE Fail(w) \/ Crash(w) \/ Return(w)
        BY <1>6, <2>5 DEF Fail, Crash, Return, Leave, Typed, TypeOK
    <2>6. QED
        BY <1>6, <2>1, <2>2, <2>3, <2>4, <2>5
<1>7. ASSUME Sign(v) \/ Revoke(v) \/ Publish(v) \/ LoseRace(v) \/ BackendFault(v)
             \/ Fail(v) \/ Crash(v) \/ Return(v)
      PROVE  pc'[v] \notin {"history", "publish"}
    <2>1. CASE Sign(v) \/ Revoke(v)
        BY <2>1 DEF Sign, Revoke, Invoke, Typed, TypeOK
    <2>2. CASE Publish(v)
        BY <2>2 DEF Publish, MoveRef, Typed, TypeOK
    <2>3. CASE LoseRace(v) \/ BackendFault(v)
        BY <2>3 DEF LoseRace, BackendFault, Retry, Typed, TypeOK
    <2>4. CASE Fail(v) \/ Crash(v) \/ Return(v)
        BY <2>4 DEF Fail, Crash, Return, Leave, Typed, TypeOK
    <2>5. QED
        BY <1>7, <2>1, <2>2, <2>3, <2>4
<1>8. QED
    BY <1>1, <1>2, <1>3, <1>4, <1>5, <1>6, <1>7 DEF Next

LEMMA NumberedNext == Numbered /\ [Next]_vars => Numbered'
<1> SUFFICES ASSUME Numbered, [Next]_vars PROVE Numbered'
    OBVIOUS
<1>1. Typed' /\ ReadsArePast'
    BY TypedNext, ReadsArePastNext DEF Numbered
<1>2. CASE chain' = chain
    BY <1>1, <1>2 DEF Numbered, SequenceIsPosition
<1>3. ASSUME NEW w \in Writer, Publish(w),
             NEW t \in Target, NEW i \in DOMAIN chain'[t]
      PROVE  chain'[t][i].sequence = i - 1
    <2>1. chain[t] \in Seq(Claim) /\ NewClaim(w) \in Claim
        BY <1>3, PublishAppends DEF Numbered, Typed, TypeOK
    <2>2. CASE t = On(w)
        <3>1. chain'[t] = Append(chain[t], NewClaim(w))
            BY <1>3, <2>2, PublishAppends DEF Numbered, Typed, TypeOK
        \* The tip has not moved, so the number computed is the chain's length.
        <3>2. NewClaim(w).sequence = Len(chain[t])
            BY <1>3, <2>1, <2>2 DEF Publish, Numbered, ReadsArePast, NewClaim
        <3>3. QED
            BY <1>3, <2>1, <3>1, <3>2 DEF Numbered, SequenceIsPosition
    <2>3. CASE t # On(w)
        <3>1. chain'[t] = chain[t]
            BY <1>3, <2>3, PublishAppends DEF Numbered, Typed, TypeOK
        <3>2. QED
            BY <1>3, <3>1 DEF Numbered, SequenceIsPosition
    <2>4. QED
        BY <2>2, <2>3
<1>4. QED
    BY <1>1, <1>2, <1>3, OnlyPublishMovesRefs DEF Numbered, SequenceIsPosition

\* The sequence a claim stores is its position on its chain.
THEOREM SequenceCorrect == Spec => []SequenceIsPosition
<1>1. Numbered => SequenceIsPosition
    BY DEF Numbered
<1>2. QED
    BY <1>1, NumberedInit, NumberedNext, PTL DEF Spec

\* A race is lost only to a chain that has grown.
THEOREM RetryIsProgress == Spec => []RetryMeansProgress
<1>1. Numbered => RetryMeansProgress
    BY DEF Numbered, ReadsArePast, RetryMeansProgress
<1>2. QED
    BY <1>1, NumberedInit, NumberedNext, PTL DEF Spec

-----------------------------------------------------------------------------
(***************************************************************************)
(* A call lands at most once, and an answered one stays                    *)
(***************************************************************************)

\* Claim n is at position i of the chain of t.
At(n, t, i) == i \in DOMAIN chain[t] /\ chain[t][i].id = n

\* What is on a chain was put there by a call made for that chain.
ClaimsComeFromCalls ==
    \A t \in Target : \A i \in DOMAIN chain[t] :
        LET n == chain[t][i].id
        IN  /\ n \in 1..Len(calls)
            /\ calls[n].on = t
            /\ calls[n].envelope = chain[t][i].envelope

\* Two writers never serve one call.
OwnCalls ==
    \A v, w \in Writer : Busy(v) /\ Busy(w) /\ serving[v] = serving[w] => v = w

\* The claim of a call is on the chain exactly when its writer is past the loop.
LandedWhenPublished ==
    \A w \in Writer : Busy(w) =>
        (pc[w] = "return" <=> \E i \in DOMAIN chain[On(w)] : At(serving[w], On(w), i))

AnsweredWereMade == answered \subseteq 1..Len(calls)

Landing ==
    /\ Typed
    /\ ClaimsComeFromCalls
    /\ OwnCalls
    /\ LandedWhenPublished
    /\ EachCallLandsOnce
    /\ AnsweredWereMade
    /\ AnsweredClaimsStay

LEMMA LandingInit == Init => Landing
BY TypedInit DEF Init, Landing, ClaimsComeFromCalls, OwnCalls, LandedWhenPublished, Busy,
    EachCallLandsOnce, AnsweredWereMade, AnsweredClaimsStay

\* A call begins: nothing is on a chain yet that bears its number.
LEMMA InvokeLanding ==
    ASSUME Landing, NEW w \in Writer, NEW call \in Call, Invoke(w, call)
    PROVE  Landing'
<1>1. Typed' /\ Typed /\ Len(calls) \in Nat
    <2>1. Typed
        BY DEF Landing
    <2>2. Typed'
        BY <2>1, InvokeTyped
    <2>3. QED
        BY <2>1, <2>2 DEF Typed, TypeOK
<1> USE DEF Invoke, Landing
<1>2. /\ calls' = Append(calls, call)
      /\ Len(calls') = Len(calls) + 1
      /\ \A n \in 1..Len(calls) : n \in 1..Len(calls') /\ calls'[n] = calls[n]
    BY DEF Typed, TypeOK
<1>3. /\ chain' = chain
      /\ answered' = answered
      /\ serving'[w] = Len(calls) + 1
      /\ pc'[w] = "read"
      /\ \A v \in Writer \ {w} : pc'[v] = pc[v] /\ serving'[v] = serving[v]
    BY DEF Typed, TypeOK
<1>4. \A v \in Writer \ {w} : Busy(v) => serving[v] \in 1..Len(calls) /\ On(v)' = On(v)
    BY <1>2, <1>3 DEF Typed, CallsServed, On
<1>5. ClaimsComeFromCalls'
    BY <1>2, <1>3 DEF ClaimsComeFromCalls
<1>6. OwnCalls'
    <2>1. \A v \in Writer \ {w} : Busy(v) => serving'[v] # serving'[w]
        BY <1>1, <1>3, <1>4
    <2>2. QED
        BY <1>3, <2>1 DEF OwnCalls, Busy
<1>7. LandedWhenPublished'
    <2> SUFFICES ASSUME NEW v \in Writer, Busy(v)'
                 PROVE  (pc'[v] = "return" <=>
                            \E i \in DOMAIN chain[On(v)'] : At(serving[v], On(v), i)')
        BY <1>3 DEF LandedWhenPublished
    <2>1. CASE v = w
        <3>1. On(w)' \in Target
            BY <1>1, <1>2, <1>3, <2>1 DEF On, Call
        <3>2. \A i \in DOMAIN chain[On(w)'] : chain[On(w)'][i].id # Len(calls) + 1
            BY <1>1, <3>1 DEF ClaimsComeFromCalls
        <3>3. QED
            BY <1>3, <2>1, <3>2 DEF At
    <2>2. CASE v # w
        BY <1>3, <1>4, <2>2 DEF LandedWhenPublished, At, Busy
    <2>3. QED
        BY <2>1, <2>2
<1>8. EachCallLandsOnce'
    BY <1>3 DEF EachCallLandsOnce
<1>9. AnsweredWereMade' /\ AnsweredClaimsStay'
    <2>1. AnsweredWereMade'
        BY <1>2, <1>3 DEF AnsweredWereMade
    <2>2. \A n \in answered : calls'[n] = calls[n]
        BY <1>2 DEF AnsweredWereMade
    <2>3. ASSUME NEW n \in answered'
          PROVE  \E i \in DOMAIN chain'[calls'[n].on] : chain'[calls'[n].on][i].id = n
        <3>1. n \in answered /\ calls'[n] = calls[n]
            BY <1>3, <2>2
        <3>2. \E i \in DOMAIN chain[calls[n].on] : chain[calls[n].on][i].id = n
            BY <3>1 DEF AnsweredClaimsStay
        <3>3. QED
            BY <1>3, <3>1, <3>2
    <2>4. QED
        BY <2>1, <2>3 DEF AnsweredClaimsStay
<1>10. QED
    BY <1>1, <1>5, <1>6, <1>7, <1>8, <1>9

\* A publish adds its claim at the end of one chain, where no claim of that
\* call was.
LEMMA PublishAdds ==
    ASSUME Landing, NEW w \in Writer, Publish(w)
    PROVE  /\ \A t \in Target : \A i \in DOMAIN chain[t] : chain[t][i].id # serving[w]
           /\ \A t \in Target : \A i \in DOMAIN chain[t] :
                i \in DOMAIN chain'[t] /\ chain'[t][i] = chain[t][i]
           /\ \A t \in Target : \A i \in DOMAIN chain'[t] :
                \/ i \in DOMAIN chain[t]
                \/ t = On(w) /\ i = Len(chain[t]) + 1 /\ chain'[t][i] = NewClaim(w)
           /\ Len(chain[On(w)]) + 1 \in DOMAIN chain'[On(w)]
           /\ chain'[On(w)][Len(chain[On(w)]) + 1] = NewClaim(w)
<1>1. /\ On(w) \in Target
      /\ NewClaim(w) \in Claim
      /\ chain' = [chain EXCEPT ![On(w)] = Append(@, NewClaim(w))]
      /\ chain \in [Target -> Seq(Claim)]
    BY PublishAppends DEF Landing, Typed, TypeOK
<1>2. ASSUME NEW t \in Target, NEW i \in DOMAIN chain[t]
      PROVE  chain[t][i].id # serving[w]
    <2>1. \A j \in DOMAIN chain[On(w)] : chain[On(w)][j].id # serving[w]
        BY DEF Publish, Landing, LandedWhenPublished, Busy, At
    <2>2. chain[t][i].id = serving[w] => t = On(w)
        BY DEF Landing, ClaimsComeFromCalls, On
    <2>3. QED
        BY <2>1, <2>2
<1>3. \A t \in Target \ {On(w)} : chain'[t] = chain[t]
    BY <1>1
<1>4. /\ chain'[On(w)] = Append(chain[On(w)], NewClaim(w))
      /\ chain[On(w)] \in Seq(Claim)
    BY <1>1
<1>5. QED
    BY <1>1, <1>2, <1>3, <1>4

LEMMA PublishLanding ==
    ASSUME Landing, NEW w \in Writer, Publish(w)
    PROVE  Landing'
<1>1. Typed'
    BY TypedNext DEF Landing, Next
<1>2. /\ calls' = calls
      /\ serving' = serving
      /\ answered' = answered
      /\ pc'[w] = "return"
      /\ \A v \in Writer : On(v)' = On(v)
      /\ \A v \in Writer \ {w} : pc'[v] = pc[v]
    BY DEF Publish, MoveRef, On, Landing, Typed, TypeOK
<1>3. Busy(w) /\ serving[w] \in 1..Len(calls) /\ On(w) \in Target
    BY ServedCall DEF Publish, Busy, Landing
<1>4. /\ NewClaim(w).id = serving[w]
      /\ NewClaim(w).envelope = calls[serving[w]].envelope
      /\ calls[serving[w]].on = On(w)
    BY DEF NewClaim, On
<1>5. ClaimsComeFromCalls'
    BY <1>2, <1>3, <1>4, PublishAdds DEF Landing, ClaimsComeFromCalls
<1>6. OwnCalls'
    BY <1>2, <1>3 DEF Landing, OwnCalls, Busy
<1>7. LandedWhenPublished'
    <2> SUFFICES ASSUME NEW v \in Writer, Busy(v)'
                 PROVE  (pc'[v] = "return" <=>
                            \E i \in DOMAIN chain'[On(v)] : chain'[On(v)][i].id = serving[v])
        BY <1>2 DEF LandedWhenPublished, At
    <2>1. CASE v = w
        BY <1>2, <1>3, <1>4, <2>1, PublishAdds
    <2>2. CASE v # w
        <3>1. Busy(v) /\ On(v) \in Target
            BY <1>2, <2>2, ServedCall DEF Busy, Landing
        <3>2. serving[v] # serving[w]
            BY <1>3, <2>2, <3>1 DEF Landing, OwnCalls
        <3>3. (\E i \in DOMAIN chain'[On(v)] : chain'[On(v)][i].id = serving[v])
                <=> \E i \in DOMAIN chain[On(v)] : chain[On(v)][i].id = serving[v]
            BY <1>4, <3>1, <3>2, PublishAdds
        <3>4. QED
            BY <1>2, <2>2, <3>1, <3>3 DEF Landing, LandedWhenPublished, At
    <2>3. QED
        BY <2>1, <2>2
<1>8. EachCallLandsOnce'
    BY <1>4, PublishAdds DEF Landing, EachCallLandsOnce
<1>9. AnsweredWereMade'
    BY <1>2 DEF Landing, AnsweredWereMade
<1>10. AnsweredClaimsStay'
    <2> SUFFICES ASSUME NEW n \in answered
                 PROVE  \E i \in DOMAIN chain'[calls[n].on] : chain'[calls[n].on][i].id = n
        BY <1>2 DEF AnsweredClaimsStay
    <2>1. calls[n].on \in Target
        <3>1. n \in 1..Len(calls) /\ calls \in Seq(Call)
            BY DEF Landing, AnsweredWereMade, Typed, TypeOK
        <3>2. calls[n] \in Call
            BY <3>1
        <3>3. QED
            BY <3>2 DEF Call
    <2>2. QED
        BY <2>1, PublishAdds DEF Landing, AnsweredClaimsStay
<1>11. QED
    BY <1>1, <1>5, <1>6, <1>7, <1>8, <1>9, <1>10 DEF Landing

\* Every other step moves no ref and begins no call, and answers only a call
\* whose claim was published.
LEMMA QuietLanding ==
    ASSUME Landing, Typed', chain' = chain, calls' = calls,
           \A v \in Writer : Busy(v)' =>
                Busy(v) /\ serving'[v] = serving[v] /\ (pc'[v] = "return" <=> pc[v] = "return"),
           \A n \in answered' :
                n \in answered \/ \E w \in Writer : pc[w] = "return" /\ n = serving[w]
    PROVE  Landing'
<1>1. ClaimsComeFromCalls' /\ OwnCalls' /\ EachCallLandsOnce'
    BY DEF Landing, ClaimsComeFromCalls, OwnCalls, EachCallLandsOnce
<1>2. LandedWhenPublished'
    BY DEF Landing, LandedWhenPublished, At, On
<1>3. \A w \in Writer : pc[w] = "return" =>
        /\ serving[w] \in 1..Len(calls)
        /\ \E i \in DOMAIN chain[On(w)] : chain[On(w)][i].id = serving[w]
    BY DEF Landing, LandedWhenPublished, At, Typed, CallsServed, Busy
<1>4. AnsweredWereMade' /\ AnsweredClaimsStay'
    BY <1>3 DEF Landing, AnsweredWereMade, AnsweredClaimsStay, On
<1>5. QED
    BY <1>1, <1>2, <1>4 DEF Landing

LEMMA LandingNext == Landing /\ [Next]_vars => Landing'
<1> SUFFICES ASSUME Landing, [Next]_vars PROVE Landing'
    OBVIOUS
<1>0. Typed' /\ Typed
    BY TypedNext DEF Landing
<1>1. ASSUME NEW w \in Writer, Sign(w) PROVE Landing'
    BY <1>1, InvokeLanding DEF Sign, Call, Envelope
<1>2. ASSUME NEW w \in Writer, Revoke(w) PROVE Landing'
    BY <1>0, <1>2, RevokeInvokes, InvokeLanding
<1>3. ASSUME NEW w \in Writer, Publish(w) PROVE Landing'
    BY <1>3, PublishLanding
<1>4. ASSUME NEW w \in Writer, ReadTip(w) \/ ReadHistory(w) PROVE Landing'
    BY <1>0, <1>4, QuietLanding DEF ReadTip, ReadHistory, Busy, Typed, TypeOK
<1>5. ASSUME NEW w \in Writer, LoseRace(w) \/ BackendFault(w) PROVE Landing'
    BY <1>0, <1>5, QuietLanding DEF LoseRace, BackendFault, Retry, Busy, Typed, TypeOK
<1>6. ASSUME NEW w \in Writer, Fail(w) \/ Crash(w) PROVE Landing'
    BY <1>0, <1>6, QuietLanding DEF Fail, Crash, Leave, Busy, Typed, TypeOK
<1>7. ASSUME NEW w \in Writer, Return(w) PROVE Landing'
    BY <1>0, <1>7, QuietLanding DEF Return, Leave, Busy, Typed, TypeOK
<1>8. CASE UNCHANGED vars
    BY <1>0, <1>8, QuietLanding DEF vars, locals, Busy
<1>9. QED
    BY <1>1, <1>2, <1>3, <1>4, <1>5, <1>6, <1>7, <1>8 DEF Next

\* However often a call loses its race, one claim of it is on one chain at most.
THEOREM LandsOnce == Spec => []EachCallLandsOnce
<1>1. Landing => EachCallLandsOnce
    BY DEF Landing
<1>2. QED
    BY <1>1, LandingInit, LandingNext, PTL DEF Spec

\* The id that sign or revoke returned names a claim on the chain, for ever.
THEOREM AnsweredStays == Spec => []AnsweredClaimsStay
<1>1. Landing => AnsweredClaimsStay
    BY DEF Landing
<1>2. QED
    BY <1>1, LandingInit, LandingNext, PTL DEF Spec

-----------------------------------------------------------------------------
(***************************************************************************)
(* A revoked claim is marked                                               *)
(***************************************************************************)

\* A revocation names a call made before it, and goes on the chain of the target
\* of that call's envelope.
RevocationsFollowTargets ==
    \A n \in 1..Len(calls) : calls[n].op = "revoke" =>
        LET c == calls[n].envelope.target.id
        IN  /\ IsRevocation(calls[n].envelope)
            /\ c \in 1..Len(calls)
            /\ calls[n].on = calls[c].envelope.target

Revoking == Landing /\ RevocationsFollowTargets

LEMMA RevokingInit == Init => Revoking
BY LandingInit DEF Init, Revoking, RevocationsFollowTargets

\* One call more, of either kind.
LEMMA InvokeRevoking ==
    ASSUME Revoking, NEW w \in Writer, NEW call \in Call, Invoke(w, call),
           call.op = "revoke" =>
                /\ IsRevocation(call.envelope)
                /\ call.envelope.target.id \in 1..Len(calls)
                /\ call.on = calls[call.envelope.target.id].envelope.target
    PROVE  RevocationsFollowTargets'
<1>1. calls \in Seq(Call) /\ Len(calls) \in Nat
    BY DEF Revoking, Landing, Typed, TypeOK
<1>2. /\ Len(calls') = Len(calls) + 1
      /\ calls'[Len(calls) + 1] = call
      /\ \A n \in 1..Len(calls) : n \in 1..Len(calls') /\ calls'[n] = calls[n]
      /\ 1..Len(calls') = (1..Len(calls)) \cup {Len(calls) + 1}
    BY <1>1 DEF Invoke
<1>3. ASSUME NEW n \in 1..Len(calls'), calls'[n].op = "revoke"
      PROVE  /\ IsRevocation(calls'[n].envelope)
             /\ calls'[n].envelope.target.id \in 1..Len(calls')
             /\ calls'[n].on = calls'[calls'[n].envelope.target.id].envelope.target
    <2>1. CASE n \in 1..Len(calls)
        BY <1>2, <1>3, <2>1 DEF Revoking, RevocationsFollowTargets
    <2>2. CASE n = Len(calls) + 1
        BY <1>2, <1>3, <2>2
    <2>3. QED
        BY <1>2, <2>1, <2>2
<1>4. QED
    BY <1>3 DEF RevocationsFollowTargets

LEMMA RevokingNext == Revoking /\ [Next]_vars => Revoking'
<1> SUFFICES ASSUME Revoking, [Next]_vars PROVE Revoking'
    OBVIOUS
<1>1. Landing'
    BY LandingNext DEF Revoking
<1>2. ASSUME NEW w \in Writer, Sign(w) PROVE RevocationsFollowTargets'
    <2>1. PICK t \in Target, k \in PayloadKind :
            Invoke(w, [op |-> "sign", on |-> t, envelope |-> [target |-> t, payload_kind |-> k]])
        BY <1>2 DEF Sign
    <2> DEFINE call == [op |-> "sign", on |-> t,
                        envelope |-> [target |-> t, payload_kind |-> k]]
    <2>2. call \in Call /\ call.op # "revoke"
        BY DEF Call, Envelope
    <2> HIDE DEF call
    <2>3. QED
        BY <2>1, <2>2, InvokeRevoking DEF call
<1>3. ASSUME NEW w \in Writer, Revoke(w) PROVE RevocationsFollowTargets'
    <2> DEFINE Revocation(claim) ==
            [op |-> "revoke",
             on |-> claim.envelope.target,
             envelope |-> [target |-> AboutClaim(claim.id), payload_kind |-> REVOCATION_KIND]]
    <2>1. PICK t \in Target : \E i \in DOMAIN chain[t] : Invoke(w, Revocation(chain[t][i]))
        BY <1>3 DEF Revoke
    <2>2. PICK i \in DOMAIN chain[t] : Invoke(w, Revocation(chain[t][i]))
        BY <2>1
    <2> DEFINE call == Revocation(chain[t][i])
    <2>3. /\ chain[t][i] \in Claim
          /\ chain[t][i].id \in 1..Len(calls)
          /\ calls[chain[t][i].id].envelope = chain[t][i].envelope
        BY DEF Revoking, Landing, Typed, TypeOK, ClaimsComeFromCalls
    <2>4. call \in Call
        BY <2>3 DEF Call, Envelope, Claim, Target, AboutClaim
    <2>5. /\ IsRevocation(call.envelope)
          /\ call.envelope.target.id = chain[t][i].id
          /\ call.on = chain[t][i].envelope.target
        BY DEF IsRevocation, AboutClaim
    <2> HIDE DEF call
    <2>6. QED
        BY <2>2, <2>3, <2>4, <2>5, InvokeRevoking DEF call
<1>4. ASSUME calls' = calls PROVE RevocationsFollowTargets'
    BY <1>4 DEF Revoking, RevocationsFollowTargets
<1>5. ASSUME NEW w \in Writer,
             \/ ReadTip(w) \/ ReadHistory(w) \/ Publish(w) \/ LoseRace(w)
             \/ BackendFault(w) \/ Fail(w) \/ Crash(w) \/ Return(w)
      PROVE  calls' = calls
    BY <1>5 DEF ReadTip, ReadHistory, Publish, MoveRef, LoseRace, BackendFault, Retry, Fail,
                Crash, Return
<1>6. UNCHANGED vars => calls' = calls
    BY DEF vars
<1>7. QED
    BY <1>1, <1>2, <1>3, <1>4, <1>5, <1>6 DEF Next, Revoking

\* A set of positions that is not empty has a last one.
LEMMA LastPosition ==
    ASSUME NEW n \in Nat, NEW S \in SUBSET (1..n), S # {}
    PROVE  Max(S) \in S
<1> DEFINE Bound(m) == \A x \in S : x <= m
<1>1. PICK m \in Nat : Bound(m) /\ \A k \in 0..(m - 1) : ~Bound(k)
    <2>1. n \in Nat /\ Bound(n)
        OBVIOUS
    <2> DEFINE Bounds == {k \in Nat : Bound(k)}
    <2> HIDE DEF Bound
    <2>2. PICK m \in Bounds : \A k \in Bounds : <<k, m>> \notin OpToRel(<, Nat)
        BY <2>1, NatLessThanWellFounded, WFMin
    <2>3. \A k \in 0..(m - 1) : k \in Nat /\ k < m
        OBVIOUS
    <2>4. QED
        BY <2>2, <2>3 DEF OpToRel
<1>2. m \in S
    <2>1. ASSUME m \notin S PROVE FALSE
        <3>1. m >= 1
            <4>1. PICK x \in S : x \in 1..n
                OBVIOUS
            <4>2. x <= m
                BY <1>1
            <4>3. QED
                BY <4>1, <4>2
        <3>2. Bound(m - 1)
            BY <1>1, <2>1
        <3>3. m - 1 \in 0..(m - 1)
            BY <3>1
        <3>4. QED
            BY <1>1, <3>2, <3>3
    <2>2. QED
        BY <2>1
<1>3. \E x \in S : \A y \in S : x >= y
    BY <1>1, <1>2
<1>4. QED
    BY <1>3 DEF Max

\* Once `revoke' has returned, `resolve' of the claim's own chain marks the
\* claim, if that chain is its target's (chain.rs: a revocation follows the
\* target of the claim it revokes).
THEOREM RevocationIsSeen == Spec => []RevokedIsMarked
<1>1. ASSUME Revoking, NEW n \in answered, NEW t \in Target, calls[n].op = "revoke",
             NEW i \in DOMAIN chain[t],
             chain[t][i].id = calls[n].envelope.target.id,
             chain[t][i].envelope.target = t
      PROVE  RevokedBy(chain[t], i) # 0
    <2>1. n \in 1..Len(calls)
        BY <1>1 DEF Revoking, Landing, AnsweredWereMade
    <2>2. calls[n].on = t /\ IsRevocation(calls[n].envelope)
        <3>1. /\ IsRevocation(calls[n].envelope)
              /\ calls[n].on = calls[chain[t][i].id].envelope.target
            BY <1>1, <2>1 DEF Revoking, RevocationsFollowTargets
        <3>2. calls[chain[t][i].id].envelope = chain[t][i].envelope
            BY <1>1 DEF Revoking, Landing, ClaimsComeFromCalls
        <3>3. QED
            BY <1>1, <3>1, <3>2
    <2>3. PICK j \in DOMAIN chain[t] : chain[t][j].id = n
        BY <1>1, <2>2 DEF Revoking, Landing, AnsweredClaimsStay
    <2>4. chain[t][j].envelope = calls[n].envelope
        BY <1>1, <2>3 DEF Revoking, Landing, ClaimsComeFromCalls
    <2> DEFINE ch == chain[t]
               marks == {k \in DOMAIN ch : /\ IsRevocation(ch[k].envelope)
                                           /\ ch[k].envelope.target.id = ch[i].id}
    <2>5. j \in marks
        BY <1>1, <2>2, <2>4
    <2>6. ch \in Seq(Claim)
        BY <1>1 DEF Revoking, Landing, Typed, TypeOK
    <2>7. Len(ch) \in Nat /\ marks \in SUBSET (1..Len(ch))
        BY <2>6
    <2>8. RevokedBy(ch, i) = IF marks = {} THEN 0 ELSE ch[Max(marks)].id
        BY DEF RevokedBy
    <2> HIDE DEF marks
    <2>9. Max(marks) \in 1..Len(ch)
        BY <2>5, <2>7, LastPosition
    <2>10. ch[Max(marks)].id \in ClaimId
        <3>1. \A k \in 1..Len(ch) : ch[k] \in Claim
            BY <2>6
        <3>2. \A c \in Claim : c.id \in ClaimId
            BY DEF Claim
        <3>3. QED
            BY <2>9, <3>1, <3>2
    <2>11. QED
        BY <2>5, <2>8, <2>10, ClaimChainAssumption DEF ClaimId
<1>2. Revoking => RevokedIsMarked
    BY <1>1 DEF RevokedIsMarked
<1>3. QED
    BY <1>2, RevokingInit, RevokingNext, PTL DEF Spec

-----------------------------------------------------------------------------
(***************************************************************************)
(* The loop implements the abstract log                                    *)
(***************************************************************************)

\* A call in flight is in InFlight under its own number.
LEMMA BusyIsInFlight ==
    ASSUME NEW w \in Writer, Busy(w)
    PROVE  serving[w] \in InFlight
BY DEF InFlight, Busy

LEMMA StartStep ==
    ASSUME Landing, NEW w \in Writer, NEW call \in Call, Invoke(w, call)
    PROVE  Log!Start(call)
<1>1. /\ calls' = Append(calls, call)
      /\ chain' = chain
      /\ answered' = answered
      /\ serving'[w] = Len(calls) + 1
      /\ pc[w] = "idle" /\ pc'[w] = "read"
      /\ \A v \in Writer \ {w} : pc'[v] = pc[v] /\ serving'[v] = serving[v]
    BY DEF Invoke, Landing, Typed, TypeOK
<1>2. InFlight' = InFlight \cup {Len(calls) + 1}
    BY <1>1 DEF InFlight
<1>3. QED
    BY <1>1, <1>2 DEF Log!Start

\* The instant at which a call takes effect.
LEMMA LandStep ==
    ASSUME Landing, Numbered, NEW w \in Writer, Publish(w)
    PROVE  Log!Land(serving[w])
<1>1. /\ calls' = calls
      /\ answered' = answered
      /\ serving' = serving
      /\ pc[w] = "publish" /\ pc'[w] = "return"
      /\ \A v \in Writer \ {w} : pc'[v] = pc[v]
    BY DEF Publish, MoveRef, Landing, Typed, TypeOK
<1>2. InFlight' = InFlight
    BY <1>1 DEF InFlight
<1>3. ~Log!Landed(serving[w])
    BY <1>1 DEF Landing, LandedWhenPublished, Busy, At, On, Log!Landed
<1>4. sequence[w] = Len(chain[On(w)])
    <2>1. On(w) \in Target /\ Len(chain[On(w)]) \in Nat
        BY ServedCall DEF Publish, Busy, Landing, Typed, TypeOK
    <2>2. sequence[w] \in Len(tip[w])..Len(chain[On(w)]) /\ chain[On(w)] = tip[w]
        BY DEF Publish, Numbered, ReadsArePast
    <2>3. QED
        BY <2>1, <2>2
<1>5. chain' = [chain EXCEPT ![On(w)] = Append(@, Log!Entry(serving[w], Len(@)))]
    <2>1. NewClaim(w) = Log!Entry(serving[w], Len(chain[On(w)]))
        BY <1>4 DEF NewClaim, Log!Entry
    <2>2. chain' = [chain EXCEPT ![On(w)] = Append(@, NewClaim(w))]
        BY PublishAppends DEF Landing
    <2>3. QED
        BY <2>1, <2>2
<1>6. QED
    BY <1>1, <1>2, <1>3, <1>5 DEF Log!Land, On

\* A call that is over leaves InFlight, because no other writer served it.
LEMMA LeaveStep ==
    ASSUME Landing, NEW w \in Writer, Busy(w), Leave(w)
    PROVE  InFlight' = InFlight \ {serving[w]}
<1>1. /\ pc'[w] = "idle"
      /\ \A v \in Writer \ {w} : pc'[v] = pc[v] /\ serving'[v] = serving[v]
    BY DEF Leave, Landing, Typed, TypeOK
<1>2. \A v \in Writer \ {w} : Busy(v) => serving[v] # serving[w]
    BY DEF Landing, OwnCalls
<1>3. QED
    BY <1>1, <1>2 DEF InFlight, Busy

LEMMA RefinesNext == Landing /\ Numbered /\ [Next]_vars => [Log!Next]_(Log!vars)
<1> SUFFICES ASSUME Landing, Numbered, [Next]_vars PROVE [Log!Next]_(Log!vars)
    OBVIOUS
<1>0. Typed
    BY DEF Landing
<1>1. ASSUME NEW w \in Writer, Sign(w) PROVE Log!Next
    BY <1>1, StartStep DEF Sign, Call, Envelope, Log!Next
<1>2. ASSUME NEW w \in Writer, Revoke(w) PROVE Log!Next
    BY <1>0, <1>2, RevokeInvokes, StartStep DEF Log!Next
<1>3. ASSUME NEW w \in Writer, Publish(w) PROVE Log!Next
    BY <1>3, LandStep, BusyIsInFlight DEF Publish, Busy, Log!Next
<1>4. ASSUME NEW w \in Writer, Return(w) PROVE Log!Next
    <2>1. Busy(w) /\ InFlight' = InFlight \ {serving[w]}
        BY <1>4, LeaveStep DEF Return, Busy
    <2>2. Log!Landed(serving[w])
        BY <1>4 DEF Return, Landing, LandedWhenPublished, Busy, At, On, Log!Landed
    <2>3. Log!Answer(serving[w])
        BY <1>4, <2>1, <2>2 DEF Return, Log!Answer
    <2>4. QED
        BY <2>1, <2>3, BusyIsInFlight DEF Log!Next
<1>5. ASSUME NEW w \in Writer, Fail(w) \/ Crash(w) PROVE Log!Next
    <2>1. Busy(w) /\ InFlight' = InFlight \ {serving[w]}
        BY <1>5, LeaveStep DEF Fail, Crash, Busy
    <2>2. Log!GiveUp(serving[w])
        BY <1>5, <2>1 DEF Fail, Crash, Log!GiveUp
    <2>3. QED
        BY <2>1, <2>2, BusyIsInFlight DEF Log!Next
\* The reads and the lost races are invisible.
<1>6. ASSUME NEW w \in Writer,
             ReadTip(w) \/ ReadHistory(w) \/ LoseRace(w) \/ BackendFault(w)
      PROVE  UNCHANGED Log!vars
    <2>1. /\ UNCHANGED <<chain, calls, serving, answered>>
          /\ pc[w] # "idle" /\ pc'[w] # "idle"
          /\ \A v \in Writer \ {w} : pc'[v] = pc[v]
        BY <1>0, <1>6 DEF ReadTip, ReadHistory, LoseRace, BackendFault, Retry, Typed, TypeOK
    <2>2. InFlight' = InFlight
        BY <2>1 DEF InFlight
    <2>3. QED
        BY <2>1, <2>2 DEF Log!vars
<1>7. CASE UNCHANGED vars
    BY <1>7 DEF vars, locals, Log!vars, InFlight
<1>8. QED
    BY <1>1, <1>2, <1>3, <1>4, <1>5, <1>6, <1>7 DEF Next

\* Every behaviour of the compare-and-swap loop is one of the abstract log.
THEOREM Refinement == Spec => ImplementsClaimLog
<1>1. Init => Log!Init
    BY DEF Init, Log!Init, InFlight
<1>2. QED
    BY <1>1, LandingInit, LandingNext, NumberedInit, NumberedNext, RefinesNext, PTL
       DEF Spec, ImplementsClaimLog, Log!Spec

-----------------------------------------------------------------------------
(***************************************************************************)
(* The graph of claims                                                     *)
(***************************************************************************)

\* What a call is about had landed.
CitesLanded ==
    \A n \in 1..Len(calls) : \A c \in Cites(calls[n].envelope) : Landed(c)

Citing == Landing /\ CitesLanded

LEMMA LandedStays ==
    ASSUME Landing, [Next]_vars, NEW c, Landed(c)
    PROVE  Landed(c)'
<1>1. CASE chain' = chain
    BY <1>1 DEF Landed
<1>2. ASSUME NEW w \in Writer, Publish(w)
      PROVE  Landed(c)'
    BY <1>2, PublishAdds DEF Landed
<1>3. QED
    BY <1>1, <1>2, OnlyPublishMovesRefs

LEMMA CitingNext == Citing /\ [Next]_vars => Citing'
<1> SUFFICES ASSUME Citing, [Next]_vars, NEW n \in 1..Len(calls'),
                    NEW c \in Cites(calls'[n].envelope)
             PROVE  Landed(c)'
    BY LandingNext DEF Citing, CitesLanded
<1>1. calls \in Seq(Call)
    BY DEF Citing, Landing, Typed, TypeOK
<1>2. CASE n \in 1..Len(calls) /\ calls'[n] = calls[n]
    BY <1>2, LandedStays DEF Citing, CitesLanded
<1>3. ASSUME NEW w \in Writer, NEW call, Invoke(w, call),
             \A e \in Cites(call.envelope) : Landed(e)
      PROVE  Landed(c)'
    <2>1. calls' = Append(calls, call) /\ chain' = chain
        BY <1>3 DEF Invoke
    <2>2. \/ n \in 1..Len(calls) /\ calls'[n] = calls[n]
          \/ calls'[n] = call
        BY <1>1, <2>1
    <2>3. CASE calls'[n] = call
        BY <1>3, <2>1, <2>3 DEF Landed
    <2>4. QED
        BY <1>2, <2>2, <2>3
<1>4. ASSUME NEW w \in Writer, Sign(w) PROVE Landed(c)'
    <2>1. PICK t \in Target, k \in PayloadKind :
            /\ t.kind = CLAIM_TARGET_KIND => Landed(t.id)
            /\ Invoke(w, [op |-> "sign", on |-> t,
                          envelope |-> [target |-> t, payload_kind |-> k]])
        BY <1>4 DEF Sign
    <2> DEFINE call == [op |-> "sign", on |-> t,
                        envelope |-> [target |-> t, payload_kind |-> k]]
    <2>2. call.envelope.target = t
        OBVIOUS
    <2> HIDE DEF call
    <2>3. \A e \in Cites(call.envelope) : Landed(e)
        BY <2>1, <2>2 DEF Cites
    <2>4. QED
        BY <1>3, <2>1, <2>3 DEF call
<1>5. ASSUME NEW w \in Writer, Revoke(w) PROVE Landed(c)'
    <2>1. PICK t \in Target : \E i \in DOMAIN chain[t] :
            Invoke(w, [op |-> "revoke", on |-> chain[t][i].envelope.target,
                       envelope |-> [target |-> AboutClaim(chain[t][i].id),
                                     payload_kind |-> REVOCATION_KIND]])
        BY <1>5 DEF Revoke
    <2>2. PICK i \in DOMAIN chain[t] :
            Invoke(w, [op |-> "revoke", on |-> chain[t][i].envelope.target,
                       envelope |-> [target |-> AboutClaim(chain[t][i].id),
                                     payload_kind |-> REVOCATION_KIND]])
        BY <2>1
    <2> DEFINE call == [op |-> "revoke", on |-> chain[t][i].envelope.target,
                        envelope |-> [target |-> AboutClaim(chain[t][i].id),
                                      payload_kind |-> REVOCATION_KIND]]
    <2>3. Landed(chain[t][i].id)
        BY DEF Landed
    <2>4. call.envelope.target.id = chain[t][i].id
        BY DEF AboutClaim
    <2> HIDE DEF call
    <2>5. \A e \in Cites(call.envelope) : Landed(e)
        BY <2>3, <2>4 DEF Cites
    <2>6. QED
        BY <1>3, <2>2, <2>5 DEF call
<1>6. CASE calls' = calls
    BY <1>2, <1>6
<1>7. QED
    BY <1>4, <1>5, <1>6 DEF Next, vars, ReadTip, ReadHistory, Publish, MoveRef, LoseRace,
       BackendFault, Retry, Fail, Crash, Return

\* Applying a function to the members of a sequence and of the sequence grown.
LEMMA AppendMapped ==
    ASSUME NEW S, NEW R, NEW f \in [S -> R], NEW s \in Seq(S), NEW e \in S
    PROVE  [i \in DOMAIN Append(s, e) |-> f[Append(s, e)[i]]]
                = Append([i \in DOMAIN s |-> f[s[i]]], f[e])
<1> DEFINE n == Len(s)
           short == [i \in DOMAIN s |-> f[s[i]]]
           grown == Append(s, e)
<1>1. /\ n \in Nat /\ DOMAIN s = 1..n /\ DOMAIN grown = 1..(n + 1)
      /\ grown[n + 1] = e /\ \A i \in 1..n : grown[i] = s[i] /\ s[i] \in S
    OBVIOUS
<1>2. short \in Seq(R) /\ Len(short) = n /\ \A i \in 1..n : short[i] = f[s[i]]
    BY <1>1
<1> DEFINE long == Append(short, f[e])
<1> HIDE DEF short, grown, n
<1>3. /\ long \in Seq(R) /\ Len(long) = n + 1 /\ long[n + 1] = f[e]
      /\ \A i \in 1..n : long[i] = short[i]
    BY <1>1, <1>2, AppendProperties
<1> HIDE DEF long
<1>4. long = [i \in 1..(n + 1) |-> long[i]]
    BY <1>1, <1>3
<1>5. \A i \in 1..(n + 1) : long[i] = f[grown[i]]
    BY <1>1, <1>2, <1>3
<1>6. long = [i \in 1..(n + 1) |-> f[grown[i]]]
    BY <1>4, <1>5
<1>7. QED
    BY <1>1, <1>6 DEF long, short, grown

\* Publishing lands one claim in the graph.
LEMMA PublishLands ==
    ASSUME Citing, NEW w \in Writer, Publish(w)
    PROVE  Graph!Land(On(w))
<1> DEFINE t == On(w)
           claim == NewClaim(w)
           node(c) == [id |-> c.id, cites |-> Cites(c.envelope)]
           f == [c \in Claim |-> node(c)]
           R == {node(c) : c \in Claim}
<1>1. /\ t \in Target /\ claim \in Claim
      /\ chain \in [Target -> Seq(Claim)]
      /\ chain' = [chain EXCEPT ![t] = Append(@, claim)]
    BY PublishAppends DEF Citing, Landing, Typed, TypeOK
<1>2. Graph!Landed = UNION {{chain[u][i].id : i \in DOMAIN chain[u]} : u \in Target}
    <2> DEFINE ids(u) == {chain[u][i].id : i \in DOMAIN chain[u]}
               outlined(u) == {Outline[u][i].id : i \in DOMAIN Outline[u]}
    <2>1. \A u \in Target : /\ DOMAIN Outline[u] = DOMAIN chain[u]
                            /\ \A i \in DOMAIN chain[u] : Outline[u][i].id = chain[u][i].id
        BY DEF Outline
    <2>2. \A u \in Target : outlined(u) = ids(u)
        BY <2>1
    <2>3. Graph!Landed = UNION {outlined(u) : u \in Target}
        BY DEF Graph!Landed
    <2> HIDE DEF ids, outlined
    <2>4. UNION {outlined(u) : u \in Target} = UNION {ids(u) : u \in Target}
        BY <2>2
    <2>5. QED
        BY <2>3, <2>4 DEF ids
<1>3. \A c : c \in Graph!Landed <=> Landed(c)
    BY <1>2 DEF Landed
<1>4. Busy(w) /\ serving[w] \in 1..Len(calls) /\ claim.id = serving[w]
      /\ claim.envelope = calls[serving[w]].envelope
    <2>1. Busy(w)
        BY DEF Publish, Busy
    <2>2. QED
        BY <2>1, ServedCall DEF Citing, Landing, NewClaim
<1>5. claim.id \in ClaimId \ Graph!Landed
    <2>1. ~Landed(claim.id)
        BY <1>4, PublishAdds DEF Landed, Citing
    <2>2. QED
        BY <1>1, <1>3, <2>1 DEF Claim
<1>6. Cites(claim.envelope) \in SUBSET Graph!Landed
    BY <1>3, <1>4 DEF Citing, CitesLanded
<1> HIDE DEF t, claim
<1>7. Outline' = [Outline EXCEPT ![t] = Append(@, node(claim))]
    <2> DEFINE log == chain[t]
    <2>1. log \in Seq(Claim) /\ chain'[t] = Append(log, claim)
        BY <1>1
    <2>2. f \in [Claim -> R]
        OBVIOUS
    <2>3. f[claim] = node(claim) /\ \A c \in Claim : f[c] = node(c)
        BY <1>1
    <2>4. \A i \in DOMAIN log : log[i] \in Claim
        BY <2>1
    <2>5. \A i \in DOMAIN Append(log, claim) : Append(log, claim)[i] \in Claim
        BY <1>1, <2>1
    <2>6. Outline[t] = [i \in DOMAIN log |-> node(log[i])]
        BY <1>1 DEF Outline
    <2>7. Outline'[t] = [i \in DOMAIN Append(log, claim) |-> node(Append(log, claim)[i])]
        BY <1>1, <2>1 DEF Outline
    <2>8. \A u \in Target : u # t => Outline'[u] = Outline[u]
        BY <1>1 DEF Outline
    <2>9. /\ Outline = [u \in Target |-> Outline[u]]
          /\ Outline' = [u \in Target |-> Outline'[u]]
        BY DEF Outline
    <2> HIDE DEF f, R, node, log
    <2>10. Outline[t] = [i \in DOMAIN log |-> f[log[i]]]
        BY <2>3, <2>4, <2>6
    <2>11. Outline'[t] = [i \in DOMAIN Append(log, claim) |-> f[Append(log, claim)[i]]]
        BY <2>3, <2>5, <2>7
    <2>12. Outline'[t] = Append(Outline[t], f[claim])
        BY <1>1, <2>1, <2>2, <2>10, <2>11, AppendMapped
    <2>13. QED
        BY <1>1, <2>3, <2>8, <2>9, <2>12
<1>8. QED
    BY <1>5, <1>6, <1>7 DEF Graph!Land, t

\* Every behaviour of the loop is one of the graph of claims that KeyChain and
\* AttestCli append to in one step: `append', each of whose iterations reads the
\* ref twice before it publishes, is atomic for what they see of it.
THEOREM LoopImplementsGraph == Spec => ImplementsClaimGraph
<1>1. Init => Graph!Init
    BY DEF Init, Graph!Init, Outline
<1>2. Init => Citing
    BY LandingInit DEF Init, Citing, CitesLanded
<1>3. Citing /\ [Next]_vars => [Graph!Next]_Outline
    <2> SUFFICES ASSUME Citing, [Next]_vars, Outline' # Outline PROVE Graph!Next
        OBVIOUS
    <2>1. chain' # chain
        BY DEF Outline
    <2>2. PICK w \in Writer : Publish(w)
        BY <2>1, OnlyPublishMovesRefs
    <2>3. On(w) \in Target
        BY <2>2, PublishAppends DEF Citing, Landing
    <2>4. QED
        BY <2>2, <2>3, PublishLands DEF Graph!Next
<1>4. QED
    BY <1>1, <1>2, <1>3, CitingNext, PTL DEF Spec, ImplementsClaimGraph, Graph!Spec

-----------------------------------------------------------------------------
(***************************************************************************)
(* Only a revoked claim is marked                                          *)
(***************************************************************************)

\* Claims are about older ones, and sign puts a claim where it is about.
CallsLookBack ==
    \A n \in 1..Len(calls) :
        /\ \A c \in Cites(calls[n].envelope) : c \in 1..(n - 1)
        /\ calls[n].op = "sign" => calls[n].on = calls[n].envelope.target

\* A claim is above those on its chain that it is about.
ClaimsLookDown ==
    \A t \in Target : \A i, j \in DOMAIN chain[t] :
        chain[t][i].id \in Cites(chain[t][j].envelope) => i < j

\* The third inductive invariant.
Marking == Revoking /\ CitesLanded /\ CallsLookBack /\ ClaimsLookDown

LEMMA MarkingInit == Init => Marking
<1> SUFFICES ASSUME Init PROVE Marking
    OBVIOUS
<1>1. Len(calls) = 0 /\ \A t \in Target : DOMAIN chain[t] = {}
    BY DEF Init
<1>2. QED
    BY <1>1, RevokingInit DEF Marking, CitesLanded, CallsLookBack, ClaimsLookDown

\* A call that looks back.
LEMMA InvokeLooksBack ==
    ASSUME Landing, CallsLookBack, NEW w \in Writer, NEW call, Invoke(w, call),
           \A c \in Cites(call.envelope) : Landed(c),
           call.op = "sign" => call.on = call.envelope.target
    PROVE  CallsLookBack'
<1>1. calls \in Seq(Call) /\ Len(calls) \in Nat
    BY DEF Landing, Typed, TypeOK
<1>2. /\ Len(calls') = Len(calls) + 1
      /\ calls'[Len(calls) + 1] = call
      /\ \A n \in 1..Len(calls) : calls'[n] = calls[n]
    BY <1>1 DEF Invoke
<1>3. \A c \in Cites(call.envelope) : c \in 1..Len(calls)
    BY DEF Landed, Landing, ClaimsComeFromCalls
<1>4. ASSUME NEW n \in 1..Len(calls')
      PROVE  /\ \A c \in Cites(calls'[n].envelope) : c \in 1..(n - 1)
             /\ calls'[n].op = "sign" => calls'[n].on = calls'[n].envelope.target
    <2>1. CASE n \in 1..Len(calls)
        BY <1>2, <2>1 DEF CallsLookBack
    <2>2. CASE n = Len(calls) + 1
        <3>1. n - 1 = Len(calls)
            BY <1>1, <2>2
        <3>2. QED
            BY <1>2, <1>3, <2>2, <3>1
    <2>3. QED
        BY <1>1, <1>2, <2>1, <2>2
<1>5. QED
    BY <1>4 DEF CallsLookBack

LEMMA LooksBackNext ==
    ASSUME Landing, CallsLookBack, [Next]_vars
    PROVE  CallsLookBack'
<1>1. ASSUME NEW w \in Writer, Sign(w) PROVE CallsLookBack'
    <2>1. PICK t \in Target, k \in PayloadKind :
            /\ t.kind = CLAIM_TARGET_KIND => Landed(t.id)
            /\ Invoke(w, [op |-> "sign", on |-> t,
                          envelope |-> [target |-> t, payload_kind |-> k]])
        BY <1>1 DEF Sign
    <2> DEFINE call == [op |-> "sign", on |-> t,
                        envelope |-> [target |-> t, payload_kind |-> k]]
    <2>2. call.envelope.target = t /\ call.on = t
        OBVIOUS
    <2> HIDE DEF call
    <2>3. \A e \in Cites(call.envelope) : Landed(e)
        BY <2>1, <2>2 DEF Cites
    <2>4. QED
        BY <2>1, <2>2, <2>3, InvokeLooksBack DEF call
<1>2. ASSUME NEW w \in Writer, Revoke(w) PROVE CallsLookBack'
    <2>1. PICK t \in Target : \E i \in DOMAIN chain[t] :
            Invoke(w, [op |-> "revoke", on |-> chain[t][i].envelope.target,
                       envelope |-> [target |-> AboutClaim(chain[t][i].id),
                                     payload_kind |-> REVOCATION_KIND]])
        BY <1>2 DEF Revoke
    <2>2. PICK i \in DOMAIN chain[t] :
            Invoke(w, [op |-> "revoke", on |-> chain[t][i].envelope.target,
                       envelope |-> [target |-> AboutClaim(chain[t][i].id),
                                     payload_kind |-> REVOCATION_KIND]])
        BY <2>1
    <2> DEFINE call == [op |-> "revoke", on |-> chain[t][i].envelope.target,
                        envelope |-> [target |-> AboutClaim(chain[t][i].id),
                                      payload_kind |-> REVOCATION_KIND]]
    <2>3. Landed(chain[t][i].id)
        BY DEF Landed
    <2>4. call.envelope.target.id = chain[t][i].id /\ call.op # "sign"
        BY DEF AboutClaim
    <2> HIDE DEF call
    <2>5. \A e \in Cites(call.envelope) : Landed(e)
        BY <2>3, <2>4 DEF Cites
    <2>6. QED
        BY <2>2, <2>4, <2>5, InvokeLooksBack DEF call
<1>3. CASE calls' = calls
    BY <1>3 DEF CallsLookBack
<1>4. QED
    BY <1>1, <1>2, <1>3 DEF Next, vars, ReadTip, ReadHistory, Publish, MoveRef, LoseRace,
       BackendFault, Retry, Fail, Crash, Return

LEMMA LooksDownNext ==
    ASSUME Citing, ClaimsLookDown, [Next]_vars
    PROVE  ClaimsLookDown'
<1>1. CASE chain' = chain
    BY <1>1 DEF ClaimsLookDown
<1>2. ASSUME NEW w \in Writer, Publish(w) PROVE ClaimsLookDown'
    <2> SUFFICES ASSUME NEW t \in Target, NEW i \in DOMAIN chain'[t], NEW j \in DOMAIN chain'[t],
                        chain'[t][i].id \in Cites(chain'[t][j].envelope)
                 PROVE  i < j
        BY DEF ClaimsLookDown
    <2> DEFINE top == Len(chain[t]) + 1
    <2>1. /\ \A u \in Target : \A k \in DOMAIN chain[u] : chain[u][k].id # serving[w]
          /\ \A k \in DOMAIN chain[t] : chain'[t][k] = chain[t][k]
          /\ \A k \in DOMAIN chain'[t] :
                \/ k \in DOMAIN chain[t]
                \/ t = On(w) /\ k = top /\ chain'[t][k] = NewClaim(w)
        BY <1>2, PublishAdds DEF Citing
    <2>2. chain[t] \in Seq(Claim)
        BY DEF Citing, Landing, Typed, TypeOK
    <2>3. NewClaim(w).id = serving[w] /\ NewClaim(w).envelope = calls[serving[w]].envelope
        BY DEF NewClaim
    <2>4. serving[w] \in 1..Len(calls)
        BY <1>2, ServedCall DEF Citing, Landing, Publish, Busy
    <2>5. \A c \in Cites(NewClaim(w).envelope) : c # serving[w]
        <3>1. \A c \in Cites(NewClaim(w).envelope) : Landed(c)
            BY <2>3, <2>4 DEF Citing, CitesLanded
        <3>2. QED
            BY <2>1, <3>1 DEF Landed
    <2>6. \A k \in DOMAIN chain[t] : \A c \in Cites(chain[t][k].envelope) : c # serving[w]
        <3>1. ASSUME NEW k \in DOMAIN chain[t], NEW c \in Cites(chain[t][k].envelope)
              PROVE  c # serving[w]
            <4>1. /\ chain[t][k].id \in 1..Len(calls)
                  /\ chain[t][k].envelope = calls[chain[t][k].id].envelope
                BY DEF Citing, Landing, ClaimsComeFromCalls
            <4>2. Landed(c)
                BY <3>1, <4>1 DEF Citing, CitesLanded
            <4>3. QED
                BY <2>1, <4>2 DEF Landed
        <3>2. QED
            BY <3>1
    <2>7. CASE i \in DOMAIN chain[t] /\ j \in DOMAIN chain[t]
        BY <2>1, <2>7 DEF ClaimsLookDown
    <2>8. CASE i \in DOMAIN chain[t] /\ j = top
        BY <2>2, <2>8
    <2>9. CASE i = top /\ i \notin DOMAIN chain[t]
        <3>1. chain'[t][i].id = serving[w]
            BY <2>1, <2>3, <2>9
        <3>2. CASE j \in DOMAIN chain[t]
            BY <2>1, <2>6, <3>1, <3>2
        <3>3. CASE j \notin DOMAIN chain[t]
            BY <2>1, <2>5, <3>1, <3>3
        <3>4. QED
            BY <3>2, <3>3
    <2>10. QED
        BY <2>1, <2>7, <2>8, <2>9
<1>3. QED
    BY <1>1, <1>2, OnlyPublishMovesRefs

LEMMA MarkingNext == Marking /\ [Next]_vars => Marking'
<1>1. ASSUME Marking, [Next]_vars PROVE Marking'
    <2>1. Landing /\ Citing
        BY <1>1 DEF Marking, Revoking, Citing
    <2>2. Revoking' /\ CitesLanded'
        BY <1>1, <2>1, RevokingNext, CitingNext DEF Marking, Citing
    <2>3. CallsLookBack'
        BY <1>1, <2>1, LooksBackNext DEF Marking
    <2>4. ClaimsLookDown'
        BY <1>1, <2>1, LooksDownNext DEF Marking
    <2>5. QED
        BY <2>2, <2>3, <2>4 DEF Marking
<1>2. QED
    BY <1>1

\* A call whose claim is a revocation on the chain of the claim it is about is to
\* `revoke': a claim of `sign' is on its own target's chain, and a claim is never
\* on the chain of the claims about itself.
LEMMA SignMarksNothing ==
    ASSUME Marking, NEW t \in Target, NEW i \in DOMAIN chain[t], NEW j \in DOMAIN chain[t],
           IsRevocation(chain[t][j].envelope),
           chain[t][j].envelope.target.id = chain[t][i].id
    PROVE  /\ calls[chain[t][j].id].op = "revoke"
           /\ calls[chain[t][j].id].envelope = chain[t][j].envelope
           /\ i < j
<1> DEFINE n == chain[t][j].id
           c == chain[t][i].id
<1>1. /\ n \in 1..Len(calls) /\ calls[n].on = t /\ calls[n].envelope = chain[t][j].envelope
      /\ c \in 1..Len(calls) /\ calls[c].on = t
      /\ calls \in Seq(Call) /\ Len(calls) \in Nat
    BY DEF Marking, Revoking, Landing, ClaimsComeFromCalls, Typed, TypeOK
<1>2. \A m \in 1..Len(calls) : calls[m].op \in {"sign", "revoke"}
    <2>1. calls \in Seq(Call)
        BY <1>1
    <2>2. ASSUME NEW m \in 1..Len(calls) PROVE calls[m].op \in {"sign", "revoke"}
        <3>1. calls[m] \in Call
            BY <2>1
        <3>2. QED
            BY <3>1 DEF Call
    <2>3. QED
        BY <2>2
<1>3. i < j
    BY DEF Marking, ClaimsLookDown, Cites, IsRevocation
<1> HIDE DEF n, c
<1>4. ASSUME calls[n].op = "sign" PROVE FALSE
    <2>1. t.kind = CLAIM_TARGET_KIND /\ t.id = c
        BY <1>1, <1>4 DEF Marking, CallsLookBack, IsRevocation, c
    <2>2. \A m \in 1..Len(calls) : calls[m].envelope.target = t => c \in 1..(m - 1)
        <3>1. ASSUME NEW m \in 1..Len(calls), calls[m].envelope.target = t
              PROVE  c \in 1..(m - 1)
            <4>1. c \in Cites(calls[m].envelope)
                BY <2>1, <3>1 DEF Cites
            <4>2. QED
                BY <4>1 DEF Marking, CallsLookBack
        <3>2. QED
            BY <3>1
    <2>3. CASE calls[c].op = "sign"
        <3>1. calls[c].envelope.target = t
            BY <1>1, <2>3 DEF Marking, CallsLookBack
        <3>2. c \in 1..(c - 1)
            BY <1>1, <2>2, <3>1
        <3>3. QED
            BY <1>1, <3>2
    <2>4. CASE calls[c].op = "revoke"
        <3> DEFINE e == calls[c].envelope.target.id
        <3>1. /\ IsRevocation(calls[c].envelope)
              /\ e \in 1..Len(calls)
              /\ calls[c].on = calls[e].envelope.target
            BY <1>1, <2>4 DEF Marking, Revoking, RevocationsFollowTargets
        <3>2. e \in Cites(calls[c].envelope)
            BY <3>1 DEF IsRevocation, Cites
        <3>3. e \in 1..(c - 1)
            BY <1>1, <3>2 DEF Marking, CallsLookBack
        <3> HIDE DEF e
        <3>4. c \in 1..(e - 1)
            BY <1>1, <2>2, <3>1
        <3>5. c \in Nat /\ e \in Nat
            <4>1. PICK last \in Nat : last = Len(calls)
                BY <1>1
            <4>2. c \in 1..last /\ e \in 1..last
                BY <1>1, <3>1, <4>1
            <4>3. QED
                BY <4>2
        <3>6. e < c /\ c < e
            BY <3>3, <3>4, <3>5
        <3>7. QED
            BY <3>5, <3>6
    <2>5. QED
        BY <1>1, <1>2, <2>3, <2>4
<1>5. QED
    BY <1>1, <1>2, <1>3, <1>4 DEF n

LEMMA MarksAreByRevoke == Marking => OnlyRevokeMarks
<1> SUFFICES ASSUME Marking, NEW t \in Target, NEW i \in DOMAIN chain[t],
                    RevokedBy(chain[t], i) # 0
             PROVE  LET n == RevokedBy(chain[t], i)
                    IN  /\ calls[n].op = "revoke"
                        /\ calls[n].envelope.target.id = chain[t][i].id
                        /\ \E j \in i + 1..Len(chain[t]) : chain[t][j].id = n
    BY DEF OnlyRevokeMarks
<1> DEFINE ch == chain[t]
           marks == {k \in DOMAIN ch : /\ IsRevocation(ch[k].envelope)
                                       /\ ch[k].envelope.target.id = ch[i].id}
<1>1. ch \in Seq(Claim) /\ Len(ch) \in Nat /\ DOMAIN ch = 1..Len(ch)
    BY DEF Marking, Revoking, Landing, Typed, TypeOK
<1>2. marks \in SUBSET (1..Len(ch))
    BY <1>1
<1>3. RevokedBy(ch, i) = IF marks = {} THEN 0 ELSE ch[Max(marks)].id
    BY DEF RevokedBy
<1>4. \A k \in marks : /\ k \in DOMAIN ch
                       /\ IsRevocation(ch[k].envelope)
                       /\ ch[k].envelope.target.id = ch[i].id
    OBVIOUS
<1> HIDE DEF marks
<1>5. PICK j \in marks : RevokedBy(ch, i) = ch[j].id
    BY <1>1, <1>2, <1>3, LastPosition
<1>6. /\ j \in DOMAIN chain[t]
      /\ IsRevocation(chain[t][j].envelope)
      /\ chain[t][j].envelope.target.id = chain[t][i].id
    BY <1>4
<1>7. /\ calls[chain[t][j].id].op = "revoke"
      /\ calls[chain[t][j].id].envelope = chain[t][j].envelope
      /\ i < j
    BY <1>6, SignMarksNothing
<1>8. j \in i + 1..Len(chain[t])
    BY <1>1, <1>6, <1>7
<1>9. QED
    BY <1>5, <1>6, <1>7, <1>8

\* `resolve' marks what was revoked, once `revoke' has returned, and nothing else:
\* a label written by `sign' never marks, whatever chain it is on.
THEOREM MarksAreExact == Spec => []MarksAreRevocations
BY RevocationIsSeen, MarksAreByRevoke, MarkingInit, MarkingNext, PTL
   DEF Spec, MarksAreRevocations

\* A claim that `revoke' made is not marked as revoked itself.
RevocationsStand ==
    \A t \in Target : \A i \in DOMAIN chain[t] :
        calls[chain[t][i].id].op = "revoke" => RevokedBy(chain[t], i) = 0

\* A mark at the place of a revocation would be by a `revoke' for that very claim.
\* It would be on the chain of the claims about the claim that was revoked first,
\* on which the first revocation is not, unless that claim is about itself.
LEMMA RevokedOnceOnly == Marking => RevocationsStand
<1> SUFFICES ASSUME Marking, NEW t \in Target, NEW i \in DOMAIN chain[t],
                    calls[chain[t][i].id].op = "revoke",
                    RevokedBy(chain[t], i) # 0
             PROVE  FALSE
    BY DEF RevocationsStand
<1> DEFINE c == chain[t][i].id
           n == RevokedBy(chain[t], i)
           e == calls[c].envelope.target.id
<1>1. /\ calls[n].op = "revoke" /\ calls[n].envelope.target.id = c
      /\ \E j \in i + 1..Len(chain[t]) : chain[t][j].id = n
    BY MarksAreByRevoke DEF OnlyRevokeMarks
<1>2. Len(chain[t]) \in Nat /\ DOMAIN chain[t] = 1..Len(chain[t])
    <2>1. chain[t] \in Seq(Claim)
        BY DEF Marking, Revoking, Landing, Typed, TypeOK
    <2>2. QED
        BY <2>1
<1>3. PICK j \in DOMAIN chain[t] : chain[t][j].id = n
    <2> HIDE DEF n, c, e
    <2>1. PICK j \in i + 1..Len(chain[t]) : chain[t][j].id = n
        BY <1>1
    <2>2. j \in DOMAIN chain[t]
        BY <1>2, <2>1
    <2>3. QED
        BY <2>1, <2>2
<1>4. /\ c \in 1..Len(calls) /\ calls[c].on = t
      /\ n \in 1..Len(calls) /\ calls[n].on = t
    BY <1>3 DEF Marking, Revoking, Landing, ClaimsComeFromCalls
<1>5. /\ calls[c].op = "revoke"
      /\ \A m \in 1..Len(calls) : calls[m].op = "revoke" =>
            /\ IsRevocation(calls[m].envelope)
            /\ calls[m].envelope.target.id \in 1..Len(calls)
            /\ calls[m].on = calls[calls[m].envelope.target.id].envelope.target
    BY DEF Marking, Revoking, RevocationsFollowTargets
<1> HIDE DEF n, c
<1>6. /\ IsRevocation(calls[c].envelope)
      /\ e \in 1..Len(calls)
      /\ calls[c].on = calls[e].envelope.target
      /\ calls[n].on = calls[c].envelope.target
    BY <1>1, <1>4, <1>5
<1>7. e \in Cites(calls[e].envelope)
    <2>1. calls[e].envelope.target = calls[c].envelope.target
        BY <1>4, <1>6, Zenon
    <2>2. calls[c].envelope.target.kind = CLAIM_TARGET_KIND
        BY <1>6 DEF IsRevocation
    <2>3. QED
        BY <2>1, <2>2 DEF Cites
<1> HIDE DEF e
<1>8. e \in 1..(e - 1)
    BY <1>6, <1>7 DEF Marking, CallsLookBack
<1>9. PICK last \in Nat : last = Len(calls)
    BY DEF Marking, Revoking, Landing, Typed, TypeOK
<1>10. e \in 1..last
    BY <1>6, <1>9
<1>11. QED
    BY <1>8, <1>10

\* A revocation cannot be revoked: whatever is called on whatever chain, in any
\* order, `resolve' never marks a claim that `revoke' made.
THEOREM RevocationsCannotBeRevoked == Spec => []RevocationsStand
BY RevokedOnceOnly, MarkingInit, MarkingNext, PTL DEF Spec
=============================================================================

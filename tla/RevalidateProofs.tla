-------------------------- MODULE RevalidateProofs --------------------------
(***************************************************************************)
(* Theorems about Revalidate, for any number of commits, any snapshots,    *)
(* any diff and rename detection that keep the assumptions, and any hash   *)
(* functions: a verdict that stands was true at an instant of the call.    *)
(***************************************************************************)
EXTENDS Revalidate, SequenceTheorems, TLAPS

-----------------------------------------------------------------------------
(***************************************************************************)
(* The invariant                                                           *)
(***************************************************************************)

Verdict == {Valid, Stale, Unknown, Error}

CommitSteps == {"has_commit", "resolve_for_commit", "walk"}
TreeSteps == {"resolve_for_tree", "search"}
PositionSteps == {"resolve_for_trace", "has_genesis", "trace", "not_found",
                  "resolve_for_match", "match"}

\* A call is under way.
Running == pc \notin {"idle", "answered"}

\* Which half of which binding is checked at each step, with what found so far.
Placed ==
    /\ call = [binding |-> call.binding, todo |-> call.todo,
               target |-> call.target, verdict |-> call.verdict]
    /\ pc \in {"idle", "answered"} \cup CommitSteps \cup TreeSteps \cup PositionSteps
    /\ pc = "idle" => call = NoCall
    /\ pc \in CommitSteps =>
        /\ call.verdict = Valid
        /\ \/ call.binding.kind = "commit" /\ call.todo = <<"commit">>
           \/ call.binding.kind = "hybrid" /\ call.todo = <<"commit", "tree">>
    /\ pc \in TreeSteps =>
        /\ call.todo = <<"tree">>
        /\ \/ call.binding.kind = "tree" /\ call.verdict = Valid
           \/ call.binding.kind = "hybrid" /\ call.verdict # Error
    /\ pc \in PositionSteps =>
        call.binding.kind = "position" /\ call.todo = <<"position">> /\ call.verdict = Valid

\* The history of a commit has the histories of all that is in it, and is there
\* as long as the commit is.
Histories ==
    /\ \A c \in DOMAIN commits :
        /\ c \in History(c)
        /\ \A d \in History(c) : d \in DOMAIN commits /\ History(d) \subseteq History(c)
    /\ \A c \in present : History(c) \subseteq present

\* The verdict of the present instant is among those that held.
TruthIsHeld == Running => Truth(call.binding) \in held

\* What will be answered, from what was resolved, held when it was resolved.
CommitIsHeld ==
    pc = "walk" /\ call.binding.kind = "commit"
        /\ (call.binding.commit \in present \/ IsReached(call.binding.commit, call.target)) =>
        ValidIf(IsReached(call.binding.commit, call.target)) \in held

TreeIsHeld ==
    pc = "search" /\ call.binding.kind = "tree" =>
        ValidIf(HasTree(call.binding.tree, call.target)) \in held

\* As long as the revision only moves forward, what it named then is in the
\* history of what it names now, and so is what its history had.
HybridIsHeld ==
    forward /\ call.binding.kind = "hybrid" =>
        /\ pc = "walk" =>
            /\ call.target \in History(at)
            /\ call.binding.commit \in present =>
                Combine(ValidIf(IsReached(call.binding.commit, call.target)),
                        ValidIf(HasTree(call.binding.tree, call.target))) \in held
        /\ pc \in TreeSteps /\ call.verdict = Stale /\ call.binding.commit \in present =>
            Stale \in held
        /\ pc = "resolve_for_tree" /\ call.verdict = Valid => call.binding.commit \in History(at)
        /\ pc = "search" /\ call.verdict = Valid =>
            ValidIf(HasTree(call.binding.tree, call.target)) \in held

PositionIsHeld ==
    /\ pc = "has_genesis" /\ Genesis \in present =>
        ValidIf(Traced(call.binding, call.target)) \in held
    /\ pc = "trace" => ValidIf(Traced(call.binding, call.target)) \in held
    /\ pc = "not_found" /\ Genesis \in present => Stale \in held
    /\ pc = "resolve_for_match" => Genesis \notin present
    /\ pc = "match" => ValidIf(Matched(call.binding, call.target)) \in held

RevalInv ==
    /\ TypeOK
    /\ Placed
    /\ Histories
    /\ TruthIsHeld
    /\ CommitIsHeld
    /\ TreeIsHeld
    /\ HybridIsHeld
    /\ PositionIsHeld
    /\ VerdictsHeld
    /\ HybridHeldUnderForward

-----------------------------------------------------------------------------
(***************************************************************************)
(* Verdicts and bindings                                                   *)
(***************************************************************************)

LEMMA VerdictTypes ==
    /\ \A holds : ValidIf(holds) \in {Valid, Stale}
    /\ \A v, w \in Verdict : Combine(v, w) \in Verdict
    /\ \A v \in Verdict : Combine(Valid, v) = v
    /\ \A v \in Verdict \ {Error} : Combine(v, Unknown) = Unknown /\ Combine(Unknown, v) = Unknown
    /\ \A v \in Verdict : Combine(v, Error) = Error
    /\ \A v \in {Valid, Stale} : Combine(Stale, v) = Stale /\ Combine(v, Stale) = Stale
    /\ \A v, w \in Verdict \ {Error} : Combine(v, w) # Error
    /\ \A v, w \in Verdict : Combine(v, w) \in {Valid, Stale} => {v, w} \subseteq {Valid, Stale}
BY DEF ValidIf, Combine, Verdict, Valid, Stale, Unknown, Error

LEMMA TruthType ==
    ASSUME NEW b
    PROVE  Truth(b) \in {Valid, Stale, Unknown} /\ Truth(b)' \in {Valid, Stale, Unknown}
<1>1. \A c : CommitTruth(c) \in {Valid, Stale, Unknown} /\ CommitTruth(c)' \in {Valid, Stale, Unknown}
    BY DEF CommitTruth, ValidIf
<1>2. \A t : TreeTruth(t) \in {Valid, Stale, Unknown} /\ TreeTruth(t)' \in {Valid, Stale, Unknown}
    BY DEF TreeTruth, ValidIf
<1>3. PositionTruth(b) \in {Valid, Stale, Unknown} /\ PositionTruth(b)' \in {Valid, Stale, Unknown}
    BY DEF PositionTruth, ValidIf
<1>4. \A v, w \in {Valid, Stale, Unknown} : Combine(v, w) \in {Valid, Stale, Unknown}
    BY DEF Combine, ValidIf, Valid, Stale, Unknown, Error
<1>5. QED
    BY <1>1, <1>2, <1>3, <1>4 DEF Truth

LEMMA BindingFields ==
    ASSUME NEW b \in Binding
    PROVE  /\ b.kind \in {"commit", "tree", "hybrid", "position"}
           /\ b.kind = "commit" => b \in CommitBinding /\ b.commit \in DOMAIN commits
           /\ b.kind = "tree" => b \in TreeBinding /\ b.tree \in Tree
           /\ b.kind = "hybrid" => /\ b \in HybridBinding
                                   /\ b.commit \in DOMAIN commits /\ b.tree \in Tree
           /\ b.kind = "position" =>
                /\ b \in PositionBinding
                /\ b.genesis \in DOMAIN commits
                /\ commits[b.genesis].snapshot.path # NoFile
                /\ b.range \in Ranges(commits[b.genesis].snapshot.path)
                /\ b.hints \in BOOLEAN
<1>1. CASE b \in CommitBinding
    BY <1>1 DEF CommitBinding
<1>2. CASE b \in TreeBinding
    BY <1>2 DEF TreeBinding
<1>3. CASE b \in HybridBinding
    BY <1>3 DEF HybridBinding
<1>4. CASE b \in PositionBinding
    <2>1. PICK c \in {d \in DOMAIN commits : commits[d].snapshot.path # NoFile} :
            b \in [kind : {"position"}, genesis : {c},
                   range : Ranges(commits[c].snapshot.path), hints : BOOLEAN]
        BY <1>4 DEF PositionBinding
    <2>2. /\ b.kind = "position" /\ b.genesis = c
          /\ b.range \in Ranges(commits[c].snapshot.path)
        BY <2>1
    <2>3. b.hints \in BOOLEAN
        BY <2>1, Zenon
    <2>4. QED
        BY <1>4, <2>2, <2>3
<1>5. QED
    BY <1>1, <1>2, <1>3, <1>4 DEF Binding

\* What an answer does to the call: it goes on to the other half of a hybrid,
\* or ends.
LEMMA AnswerMeans ==
    ASSUME Placed, NEW v, Answer(v)
    PROVE  /\ call'.binding = call.binding
           /\ call'.target = call.target
           /\ call'.verdict = Combine(call.verdict, v)
           /\ call'.todo = Tail(call.todo)
           /\ call' = [binding |-> call'.binding, todo |-> call'.todo,
                       target |-> call'.target, verdict |-> call'.verdict]
           /\ \A half : call.todo = <<half>> => pc' = "answered" /\ call'.todo = <<>>
           /\ call.todo = <<"commit", "tree">> => pc' = "resolve_for_tree" /\ call'.todo = <<"tree">>
<1>1. call' = [call EXCEPT !.verdict = Combine(call.verdict, v), !.todo = Tail(call.todo)]
    BY DEF Answer
<1>2. call' = [binding |-> call.binding, todo |-> Tail(call.todo),
               target |-> call.target, verdict |-> Combine(call.verdict, v)]
    BY <1>1 DEF Placed
<1>3. pc' = IF Len(call.todo) = 1 THEN "answered" ELSE FirstRead[call.todo[2]]
    BY DEF Answer, Goto
<1>4. ASSUME NEW half, call.todo = <<half>> PROVE pc' = "answered" /\ Tail(call.todo) = <<>>
    BY <1>3, <1>4
<1>5. ASSUME call.todo = <<"commit", "tree">>
      PROVE  pc' = "resolve_for_tree" /\ Tail(call.todo) = <<"tree">>
    <2>1. Len(call.todo) # 1 /\ call.todo[2] = "tree"
        BY <1>5
    <2>2. Tail(call.todo) = <<"tree">>
        BY <1>5
    <2>3. FirstRead["tree"] = "resolve_for_tree"
        BY DEF FirstRead
    <2>4. QED
        BY <1>3, <2>1, <2>2, <2>3, Zenon
<1>6. QED
    BY <1>2, <1>4, <1>5

-----------------------------------------------------------------------------
(***************************************************************************)
(* What other processes do                                                 *)
(***************************************************************************)

Others == MakeCommit \/ Move \/ Prune

Commit == [history : SUBSET (1..MaxCommits), snapshot : Snapshot]

LEMMA CommitNumbers ==
    ASSUME TypeOK
    PROVE  /\ Len(commits) \in Nat
           /\ DOMAIN commits = 1..Len(commits)
           /\ commits \in Seq(Commit)
           /\ \A c \in DOMAIN commits : /\ c \in Nat /\ c # NoCommit
                                        /\ commits[c] \in Commit
                                        /\ History(c) = commits[c].history
                                        /\ History(c) \subseteq 1..c
           /\ NoCommit \notin present
<1>1. commits \in Seq(Commit) /\ present \subseteq DOMAIN commits
    BY DEF TypeOK, Commit
<1>2. Len(commits) \in Nat /\ DOMAIN commits = 1..Len(commits)
    BY <1>1
<1>3. ASSUME NEW c \in DOMAIN commits
      PROVE  /\ c \in Nat /\ c # NoCommit
             /\ commits[c] \in Commit
    BY <1>1, <1>2 DEF NoCommit
<1>4. ASSUME NEW c \in DOMAIN commits
      PROVE  History(c) = commits[c].history /\ History(c) \subseteq 1..c
    <2>1. commits[c].history \subseteq 1..c
        BY DEF TypeOK
    <2>2. QED
        BY <1>3, <2>1 DEF History
<1>5. NoCommit \notin present
    BY <1>1, <1>3
<1>6. QED
    BY <1>1, <1>2, <1>3, <1>4, <1>5

\* No commit made is lost or changed, none that was pruned comes back, and the
\* call only observes.
Evolves ==
    /\ \A c \in DOMAIN commits : c \in DOMAIN commits' /\ commits'[c] = commits[c]
    /\ \A c \in DOMAIN commits : c \in present' => c \in present
    /\ UNCHANGED <<pc, call>>
    /\ Observed

\* The commit that is made: its number, and a history that has its parents'.
LEMMA NewCommit ==
    ASSUME TypeOK, MakeCommit
    PROVE  \E parents \in SUBSET present, s \in Snapshot :
            LET c == Len(commits) + 1
                h == {c} \cup UNION {History(p) : p \in parents}
            IN  /\ c \in 1..MaxCommits
                /\ h \subseteq 1..c
                /\ commits' = Append(commits, [history |-> h, snapshot |-> s])
                /\ commits' \in Seq(Commit)
                /\ DOMAIN commits' = DOMAIN commits \cup {c}
                /\ c \notin DOMAIN commits
                /\ commits'[c].history = h /\ commits'[c].snapshot = s
                /\ \A d \in DOMAIN commits : commits'[d] = commits[d]
                /\ present' = present \cup {c}
                /\ at' = c
                /\ Len(commits') = Len(commits) + 1
<1> DEFINE c == Len(commits) + 1
           h(parents) == {c} \cup UNION {History(p) : p \in parents}
<1>1. PICK parents \in SUBSET present : \E s \in Snapshot :
        /\ commits' = Append(commits, [history |-> h(parents), snapshot |-> s])
        /\ present' = present \cup {c}
        /\ at' = c
    BY DEF MakeCommit
<1>2. PICK s \in Snapshot :
        /\ commits' = Append(commits, [history |-> h(parents), snapshot |-> s])
        /\ present' = present \cup {c}
        /\ at' = c
    BY <1>1
<1>3. Len(commits) \in Nat /\ Len(commits) < MaxCommits /\ MaxCommits \in Nat
    BY CommitNumbers, RevalidateAssumption DEF MakeCommit
<1>4. c \in 1..MaxCommits
    BY <1>3
<1>5. h(parents) \subseteq 1..c
    <2>1. \A p \in parents : p \in DOMAIN commits /\ p < c /\ p \in Nat /\ History(p) \subseteq 1..p
        <3>1. \A p \in parents : p \in DOMAIN commits
            BY DEF TypeOK
        <3>2. DOMAIN commits = 1..Len(commits)
            BY CommitNumbers
        <3>3. \A p \in 1..Len(commits) : p < c /\ p \in Nat
            BY <1>3
        <3>4. \A p \in DOMAIN commits : History(p) \subseteq 1..p
            BY CommitNumbers
        <3>5. QED
            BY <3>1, <3>2, <3>3, <3>4
    <2>2. \A p \in parents : History(p) \subseteq 1..c
        <3>1. ASSUME NEW p \in parents PROVE 1..p \subseteq 1..c
            BY <1>3, <2>1
        <3>2. QED
            BY <2>1, <3>1
    <2>3. c \in 1..c
        BY <1>3
    <2> HIDE DEF c
    <2>4. QED
        BY <2>2, <2>3
<1> DEFINE new == [history |-> h(parents), snapshot |-> s]
<1>6. new \in Commit
    <2>1. 1..c \subseteq 1..MaxCommits
        BY <1>3
    <2>2. h(parents) \in SUBSET (1..MaxCommits)
        BY <1>5, <2>1
    <2> HIDE DEF h
    <2>3. QED
        BY <2>2 DEF Commit
<1>7. new.history = h(parents) /\ new.snapshot = s
    OBVIOUS
<1>8. commits' = Append(commits, new)
    BY <1>2
<1> HIDE DEF new, h
<1>9. /\ commits' \in Seq(Commit) /\ Len(commits') = Len(commits) + 1
      /\ DOMAIN commits' = DOMAIN commits \cup {c}
      /\ c \notin DOMAIN commits
      /\ commits'[c] = new
      /\ \A d \in DOMAIN commits : commits'[d] = commits[d]
    <2>1. commits \in Seq(Commit) /\ DOMAIN commits = 1..Len(commits)
        BY CommitNumbers
    <2>2. 1..Len(commits) + 1 = 1..Len(commits) \cup {Len(commits) + 1}
        BY <1>3
    <2>3. QED
        BY <1>3, <1>6, <1>8, <2>1, <2>2
<1>10. QED
    BY <1>2, <1>4, <1>5, <1>7, <1>9 DEF h, new

LEMMA OthersEvolve ==
    ASSUME TypeOK, Others
    PROVE  Evolves
<1>1. CASE MakeCommit
    <2>1. PICK parents \in SUBSET present, s \in Snapshot :
            /\ DOMAIN commits' = DOMAIN commits \cup {Len(commits) + 1}
            /\ Len(commits) + 1 \notin DOMAIN commits
            /\ \A d \in DOMAIN commits : commits'[d] = commits[d]
            /\ present' = present \cup {Len(commits) + 1}
        BY <1>1, NewCommit
    <2>2. UNCHANGED <<pc, call>> /\ Observed
        BY <1>1 DEF MakeCommit
    <2>3. QED
        BY <2>1, <2>2 DEF Evolves
<1>2. CASE Move
    BY <1>2 DEF Move, Evolves
<1>3. CASE Prune
    BY <1>3 DEF Prune, Evolves
<1>4. QED
    BY <1>1, <1>2, <1>3 DEF Others

LEMMA OthersKeepHistories ==
    ASSUME TypeOK, Histories, Others
    PROVE  Histories'
<1>1. CASE MakeCommit
    <2>0. PICK c \in Nat : c = Len(commits) + 1 /\ c # NoCommit
        <3>1. Len(commits) \in Nat
            BY CommitNumbers
        <3>2. Len(commits) + 1 \in Nat /\ Len(commits) + 1 # NoCommit
            BY <3>1 DEF NoCommit
        <3>3. QED
            BY <3>2
    <2>1. PICK parents \in SUBSET present, s \in Snapshot :
            LET h == {c} \cup UNION {History(p) : p \in parents}
            IN  /\ h \subseteq 1..c
                /\ DOMAIN commits' = DOMAIN commits \cup {c}
                /\ c \notin DOMAIN commits
                /\ commits'[c].history = h
                /\ \A d \in DOMAIN commits : commits'[d] = commits[d]
                /\ present' = present \cup {c}
        BY <1>1, <2>0, NewCommit
    <2> DEFINE h == {c} \cup UNION {History(p) : p \in parents}
    <2>3. History(c)' = commits'[c].history
        BY <2>0 DEF History
    <2>4. History(c)' = h
        BY <2>1, <2>3
    <2>5. \A d \in DOMAIN commits : History(d)' = History(d)
        BY <2>1 DEF History
    <2>6. parents \subseteq present /\ present \subseteq DOMAIN commits
        BY DEF TypeOK
    <2>7. \A d \in h : d = c \/ \E p \in parents : d \in History(p)
        OBVIOUS
    <2>8. \A p \in parents : History(p) \subseteq h
        OBVIOUS
    <2>9. c \in h
        OBVIOUS
    <2>10. DOMAIN commits' = DOMAIN commits \cup {c} /\ present' = present \cup {c}
        BY <2>1
    <2> HIDE DEF h
    <2>11. ASSUME NEW d \in DOMAIN commits
           PROVE  /\ d \in History(d)'
                  /\ \A e \in History(d)' : e \in DOMAIN commits' /\ History(e)' \subseteq History(d)'
        BY <2>5, <2>10 DEF Histories
    <2>12. ASSUME NEW e \in h
           PROVE  e \in DOMAIN commits' /\ History(e)' \subseteq h
        <3>1. CASE e = c
            BY <2>4, <2>10, <3>1
        <3>2. CASE \E p \in parents : e \in History(p)
            <4>1. PICK p \in parents : e \in History(p)
                BY <3>2
            <4>2. e \in DOMAIN commits /\ History(e) \subseteq History(p)
                BY <2>6, <4>1 DEF Histories
            <4>3. QED
                BY <2>5, <2>8, <2>10, <4>1, <4>2
        <3>3. QED
            BY <2>7, <3>1, <3>2
    <2>13. \A d \in present : History(d)' \subseteq present'
        BY <2>5, <2>6, <2>10 DEF Histories
    <2>14. h \subseteq present'
        BY <2>6, <2>7, <2>10 DEF Histories
    <2>15. QED
        BY <2>4, <2>9, <2>10, <2>11, <2>12, <2>13, <2>14 DEF Histories
<1>2. CASE Move
    BY <1>2 DEF Move, Histories, History
<1>3. CASE Prune
    <2>1. PICK c \in present :
            /\ \A d \in (present \ {c}) \cup {at} : c \notin History(d)
            /\ present' = present \ {c}
        BY <1>3 DEF Prune
    <2>2. \A d : History(d)' = History(d)
        BY <1>3 DEF Prune, History
    <2>3. commits' = commits
        BY <1>3 DEF Prune
    <2>4. QED
        BY <2>1, <2>2, <2>3 DEF Histories
<1>4. QED
    BY <1>1, <1>2, <1>3 DEF Others

\* A commit made keeps its history and what is in its tree.
LEMMA EvolvesKeeps ==
    ASSUME TypeOK, Evolves
    PROVE  /\ \A c \in DOMAIN commits : History(c)' = History(c)
           /\ \A c, d \in DOMAIN commits : IsReached(c, d)' = IsReached(c, d)
           /\ \A t : \A d \in DOMAIN commits : HasTree(t, d)' = HasTree(t, d)
           /\ \A b : \A d \in DOMAIN commits : b.genesis \in DOMAIN commits =>
                Traced(b, d)' = Traced(b, d) /\ Matched(b, d)' = Matched(b, d)
<1>1. \A c \in DOMAIN commits : commits'[c] = commits[c] /\ c # NoCommit
    BY CommitNumbers DEF Evolves
<1>2. \A c \in DOMAIN commits : History(c)' = History(c)
    BY <1>1 DEF History
<1>3. \A c, d \in DOMAIN commits : IsReached(c, d)' = IsReached(c, d)
    BY <1>2 DEF IsReached
<1>4. \A t : \A d \in DOMAIN commits : HasTree(t, d)' = HasTree(t, d)
    BY <1>1 DEF HasTree
<1>5. ASSUME NEW b, NEW d \in DOMAIN commits, b.genesis \in DOMAIN commits
      PROVE  Traced(b, d)' = Traced(b, d) /\ Matched(b, d)' = Matched(b, d)
    BY <1>1, <1>5 DEF Traced, Matched, Destinations
<1>6. QED
    BY <1>2, <1>3, <1>4, <1>5

LEMMA BindingsStay ==
    ASSUME TypeOK, Evolves
    PROVE  Binding \subseteq Binding'
<1>1. DOMAIN commits \subseteq DOMAIN commits' /\ \A c \in DOMAIN commits : commits'[c] = commits[c]
    BY DEF Evolves
<1>2. CommitBinding \subseteq CommitBinding'
    BY <1>1 DEF CommitBinding
<1>3. HybridBinding \subseteq HybridBinding'
    BY <1>1 DEF HybridBinding
<1>4. TreeBinding' = TreeBinding
    BY DEF TreeBinding
<1>5. ASSUME NEW b \in PositionBinding PROVE b \in PositionBinding'
    <2>1. PICK c \in {d \in DOMAIN commits : commits[d].snapshot.path # NoFile} :
            b \in [kind : {"position"}, genesis : {c},
                   range : Ranges(commits[c].snapshot.path), hints : BOOLEAN]
        BY DEF PositionBinding
    <2>2. c \in {d \in DOMAIN commits' : commits'[d].snapshot.path # NoFile} /\ commits'[c] = commits[c]
        BY <1>1, <2>1
    <2>3. b \in [kind : {"position"}, genesis : {c},
                 range : Ranges(commits'[c].snapshot.path), hints : BOOLEAN]
        BY <2>1, <2>2
    <2>4. QED
        BY <2>2, <2>3 DEF PositionBinding
<1>6. QED
    BY <1>2, <1>3, <1>4, <1>5 DEF Binding

LEMMA OthersType ==
    ASSUME TypeOK, Histories, Others
    PROVE  TypeOK'
<1>1. Evolves
    BY OthersEvolve
<1>2. /\ commits' \in Seq(Commit)
      /\ \A c \in DOMAIN commits' : commits'[c].history \subseteq 1..c
      /\ Len(commits') <= MaxCommits
      /\ present' \subseteq DOMAIN commits'
      /\ at' \in present' \cup {NoCommit}
    <2>1. CASE MakeCommit
        <3>1. PICK parents \in SUBSET present, s \in Snapshot :
                LET c == Len(commits) + 1
                    h == {c} \cup UNION {History(p) : p \in parents}
                IN  /\ h \subseteq 1..c
                    /\ commits' \in Seq(Commit)
                    /\ DOMAIN commits' = DOMAIN commits \cup {c}
                    /\ commits'[c].history = h
                    /\ \A d \in DOMAIN commits : commits'[d] = commits[d]
                    /\ present' = present \cup {c}
                    /\ at' = c
                    /\ Len(commits') = Len(commits) + 1
            BY <2>1, NewCommit
        <3>2. Len(commits) + 1 <= MaxCommits
            <4>1. Len(commits) \in Nat
                BY CommitNumbers
            <4>2. QED
                BY <2>1, <4>1, RevalidateAssumption DEF MakeCommit
        <3>3. /\ \A d \in DOMAIN commits : commits[d].history \subseteq 1..d
              /\ present \subseteq DOMAIN commits
            BY DEF TypeOK
        <3>4. QED
            BY <3>1, <3>2, <3>3
    <2>2. CASE Move
        BY <2>2 DEF Move, TypeOK, Commit
    <2>3. CASE Prune
        <3>1. PICK c \in present :
                /\ \A d \in (present \ {c}) \cup {at} : c \notin History(d)
                /\ present' = present \ {c}
            BY <2>3 DEF Prune
        <3>2. commits' = commits /\ at' = at
            BY <2>3 DEF Prune
        <3>3. at # c
            <4>1. c \in History(c)
                BY DEF Histories, TypeOK
            <4>2. QED
                BY <3>1, <4>1
        <3>4. QED
            BY <3>1, <3>2, <3>3 DEF TypeOK, Commit
    <2>4. QED
        BY <2>1, <2>2, <2>3 DEF Others
<1>3. DOMAIN commits \subseteq DOMAIN commits' /\ UNCHANGED <<pc, call>>
    BY <1>1 DEF Evolves
<1>4. held' \subseteq {Valid, Stale, Unknown} /\ forward' \in BOOLEAN
    <2>1. Truth(call.binding)' \in {Valid, Stale, Unknown}
        BY TruthType
    <2>2. CASE pc \in {"idle", "answered"}
        BY <1>1, <2>2 DEF Evolves, Observed, TypeOK
    <2>3. CASE pc \notin {"idle", "answered"}
        <3>1. held' = held \cup {Truth(call.binding)'}
            BY <1>1, <2>3 DEF Evolves, Observed
        <3>2. forward' = (forward /\ (at \in History(at)' \/ at = NoCommit))
            BY <1>1, <2>3 DEF Evolves, Observed
        <3>3. QED
            BY <2>1, <3>1, <3>2 DEF TypeOK
    <2>4. QED
        BY <2>2, <2>3
<1>5. pc' # "idle" => call'.binding \in Binding'
    BY <1>1, <1>3, BindingsStay DEF TypeOK
<1>6. QED
    BY <1>2, <1>3, <1>4, <1>5 DEF TypeOK, Commit

\* What a call reads of the commit it resolved is the same later.
LEMMA CallReads ==
    ASSUME TypeOK, Evolves, call.target \in DOMAIN commits
    PROVE  /\ History(call.target)' = History(call.target)
           /\ IsReached(call.binding.commit, call.target)'
                = IsReached(call.binding.commit, call.target)
           /\ HasTree(call.binding.tree, call.target)' = HasTree(call.binding.tree, call.target)
           /\ Genesis \in DOMAIN commits =>
                /\ Traced(call.binding, call.target)' = Traced(call.binding, call.target)
                /\ Matched(call.binding, call.target)' = Matched(call.binding, call.target)
<1>1. call' = call /\ \A c \in DOMAIN commits : commits'[c] = commits[c] /\ c # NoCommit
    BY CommitNumbers DEF Evolves
<1>2. History(call.target)' = History(call.target)
    BY <1>1 DEF History
<1>3. IsReached(call.binding.commit, call.target)' = IsReached(call.binding.commit, call.target)
    BY <1>1, <1>2 DEF IsReached
<1>4. HasTree(call.binding.tree, call.target)' = HasTree(call.binding.tree, call.target)
    BY <1>1 DEF HasTree
<1>5. ASSUME Genesis \in DOMAIN commits
      PROVE  /\ Traced(call.binding, call.target)' = Traced(call.binding, call.target)
             /\ Matched(call.binding, call.target)' = Matched(call.binding, call.target)
    BY <1>1, <1>5 DEF Traced, Matched, Destinations, Genesis
<1>6. QED
    BY <1>2, <1>3, <1>4, <1>5

\* What a call has found stays true whatever other processes do: what held goes
\* on having held, and what is there was there.
LEMMA OthersKeepHeld ==
    ASSUME RevalInv, Others
    PROVE  /\ Placed'
           /\ TruthIsHeld' /\ CommitIsHeld' /\ TreeIsHeld' /\ HybridIsHeld' /\ PositionIsHeld'
           /\ VerdictsHeld' /\ HybridHeldUnderForward'
<1> USE DEF RevalInv
<1>1. Evolves /\ TypeOK' /\ Histories'
    BY OthersEvolve, OthersType, OthersKeepHistories
<1>2. /\ call' = call /\ pc' = pc
      /\ \A c \in DOMAIN commits : c \in present' => c \in present
    BY <1>1 DEF Evolves
<1>3. /\ held \subseteq held'
      /\ pc = "answered" => held' = held /\ forward' = forward
      /\ Running => Truth(call.binding)' \in held'
      /\ forward' => forward
      /\ Running /\ forward' => at = NoCommit \/ at \in History(at)'
    BY <1>1 DEF Evolves, Observed, Running
<1>4. Running /\ forward' => History(at) \subseteq History(at)'
    <2>1. SUFFICES ASSUME Running, forward', at # NoCommit
                   PROVE  History(at) \subseteq History(at)'
        BY DEF History
    <2>2. at \in History(at)' /\ at \in DOMAIN commits
        BY <1>3, <2>1 DEF TypeOK
    <2>3. PICK c : c = at
        OBVIOUS
    <2>4. PICK d : d = at'
        OBVIOUS
    <2>5. History(at)' = History(d)'
        BY <2>4 DEF History
    <2>6. d # NoCommit
        BY <2>2, <2>5 DEF History
    <2>7. d \in DOMAIN commits'
        BY <1>1, <2>4, <2>6 DEF TypeOK
    <2>8. History(c)' \subseteq History(d)'
        BY <1>1, <2>2, <2>3, <2>5, <2>7 DEF Histories
    <2>9. History(c)' = History(c)
        BY <1>1, <2>2, <2>3, EvolvesKeeps
    <2>10. History(at) = History(c)
        BY <2>3 DEF History
    <2>11. QED
        BY <2>5, <2>8, <2>9, <2>10
<1>5. Placed'
    BY <1>2 DEF Placed
<1>6. TruthIsHeld'
    BY <1>2, <1>3 DEF TruthIsHeld, Running
<1> DEFINE b == call.binding
           t == call.target
<1>7. Running => b \in Binding
    BY DEF TypeOK, Running
<1>8. pc \in {"walk", "search", "has_genesis", "trace", "match"} => t \in DOMAIN commits
    BY DEF TypeOK
<1>9. t \in DOMAIN commits =>
        /\ IsReached(b.commit, t)' = IsReached(b.commit, t)
        /\ HasTree(b.tree, t)' = HasTree(b.tree, t)
        /\ History(t)' = History(t)
        /\ Genesis \in DOMAIN commits =>
            Traced(b, t)' = Traced(b, t) /\ Matched(b, t)' = Matched(b, t)
    BY <1>1, CallReads
<1>10. Running =>
        /\ b.kind \in {"commit", "hybrid"} => b.commit \in DOMAIN commits
        /\ b.kind = "position" => Genesis \in DOMAIN commits
        /\ b.kind \in {"commit", "hybrid"} /\ b.commit \in present' => b.commit \in present
    <2>1. SUFFICES ASSUME Running
                   PROVE  /\ b.kind \in {"commit", "hybrid"} => b.commit \in DOMAIN commits
                          /\ b.kind = "position" => Genesis \in DOMAIN commits
        BY <1>2
    <2>2. b \in Binding
        BY <1>7, <2>1
    <2> HIDE DEF b
    <2>3. /\ b.kind = "commit" => b.commit \in DOMAIN commits
          /\ b.kind = "hybrid" => b.commit \in DOMAIN commits
          /\ b.kind = "position" => b.genesis \in DOMAIN commits
        BY <2>2, BindingFields
    <2>4. QED
        BY <2>3 DEF Genesis, b
<1>11. b' = b /\ t' = t /\ Genesis' = Genesis
    BY <1>2 DEF Genesis
<1>12. CommitIsHeld'
    <2>1. SUFFICES ASSUME pc = "walk", b.kind = "commit",
                          b.commit \in present' \/ IsReached(b.commit, t)'
                   PROVE  ValidIf(IsReached(b.commit, t))' \in held'
        BY <1>2 DEF CommitIsHeld
    <2>2. IsReached(b.commit, t)' = IsReached(b.commit, t)
        BY <1>8, <1>9, <2>1
    <2>3. ValidIf(IsReached(b.commit, t)) \in held
        <3>1. Running
            BY <2>1 DEF Running
        <3>2. b.commit \in present \/ IsReached(b.commit, t)
            BY <1>10, <2>1, <2>2, <3>1
        <3>3. QED
            BY <2>1, <3>2 DEF CommitIsHeld
    <2>4. QED
        BY <1>3, <2>2, <2>3 DEF ValidIf
<1>13. TreeIsHeld'
    <2>1. SUFFICES ASSUME pc = "search", b.kind = "tree"
                   PROVE  ValidIf(HasTree(b.tree, t))' \in held'
        BY <1>2 DEF TreeIsHeld
    <2>2. ValidIf(HasTree(b.tree, t)) \in held
        BY <2>1 DEF TreeIsHeld
    <2>3. QED
        BY <1>3, <1>8, <1>9, <2>1, <2>2 DEF ValidIf
<1>14. PositionIsHeld'
    <2>1. ASSUME pc = "has_genesis", Genesis \in present'
          PROVE  ValidIf(Traced(b, t))' \in held'
        <3>1. Genesis \in DOMAIN commits
            BY <1>10, <2>1 DEF Placed, PositionSteps, Running
        <3>2. ValidIf(Traced(b, t)) \in held
            BY <1>2, <2>1, <3>1 DEF PositionIsHeld
        <3>3. QED
            BY <1>3, <1>8, <1>9, <2>1, <3>1, <3>2 DEF ValidIf
    <2>2. ASSUME pc = "trace" PROVE ValidIf(Traced(b, t))' \in held'
        <3>1. Genesis \in DOMAIN commits
            BY <1>10, <2>2 DEF Placed, PositionSteps, Running
        <3>2. ValidIf(Traced(b, t)) \in held
            BY <2>2 DEF PositionIsHeld
        <3>3. QED
            BY <1>3, <1>8, <1>9, <2>2, <3>1, <3>2 DEF ValidIf
    <2>3. ASSUME pc = "match" PROVE ValidIf(Matched(b, t))' \in held'
        <3>1. Genesis \in DOMAIN commits
            BY <1>10, <2>3 DEF Placed, PositionSteps, Running
        <3>2. ValidIf(Matched(b, t)) \in held
            BY <2>3 DEF PositionIsHeld
        <3>3. QED
            BY <1>3, <1>8, <1>9, <2>3, <3>1, <3>2 DEF ValidIf
    <2>4. pc \in {"not_found", "resolve_for_match"} => Genesis \in DOMAIN commits
        BY <1>10 DEF Placed, PositionSteps, Running
    <2>5. pc = "not_found" /\ Genesis \in present' => Stale \in held'
        BY <1>2, <1>3, <2>4 DEF PositionIsHeld
    <2>6. pc = "resolve_for_match" => Genesis \notin present'
        BY <1>2, <2>4 DEF PositionIsHeld
    <2>7. QED
        BY <1>2, <1>11, <2>1, <2>2, <2>3, <2>5, <2>6 DEF PositionIsHeld
<1>15. HybridIsHeld'
    <2>1. SUFFICES ASSUME forward', b.kind = "hybrid"
                   PROVE  HybridIsHeld'
        BY <1>2 DEF HybridIsHeld
    <2>2. forward /\ (pc \in {"walk", "resolve_for_tree", "search"} => Running)
        BY <1>3, <2>1 DEF Running
    <2>8. ASSUME pc \in {"walk", "resolve_for_tree", "search"}, b.commit \in present'
          PROVE  b.commit \in present
        BY <1>10, <2>1, <2>2, <2>8
    <2>9. /\ pc = "walk" =>
            /\ t \in History(at)
            /\ b.commit \in present =>
                Combine(ValidIf(IsReached(b.commit, t)), ValidIf(HasTree(b.tree, t))) \in held
          /\ pc \in TreeSteps /\ call.verdict = Stale /\ b.commit \in present => Stale \in held
          /\ pc = "resolve_for_tree" /\ call.verdict = Valid => b.commit \in History(at)
          /\ pc = "search" /\ call.verdict = Valid =>
                ValidIf(HasTree(b.tree, t)) \in held
        BY <2>1, <2>2 DEF HybridIsHeld
    <2>3. ASSUME pc = "walk"
          PROVE  /\ t \in History(at)'
                 /\ b.commit \in present' =>
                        Combine(ValidIf(IsReached(b.commit, t)), ValidIf(HasTree(b.tree, t)))' \in held'
        <3>1. t \in History(at) /\ History(at) \subseteq History(at)'
            BY <1>4, <2>1, <2>2, <2>3, <2>9
        <3>2. ASSUME b.commit \in present'
              PROVE  Combine(ValidIf(IsReached(b.commit, t)), ValidIf(HasTree(b.tree, t))) \in held
            BY <2>3, <2>8, <2>9, <3>2
        <3>3. QED
            BY <1>3, <1>8, <1>9, <2>3, <3>1, <3>2 DEF ValidIf, Combine
    <2>4. ASSUME pc \in TreeSteps, call.verdict = Stale, b.commit \in present'
          PROVE  Stale \in held'
        BY <1>3, <2>4, <2>8, <2>9 DEF TreeSteps
    <2>5. ASSUME pc = "resolve_for_tree", call.verdict = Valid
          PROVE  b.commit \in History(at)'
        BY <1>4, <2>1, <2>2, <2>5, <2>9
    <2>6. ASSUME pc = "search", call.verdict = Valid
          PROVE  ValidIf(HasTree(b.tree, t))' \in held'
        <3>1. ValidIf(HasTree(b.tree, t)) \in held
            BY <2>6, <2>9
        <3>2. QED
            BY <1>3, <1>8, <1>9, <2>6, <3>1 DEF ValidIf
    <2>7. QED
        BY <1>2, <2>3, <2>4, <2>5, <2>6 DEF HybridIsHeld
<1>16. ASSUME pc = "answered", Undisturbed' PROVE Undisturbed
    <2>1. b \in Binding /\ t \in DOMAIN commits \cup {NoCommit}
        BY <1>16 DEF TypeOK
    <2>2. t # NoCommit
        <3>1. t \in DOMAIN commits'
            BY <1>1, <1>2, <1>16 DEF Undisturbed, TypeOK
        <3>2. commits' \in Seq(Commit)
            BY <1>1 DEF TypeOK, Commit
        <3>3. QED
            BY <3>1, <3>2 DEF NoCommit
    <2>3. QED
        BY <1>2, <1>16, <2>1, <2>2, BindingFields DEF Undisturbed
<1>17. VerdictsHeld' /\ HybridHeldUnderForward'
    BY <1>2, <1>3, <1>16 DEF VerdictsHeld, HybridHeldUnderForward, Answered, Trusted
<1>18. QED
    BY <1>5, <1>6, <1>12, <1>13, <1>14, <1>15, <1>17

-----------------------------------------------------------------------------
(***************************************************************************)
(* What the call itself does                                               *)
(***************************************************************************)

LEMMA ReadsKeep ==
    ASSUME Reads
    PROVE  /\ commits' = commits /\ present' = present /\ at' = at
           /\ held' = held /\ forward' = forward
           /\ Binding' = Binding
           /\ Histories => Histories'
           /\ History(at)' = History(at)
           /\ \A b : Truth(b)' = Truth(b)
<1>1. /\ commits' = commits /\ present' = present /\ at' = at
      /\ held' = held /\ forward' = forward
    BY DEF Reads, repository
<1>2. Binding' = Binding
    BY <1>1 DEF Binding, CommitBinding, TreeBinding, HybridBinding, PositionBinding
<1>3. History(at)' = History(at) /\ \A c : History(c)' = History(c)
    BY <1>1 DEF History
<1>4. Histories => Histories'
    BY <1>1, <1>3 DEF Histories
<1>5. ASSUME NEW b PROVE Truth(b)' = Truth(b)
    BY <1>1, <1>3 DEF Truth, CommitTruth, TreeTruth, PositionTruth, IsReached, HasTree,
                      Traced, Matched, Destinations
<1>6. QED
    BY <1>1, <1>2, <1>3, <1>4, <1>5

LEMMA TruthStays ==
    ASSUME TruthIsHeld, Running, Reads, call'.binding = call.binding
    PROVE  TruthIsHeld'
<1>1. Truth(call.binding) \in held
    BY DEF TruthIsHeld
<1>2. Truth(call.binding)' = Truth(call.binding)
    <2>1. PICK b : b = call.binding
        OBVIOUS
    <2>2. Truth(b)' = Truth(b)
        BY ReadsKeep
    <2>3. QED
        BY <2>1, <2>2 DEF Truth
<1>3. held' = held
    BY ReadsKeep
<1>4. QED
    BY <1>1, <1>2, <1>3, Zenon DEF TruthIsHeld

\* An answer that ends the call.
LEMMA CallEnds ==
    ASSUME RevalInv, Reads, Running, NEW v \in Verdict, Answer(v), NEW half, call.todo = <<half>>,
           (call.binding.kind # "hybrid" \/ forward)
                /\ (Combine(call.verdict, v) = Valid \/ Undisturbed)
                /\ Combine(call.verdict, v) \in {Valid, Stale}
                => Combine(call.verdict, v) \in held
    PROVE  RevalInv'
<1> USE DEF RevalInv
<1>1. /\ call'.binding = call.binding
      /\ call'.target = call.target
      /\ call'.verdict = Combine(call.verdict, v)
      /\ call' = [binding |-> call'.binding, todo |-> call'.todo,
                  target |-> call'.target, verdict |-> call'.verdict]
      /\ pc' = "answered" /\ call'.todo = <<>>
    BY AnswerMeans
<1>2. /\ commits' = commits /\ present' = present /\ at' = at
      /\ held' = held /\ forward' = forward
      /\ Binding' = Binding /\ Histories'
    BY ReadsKeep
<1>3. call.verdict \in Verdict /\ call.binding \in Binding
    BY DEF TypeOK, Verdict, Running
<1>4. call'.verdict \in Verdict
    BY <1>1, <1>3, VerdictTypes
<1>5. TypeOK'
    <2>1. call'.todo \in Seq(DOMAIN FirstRead)
        BY <1>1
    <2>2. QED
        BY <1>1, <1>2, <1>3, <1>4, <2>1 DEF TypeOK, Verdict
<1>6. Placed'
    BY <1>1 DEF Placed, CommitSteps, TreeSteps, PositionSteps
<1>7. TruthIsHeld' /\ CommitIsHeld' /\ TreeIsHeld' /\ HybridIsHeld' /\ PositionIsHeld'
    BY <1>1 DEF TruthIsHeld, CommitIsHeld, TreeIsHeld, HybridIsHeld, PositionIsHeld,
                Running, TreeSteps
<1>8. Undisturbed' => Undisturbed
    BY <1>1, <1>2 DEF Undisturbed
<1>9. VerdictsHeld' /\ HybridHeldUnderForward'
    <2>1. call.binding.kind \in {"commit", "tree", "position"} => call.binding.kind # "hybrid"
        OBVIOUS
    <2>2. QED
        BY <1>1, <1>2, <1>8, <2>1 DEF VerdictsHeld, HybridHeldUnderForward, Answered, Trusted
<1>10. QED
    BY <1>2, <1>5, <1>6, <1>7, <1>9

\* The answer of the first half of a hybrid.
LEMMA HalfEnds ==
    ASSUME RevalInv, Reads, Running, NEW v \in Verdict \ {Error}, Answer(v),
           call.binding.kind = "hybrid", call.todo = <<"commit", "tree">>, call.verdict = Valid,
           forward /\ call.binding.commit \in present /\ v = Stale => Stale \in held,
           forward /\ v = Valid => call.binding.commit \in History(at)
    PROVE  RevalInv'
<1> USE DEF RevalInv
<1>1. /\ call'.binding = call.binding
      /\ call'.target = call.target
      /\ call'.verdict = v
      /\ call' = [binding |-> call'.binding, todo |-> call'.todo,
                  target |-> call'.target, verdict |-> call'.verdict]
      /\ pc' = "resolve_for_tree" /\ call'.todo = <<"tree">>
    BY AnswerMeans, VerdictTypes
<1>2. /\ commits' = commits /\ present' = present /\ at' = at
      /\ held' = held /\ forward' = forward
      /\ Binding' = Binding /\ Histories' /\ History(at)' = History(at)
      /\ \A b : Truth(b)' = Truth(b)
    BY ReadsKeep
<1>3. call.binding \in Binding
    BY DEF TypeOK, Running
<1>4. TypeOK'
    <2>1. call'.todo \in Seq(DOMAIN FirstRead)
        <3>1. "tree" \in DOMAIN FirstRead
            BY DEF FirstRead
        <3>2. \A S : \A x \in S : <<x>> \in Seq(S)
            OBVIOUS
        <3>3. QED
            BY <1>1, <3>1, <3>2
    <2>2. QED
        BY <1>1, <1>2, <1>3, <2>1 DEF TypeOK, Verdict
<1>5. Placed'
    BY <1>1 DEF Placed, CommitSteps, TreeSteps, PositionSteps
<1>6. TruthIsHeld'
    BY <1>1, TruthStays
<1>7. CommitIsHeld' /\ TreeIsHeld' /\ PositionIsHeld' /\ VerdictsHeld' /\ HybridHeldUnderForward'
    BY <1>1 DEF CommitIsHeld, TreeIsHeld, PositionIsHeld, VerdictsHeld, HybridHeldUnderForward,
                Answered
<1>8. HybridIsHeld'
    BY <1>1, <1>2 DEF HybridIsHeld, TreeSteps, Valid, Stale
<1>9. QED
    BY <1>2, <1>4, <1>5, <1>6, <1>7, <1>8

\* A read that answers nothing yet, but may note what the revision names.
LEMMA CallGoesOn ==
    ASSUME RevalInv, Reads, Running, NEW t,
           call' = [call EXCEPT !.target = t],
           t \in {call.target, at},
           \/ pc \in CommitSteps /\ pc' \in CommitSteps
           \/ pc \in TreeSteps /\ pc' \in TreeSteps
           \/ pc \in PositionSteps /\ pc' \in PositionSteps,
           pc' \in {"walk", "search", "has_genesis", "trace", "match"} => t # NoCommit
    PROVE  /\ call'.binding = call.binding /\ call'.target = t /\ call'.verdict = call.verdict
           /\ TypeOK' /\ Placed' /\ Histories' /\ TruthIsHeld'
           /\ VerdictsHeld' /\ HybridHeldUnderForward'
<1> USE DEF RevalInv
<1>1. /\ call'.binding = call.binding
      /\ call'.target = t
      /\ call'.verdict = call.verdict
      /\ call'.todo = call.todo
      /\ call' = [binding |-> call'.binding, todo |-> call'.todo,
                  target |-> call'.target, verdict |-> call'.verdict]
    BY DEF Placed
<1>2. /\ commits' = commits /\ present' = present /\ at' = at
      /\ held' = held /\ forward' = forward
      /\ Binding' = Binding /\ Histories'
      /\ \A b : Truth(b)' = Truth(b)
    BY ReadsKeep
<1>3. call.binding \in Binding
    BY DEF TypeOK, Running
<1>4. TypeOK'
    BY <1>1, <1>2, <1>3 DEF TypeOK
<1>5. pc' \notin {"idle", "answered"}
    BY DEF CommitSteps, TreeSteps, PositionSteps
<1>6. Placed'
    BY <1>1, <1>5 DEF Placed, CommitSteps, TreeSteps, PositionSteps
<1>7. TruthIsHeld'
    BY <1>1, TruthStays
<1>8. VerdictsHeld' /\ HybridHeldUnderForward'
    BY <1>5 DEF VerdictsHeld, HybridHeldUnderForward, Answered
<1>9. QED
    BY <1>1, <1>2, <1>4, <1>6, <1>7, <1>8

\* An answer that neither stands nor falls, or stands for nothing undisturbed.
LEMMA UnknownEnds ==
    ASSUME RevalInv, Reads, Answer(Unknown),
           pc \in CommitSteps \cup TreeSteps \cup PositionSteps
    PROVE  RevalInv'
<1> USE DEF RevalInv
<1>1. Running /\ Unknown \in Verdict \ {Error}
    BY DEF Running, CommitSteps, TreeSteps, PositionSteps, Verdict, Unknown, Error
<1>2. CASE call.binding.kind = "hybrid" /\ call.todo = <<"commit", "tree">> /\ call.verdict = Valid
    <2>1. Unknown # Stale /\ Unknown # Valid
        BY DEF Unknown, Stale, Valid
    <2>2. QED
        BY <1>1, <1>2, <2>1, HalfEnds
<1>3. CASE \E half : call.todo = <<half>> /\ call.verdict \in Verdict \ {Error}
    <2>1. PICK half : call.todo = <<half>>
        BY <1>3
    <2>2. Combine(call.verdict, Unknown) = Unknown
        BY <1>3, VerdictTypes
    <2>3. Unknown \notin {Valid, Stale}
        BY DEF Unknown, Stale, Valid
    <2>4. QED
        BY <1>1, <2>1, <2>2, <2>3, CallEnds
<1>4. call.verdict \in Verdict /\ Valid \in Verdict \ {Error}
    BY DEF TypeOK, Verdict, Valid, Error
<1>5. QED
    BY <1>2, <1>3, <1>4 DEF Placed

\* A read that answers nothing and resolves nothing.
LEMMA UnchangedCall ==
    ASSUME RevalInv, UNCHANGED call
    PROVE  call' = [call EXCEPT !.target = call.target]
BY DEF RevalInv, Placed

LEMMA HasCommitKeeps ==
    ASSUME RevalInv, HasCommit
    PROVE  RevalInv'
<1>1. Reads /\ pc = "has_commit" /\ Running
    BY DEF HasCommit, Running
<1>2. CASE Answer(Unknown)
    BY <1>1, <1>2, UnknownEnds DEF CommitSteps
<1>3. CASE pc' = "resolve_for_commit" /\ UNCHANGED call
    <2>1. call' = [call EXCEPT !.target = call.target]
        BY <1>3, UnchangedCall
    <2>2. TypeOK' /\ Placed' /\ Histories' /\ TruthIsHeld' /\ VerdictsHeld' /\ HybridHeldUnderForward'
        BY <1>1, <1>3, <2>1, CallGoesOn DEF CommitSteps
    <2>3. CommitIsHeld' /\ TreeIsHeld' /\ HybridIsHeld' /\ PositionIsHeld'
        BY <1>3 DEF CommitIsHeld, TreeIsHeld, HybridIsHeld, PositionIsHeld, TreeSteps
    <2>4. QED
        BY <2>2, <2>3 DEF RevalInv
<1>4. QED
    BY <1>2, <1>3 DEF HasCommit, Goto

LEMMA ResolveForCommitKeeps ==
    ASSUME RevalInv, ResolveForCommit
    PROVE  RevalInv'
<1>1. Reads /\ pc = "resolve_for_commit" /\ Running
    BY DEF ResolveForCommit, Resolve, Running
<1>2. CASE Answer(Unknown)
    BY <1>1, <1>2, UnknownEnds DEF CommitSteps
<1>3. CASE at # NoCommit /\ pc' = "walk" /\ call' = [call EXCEPT !.target = at]
    <2>1. /\ call'.binding = call.binding /\ call'.target = at /\ call'.verdict = call.verdict
          /\ TypeOK' /\ Placed' /\ Histories' /\ TruthIsHeld'
          /\ VerdictsHeld' /\ HybridHeldUnderForward'
        BY <1>1, <1>3, CallGoesOn DEF CommitSteps
    <2>2. /\ commits' = commits /\ present' = present /\ at' = at
          /\ held' = held /\ forward' = forward
        BY <1>1, ReadsKeep
    <2>3. Truth(call.binding) \in held
        BY <1>1 DEF RevalInv, TruthIsHeld
    <2>4. CommitIsHeld'
        <3>0. IsReached(call.binding.commit, at) => call.binding.commit \in present
            BY <1>3 DEF RevalInv, TypeOK, Histories, IsReached
        <3>1. call.binding.kind = "commit" /\ call.binding.commit \in present
                => ValidIf(IsReached(call.binding.commit, at)) \in held
            BY <1>3, <2>3 DEF Truth, CommitTruth
        <3>2. IsReached(call.binding.commit, call.target)' = IsReached(call.binding.commit, at)
            BY <2>1, <2>2 DEF IsReached, History
        <3>3. QED
            BY <2>1, <2>2, <3>0, <3>1, <3>2 DEF CommitIsHeld, ValidIf
    <2>5. HybridIsHeld'
        <3>1. call.binding.kind = "hybrid" /\ call.binding.commit \in present
                => Combine(ValidIf(IsReached(call.binding.commit, at)),
                           ValidIf(HasTree(call.binding.tree, at))) \in held
            BY <1>3, <2>3 DEF Truth, CommitTruth, TreeTruth
        <3>2. at \in History(at)
            BY <1>3 DEF RevalInv, TypeOK, Histories
        <3>3. QED
            BY <1>3, <2>1, <2>2, <3>1, <3>2 DEF HybridIsHeld, IsReached, HasTree, History, TreeSteps
    <2>6. TreeIsHeld' /\ PositionIsHeld'
        BY <1>3 DEF TreeIsHeld, PositionIsHeld
    <2>7. QED
        BY <2>1, <2>4, <2>5, <2>6 DEF RevalInv
<1>4. QED
    BY <1>2, <1>3 DEF ResolveForCommit, Resolve, Goto

LEMMA WalkHistoryKeeps ==
    ASSUME RevalInv, WalkHistory
    PROVE  RevalInv'
<1> DEFINE c == call.binding.commit
           reached == ValidIf(IsReached(c, call.target))
<1>1. Reads /\ pc = "walk" /\ Running
    BY DEF WalkHistory, Running
<1>2. PICK v : /\ Answer(v)
               /\ v = reached \/ (v = Stale /\ call.target \notin present)
    BY DEF WalkHistory
<1>3. v \in {Valid, Stale} /\ reached \in {Valid, Stale}
    BY <1>2, VerdictTypes
<1>4. v \in Verdict \ {Error} /\ Valid # Stale
    BY <1>3 DEF Verdict, Valid, Stale, Error
<1>5. call.verdict = Valid
    BY <1>1 DEF RevalInv, Placed, CommitSteps
<1>6. CASE call.binding.kind = "commit" /\ call.todo = <<"commit">>
    <2>1. Combine(call.verdict, v) = v
        BY <1>4, <1>5, VerdictTypes
    <2>2. v = Valid \/ Undisturbed => v \in held
        <3>1. Undisturbed => call.target \in present /\ c \in present
            BY <1>6 DEF Undisturbed
        <3>2. v = Valid => v = reached /\ IsReached(c, call.target)
            BY <1>2, <1>4 DEF ValidIf
        <3>3. QED
            BY <1>1, <1>2, <1>6, <3>1, <3>2 DEF RevalInv, CommitIsHeld
    <2>3. QED
        BY <1>1, <1>2, <1>4, <1>6, <2>1, <2>2, CallEnds
<1>7. CASE call.binding.kind = "hybrid" /\ call.todo = <<"commit", "tree">>
    <2>1. forward =>
            /\ call.target \in History(at)
            /\ c \in present => Combine(reached, ValidIf(HasTree(call.binding.tree, call.target))) \in held
        BY <1>1, <1>7 DEF RevalInv, HybridIsHeld
    <2>2. forward => call.target \in present /\ History(call.target) \subseteq History(at)
        <3>1. SUFFICES ASSUME forward
                       PROVE  call.target \in present /\ History(call.target) \subseteq History(at)
            OBVIOUS
        <3>2. at # NoCommit
            BY <2>1, <3>1 DEF History
        <3>3. at \in present /\ at \in DOMAIN commits
            BY <3>2 DEF RevalInv, TypeOK
        <3>4. QED
            BY <2>1, <3>1, <3>3 DEF RevalInv, Histories
    <2>3. forward => v = reached
        BY <1>2, <2>2
    <2>4. forward /\ c \in present /\ v = Stale => Stale \in held
        <3>1. Combine(Stale, ValidIf(HasTree(call.binding.tree, call.target))) = Stale
            BY VerdictTypes
        <3>2. QED
            BY <2>1, <2>3, <3>1
    <2>5. forward /\ v = Valid => c \in History(at)
        <3>1. reached = Valid => c \in History(call.target)
            BY <1>4 DEF ValidIf, IsReached
        <3>2. QED
            BY <2>2, <2>3, <3>1
    <2>6. QED
        BY <1>1, <1>2, <1>4, <1>5, <1>7, <2>4, <2>5, HalfEnds
<1>8. QED
    BY <1>1, <1>6, <1>7 DEF RevalInv, Placed, CommitSteps

LEMMA ResolveForTreeKeeps ==
    ASSUME RevalInv, ResolveForTree
    PROVE  RevalInv'
<1>1. Reads /\ pc = "resolve_for_tree" /\ Running
    BY DEF ResolveForTree, Resolve, Running
<1>2. CASE Answer(Unknown)
    BY <1>1, <1>2, UnknownEnds DEF TreeSteps
<1>3. CASE at # NoCommit /\ pc' = "search" /\ call' = [call EXCEPT !.target = at]
    <2>1. /\ call'.binding = call.binding /\ call'.target = at /\ call'.verdict = call.verdict
          /\ TypeOK' /\ Placed' /\ Histories' /\ TruthIsHeld'
          /\ VerdictsHeld' /\ HybridHeldUnderForward'
        BY <1>1, <1>3, CallGoesOn DEF TreeSteps
    <2>2. /\ commits' = commits /\ present' = present /\ at' = at
          /\ held' = held /\ forward' = forward
        BY <1>1, ReadsKeep
    <2>3. Truth(call.binding) \in held
        BY <1>1 DEF RevalInv, TruthIsHeld
    <2>4. TreeIsHeld'
        <3>1. call.binding.kind = "tree" => ValidIf(HasTree(call.binding.tree, at)) \in held
            BY <1>3, <2>3 DEF Truth, TreeTruth
        <3>2. QED
            BY <2>1, <2>2, <3>1 DEF TreeIsHeld, HasTree
    <2>5. HybridIsHeld'
        <3>1. SUFFICES ASSUME forward, call.binding.kind = "hybrid"
                       PROVE  HybridIsHeld'
            BY <2>1, <2>2 DEF HybridIsHeld
        <3>2. /\ call.verdict = Stale /\ call.binding.commit \in present => Stale \in held
              /\ call.verdict = Valid => call.binding.commit \in History(at)
            BY <1>1, <3>1 DEF RevalInv, HybridIsHeld, TreeSteps
        <3>3. ASSUME call.verdict = Valid
              PROVE  ValidIf(HasTree(call.binding.tree, at)) \in held
            <4>0. call.binding.commit \in present
                BY <1>3, <3>2, <3>3 DEF RevalInv, TypeOK, Histories
            <4>1. CommitTruth(call.binding.commit) = Valid
                BY <1>3, <3>2, <3>3, <4>0 DEF CommitTruth, IsReached, ValidIf
            <4>2. TreeTruth(call.binding.tree) = ValidIf(HasTree(call.binding.tree, at))
                BY <1>3 DEF TreeTruth
            <4>3. Truth(call.binding) = Combine(Valid, ValidIf(HasTree(call.binding.tree, at)))
                BY <3>1, <4>1, <4>2 DEF Truth
            <4>4. ValidIf(HasTree(call.binding.tree, at)) \in Verdict
                BY DEF ValidIf, Verdict
            <4>5. Combine(Valid, ValidIf(HasTree(call.binding.tree, at)))
                    = ValidIf(HasTree(call.binding.tree, at))
                BY <4>4, VerdictTypes
            <4>6. QED
                BY <2>3, <4>3, <4>5
        <3>4. QED
            BY <1>3, <2>1, <2>2, <3>2, <3>3 DEF HybridIsHeld, HasTree
    <2>6. CommitIsHeld' /\ PositionIsHeld'
        BY <1>3 DEF CommitIsHeld, PositionIsHeld
    <2>7. QED
        BY <2>1, <2>4, <2>5, <2>6 DEF RevalInv
<1>4. QED
    BY <1>2, <1>3 DEF ResolveForTree, Resolve, Goto

LEMMA SearchTreeKeeps ==
    ASSUME RevalInv, SearchTree
    PROVE  RevalInv'
<1> DEFINE found == ValidIf(HasTree(call.binding.tree, call.target))
<1>1. Reads /\ pc = "search" /\ Running
    BY DEF SearchTree, Running
<1>2. PICK v : /\ Answer(v)
               /\ v = found \/ (v = Error /\ call.target \notin present)
    BY DEF SearchTree, Outcomes
<1>3. found \in {Valid, Stale}
    BY VerdictTypes
<1>4. v \in Verdict
    BY <1>2, <1>3 DEF Verdict
<1>5. /\ call.todo = <<"tree">>
      /\ \/ call.binding.kind = "tree" /\ call.verdict = Valid
         \/ call.binding.kind = "hybrid" /\ call.verdict # Error
    BY <1>1 DEF RevalInv, Placed, TreeSteps
<1>6. SUFFICES ASSUME call.binding.kind # "hybrid" \/ forward,
                      Combine(call.verdict, v) = Valid \/ Undisturbed,
                      Combine(call.verdict, v) \in {Valid, Stale}
               PROVE  Combine(call.verdict, v) \in held
    BY <1>1, <1>2, <1>4, <1>5, CallEnds
<1>7. call.verdict \in {Valid, Stale} /\ v \in {Valid, Stale}
    <2>1. call.verdict \in Verdict
        BY DEF RevalInv, TypeOK, Verdict
    <2>2. QED
        BY <1>4, <1>6, <2>1, VerdictTypes
<1>8. v = found
    BY <1>2, <1>7 DEF Valid, Stale, Error
<1>9. Combine(Valid, v) = v /\ Combine(Stale, v) = Stale
    BY <1>4, <1>7, VerdictTypes
<1>10. CASE call.binding.kind = "tree"
    <2>1. call.verdict = Valid
        BY <1>5, <1>10
    <2>2. found \in held
        BY <1>1, <1>10 DEF RevalInv, TreeIsHeld
    <2>3. QED
        BY <1>8, <1>9, <2>1, <2>2
<1>11. CASE call.binding.kind = "hybrid"
    <2>1. call.verdict = Stale => call.binding.commit \in present
        <3>1. Stale # Valid
            BY DEF Valid, Stale
        <3>2. QED
            BY <1>6, <1>9, <1>11, <3>1 DEF Undisturbed
    <2>2. /\ call.verdict = Stale /\ call.binding.commit \in present => Stale \in held
          /\ call.verdict = Valid => found \in held
        BY <1>1, <1>6, <1>11 DEF RevalInv, HybridIsHeld, TreeSteps
    <2>3. QED
        BY <1>7, <1>8, <1>9, <2>1, <2>2
<1>12. QED
    BY <1>5, <1>10, <1>11

LEMMA ResolveForTraceKeeps ==
    ASSUME RevalInv, ResolveForTrace
    PROVE  RevalInv'
<1>1. Reads /\ pc = "resolve_for_trace" /\ Running
    BY DEF ResolveForTrace, Resolve, Running
<1>2. CASE Answer(Unknown)
    BY <1>1, <1>2, UnknownEnds DEF PositionSteps
<1>3. CASE at # NoCommit /\ pc' = "has_genesis" /\ call' = [call EXCEPT !.target = at]
    <2>1. /\ call'.binding = call.binding /\ call'.target = at /\ call'.verdict = call.verdict
          /\ TypeOK' /\ Placed' /\ Histories' /\ TruthIsHeld'
          /\ VerdictsHeld' /\ HybridHeldUnderForward'
        BY <1>1, <1>3, CallGoesOn DEF PositionSteps
    <2>2. /\ commits' = commits /\ present' = present /\ at' = at
          /\ held' = held /\ forward' = forward
        BY <1>1, ReadsKeep
    <2>3. Truth(call.binding) \in held /\ call.binding.kind = "position"
        BY <1>1 DEF RevalInv, TruthIsHeld, Placed, PositionSteps
    <2>4. Genesis \in present => ValidIf(Traced(call.binding, at)) \in held
        BY <1>3, <2>3 DEF Truth, PositionTruth, Genesis
    <2>5. Traced(call.binding, call.target)' = Traced(call.binding, at)
        BY <2>1, <2>2 DEF Traced, Destinations
    <2>6. PositionIsHeld'
        BY <1>3, <2>1, <2>2, <2>4, <2>5 DEF PositionIsHeld, ValidIf, Genesis
    <2>7. CommitIsHeld' /\ TreeIsHeld' /\ HybridIsHeld'
        BY <1>3 DEF CommitIsHeld, TreeIsHeld, HybridIsHeld, TreeSteps
    <2>8. QED
        BY <2>1, <2>6, <2>7 DEF RevalInv
<1>4. QED
    BY <1>2, <1>3 DEF ResolveForTrace, Resolve, Goto

LEMMA HasGenesisKeeps ==
    ASSUME RevalInv, HasGenesis
    PROVE  RevalInv'
<1>1. Reads /\ pc = "has_genesis" /\ Running /\ UNCHANGED call
    BY DEF HasGenesis, Running
<1>2. pc' = IF Genesis \in present THEN "trace" ELSE "not_found"
    BY DEF HasGenesis, Goto
<1>3. call' = [call EXCEPT !.target = call.target]
    BY <1>1, UnchangedCall
<1>4. call.target # NoCommit
    BY <1>1 DEF RevalInv, TypeOK
<1>5. TypeOK' /\ Placed' /\ Histories' /\ TruthIsHeld' /\ VerdictsHeld' /\ HybridHeldUnderForward'
    BY <1>1, <1>2, <1>3, <1>4, CallGoesOn DEF PositionSteps
<1>6. /\ commits' = commits /\ present' = present /\ at' = at
      /\ held' = held /\ forward' = forward
    BY <1>1, ReadsKeep
<1>7. PositionIsHeld'
    <2>1. Genesis \in present => ValidIf(Traced(call.binding, call.target)) \in held
        BY <1>1 DEF RevalInv, PositionIsHeld
    <2>2. QED
        BY <1>1, <1>2, <1>6, <2>1 DEF PositionIsHeld, Traced, Destinations, Genesis
<1>8. CommitIsHeld' /\ TreeIsHeld' /\ HybridIsHeld'
    BY <1>2 DEF CommitIsHeld, TreeIsHeld, HybridIsHeld, TreeSteps
<1>9. QED
    BY <1>5, <1>7, <1>8 DEF RevalInv

\* An answer about a position ends the call.
LEMMA PositionEnds ==
    ASSUME RevalInv, Reads, pc \in PositionSteps, NEW v \in Verdict, Answer(v),
           (v = Valid \/ Undisturbed) /\ v \in {Valid, Stale} => v \in held
    PROVE  RevalInv'
<1>1. call.todo = <<"position">> /\ call.verdict = Valid /\ Running
    BY DEF RevalInv, Placed, Running, PositionSteps
<1>2. Combine(call.verdict, v) = v
    BY <1>1, VerdictTypes
<1>3. QED
    BY <1>1, <1>2, CallEnds

LEMMA TraceKeeps ==
    ASSUME RevalInv, Trace
    PROVE  RevalInv'
<1>1. Reads /\ pc = "trace" /\ Running /\ pc \in PositionSteps
    BY DEF Trace, Running, PositionSteps
<1>2. ValidIf(Traced(call.binding, call.target)) \in held
    BY <1>1 DEF RevalInv, PositionIsHeld
<1>3. CASE \E v \in {Unknown, Error} : Answer(v)
    <2>1. PICK v \in {Unknown, Error} : Answer(v)
        BY <1>3
    <2>2. v \in Verdict /\ v \notin {Valid, Stale}
        BY DEF Verdict, Valid, Stale, Unknown, Error
    <2>3. QED
        BY <1>1, <2>1, <2>2, PositionEnds
<1>4. CASE Traced(call.binding, call.target) /\ Answer(Valid)
    <2>1. Valid \in Verdict /\ Valid \in held
        BY <1>2, <1>4 DEF Verdict, ValidIf
    <2>2. QED
        BY <1>1, <1>4, <2>1, PositionEnds
<1>5. CASE ~Traced(call.binding, call.target) /\ pc' = "not_found" /\ UNCHANGED call
    <2>1. call' = [call EXCEPT !.target = call.target]
        BY <1>5, UnchangedCall
    <2>2. TypeOK' /\ Placed' /\ Histories' /\ TruthIsHeld' /\ VerdictsHeld' /\ HybridHeldUnderForward'
        BY <1>1, <1>5, <2>1, CallGoesOn DEF PositionSteps
    <2>3. held' = held
        BY <1>1, ReadsKeep
    <2>4. Stale \in held
        BY <1>2, <1>5 DEF ValidIf
    <2>5. PositionIsHeld'
        BY <1>5, <2>3, <2>4 DEF PositionIsHeld
    <2>6. CommitIsHeld' /\ TreeIsHeld' /\ HybridIsHeld'
        BY <1>5 DEF CommitIsHeld, TreeIsHeld, HybridIsHeld, TreeSteps
    <2>7. QED
        BY <2>2, <2>5, <2>6 DEF RevalInv
<1>6. QED
    BY <1>3, <1>4, <1>5 DEF Trace, Goto

LEMMA NotFoundKeeps ==
    ASSUME RevalInv, NotFound
    PROVE  RevalInv'
<1>1. Reads /\ pc = "not_found" /\ Running /\ pc \in PositionSteps
    BY DEF NotFound, Running, PositionSteps
<1>2. CASE Genesis \in present /\ Answer(Stale)
    <2>1. Stale \in Verdict /\ Stale \in held
        BY <1>1, <1>2 DEF RevalInv, PositionIsHeld, Verdict
    <2>2. QED
        BY <1>1, <1>2, <2>1, PositionEnds
<1>3. CASE Genesis \notin present /\ pc' = "resolve_for_match" /\ UNCHANGED call
    <2>1. call' = [call EXCEPT !.target = call.target]
        BY <1>3, UnchangedCall
    <2>2. TypeOK' /\ Placed' /\ Histories' /\ TruthIsHeld' /\ VerdictsHeld' /\ HybridHeldUnderForward'
        BY <1>1, <1>3, <2>1, CallGoesOn DEF PositionSteps
    <2>3. present' = present
        BY <1>1, ReadsKeep
    <2>4. PositionIsHeld'
        BY <1>3, <2>3 DEF PositionIsHeld, Genesis
    <2>5. CommitIsHeld' /\ TreeIsHeld' /\ HybridIsHeld'
        BY <1>3 DEF CommitIsHeld, TreeIsHeld, HybridIsHeld, TreeSteps
    <2>6. QED
        BY <2>2, <2>4, <2>5 DEF RevalInv
<1>4. QED
    BY <1>2, <1>3 DEF NotFound, Goto

LEMMA NoReferenceKeeps ==
    ASSUME RevalInv, NoReference
    PROVE  RevalInv'
<1>1. Reads /\ pc = "resolve_for_match" /\ pc \in PositionSteps /\ Answer(Stale)
    BY DEF NoReference, PositionSteps
<1>2. ~Undisturbed
    BY <1>1 DEF NoReference, RevalInv, Placed, PositionIsHeld, Undisturbed, Genesis
<1>3. Stale \in Verdict /\ Stale # Valid
    BY DEF Verdict, Valid, Stale
<1>4. QED
    BY <1>1, <1>2, <1>3, PositionEnds

LEMMA ResolveForMatchKeeps ==
    ASSUME RevalInv, ResolveForMatch
    PROVE  RevalInv'
<1>1. Reads /\ pc = "resolve_for_match" /\ Running
    BY DEF ResolveForMatch, Resolve, Running
<1>2. CASE Answer(Unknown)
    BY <1>1, <1>2, UnknownEnds DEF PositionSteps
<1>3. CASE at # NoCommit /\ pc' = "match" /\ call' = [call EXCEPT !.target = at]
    <2>1. /\ call'.binding = call.binding /\ call'.target = at /\ call'.verdict = call.verdict
          /\ TypeOK' /\ Placed' /\ Histories' /\ TruthIsHeld'
          /\ VerdictsHeld' /\ HybridHeldUnderForward'
        BY <1>1, <1>3, CallGoesOn DEF PositionSteps
    <2>2. /\ commits' = commits /\ present' = present /\ at' = at
          /\ held' = held /\ forward' = forward
        BY <1>1, ReadsKeep
    <2>3. Truth(call.binding) \in held /\ call.binding.kind = "position"
        BY <1>1 DEF RevalInv, TruthIsHeld, Placed, PositionSteps
    <2>4. ValidIf(Matched(call.binding, at)) \in held
        BY <1>1, <1>3, <2>3 DEF Truth, PositionTruth, Genesis, RevalInv, PositionIsHeld
    <2>5. Matched(call.binding, call.target)' = Matched(call.binding, at)
        BY <2>1, <2>2 DEF Matched
    <2>6. PositionIsHeld'
        BY <1>3, <2>2, <2>4, <2>5 DEF PositionIsHeld, ValidIf
    <2>7. CommitIsHeld' /\ TreeIsHeld' /\ HybridIsHeld'
        BY <1>3 DEF CommitIsHeld, TreeIsHeld, HybridIsHeld, TreeSteps
    <2>8. QED
        BY <2>1, <2>6, <2>7 DEF RevalInv
<1>4. QED
    BY <1>2, <1>3 DEF ResolveForMatch, Resolve, Goto

LEMMA MatchKeeps ==
    ASSUME RevalInv, Match
    PROVE  RevalInv'
<1> DEFINE matched == ValidIf(Matched(call.binding, call.target))
<1>1. Reads /\ pc = "match" /\ pc \in PositionSteps
    BY DEF Match, PositionSteps
<1>2. PICK v : /\ Answer(v)
               /\ v = matched \/ (v = Error /\ call.target \notin present)
    BY DEF Match, Outcomes
<1>3. matched \in {Valid, Stale} /\ matched \in held
    BY <1>1, VerdictTypes DEF RevalInv, PositionIsHeld
<1>4. v \in Verdict
    BY <1>2, <1>3 DEF Verdict
<1>5. v \in {Valid, Stale} => v = matched
    BY <1>2 DEF Valid, Stale, Error
<1>6. QED
    BY <1>1, <1>2, <1>3, <1>4, <1>5, PositionEnds

\* A call starts in a true verdict: that of the instant at which it starts.
LEMMA BeginKeeps ==
    ASSUME RevalInv, Begin
    PROVE  RevalInv'
<1> USE DEF RevalInv
<1>1. PICK b \in Binding :
        /\ call' = [NoCall EXCEPT !.binding = b, !.todo = Halves(b)]
        /\ pc' = FirstRead[Halves(b)[1]]
        /\ held' = {Truth(b)}
    BY DEF Begin, Goto
<1>2. /\ commits' = commits /\ present' = present /\ at' = at /\ forward' = TRUE
    BY DEF Begin, repository
<1>3. /\ call'.binding = b /\ call'.todo = Halves(b)
      /\ call'.target = NoCommit /\ call'.verdict = Valid
      /\ call' = [binding |-> call'.binding, todo |-> call'.todo,
                  target |-> call'.target, verdict |-> call'.verdict]
    BY <1>1 DEF NoCall
<1>4. b.kind \in {"commit", "tree", "hybrid", "position"}
    BY BindingFields
<1>5. /\ b.kind = "commit" => Halves(b) = <<"commit">> /\ pc' = "has_commit"
      /\ b.kind = "tree" => Halves(b) = <<"tree">> /\ pc' = "resolve_for_tree"
      /\ b.kind = "hybrid" => Halves(b) = <<"commit", "tree">> /\ pc' = "has_commit"
      /\ b.kind = "position" => Halves(b) = <<"position">> /\ pc' = "resolve_for_trace"
    BY <1>1 DEF Halves, FirstRead
<1>6. Binding' = Binding
    BY <1>2 DEF Binding, CommitBinding, TreeBinding, HybridBinding, PositionBinding
<1>7. Histories'
    BY <1>2 DEF Histories, History
<1>8. TypeOK'
    <2>1. Halves(b) \in Seq(DOMAIN FirstRead)
        <3>1. DOMAIN FirstRead = {"commit", "tree", "position"}
            BY DEF FirstRead
        <3>2. \A S : \A x, y \in S : <<x>> \in Seq(S) /\ <<x, y>> \in Seq(S)
            OBVIOUS
        <3>3. QED
            BY <1>4, <1>5, <3>1, <3>2
    <2>2. held' \subseteq {Valid, Stale, Unknown}
        BY <1>1, TruthType
    <2>3. pc' \notin {"walk", "search", "has_genesis", "trace", "match"}
        BY <1>4, <1>5
    <2>4. QED
        BY <1>1, <1>2, <1>3, <1>6, <2>1, <2>2, <2>3 DEF TypeOK
<1>9. Placed'
    BY <1>3, <1>4, <1>5 DEF Placed, CommitSteps, TreeSteps, PositionSteps
<1>10. TruthIsHeld'
    <2>1. Truth(call.binding)' = Truth(b)
        BY <1>2, <1>3 DEF Truth, CommitTruth, TreeTruth, PositionTruth, IsReached, HasTree,
                          Traced, Matched, Destinations, History
    <2>2. QED
        BY <1>1, <2>1 DEF TruthIsHeld
<1>11. CommitIsHeld' /\ TreeIsHeld' /\ PositionIsHeld'
    BY <1>4, <1>5 DEF CommitIsHeld, TreeIsHeld, PositionIsHeld
<1>12. HybridIsHeld'
    BY <1>3, <1>4, <1>5 DEF HybridIsHeld, TreeSteps
<1>13. VerdictsHeld' /\ HybridHeldUnderForward'
    BY <1>4, <1>5 DEF VerdictsHeld, HybridHeldUnderForward, Answered
<1>14. QED
    BY <1>7, <1>8, <1>9, <1>10, <1>11, <1>12, <1>13

\* With no call under way, the invariant is that of the repository.
LEMMA IdleKeeps ==
    ASSUME RevalInv, UNCHANGED repository, pc' = "idle", call' = NoCall, held' = {}, forward' = TRUE
    PROVE  RevalInv'
<1>1. commits' = commits /\ present' = present /\ at' = at
    BY DEF repository
<1>2. Histories'
    BY <1>1 DEF RevalInv, Histories, History
<1>3. TypeOK'
    <2>1. <<>> \in Seq(DOMAIN FirstRead)
        OBVIOUS
    <2>2. QED
        BY <1>1, <2>1 DEF RevalInv, TypeOK, NoCall
<1>4. Placed'
    BY DEF Placed, NoCall, CommitSteps, TreeSteps, PositionSteps
<1>5. QED
    BY <1>2, <1>3, <1>4 DEF RevalInv, TruthIsHeld, Running, CommitIsHeld, TreeIsHeld, HybridIsHeld,
                            PositionIsHeld, VerdictsHeld, HybridHeldUnderForward, Answered, TreeSteps

LEMMA StutterKeeps ==
    ASSUME RevalInv, UNCHANGED vars
    PROVE  RevalInv'
<1>1. /\ commits' = commits /\ present' = present /\ at' = at
      /\ pc' = pc /\ call' = call /\ held' = held /\ forward' = forward
    BY DEF vars, repository
<1>2. Binding' = Binding
    BY <1>1 DEF Binding, CommitBinding, TreeBinding, HybridBinding, PositionBinding
<1>3. TypeOK' /\ Placed'
    BY <1>1, <1>2 DEF RevalInv, TypeOK, Placed
<1>4. Histories'
    BY <1>1 DEF RevalInv, Histories, History
<1>5. TruthIsHeld'
    BY <1>1 DEF RevalInv, TruthIsHeld, Running, Truth, CommitTruth, TreeTruth, PositionTruth,
                IsReached, HasTree, Traced, Matched, Destinations, History
<1>6. CommitIsHeld' /\ TreeIsHeld' /\ HybridIsHeld'
    BY <1>1 DEF RevalInv, CommitIsHeld, TreeIsHeld, HybridIsHeld, IsReached, HasTree, History
<1>7. PositionIsHeld'
    <2>1. /\ Traced(call.binding, call.target)' = Traced(call.binding, call.target)
          /\ Matched(call.binding, call.target)' = Matched(call.binding, call.target)
        BY <1>1 DEF Traced, Matched, Destinations
    <2>2. QED
        BY <1>1, <2>1 DEF RevalInv, PositionIsHeld, Genesis, ValidIf
<1>8. VerdictsHeld' /\ HybridHeldUnderForward'
    BY <1>1 DEF RevalInv, VerdictsHeld, HybridHeldUnderForward, Answered, Trusted, Undisturbed
<1>9. QED
    BY <1>3, <1>4, <1>5, <1>6, <1>7, <1>8 DEF RevalInv

LEMMA RevalInvInit ==
    ASSUME Init
    PROVE  RevalInv
<1>1. commits = <<>> /\ present = {} /\ at = NoCommit /\ pc = "idle" /\ call = NoCall /\ held = {}
        /\ forward = TRUE
    BY DEF Init
<1>2. Histories
    BY <1>1 DEF Histories
<1>3. TypeOK
    <2>1. <<>> \in Seq([history : SUBSET (1..MaxCommits), snapshot : Snapshot])
          /\ <<>> \in Seq(DOMAIN FirstRead) /\ Len(<<>>) = 0 /\ DOMAIN <<>> = {}
        OBVIOUS
    <2>2. 0 <= MaxCommits
        BY RevalidateAssumption
    <2>3. QED
        BY <1>1, <2>1, <2>2 DEF TypeOK, NoCall
<1>4. Placed
    BY <1>1 DEF Placed, NoCall, CommitSteps, TreeSteps, PositionSteps
<1>5. QED
    BY <1>1, <1>2, <1>3, <1>4 DEF RevalInv, TruthIsHeld, Running, CommitIsHeld, TreeIsHeld,
            HybridIsHeld, PositionIsHeld, VerdictsHeld, HybridHeldUnderForward, Answered, TreeSteps

LEMMA RevalInvNext ==
    ASSUME RevalInv, [Next]_vars
    PROVE  RevalInv'
<1>1. CASE Others
    <2>1. Evolves /\ Histories' /\ TypeOK'
        BY <1>1, OthersEvolve, OthersKeepHistories, OthersType DEF RevalInv
    <2>2. QED
        BY <1>1, <2>1, OthersKeepHeld DEF RevalInv
<1>2. CASE Begin
    BY <1>2, BeginKeeps
<1>3. CASE HasCommit
    BY <1>3, HasCommitKeeps
<1>4. CASE ResolveForCommit
    BY <1>4, ResolveForCommitKeeps
<1>5. CASE WalkHistory
    BY <1>5, WalkHistoryKeeps
<1>6. CASE ResolveForTree
    BY <1>6, ResolveForTreeKeeps
<1>7. CASE SearchTree
    BY <1>7, SearchTreeKeeps
<1>8. CASE ResolveForTrace
    BY <1>8, ResolveForTraceKeeps
<1>9. CASE HasGenesis
    BY <1>9, HasGenesisKeeps
<1>10. CASE Trace
    BY <1>10, TraceKeeps
<1>11. CASE NotFound
    BY <1>11, NotFoundKeeps
<1>12. CASE NoReference
    BY <1>12, NoReferenceKeeps
<1>13. CASE ResolveForMatch
    BY <1>13, ResolveForMatchKeeps
<1>14. CASE Match
    BY <1>14, MatchKeeps
<1>15. CASE Return
    BY <1>15, IdleKeeps DEF Return, Goto
<1>16. CASE UNCHANGED vars
    BY <1>16, StutterKeeps
<1>17. QED
    BY <1>1, <1>2, <1>3, <1>4, <1>5, <1>6, <1>7, <1>8, <1>9, <1>10, <1>11, <1>12, <1>13, <1>14,
       <1>15, <1>16 DEF Next, Others

\* Throughout `revalidate', whatever other processes do between its reads, the
\* verdict to come is among those that held: the invariant all the others rest on.
THEOREM RevalInvariant == Spec => []RevalInv
<1>1. Init => RevalInv
    BY RevalInvInit
<1>2. RevalInv /\ [Next]_vars => RevalInv'
    BY RevalInvNext
<1>3. QED
    BY <1>1, <1>2, PTL DEF Spec

\* `revalidate' reads trees and histories only of a commit that the revision
\* named (`resolve_commit'), and of a binding's own.
THEOREM RevalTypeCorrect == Spec => []TypeOK
<1>1. RevalInv => TypeOK
    BY DEF RevalInv
<1>2. QED
    BY <1>1, RevalInvariant, PTL

\* `valid' and `stale', answered of a commit, a tree or a position, were true at
\* some instant of the call, whatever moved or was pruned while it ran.
THEOREM VerdictsWereTrue == Spec => []VerdictsHeld
<1>1. RevalInv => VerdictsHeld
    BY DEF RevalInv
<1>2. QED
    BY <1>1, RevalInvariant, PTL

\* `combine' of the two halves of a hybrid, read at two times, was true at one, if
\* the revision only moved forward in between.
THEOREM HybridVerdictsWereTrue == Spec => []HybridHeldUnderForward
<1>1. RevalInv => HybridHeldUnderForward
    BY DEF RevalInv
<1>2. QED
    BY <1>1, RevalInvariant, PTL

-----------------------------------------------------------------------------
(***************************************************************************)
(* Pruning                                                                 *)
(***************************************************************************)

\* A text found whole somewhere in a file is in some window of its own width.
LEMMA OccurrenceIsWindow ==
    ASSUME NEW f \in Seq(Line), NEW text, Occurs(text, f)
    PROVE  \E i \in Windows(f, Len(text)) : WindowAt(f, Len(text), i) = text
<1>1. PICK r \in Ranges(f) : Text(f, r) = text
    BY DEF Occurs
<1>2. PICK m \in Nat : m = Len(f) /\ DOMAIN f = 1..m
    OBVIOUS
<1>3. r.first \in 1..m /\ r.last \in 1..m /\ r.first <= r.last
    BY <1>2 DEF Ranges
<1>4. PICK i \in Nat, j \in Nat : i = r.first /\ j = r.last
    BY <1>3
<1>5. i \in 1..m /\ j \in 1..m /\ i <= j
    BY <1>3, <1>4
<1>6. Len(SubSeq(f, i, j)) = j - i + 1
    <2>1. \A k \in i..j : f[k] \in Line
        BY <1>2, <1>5
    <2>2. i \in Int /\ j \in Int
        OBVIOUS
    <2>3. Len(SubSeq(f, i, j)) = IF i <= j THEN j - i + 1 ELSE 0
        BY <2>1, <2>2, SubSeqProperties
    <2>4. QED
        BY <1>5, <2>3
<1>7. text = SubSeq(f, i, j)
    BY <1>1, <1>4 DEF Text
<1>8. i + (j - i + 1) - 1 = j
    OBVIOUS
<1>9. i \in Windows(f, Len(text))
    BY <1>2, <1>5, <1>6, <1>7, <1>8 DEF Windows
<1>10. WindowAt(f, Len(text), i) = text
    BY <1>6, <1>7, <1>8 DEF WindowAt
<1>11. QED
    BY <1>9, <1>10

\* What history finds at the anchored path, the fingerprint finds there.
LEMMA TracedIsMatched ==
    ASSUME TypeOK, NEW b \in PositionBinding, b.hints, at # NoCommit,
           commits[at].snapshot.path # NoFile, Traced(b, at)
    PROVE  Matched(b, at)
<1> DEFINE g == commits[b.genesis].snapshot.path
           f == commits[at].snapshot.path
<1>1. b \in Binding
    BY DEF Binding
<1>2. b.kind = "position"
    BY DEF PositionBinding
<1>3. /\ b.genesis \in DOMAIN commits
      /\ g # NoFile
      /\ b.range \in Ranges(g)
    BY <1>1, <1>2, BindingFields
<1>4. at \in DOMAIN commits
    BY DEF TypeOK
<1>5. commits[b.genesis].snapshot \in Snapshot /\ commits[at].snapshot \in Snapshot
    BY <1>3, <1>4, CommitNumbers DEF Commit
<1>6. Survives(g, f, b.range)
    BY DEF Traced, Destinations
<1>7. PICK before \in Snapshot, after \in Snapshot : before.path = g /\ after.path = f
    BY <1>5
<1> HIDE DEF g, f
<1>8. f \in Seq(Line)
    BY <1>7, RevalidateAssumption DEF f
<1>9. Occurs(Text(g, b.range), f)
    <2> DEFINE File == (UNION {{s.path, s.elsewhere} : s \in Snapshot}) \ {NoFile}
    <2>1. g \in File /\ f \in File
        BY <1>3, <1>7 DEF f
    <2>2. \A x, y \in File : \A r \in Ranges(x) : Survives(x, y, r) => Occurs(Text(x, r), y)
        BY RevalidateAssumption
    <2> HIDE DEF File
    <2>3. QED
        BY <1>3, <1>6, <2>1, <2>2
<1>10. PICK i \in Windows(f, Len(Text(g, b.range))) :
            WindowAt(f, Len(Text(g, b.range)), i) = Text(g, b.range)
    BY <1>8, <1>9, OccurrenceIsWindow
<1>11. QED
    BY <1>10 DEF Matched, f, g

\* No step but `git gc' takes commits away without making one, and it takes none
\* that the revision or another commit reaches.
LEMMA OnlyPruneTakes ==
    ASSUME TypeOK, [Next]_vars, present' # present, commits' = commits
    PROVE  /\ at' = at
           /\ present' \subseteq present
           /\ \A c \in present \ present' : c \notin History(at)
<1>1. ~MakeCommit
    <2>1. ASSUME MakeCommit PROVE FALSE
        <3>1. Len(commits') = Len(commits) + 1 /\ Len(commits) \in Nat
            BY <2>1, NewCommit, CommitNumbers
        <3>2. QED
            BY <3>1
    <2>2. QED
        BY <2>1
<1>2. CASE Prune
    BY <1>2 DEF Prune
<1>3. CASE Move
    BY <1>3 DEF Move
<1>4. CASE Begin \/ Return
    BY <1>4 DEF Begin, Return, repository
<1>5. CASE Reads
    BY <1>5, ReadsKeep
<1>6. CASE UNCHANGED vars
    BY <1>6 DEF vars, repository
<1>7. QED
    BY <1>1, <1>2, <1>3, <1>4, <1>5, <1>6
       DEF Next, HasCommit, ResolveForCommit, WalkHistory, ResolveForTree, SearchTree,
           ResolveForTrace, HasGenesis, Trace, NotFound, NoReference, ResolveForMatch, Match, Resolve

LEMMA PruneKeepsValid ==
    ASSUME TypeOK, [Next]_vars, present' # present, commits' = commits,
           NEW b \in Binding, Truth(b) = Valid,
           b.kind = "position" => b.hints /\ commits[at].snapshot.path # NoFile
    PROVE  Truth(b)' = Valid
<1>1. /\ at' = at
      /\ present' \subseteq present
      /\ \A c \in present \ present' : c \notin History(at)
    BY OnlyPruneTakes
<1>2. b.kind \in {"commit", "tree", "hybrid", "position"}
    BY BindingFields
<1>3. \A c : CommitTruth(c) = Valid => CommitTruth(c)' = Valid
    BY <1>1 DEF CommitTruth, ValidIf, IsReached, History, Valid, Stale, Unknown
<1>4. \A t : TreeTruth(t)' = TreeTruth(t)
    BY <1>1 DEF TreeTruth, HasTree
<1>5. CASE b.kind = "commit"
    BY <1>3, <1>5 DEF Truth
<1>6. CASE b.kind = "tree"
    BY <1>4, <1>6 DEF Truth
<1>7. CASE b.kind = "hybrid"
    <2>1. \A v, w : Combine(v, w) = Valid <=> v = Valid /\ w = Valid
        BY DEF Combine, ValidIf, Valid, Stale, Unknown, Error
    <2>2. CommitTruth(b.commit) = Valid /\ TreeTruth(b.tree) = Valid
        BY <1>7, <2>1 DEF Truth
    <2>3. CommitTruth(b.commit)' = Valid /\ TreeTruth(b.tree)' = Valid
        BY <1>3, <1>4, <2>2
    <2>4. Truth(b)' = Combine(CommitTruth(b.commit)', TreeTruth(b.tree)')
        BY <1>7 DEF Truth
    <2>5. QED
        BY <2>1, <2>3, <2>4
<1>8. CASE b.kind = "position"
    <2>1. b \in PositionBinding /\ b.hints /\ commits[at].snapshot.path # NoFile
        BY <1>8, BindingFields
    <2>2. PositionTruth(b) = Valid
        BY <1>8 DEF Truth
    <2>3. at # NoCommit
        BY <2>2 DEF PositionTruth, Valid, Unknown
    <2>4. IF b.genesis \in present THEN Traced(b, at) ELSE Matched(b, at)
        BY <2>2, <2>3 DEF PositionTruth, ValidIf, Valid, Stale
    <2>5. Traced(b, at) => Matched(b, at)
        BY <2>1, <2>3, TracedIsMatched
    <2>6. Traced(b, at)' = Traced(b, at) /\ Matched(b, at)' = Matched(b, at)
        BY <1>1 DEF Traced, Destinations, Matched
    <2>7. IF b.genesis \in present' THEN Traced(b, at)' ELSE Matched(b, at)'
        BY <1>1, <2>4, <2>5, <2>6
    <2>8. PositionTruth(b)' = Valid
        BY <1>1, <2>3, <2>7 DEF PositionTruth, ValidIf
    <2>9. QED
        BY <1>8, <2>8 DEF Truth
<1>9. QED
    BY <1>2, <1>5, <1>6, <1>7, <1>8

\* `git gc' makes no answer of `revalidate' worse for what is still where it was:
\* a reached commit is not pruned, and a position whose commit is gone has the
\* fingerprint it kept.
THEOREM PruningIsHarmless == Spec => PruningKeepsValid
<1>1. TypeOK /\ [Next]_vars
        => [present' # present /\ commits' = commits
            => \A b \in Binding :
                /\ Truth(b) = Valid
                /\ b.kind = "position" => b.hints /\ commits[at].snapshot.path # NoFile
                => Truth(b)' = Valid]_vars
    BY PruneKeepsValid
<1>2. QED
    BY <1>1, RevalTypeCorrect, PTL DEF Spec, PruningKeepsValid
=============================================================================

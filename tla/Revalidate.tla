----------------------------- MODULE Revalidate -----------------------------
(***************************************************************************)
(* `revalidate' (git-anchor/src/binding.rs): whether a binding still holds *)
(* at a revision, while the revision moves and git collects garbage.       *)
(*                                                                         *)
(* A call is a handful of separate reads: is a commit still there, what    *)
(* does the revision name now, what is in that commit's tree. Each is a    *)
(* step. Other processes commit, merge, amend, move or delete the revision *)
(* and prune unreachable commits between them. A delta is compared with    *)
(* an argument, reads nothing and is left out.                             *)
(*                                                                         *)
(* A snapshot has the file at the anchored path, the file elsewhere that   *)
(* rename detection could take for it, and its trees. A file is its lines, *)
(* all of one width; the diff and rename detection are the libraries' and  *)
(* are parameters. A fingerprint is a MinHash of shingles, here of lines.  *)
(* A commit is its number, and is pruned together with what only it holds. *)
(* Read errors for reasons other than pruning are left out, and so is      *)
(* capture_worktree, whose span is not of the commit's file (see SpanMap). *)
(***************************************************************************)
EXTENDS Naturals, Sequences, FiniteSets, FiniteSetsExt

CONSTANTS Line,
          NoFile,                 \* what is at a path with no file
          Tree,                   \* ids of trees
          Snapshot,               \* trees of commits
          Survives(_, _, _),      \* a range of lines of one file, in another
          Similar(_, _),          \* files that rename detection pairs
          Seed,                   \* of the hash functions
          Hash,                   \* of a shingle, for each seed
          ShingleLen,             \* in lines
          MaxCommits              \* bound: commits made

\* A range of lines of a file, 1-based and inclusive.
Ranges(file) == {r \in [first : DOMAIN file, last : DOMAIN file] : r.first <= r.last}

Text(file, r) == SubSeq(file, r.first, r.last)

\* Where a window of some lines can start. Variant: not at the last place.
WindowsButLast(file, n) == {i \in 1..Len(file) : i + n <= Len(file)}

\* At every line boundary where it ends within the file.
Windows(file, n) == {i \in 1..Len(file) : i + n - 1 <= Len(file)}

WindowAt(file, n, i) == SubSeq(file, i, i + n - 1)

Occurs(text, file) == \E r \in Ranges(file) : Text(file, r) = text

\* What the diff reports as surviving is there (MappedLinesAreUnchanged of
\* SpanMap), and nothing is lost between equal files.
ASSUME RevalidateAssumption ==
    /\ MaxCommits \in Nat
    /\ ShingleLen \in Nat \ {0}
    /\ \A s \in Snapshot :
        /\ s.trees \subseteq Tree
        /\ \A f \in {s.path, s.elsewhere} \ {NoFile} : f \in Seq(Line)
    /\ LET File == (UNION {{s.path, s.elsewhere} : s \in Snapshot}) \ {NoFile}
       IN \A f, g \in File : \A r \in Ranges(f) :
            /\ Survives(f, g, r) => Occurs(Text(f, r), g)
            /\ Survives(f, f, r)

\* `minhash_shingle': a text shorter than a shingle is one.
Shingles(text) ==
    IF Len(text) <= ShingleLen
    THEN {text}
    ELSE {SubSeq(text, i, i + ShingleLen - 1) : i \in 1..Len(text) - ShingleLen + 1}

Fingerprint(text) == [s \in Seed |-> Min({Hash[s][x] : x \in Shingles(text)})]

\* `Validity', and an error returned instead of one.
Valid == "valid"
Stale == "stale"
Unknown == "unknown"
Error == "error"

NoCommit == 0

VARIABLES commits,  \* every commit made: its history, itself included, and snapshot
          present,  \* those in the object database
          at,       \* what the revision under evaluation names, if anything
          pc,       \* where the call is
          call,     \* what it checks, and what it has found so far
          held,     \* the verdicts that were true at some instant of it
          forward   \* whether the revision only moved forward during it

repository == <<commits, present, at>>
vars == <<repository, pc, call, held, forward>>

History(c) == IF c = NoCommit THEN {} ELSE commits[c].history

\* What bindings name, of commits ever made. A position is one of the file at
\* the anchored path, and has hints or not.
CommitBinding == [kind : {"commit"}, commit : DOMAIN commits]
TreeBinding == [kind : {"tree"}, tree : Tree]
HybridBinding == [kind : {"hybrid"}, commit : DOMAIN commits, tree : Tree]
PositionBinding ==
    UNION {[kind : {"position"}, genesis : {c}, range : Ranges(commits[c].snapshot.path),
            hints : BOOLEAN] :
           c \in {d \in DOMAIN commits : commits[d].snapshot.path # NoFile}}
Binding == CommitBinding \cup TreeBinding \cup HybridBinding \cup PositionBinding

-----------------------------------------------------------------------------
\* The reads of a call, each of one commit.

\* `commit_validity', of a commit that is there: the target or an ancestor.
IsReached(c, target) == c \in History(target)

\* `tree_contains', at the recorded path or anywhere.
HasTree(tree, target) == tree \in commits[target].snapshot.trees

\* `diff_trace_onto': the file that the anchored one has become. A path that is
\* still there is the same file; a file is taken for a renamed one if it was
\* not there before.
Destinations(g, target) ==
    LET before == commits[g].snapshot
        after == commits[target].snapshot
    IN IF after.path # NoFile
       THEN {after.path}
       ELSE {f \in {after.elsewhere} \ {NoFile} :
                before.elsewhere = NoFile /\ Similar(before.path, f)}

Traced(position, target) ==
    \E f \in Destinations(position.genesis, target) :
        Survives(commits[position.genesis].snapshot.path, f, position.range)

\* `fingerprint' with a score of 1: some window as wide as the span, in the file
\* at the anchored path, has the fingerprint that was kept. Nothing can be
\* recomputed without the commit.
Matched(position, target) ==
    LET text == Text(commits[position.genesis].snapshot.path, position.range)
        file == commits[target].snapshot.path
    IN /\ position.hints
       /\ file # NoFile
       /\ \E i \in Windows(file, Len(text)) :
            Fingerprint(WindowAt(file, Len(text), i)) = Fingerprint(text)

ValidIf(holds) == IF holds THEN Valid ELSE Stale

\* `combine'. An error of either half is returned.
Combine(v, w) ==
    IF Error \in {v, w} THEN Error
    ELSE IF Unknown \in {v, w} THEN Unknown
    ELSE ValidIf(v = Valid /\ w = Valid)

\* What `revalidate' answers when nothing else happens while it runs.
CommitTruth(c) == IF c \in present /\ at # NoCommit THEN ValidIf(IsReached(c, at)) ELSE Unknown

TreeTruth(t) == IF at # NoCommit THEN ValidIf(HasTree(t, at)) ELSE Unknown

PositionTruth(b) ==
    IF at = NoCommit
    THEN Unknown
    ELSE ValidIf(IF b.genesis \in present THEN Traced(b, at) ELSE Matched(b, at))

Truth(b) ==
    IF b.kind = "commit" THEN CommitTruth(b.commit)
    ELSE IF b.kind = "tree" THEN TreeTruth(b.tree)
    ELSE IF b.kind = "hybrid" THEN Combine(CommitTruth(b.commit), TreeTruth(b.tree))
    ELSE PositionTruth(b)

-----------------------------------------------------------------------------
NoCall == [binding |-> [kind |-> "none"], todo |-> <<>>, target |-> NoCommit, verdict |-> Valid]

Init ==
    /\ commits = <<>>
    /\ present = {}
    /\ at = NoCommit
    /\ pc = "idle"
    /\ call = NoCall
    /\ held = {}
    /\ forward = TRUE

\* What a step of another process means for the call that is running.
Observed ==
    IF pc \in {"idle", "answered"}
    THEN UNCHANGED <<held, forward>>
    ELSE /\ held' = held \cup {Truth(call.binding)'}
         /\ forward' = (forward /\ (at \in History(at)' \/ at = NoCommit))

\* Someone commits, merges or amends on the revision.
MakeCommit ==
    /\ Len(commits) < MaxCommits
    /\ \E parents \in SUBSET present, s \in Snapshot :
        /\ Cardinality(parents) <= 2
        /\ LET c == Len(commits) + 1
           IN /\ commits' = Append(commits,
                    [history |-> {c} \cup UNION {History(p) : p \in parents}, snapshot |-> s])
              /\ present' = present \cup {c}
              /\ at' = c
    /\ UNCHANGED <<pc, call>>
    /\ Observed

\* The revision is made to name another commit, or none.
Move ==
    /\ at' \in (present \cup {NoCommit}) \ {at}
    /\ UNCHANGED <<commits, present, pc, call>>
    /\ Observed

\* git prunes a commit that nothing reaches.
Prune ==
    /\ \E c \in present :
        /\ \A d \in (present \ {c}) \cup {at} : c \notin History(d)
        /\ present' = present \ {c}
    /\ UNCHANGED <<commits, at, pc, call>>
    /\ Observed

-----------------------------------------------------------------------------
Goto(step) == pc' = step

\* What a binding is checked for, in order. Variant: the tree half first.
TreeHalfFirst(b) == IF b.kind = "hybrid" THEN <<"tree", "commit">> ELSE <<b.kind>>

Halves(b) == IF b.kind = "hybrid" THEN <<"commit", "tree">> ELSE <<b.kind>>

FirstRead ==
    [commit |-> "has_commit", tree |-> "resolve_for_tree", position |-> "resolve_for_trace"]

Begin ==
    /\ pc = "idle"
    /\ \E b \in Binding :
        /\ call' = [NoCall EXCEPT !.binding = b, !.todo = Halves(b)]
        /\ Goto(FirstRead[Halves(b)[1]])
        /\ held' = {Truth(b)}
    /\ forward' = TRUE
    /\ UNCHANGED repository

Reads == UNCHANGED <<repository, held, forward>>

\* The verdict of the half that is being checked. An answer ends it.
Answer(v) ==
    /\ call' = [call EXCEPT !.verdict = Combine(@, v), !.todo = Tail(@)]
    /\ Goto(IF Len(call.todo) = 1 THEN "answered" ELSE FirstRead[call.todo[2]])

\* Variant: what it names is not looked at.
ResolveAnyway(step, found) ==
    /\ pc = step
    /\ call' = [call EXCEPT !.target = at]
    /\ Goto(found)
    /\ Reads

\* `resolve_commit', which reads the revision anew each time it is called.
Resolve(step, found) ==
    /\ pc = step
    /\ IF at = NoCommit
       THEN Answer(Unknown)
       ELSE /\ call' = [call EXCEPT !.target = at]
            /\ Goto(found)
    /\ Reads

\* A read of the target finds what is there, unless it was pruned: the reader
\* may have it in memory or get an error.
Outcomes(v) == IF call.target \in present THEN {v} ELSE {v, Error}

HasCommit ==
    /\ pc = "has_commit"
    /\ IF call.binding.commit \in present
       THEN Goto("resolve_for_commit") /\ UNCHANGED call
       ELSE Answer(Unknown)
    /\ Reads

ResolveForCommit == Resolve("resolve_for_commit", "walk")

\* `merge_base', any error of which counts as not reached.
WalkHistory ==
    /\ pc = "walk"
    /\ LET c == call.binding.commit
       IN \E v \in {ValidIf(IsReached(c, call.target))}
                    \cup (IF call.target \in present \/ c = call.target THEN {} ELSE {Stale}) :
            Answer(v)
    /\ Reads

ResolveForTree == Resolve("resolve_for_tree", "search")

SearchTree ==
    /\ pc = "search"
    /\ \E v \in Outcomes(ValidIf(HasTree(call.binding.tree, call.target))) : Answer(v)
    /\ Reads

ResolveForTrace == Resolve("resolve_for_trace", "has_genesis")

Genesis == call.binding.genesis

\* `diff_trace_onto' first asks whether the anchor's own commit is there.
HasGenesis ==
    /\ pc = "has_genesis"
    /\ Goto(IF Genesis \in present THEN "trace" ELSE "not_found")
    /\ UNCHANGED call
    /\ Reads

\* Then it is read. A commit that went in between is a revision that does not
\* resolve; a tree that did is an error.
Trace ==
    /\ pc = "trace"
    /\ \/ /\ Genesis \notin present
          /\ \E v \in {Unknown, Error} : Answer(v)
       \/ /\ call.target \notin present
          /\ Answer(Error)
       \/ /\ Traced(call.binding, call.target)
          /\ Answer(Valid)
       \/ /\ ~Traced(call.binding, call.target)
          /\ Goto("not_found")
          /\ UNCHANGED call
    /\ Reads

\* Variant: no candidates is stale.
NotFoundIsStale ==
    /\ pc = "not_found"
    /\ Answer(Stale)
    /\ Reads

\* No candidates: it is asked again whether the commit is there.
NotFound ==
    /\ pc = "not_found"
    /\ IF Genesis \in present
       THEN Answer(Stale)
       ELSE Goto("resolve_for_match") /\ UNCHANGED call
    /\ Reads

\* With no fingerprint kept and nothing to recompute one from there are no
\* candidates, and the revision is not looked at.
NoReference ==
    /\ pc = "resolve_for_match"
    /\ ~call.binding.hints
    /\ Answer(Stale)
    /\ Reads

ResolveForMatch ==
    /\ call.binding.kind = "position" /\ call.binding.hints
    /\ Resolve("resolve_for_match", "match")

Match ==
    /\ pc = "match"
    /\ \E v \in Outcomes(ValidIf(Matched(call.binding, call.target))) : Answer(v)
    /\ Reads

Return ==
    /\ pc = "answered"
    /\ Goto("idle")
    /\ call' = NoCall
    /\ held' = {}
    /\ forward' = TRUE
    /\ UNCHANGED repository

Next ==
    \/ MakeCommit
    \/ Move
    \/ Prune
    \/ Begin
    \/ HasCommit
    \/ ResolveForCommit
    \/ WalkHistory
    \/ ResolveForTree
    \/ SearchTree
    \/ ResolveForTrace
    \/ HasGenesis
    \/ Trace
    \/ NotFound
    \/ NoReference
    \/ ResolveForMatch
    \/ Match
    \/ Return

Spec == Init /\ [][Next]_vars

-----------------------------------------------------------------------------
\* The type invariant: reads are only of a commit that the revision named, and
\* what it names is there.
TypeOK ==
    /\ commits \in Seq([history : SUBSET (1..MaxCommits), snapshot : Snapshot])
    /\ \A c \in DOMAIN commits : commits[c].history \subseteq 1..c
    /\ Len(commits) <= MaxCommits
    /\ present \subseteq DOMAIN commits
    /\ at \in present \cup {NoCommit}
    /\ pc # "idle" => call.binding \in Binding
    /\ call.todo \in Seq(DOMAIN FirstRead)
    /\ call.target \in DOMAIN commits \cup {NoCommit}
    /\ call.verdict \in {Valid, Stale, Unknown, Error}
    /\ held \subseteq {Valid, Stale, Unknown}
    /\ forward \in BOOLEAN
    /\ pc \in {"walk", "search", "has_genesis", "trace", "match"} => call.target # NoCommit

Answered(kinds, verdicts) ==
    /\ pc = "answered"
    /\ call.binding.kind \in kinds
    /\ call.verdict \in verdicts

\* What the call looked at was not pruned under it. Of a position the commit may
\* be, if there is a fingerprint to go by.
Undisturbed ==
    /\ call.target \in present
    /\ call.binding.kind \in {"commit", "hybrid"} => call.binding.commit \in present
    /\ call.binding.kind = "position" => call.binding.genesis \in present \/ call.binding.hints

\* Pruning can make an error of a read, and `commit_validity' take one for an
\* answer, but it never makes anything valid.
Trusted == call.verdict = Valid \/ Undisturbed

\* A verdict was true at some instant of the call, though the revision moved
\* while it ran, and though the anchor's commit was pruned between the two
\* questions whether it is there. `Valid' was even if anything else was pruned.
VerdictsHeld ==
    Answered({"commit", "tree", "position"}, {Valid, Stale}) /\ Trusted => call.verdict \in held

\* The halves of a hybrid are checked at revisions read separately. As long as
\* the revision only moves forward the two make a verdict that held.
HybridHeldUnderForward ==
    Answered({"hybrid"}, {Valid, Stale}) /\ Trusted /\ forward => call.verdict \in held

\* Pruning makes nothing stale that is still where it was: a position that is
\* found through history at its own path is matched by its fingerprint there.
PruningKeepsValid ==
    [][present' # present /\ commits' = commits
        => \A b \in Binding :
            /\ Truth(b) = Valid
            /\ b.kind = "position" => b.hints /\ commits[at].snapshot.path # NoFile
            => Truth(b)' = Valid]_vars

\* `genesis_rev' is "never load-bearing": what its history finds, the
\* fingerprint would find without it.
GenesisBearsNoLoad ==
    \A b \in PositionBinding :
        b.hints /\ b.genesis \in present /\ at # NoCommit /\ Traced(b, at) => Matched(b, at)
=============================================================================

----------------------------- MODULE TreeDiff -----------------------------
(***************************************************************************)
(* `diff_trees' (crates/git-anchor/src/diff.rs): the structural diff of    *)
(* two trees by object id.                                                 *)
(*                                                                         *)
(* The recursion of `walk' is a set of tree pairs still to be compared.    *)
(* Those left over on the base side are visited in the order of a HashMap, *)
(* which is any order, and the result is sorted at the end: here the pairs *)
(* are taken in any order, and the result is a set.                        *)
(*                                                                         *)
(* Objects are content addressed: the id of a tree is the tree, and no     *)
(* side at all is the empty tree, as `entries' has it.                     *)
(***************************************************************************)
EXTENDS Naturals, Sequences, SequencesExt, FiniteSetsExt

CONSTANTS Name,     \* entry names
          Object,   \* objects that are not trees: blobs, and commits of submodules
          Mode,     \* their modes
          Tree,     \* trees, with all their subtrees
          MaxDepth  \* bound: how deep trees nest

NoEntry == [id |-> <<>>, mode |-> "none"]

\* An entry of a tree: the object id and the mode.
Entry == [id : Object, mode : Mode] \cup [id : Tree, mode : {"tree"}]

\* The entry of a tree under a name, present or not.
EntryOf(tree, name) == IF name \in DOMAIN tree THEN tree[name] ELSE NoEntry

\* What to compare in place of an entry: nothing is the empty tree.
Subtree(e) == IF e.mode = "tree" THEN e.id ELSE <<>>

\* The entries along a path, from the root.
Trail(tree, path) ==
    LET at[i \in 0..Len(path)] ==
            IF i = 0 THEN [id |-> tree, mode |-> "tree"]
            ELSE EntryOf(Subtree(at[i - 1]), path[i])
    IN  at

\* The entry at a path: the reference the walk is held against.
At(tree, path) == Trail(tree, path)[Len(path)]

Path == BoundedSeq(Name, MaxDepth)

\* Trees are made of entries and are not nested deeper than MaxDepth, and the
\* id of a tree is no other object's.
ASSUME TreeDiffAssumption ==
    /\ MaxDepth \in Nat
    /\ {"tree", "none"} \cap Mode = {}
    /\ Object \cap Tree = {}
    /\ \A t \in Tree : \E names \in SUBSET Name : t \in [names -> Entry]
    /\ \A t \in Tree : \A path \in [1..MaxDepth -> Name] : Subtree(At(t, path)) = <<>>

VARIABLES base, head,  \* the two trees
          pending,     \* pairs of subtrees to compare, with their path
          changes,     \* `out'
          pc           \* "walk", "done" or "failed"

vars == <<base, head, pending, changes, pc>>

\* Variant: the modes are compared too.
SameWithMode(b, h) == b.mode # "none" /\ b = h

\* Both sides have the name, with one object: pruned.
Same(b, h) == b.mode # "none" /\ h.mode # "none" /\ b.id = h.id

\* A tree on one side, and a tree or nothing on the other.
Descend(b, h) == {b.mode, h.mode} \subseteq {"tree", "none"}

Init ==
    /\ base \in Tree
    /\ head \in Tree
    /\ pending = {[path |-> <<>>, base |-> base, head |-> head]}
    /\ changes = {}
    /\ pc = "walk"

\* Variant: what is left of the base side is forgotten.
NamesOfHead(f) == IF f.base = f.head THEN {} ELSE DOMAIN f.head

\* The names of either side, once the two are not the same tree.
Names(f) == IF f.base = f.head THEN {} ELSE DOMAIN f.base \cup DOMAIN f.head

\* Variant: an empty prefix is joined like any other, as in "/name".
JoinUnrooted(path, name) == IF path = <<>> THEN <<"", name>> ELSE Append(path, name)

\* `join'.
Join(path, name) == Append(path, name)

\* Variant: the two sides of a change are swapped.
ChangeSwapped(f, n) ==
    [path |-> Join(f.path, n), base |-> EntryOf(f.head, n), head |-> EntryOf(f.base, n)]

\* An entry that differs.
ChangeAt(f, n) ==
    [path |-> Join(f.path, n), base |-> EntryOf(f.base, n), head |-> EntryOf(f.head, n)]

FrameAt(f, n) ==
    [path |-> Join(f.path, n),
     base |-> Subtree(EntryOf(f.base, n)), head |-> Subtree(EntryOf(f.head, n))]

\* Variant: a directory that became a file is a change, and its files are too.
WalkTwice(f) ==
    LET differing == {n \in Names(f) : ~Same(EntryOf(f.base, n), EntryOf(f.head, n))}
        subtrees == {n \in differing :
                        "tree" \in {EntryOf(f.base, n).mode, EntryOf(f.head, n).mode}}
    IN  /\ pending' = (pending \ {f}) \cup {FrameAt(f, n) : n \in subtrees}
        /\ changes' = changes \cup
                {ChangeAt(f, n) : n \in {m \in differing :
                    ~Descend(EntryOf(f.base, m), EntryOf(f.head, m))}}

\* Variant: what both sides share is compared all the same.
WalkWhole(f) ==
    LET subtrees == {n \in Names(f) : Descend(EntryOf(f.base, n), EntryOf(f.head, n))}
    IN  /\ pending' = (pending \ {f}) \cup {FrameAt(f, n) : n \in subtrees}
        /\ changes' = changes \cup {ChangeAt(f, n) : n \in Names(f) \ subtrees}

\* One frame of `walk'.
Walk(f) ==
    LET differing == {n \in Names(f) : ~Same(EntryOf(f.base, n), EntryOf(f.head, n))}
        subtrees == {n \in differing : Descend(EntryOf(f.base, n), EntryOf(f.head, n))}
    IN  /\ pending' = (pending \ {f}) \cup {FrameAt(f, n) : n \in subtrees}
        /\ changes' = changes \cup {ChangeAt(f, n) : n \in differing \ subtrees}

WalkNext ==
    /\ pc = "walk"
    /\ \E f \in pending : Walk(f)
    /\ UNCHANGED <<base, head, pc>>

\* A tree cannot be read, because it is not there for one: the whole diff fails.
ReadFails ==
    /\ pc = "walk"
    /\ \E f \in pending : f.base # f.head
    /\ pc' = "failed"
    /\ pending' = {}
    /\ changes' = {}
    /\ UNCHANGED <<base, head>>

Done ==
    /\ pc = "walk"
    /\ pending = {}
    /\ pc' = "done"
    /\ UNCHANGED <<base, head, pending, changes>>

Next == WalkNext \/ ReadFails \/ Done

Spec == Init /\ [][Next]_vars

-----------------------------------------------------------------------------
(***************************************************************************)
(* Properties                                                              *)
(***************************************************************************)

\* The type invariant: no path is deeper than trees are, and only trees, or nothing
\* in place of one, are compared.
TypeOK ==
    /\ base \in Tree /\ head \in Tree
    /\ pc \in {"walk", "done", "failed"}
    /\ \A f \in pending : f.path \in Path /\ f.base \in Tree \cup {<<>>}
                                          /\ f.head \in Tree \cup {<<>>}
    /\ \A c \in changes : /\ c.path \in Path
                          /\ c.base \in Entry \cup {NoEntry}
                          /\ c.head \in Entry \cup {NoEntry}

\* The object of a leaf; directories are not content.
Leaf(e) == IF e.mode \in {"tree", "none"} THEN <<>> ELSE <<e.id>>

\* What lies at a path once the changes are applied to a tree, on one side or
\* the other of each.
Patched(tree, side, path) ==
    LET over == {c \in changes : IsPrefix(c.path, path)}
    IN  IF over = {} THEN At(tree, path)
        ELSE LET c == CHOOSE c \in over : TRUE
                 rest == SubSeq(path, Len(c.path) + 1, Len(path))
             IN  IF rest = <<>> THEN c[side] ELSE At(Subtree(c[side]), rest)

\* The changes turn every file of base into what head has there, and back:
\* additions, deletions, files that became directories and directories that
\* became files. Modes alone are not compared (diff.rs:36-38).
ChangesMakeHead ==
    pc = "done" =>
        \A p \in Path :
            /\ Leaf(Patched(base, "head", p)) = Leaf(At(head, p))
            /\ Leaf(Patched(head, "base", p)) = Leaf(At(base, p))

\* The paths at which two trees have not the same file.
Differing(b, h) == {p \in Path : Leaf(At(b, p)) # Leaf(At(h, p))}

\* The diff of two trees: the topmost of these paths, with what either side has
\* there. A directory that became a file is one of them, what was below it is not.
DiffOf(b, h) ==
    {[path |-> p, base |-> At(b, p), head |-> At(h, p)] :
        p \in {q \in Differing(b, h) : \A r \in Differing(b, h) : ~IsStrictPrefix(r, q)}}

\* What is returned is the diff and nothing else, whatever order the entries of
\* the HashMap were visited in: an entry that differs in its mode only is not in it.
ChangesAreTheDiff ==
    pc = "done" => changes = DiffOf(base, head)

\* No two changes overlap: sorting by path gives one order, whatever the order
\* the entries of the HashMap were visited in.
ChangesAreApart ==
    \A c, d \in changes : IsPrefix(c.path, d.path) => c = d

\* A subtree that is the same on both sides is never read.
NothingEqualIsRead ==
    \A f \in pending : f.path # <<>> => ~Same(At(base, f.path), At(head, f.path))
=============================================================================

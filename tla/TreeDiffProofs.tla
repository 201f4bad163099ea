--------------------------- MODULE TreeDiffProofs ---------------------------
(***************************************************************************)
(* Theorems about TreeDiff, for trees of any width and depth: whatever     *)
(* order the pairs are taken in, the changes are the diff of the two trees *)
(* and nothing else, they turn the one into the other, and no two overlap. *)
(***************************************************************************)
EXTENDS TreeDiff, NaturalsInduction, WellFoundedInduction, SequenceTheorems, TLAPS

-----------------------------------------------------------------------------
(***************************************************************************)
(* Entries along a path                                                    *)
(***************************************************************************)

\* What can be compared: a tree, or nothing in its place.
Side == Tree \cup {<<>>}

\* What can be found at a path.
Node == [id : Side, mode : {"tree"}] \cup [id : Object, mode : Mode] \cup {NoEntry}

Root(tree) == [id |-> tree, mode |-> "tree"]

\* Every non-empty set of numbers has a least one.
LEMMA LeastExists ==
    ASSUME NEW T \in SUBSET Nat, T # {}
    PROVE  \E x \in T : \A y \in T : x <= y
<1>1. PICK x \in T : \A y \in T : <<y, x>> \notin OpToRel(<, Nat)
    BY NatLessThanWellFounded, WFMin
<1>2. \A y \in T : ~(y < x)
    BY <1>1 DEF OpToRel
<1>3. QED
    BY <1>2

\* An entry has a type, and so has what is compared in its place.
LEMMA EntryOfType ==
    ASSUME NEW tree \in Side, NEW name
    PROVE  EntryOf(tree, name) \in Entry \cup {NoEntry}
<1>1. CASE tree = <<>>
    <2>1. DOMAIN tree = {}
        BY <1>1
    <2>2. QED
        BY <2>1 DEF EntryOf
<1>2. CASE tree \in Tree
    <2>1. PICK names \in SUBSET Name : tree \in [names -> Entry]
        BY <1>2, TreeDiffAssumption
    <2>2. QED
        BY <2>1 DEF EntryOf
<1>3. QED
    BY <1>1, <1>2 DEF Side

LEMMA NodeTypes ==
    /\ Entry \cup {NoEntry} \subseteq Node
    /\ \A tree \in Side : Root(tree) \in Node /\ Subtree(Root(tree)) = tree
    /\ \A e \in Node : Subtree(e) \in Side
<1>1. Entry \cup {NoEntry} \subseteq Node
    BY DEF Entry, Node, Side
<1>2. ASSUME NEW tree \in Side PROVE Root(tree) \in Node /\ Subtree(Root(tree)) = tree
    BY DEF Root, Node, Subtree
<1>3. ASSUME NEW e \in Node PROVE Subtree(e) \in Side
    <2>1. CASE e \in [id : Side, mode : {"tree"}]
        BY <2>1 DEF Subtree
    <2>2. CASE e \in [id : Object, mode : Mode]
        BY <2>2, TreeDiffAssumption DEF Subtree, Side
    <2>3. CASE e = NoEntry
        BY <2>3 DEF Subtree, Side, NoEntry
    <2>4. QED
        BY <2>1, <2>2, <2>3 DEF Node
<1>4. QED
    BY <1>1, <1>2, <1>3

\* g holds the entries along the first k names of a path.
Follows(g, tree, path, k) ==
    /\ g \in [0..k -> Node]
    /\ \A i \in 0..k : g[i] = IF i = 0 THEN Root(tree) ELSE EntryOf(Subtree(g[i - 1]), path[i])

LEMMA FollowsExists ==
    ASSUME NEW tree \in Side, NEW path \in Seq(Name), NEW k \in 0..Len(path)
    PROVE  \E g : Follows(g, tree, path, k)
<1> DEFINE Without == {m \in 0..Len(path) : ~\E g : Follows(g, tree, path, m)}
<1>1. ASSUME Without # {} PROVE FALSE
    <2>1. PICK m \in Without : \A l \in Without : m <= l
        <3>1. Without \in SUBSET Nat
            OBVIOUS
        <3> HIDE DEF Without
        <3>2. QED
            BY <1>1, <3>1, LeastExists
    <2>2. CASE m = 0
        <3>1. Follows([i \in 0..0 |-> Root(tree)], tree, path, 0)
            BY NodeTypes DEF Follows
        <3>2. QED
            BY <2>2, <3>1
    <2>3. CASE m > 0
        <3>1. m - 1 \in 0..Len(path) /\ m - 1 \notin Without
            BY <2>1, <2>3
        <3>2. PICK g : Follows(g, tree, path, m - 1)
            BY <3>1
        <3> DEFINE last == EntryOf(Subtree(g[m - 1]), path[m])
                   h == [i \in 0..m |-> IF i = m THEN last ELSE g[i]]
        <3>3. g \in [0..m - 1 -> Node] /\ g[m - 1] \in Node
            BY <2>3, <3>2 DEF Follows
        <3>4. last \in Node
            BY <3>3, NodeTypes, EntryOfType
        <3>5. h \in [0..m -> Node]
            <4> HIDE DEF last
            <4> QED
                BY <3>3, <3>4
        <3>6. ASSUME NEW i \in 0..m
              PROVE  h[i] = IF i = 0 THEN Root(tree) ELSE EntryOf(Subtree(h[i - 1]), path[i])
            BY <2>3, <3>2, <3>3 DEF Follows
        <3> HIDE DEF h
        <3>7. Follows(h, tree, path, m)
            BY <3>5, <3>6 DEF Follows
        <3>8. QED
            BY <3>7
    <2>4. QED
        BY <2>2, <2>3
<1>2. QED
    BY <1>1

\* The trail of a path is the one function that follows it.
LEMMA TrailFollows ==
    ASSUME NEW tree \in Side, NEW path \in Seq(Name)
    PROVE  Follows(Trail(tree, path), tree, path, Len(path))
<1> DEFINE Eq(g) == g = [i \in 0..Len(path) |->
                            IF i = 0 THEN [id |-> tree, mode |-> "tree"]
                            ELSE EntryOf(Subtree(g[i - 1]), path[i])]
           a == Trail(tree, path)
<1>1. PICK g : Follows(g, tree, path, Len(path))
    BY FollowsExists
<1>2. Eq(g)
    BY <1>1 DEF Follows, Root
<1>3. a = CHOOSE f : Eq(f)
    BY DEF Trail
<1>4. Eq(a)
    BY <1>2, <1>3
<1>5. \A i \in 0..Len(path) :
        a[i] = IF i = 0 THEN Root(tree) ELSE EntryOf(Subtree(a[i - 1]), path[i])
    BY <1>4 DEF Root
<1>6. a = [i \in 0..Len(path) |-> a[i]]
    BY <1>4
<1> HIDE DEF a
<1>7. \A i \in 0..Len(path) : a[i] \in Node
    <2> DEFINE Untyped == {i \in 0..Len(path) : a[i] \notin Node}
    <2>1. ASSUME Untyped # {} PROVE FALSE
        <3>1. PICK m \in Untyped : \A l \in Untyped : m <= l
            <4>1. Untyped \in SUBSET Nat
                OBVIOUS
            <4> HIDE DEF Untyped
            <4>2. QED
                BY <2>1, <4>1, LeastExists
        <3>2. m > 0
            BY <1>5, NodeTypes
        <3>3. m - 1 \in 0..Len(path) /\ m - 1 \notin Untyped
            BY <3>1, <3>2
        <3>4. a[m] = EntryOf(Subtree(a[m - 1]), path[m])
            BY <1>5, <3>2
        <3>5. a[m] \in Node
            BY <3>3, <3>4, NodeTypes, EntryOfType
        <3>6. QED
            BY <3>5
    <2>2. QED
        BY <2>1
<1>8. a \in [0..Len(path) -> Node]
    BY <1>6, <1>7
<1>9. QED
    BY <1>5, <1>8 DEF Follows, a

\* Paths that agree on their first names have the same entries along them.
LEMMA SameTrail ==
    ASSUME NEW tree \in Side, NEW p \in Seq(Name), NEW q \in Seq(Name),
           NEW k \in Nat, k <= Len(p), k <= Len(q),
           \A i \in 1..k : p[i] = q[i]
    PROVE  Trail(tree, p)[k] = Trail(tree, q)[k]
<1> DEFINE a == Trail(tree, p)
           b == Trail(tree, q)
           Apart == {i \in 0..k : a[i] # b[i]}
<1>1. /\ \A i \in 0..k : a[i] = IF i = 0 THEN Root(tree) ELSE EntryOf(Subtree(a[i - 1]), p[i])
      /\ \A i \in 0..k : b[i] = IF i = 0 THEN Root(tree) ELSE EntryOf(Subtree(b[i - 1]), q[i])
    <2>1. Follows(a, tree, p, Len(p)) /\ Follows(b, tree, q, Len(q))
        BY TrailFollows
    <2> HIDE DEF a, b
    <2>2. 0..k \subseteq 0..Len(p) /\ 0..k \subseteq 0..Len(q)
        OBVIOUS
    <2>3. QED
        BY <2>1, <2>2 DEF Follows
<1> HIDE DEF a, b
<1>2. ASSUME Apart # {} PROVE FALSE
    <2>1. PICK m \in Apart : \A l \in Apart : m <= l
        <3>1. Apart \in SUBSET Nat
            OBVIOUS
        <3> HIDE DEF Apart
        <3>2. QED
            BY <1>2, <3>1, LeastExists
    <2>2. m > 0
        <3>1. 0 \in 0..k
            OBVIOUS
        <3>2. a[0] = Root(tree) /\ b[0] = Root(tree)
            BY <1>1, <3>1
        <3>3. QED
            BY <3>2
    <2>3. m - 1 \in 0..k /\ m - 1 \notin Apart /\ m \in 1..k
        BY <2>1, <2>2
    <2>4. a[m] = EntryOf(Subtree(a[m - 1]), p[m]) /\ b[m] = EntryOf(Subtree(b[m - 1]), q[m])
        BY <1>1, <2>2
    <2>5. QED
        BY <2>3, <2>4
<1>3. k \notin Apart
    BY <1>2
<1>4. QED
    BY <1>3 DEF a, b

\* At the root is the tree itself.
LEMMA AtRoot ==
    ASSUME NEW tree \in Side
    PROVE  At(tree, <<>>) = Root(tree)
<1>1. <<>> \in Seq(Name) /\ Len(<<>>) = 0
    OBVIOUS
<1>2. Follows(Trail(tree, <<>>), tree, <<>>, 0)
    BY <1>1, TrailFollows
<1>3. QED
    BY <1>1, <1>2 DEF Follows, At

\* One name further down.
LEMMA AtAppend ==
    ASSUME NEW tree \in Side, NEW p \in Seq(Name), NEW n \in Name
    PROVE  At(tree, Append(p, n)) = EntryOf(Subtree(At(tree, p)), n)
<1> DEFINE q == Append(p, n)
<1>1. /\ q \in Seq(Name) /\ Len(q) = Len(p) + 1 /\ Len(p) \in Nat
      /\ q[Len(p) + 1] = n /\ \A i \in 1..Len(p) : p[i] = q[i]
    OBVIOUS
<1> HIDE DEF q
<1>2. Trail(tree, p)[Len(p)] = Trail(tree, q)[Len(p)]
    BY <1>1, SameTrail
<1>3. Follows(Trail(tree, q), tree, q, Len(q))
    BY <1>1, TrailFollows
<1>4. Trail(tree, q)[Len(p) + 1] = EntryOf(Subtree(Trail(tree, q)[Len(p)]), n)
    BY <1>1, <1>3 DEF Follows
<1>5. QED
    BY <1>1, <1>2, <1>4 DEF At, q

LEMMA AtType ==
    ASSUME NEW tree \in Side, NEW p \in Seq(Name)
    PROVE  /\ At(tree, p) \in Node
           /\ Subtree(At(tree, p)) \in Side
           /\ Len(p) > 0 => At(tree, p) \in Entry \cup {NoEntry}
<1>1. Follows(Trail(tree, p), tree, p, Len(p)) /\ Len(p) \in Nat
    BY TrailFollows
<1>2. At(tree, p) \in Node
    BY <1>1 DEF Follows, At
<1>3. ASSUME Len(p) > 0 PROVE At(tree, p) \in Entry \cup {NoEntry}
    <2>1. Trail(tree, p)[Len(p) - 1] \in Node
        BY <1>1, <1>3 DEF Follows
    <2>2. At(tree, p) = EntryOf(Subtree(Trail(tree, p)[Len(p) - 1]), p[Len(p)])
        BY <1>1, <1>3 DEF Follows, At
    <2>3. QED
        BY <2>1, <2>2, NodeTypes, EntryOfType
<1>4. QED
    BY <1>2, <1>3, NodeTypes

\* What is at a path is what is at the rest of it, from the subtree part of the
\* way down.
LEMMA AtRest ==
    ASSUME NEW tree \in Side, NEW p \in Seq(Name), NEW k \in Nat, k < Len(p)
    PROVE  At(Subtree(At(tree, SubSeq(p, 1, k))), SubSeq(p, k + 1, Len(p))) = At(tree, p)
<1> DEFINE top == SubSeq(p, 1, k)
           rest == SubSeq(p, k + 1, Len(p))
           under == Subtree(At(tree, top))
           a == Trail(tree, p)
           b == Trail(under, rest)
<1>1. /\ top \in Seq(Name) /\ Len(top) = k
      /\ \A i \in 1..k : top[i] = p[i]
    OBVIOUS
<1>2. /\ rest \in Seq(Name) /\ Len(rest) = Len(p) - k
      /\ \A i \in 1..Len(p) - k : rest[i] = p[k + i]
    OBVIOUS
<1>3. under \in Side
    BY <1>1, AtType
<1>4. At(tree, top) = a[k]
    <2> HIDE DEF top
    <2>1. Trail(tree, top)[k] = Trail(tree, p)[k]
        BY <1>1, SameTrail
    <2>2. QED
        BY <1>1, <2>1 DEF At
<1>5. Follows(a, tree, p, Len(p)) /\ Follows(b, under, rest, Len(rest))
    <2> HIDE DEF rest, under
    <2>1. QED
        BY <1>2, <1>3, TrailFollows
<1>6. under = Subtree(a[k])
    BY <1>4
<1>7. Len(p) \in Nat
    OBVIOUS
<1> HIDE DEF top, rest, under, a, b
<1>8. \A j \in 1..Len(p) - k : a[k + j] = EntryOf(Subtree(a[k + (j - 1)]), p[k + j])
    <2> TAKE j \in 1..Len(p) - k
    <2>1. k + j \in 0..Len(p) /\ k + j # 0 /\ (k + j) - 1 = k + (j - 1)
        BY <1>7
    <2>2. QED
        BY <1>5, <2>1 DEF Follows
<1>9. \A j \in 1..Len(p) - k : b[j] = EntryOf(Subtree(b[j - 1]), p[k + j])
    <2> TAKE j \in 1..Len(p) - k
    <2>1. j \in 0..Len(rest) /\ j # 0 /\ rest[j] = p[k + j]
        BY <1>2, <1>7
    <2>2. QED
        BY <1>5, <2>1 DEF Follows
<1>10. Subtree(b[0]) = under
    <2>1. b[0] = Root(under)
        BY <1>2, <1>5, <1>7 DEF Follows
    <2>2. QED
        BY <1>3, <2>1, NodeTypes
<1> DEFINE Apart == {j \in 1..Len(p) - k : a[k + j] # b[j]}
<1>11. ASSUME Apart # {} PROVE FALSE
    <2>1. PICK m \in Apart : \A l \in Apart : m <= l
        <3>1. Apart \in SUBSET Nat
            BY <1>7
        <3> HIDE DEF Apart
        <3>2. QED
            BY <1>11, <3>1, LeastExists
    <2>2. a[k + m] = EntryOf(Subtree(a[k + (m - 1)]), p[k + m])
        BY <1>8
    <2>3. b[m] = EntryOf(Subtree(b[m - 1]), p[k + m])
        BY <1>9
    <2>4. CASE m = 1
        <3>1. a[k + (m - 1)] = a[k] /\ b[m - 1] = b[0]
            BY <2>4
        <3>2. QED
            BY <1>6, <1>10, <2>2, <2>3, <3>1
    <2>5. CASE m # 1
        <3>1. m - 1 \in 1..Len(p) - k /\ m - 1 \notin Apart
            BY <1>7, <2>1, <2>5
        <3>2. QED
            BY <2>2, <2>3, <3>1
    <2>6. QED
        BY <2>4, <2>5
<1>12. Len(p) - k \in 1..Len(p) - k /\ k + (Len(p) - k) = Len(p)
    BY <1>7
<1>13. a[Len(p)] = b[Len(p) - k]
    BY <1>11, <1>12
<1>14. QED
    BY <1>2, <1>13 DEF At, a, b, rest, under, top

\* Nothing is nested as deep as MaxDepth.
LEMMA NothingAtMaxDepth ==
    ASSUME NEW tree \in Tree, NEW p \in Seq(Name), Len(p) = MaxDepth
    PROVE  Subtree(At(tree, p)) = <<>>
<1>1. p \in [1..MaxDepth -> Name]
    OBVIOUS
<1>2. QED
    BY <1>1, TreeDiffAssumption

-----------------------------------------------------------------------------
(***************************************************************************)
(* Prefixes                                                                *)
(***************************************************************************)

LEMMA PrefixMeans ==
    ASSUME NEW p \in Seq(Name), NEW q \in Seq(Name)
    PROVE  IsPrefix(p, q) <=> Len(p) <= Len(q) /\ \A i \in 1..Len(p) : p[i] = q[i]
<1>1. ASSUME Len(p) <= Len(q)
      PROVE  SubSeq(p, 1, Len(p)) = SubSeq(q, 1, Len(p)) <=> \A i \in 1..Len(p) : p[i] = q[i]
    <2>1. SubSeq(p, 1, Len(p)) = [i \in 1..Len(p) |-> p[i]]
        OBVIOUS
    <2>2. SubSeq(q, 1, Len(p)) = [i \in 1..Len(p) |-> q[i]]
        BY <1>1
    <2>3. QED
        BY <2>1, <2>2
<1>2. QED
    BY <1>1 DEF IsPrefix

LEMMA PrefixOrder ==
    ASSUME NEW p \in Seq(Name), NEW q \in Seq(Name)
    PROVE  /\ IsPrefix(p, p)
           /\ IsPrefix(p, q) /\ IsPrefix(q, p) => p = q
           /\ IsPrefix(p, q) => p = q \/ Len(p) < Len(q)
<1>1. IsPrefix(p, p)
    BY PrefixMeans
<1>2. ASSUME IsPrefix(p, q), Len(p) >= Len(q) PROVE p = q
    <2>1. Len(p) = Len(q) /\ \A i \in 1..Len(p) : p[i] = q[i]
        BY <1>2, PrefixMeans
    <2>2. QED
        BY <2>1
<1>3. ASSUME IsPrefix(q, p) PROVE Len(p) >= Len(q)
    BY <1>3, PrefixMeans
<1>4. QED
    BY <1>1, <1>2, <1>3

\* A name more: what it is a prefix of, and what is a prefix of it.
LEMMA PrefixAppend ==
    ASSUME NEW p \in Seq(Name), NEW n \in Name, NEW r \in Seq(Name)
    PROVE  /\ IsPrefix(Append(p, n), r) => IsPrefix(p, r) /\ Len(p) < Len(r) /\ r[Len(p) + 1] = n
           /\ IsPrefix(r, Append(p, n)) => IsPrefix(r, p) \/ r = Append(p, n)
           /\ IsPrefix(p, r) /\ Len(p) < Len(r) /\ r[Len(p) + 1] = n => IsPrefix(Append(p, n), r)
           /\ IsPrefix(p, Append(p, n))
<1> DEFINE q == Append(p, n)
<1>1. /\ q \in Seq(Name) /\ Len(q) = Len(p) + 1 /\ Len(p) \in Nat /\ Len(r) \in Nat
      /\ q[Len(p) + 1] = n /\ \A i \in 1..Len(p) : q[i] = p[i]
    OBVIOUS
<1> HIDE DEF q
<1>2. ASSUME IsPrefix(q, r) PROVE IsPrefix(p, r) /\ Len(p) < Len(r) /\ r[Len(p) + 1] = n
    <2>1. Len(q) <= Len(r) /\ \A i \in 1..Len(q) : q[i] = r[i]
        BY <1>1, <1>2, PrefixMeans
    <2>2. Len(p) + 1 \in 1..Len(q) /\ \A i \in 1..Len(p) : i \in 1..Len(q)
        BY <1>1
    <2>3. \A i \in 1..Len(p) : p[i] = r[i]
        BY <1>1, <2>1, <2>2
    <2>4. QED
        BY <1>1, <2>1, <2>2, <2>3, PrefixMeans
<1>3. ASSUME IsPrefix(r, q), r # q PROVE IsPrefix(r, p)
    <2>1. Len(r) < Len(q)
        BY <1>1, <1>3, PrefixOrder
    <2>2. \A i \in 1..Len(r) : r[i] = q[i]
        BY <1>1, <1>3, PrefixMeans
    <2>3. \A i \in 1..Len(r) : i \in 1..Len(p)
        BY <1>1, <2>1
    <2>4. Len(r) <= Len(p) /\ \A i \in 1..Len(r) : r[i] = p[i]
        BY <1>1, <2>1, <2>2, <2>3
    <2>5. QED
        BY <2>4, PrefixMeans
<1>4. ASSUME IsPrefix(p, r), Len(p) < Len(r), r[Len(p) + 1] = n PROVE IsPrefix(q, r)
    <2>1. \A i \in 1..Len(p) : p[i] = r[i]
        BY <1>4, PrefixMeans
    <2>2. \A i \in 1..Len(q) : i \in 1..Len(p) \/ i = Len(p) + 1
        BY <1>1
    <2>3. \A i \in 1..Len(q) : q[i] = r[i]
        BY <1>1, <1>4, <2>1, <2>2
    <2>4. QED
        BY <1>1, <1>4, <2>3, PrefixMeans
<1>5. IsPrefix(p, q)
    BY <1>1, PrefixMeans
<1>6. QED
    BY <1>2, <1>3, <1>4, <1>5 DEF q

LEMMA PrefixIsCut ==
    ASSUME NEW p \in Seq(Name), NEW r \in Seq(Name), IsPrefix(p, r)
    PROVE  /\ Len(p) \in Nat /\ Len(p) <= Len(r)
           /\ p = SubSeq(r, 1, Len(p))
<1>1. Len(p) <= Len(r) /\ \A i \in 1..Len(p) : p[i] = r[i]
    BY PrefixMeans
<1>2. /\ SubSeq(r, 1, Len(p)) \in Seq(Name) /\ Len(SubSeq(r, 1, Len(p))) = Len(p)
      /\ \A i \in 1..Len(p) : SubSeq(r, 1, Len(p))[i] = r[i]
    BY <1>1
<1>3. QED
    BY <1>1, <1>2

-----------------------------------------------------------------------------
(***************************************************************************)
(* The invariant                                                           *)
(***************************************************************************)

\* The pairs still to be compared are what the two trees have at their path,
\* each a tree or nothing.
FramesAreLocated ==
    \A f \in pending :
        /\ f.base = Subtree(At(base, f.path))
        /\ f.head = Subtree(At(head, f.path))
        /\ Descend(At(base, f.path), At(head, f.path))

\* Each change carries what the two trees have at its path, and no change is
\* recorded where they have the same.
ChangesAreDifferences ==
    \A c \in changes :
        /\ c.base = At(base, c.path)
        /\ c.head = At(head, c.path)
        /\ ~Same(c.base, c.head)

\* Above a path both sides have a tree, or nothing.
Descended(p) ==
    \A r \in Seq(Name) : IsStrictPrefix(r, p) => Descend(At(base, r), At(head, r))

\* The walk only goes down where both sides have a tree, or nothing, and what it
\* records is where it stopped.
ByDescent ==
    /\ \A f \in pending : Descended(f.path)
    /\ \A c \in changes : /\ Descended(c.path)
                          /\ ~Descend(c.base, c.head)
                          /\ c = [path |-> c.path, base |-> c.base, head |-> c.head]

\* No frame is below another, or below or above a change.
FramesAreApart ==
    /\ \A f, g \in pending : IsPrefix(f.path, g.path) => f = g
    /\ \A f \in pending, c \in changes : ~IsPrefix(f.path, c.path) /\ ~IsPrefix(c.path, f.path)

\* Where the two trees differ a change has been found or is still to be.
DifferencesAreCovered ==
    pc # "failed" =>
        \A p \in Seq(Name) :
            Leaf(At(base, p)) # Leaf(At(head, p)) =>
                \/ \E f \in pending : IsPrefix(f.path, p)
                \/ \E c \in changes : IsPrefix(c.path, p)

DiffInv ==
    /\ TypeOK
    /\ pc = "done" => pending = {}
    /\ FramesAreLocated
    /\ NothingEqualIsRead
    /\ ChangesAreDifferences
    /\ ByDescent
    /\ FramesAreApart
    /\ ChangesAreApart
    /\ DifferencesAreCovered

LEMMA PathType == Path = {p \in Seq(Name) : Len(p) <= MaxDepth}
<1>1. ASSUME NEW p \in Path PROVE p \in Seq(Name) /\ Len(p) <= MaxDepth
    <2>1. PICK m \in 0..MaxDepth : p \in [1..m -> Name]
        BY DEF Path, BoundedSeq, SeqOf
    <2>2. QED
        BY <2>1, TreeDiffAssumption
<1>2. ASSUME NEW p \in Seq(Name), Len(p) <= MaxDepth PROVE p \in Path
    <2>1. Len(p) \in 0..MaxDepth /\ p \in [1..Len(p) -> Name]
        BY <1>2, TreeDiffAssumption
    <2>2. QED
        BY <2>1 DEF Path, BoundedSeq, SeqOf
<1>3. QED
    BY <1>1, <1>2

LEMMA DiffInvInit == Init => DiffInv
<1> SUFFICES ASSUME Init PROVE DiffInv
    OBVIOUS
<1> USE DEF Init
<1>1. <<>> \in Seq(Name) /\ Len(<<>>) = 0 /\ <<>> \in Path
    BY PathType, TreeDiffAssumption
<1>2. base \in Side /\ head \in Side
    BY DEF Side
<1>3. At(base, <<>>) = Root(base) /\ At(head, <<>>) = Root(head)
    BY <1>2, AtRoot
<1>4. TypeOK
    BY <1>1 DEF TypeOK
<1>5. FramesAreLocated
    BY <1>2, <1>3, NodeTypes DEF FramesAreLocated, Descend, Root
<1>6. NothingEqualIsRead /\ ChangesAreDifferences /\ FramesAreApart /\ ChangesAreApart
    BY DEF NothingEqualIsRead, ChangesAreDifferences, FramesAreApart, ChangesAreApart
<1>7. DifferencesAreCovered
    <2>1. ASSUME NEW p \in Seq(Name) PROVE IsPrefix(<<>>, p)
        <3>1. Len(p) \in Nat /\ 1..Len(<<>>) = {}
            BY <1>1
        <3>2. IsPrefix(<<>>, p) <=> Len(<<>>) <= Len(p) /\ \A i \in 1..Len(<<>>) : <<>>[i] = p[i]
            BY <1>1, PrefixMeans
        <3>3. QED
            BY <1>1, <3>1, <3>2
    <2>2. QED
        BY <2>1 DEF DifferencesAreCovered
<1>8. ByDescent
    <2>1. ASSUME NEW r \in Seq(Name), IsStrictPrefix(r, <<>>) PROVE FALSE
        <3>1. IsPrefix(r, <<>>) /\ r # <<>>
            BY <2>1 DEF IsStrictPrefix
        <3>2. Len(r) <= Len(<<>>)
            BY <1>1, <3>1, PrefixMeans
        <3>3. r = <<>>
            BY <1>1, <3>2
        <3>4. QED
            BY <3>1, <3>3
    <2>2. QED
        BY <2>1 DEF ByDescent, Descended
<1>9. QED
    BY <1>4, <1>5, <1>6, <1>7, <1>8 DEF DiffInv

-----------------------------------------------------------------------------
(***************************************************************************)
(* A frame of the walk                                                     *)
(***************************************************************************)

\* The names a frame finds a difference under, and those it goes down.
Unlike(f) == {n \in Names(f) : ~Same(EntryOf(f.base, n), EntryOf(f.head, n))}
Descending(f) == {n \in Unlike(f) : Descend(EntryOf(f.base, n), EntryOf(f.head, n))}

LEMMA WalkMeans ==
    ASSUME NEW f, Walk(f)
    PROVE  /\ pending' = (pending \ {f}) \cup {FrameAt(f, n) : n \in Descending(f)}
           /\ changes' = changes \cup {ChangeAt(f, n) : n \in Unlike(f) \ Descending(f)}
BY DEF Walk, Unlike, Descending

\* A name of a frame is one step down in both trees, and no deeper than trees are.
LEMMA StepDown ==
    ASSUME DiffInv, NEW f \in pending, NEW n \in Name
    PROVE  /\ f.path \in Seq(Name)
           /\ Append(f.path, n) \in Seq(Name) /\ Len(Append(f.path, n)) > 0
           /\ At(base, Append(f.path, n)) = EntryOf(f.base, n)
           /\ At(head, Append(f.path, n)) = EntryOf(f.head, n)
<1>1. f.path \in Seq(Name)
    BY PathType DEF DiffInv, TypeOK
<1>2. base \in Side /\ head \in Side
    BY DEF DiffInv, TypeOK, Side
<1>3. f.base = Subtree(At(base, f.path)) /\ f.head = Subtree(At(head, f.path))
    BY DEF DiffInv, FramesAreLocated
<1>4. Append(f.path, n) \in Seq(Name) /\ Len(Append(f.path, n)) > 0
    BY <1>1
<1>5. QED
    BY <1>1, <1>2, <1>3, <1>4, AtAppend

LEMMA NamesOfFrame ==
    ASSUME DiffInv, NEW f \in pending, NEW n \in Names(f)
    PROVE  /\ n \in Name
           /\ Append(f.path, n) \in Path
           /\ EntryOf(f.base, n) \in Entry \cup {NoEntry}
           /\ EntryOf(f.head, n) \in Entry \cup {NoEntry}
<1>1. f.path \in Seq(Name) /\ Len(f.path) <= MaxDepth
    BY PathType DEF DiffInv, TypeOK
<1>2. base \in Tree /\ head \in Tree /\ f.base \in Side /\ f.head \in Side
    BY DEF DiffInv, TypeOK, Side
<1>3. \A t \in Side : DOMAIN t \subseteq Name
    <2>1. \A t \in Tree : DOMAIN t \subseteq Name
        BY TreeDiffAssumption
    <2>2. DOMAIN <<>> = {}
        OBVIOUS
    <2>3. QED
        BY <2>1, <2>2 DEF Side
<1>4. n \in Name /\ f.base # f.head
    BY <1>2, <1>3 DEF Names
<1>5. Len(f.path) # MaxDepth
    <2>1. f.base = Subtree(At(base, f.path)) /\ f.head = Subtree(At(head, f.path))
        BY DEF DiffInv, FramesAreLocated
    <2>2. QED
        BY <1>1, <1>2, <1>4, <2>1, NothingAtMaxDepth
<1>6. Append(f.path, n) \in Seq(Name) /\ Len(Append(f.path, n)) <= MaxDepth
    <2>1. Len(Append(f.path, n)) = Len(f.path) + 1 /\ Len(f.path) \in Nat
        BY <1>1, <1>4
    <2>2. QED
        BY <1>1, <1>4, <1>5, <2>1, TreeDiffAssumption
<1>7. QED
    BY <1>2, <1>4, <1>6, PathType, EntryOfType

\* A path two frames or changes share, or lie below, is a path of both: what
\* is apart from a frame stays apart from all that the frame is replaced with.
LEMMA ApartFromChildren ==
    ASSUME NEW p \in Seq(Name), NEW n \in Name, NEW r \in Seq(Name),
           ~IsPrefix(p, r), ~IsPrefix(r, p)
    PROVE  ~IsPrefix(Append(p, n), r) /\ ~IsPrefix(r, Append(p, n))
<1>1. ~IsPrefix(Append(p, n), r)
    BY PrefixAppend
<1>2. IsPrefix(r, Append(p, n)) => IsPrefix(r, p) \/ r = Append(p, n)
    BY PrefixAppend
<1>3. IsPrefix(p, Append(p, n))
    BY PrefixAppend
<1>4. QED
    BY <1>1, <1>2, <1>3

LEMMA ChildrenApart ==
    ASSUME NEW p \in Seq(Name), NEW n \in Name, NEW m \in Name,
           IsPrefix(Append(p, n), Append(p, m))
    PROVE  n = m
<1>1. Append(p, m) \in Seq(Name) /\ Append(p, m)[Len(p) + 1] = m
    OBVIOUS
<1>2. QED
    BY <1>1, PrefixAppend

\* A step of the walk keeps every part of the invariant.
LEMMA WalkTypes ==
    ASSUME DiffInv, NEW f \in pending, Walk(f), UNCHANGED <<base, head, pc>>
    PROVE  TypeOK'
<1>1. f.base \in Side /\ f.head \in Side
    BY DEF DiffInv, TypeOK, Side
<1>2. ASSUME NEW n \in Names(f)
      PROVE  /\ FrameAt(f, n).path \in Path
             /\ FrameAt(f, n).base \in Side /\ FrameAt(f, n).head \in Side
             /\ ChangeAt(f, n).path \in Path
             /\ ChangeAt(f, n).base \in Entry \cup {NoEntry}
             /\ ChangeAt(f, n).head \in Entry \cup {NoEntry}
    <2>1. Append(f.path, n) \in Path
        BY NamesOfFrame
    <2>2. EntryOf(f.base, n) \in Entry \cup {NoEntry} /\ EntryOf(f.head, n) \in Entry \cup {NoEntry}
        BY <1>1, EntryOfType
    <2>3. Subtree(EntryOf(f.base, n)) \in Side /\ Subtree(EntryOf(f.head, n)) \in Side
        BY <2>2, NodeTypes
    <2>4. QED
        BY <2>1, <2>2, <2>3 DEF FrameAt, ChangeAt, Join
<1>3. Descending(f) \subseteq Names(f) /\ Unlike(f) \subseteq Names(f)
    BY DEF Descending, Unlike
<1>4. ASSUME NEW g \in pending'
      PROVE  g.path \in Path /\ g.base \in Side /\ g.head \in Side
    <2>1. CASE g \in pending
        BY <2>1 DEF DiffInv, TypeOK, Side
    <2>2. CASE g \notin pending
        <3>1. PICK n \in Descending(f) : g = FrameAt(f, n)
            BY <2>2, WalkMeans
        <3>2. QED
            BY <1>2, <1>3, <3>1
    <2>3. QED
        BY <2>1, <2>2
<1>5. ASSUME NEW c \in changes'
      PROVE  /\ c.path \in Path
             /\ c.base \in Entry \cup {NoEntry} /\ c.head \in Entry \cup {NoEntry}
    <2>1. CASE c \in changes
        BY <2>1 DEF DiffInv, TypeOK
    <2>2. CASE c \notin changes
        <3>1. PICK n \in Unlike(f) \ Descending(f) : c = ChangeAt(f, n)
            BY <2>2, WalkMeans
        <3>2. QED
            BY <1>2, <1>3, <3>1
    <2>3. QED
        BY <2>1, <2>2
<1>6. base' \in Tree /\ head' \in Tree /\ pc' \in {"walk", "done", "failed"}
    BY DEF DiffInv, TypeOK
<1>7. QED
    BY <1>4, <1>5, <1>6 DEF TypeOK, Side

\* What a step adds: frames and changes one name below the one it took.
LEMMA Added ==
    ASSUME DiffInv, NEW f \in pending, Walk(f)
    PROVE  /\ \A g \in pending' :
                \/ g \in pending /\ g # f
                \/ \E n \in Descending(f) : g = FrameAt(f, n)
           /\ \A c \in changes' :
                \/ c \in changes
                \/ \E n \in Unlike(f) \ Descending(f) : c = ChangeAt(f, n)
BY WalkMeans

LEMMA WalkLocates ==
    ASSUME DiffInv, NEW f \in pending, Walk(f), UNCHANGED <<base, head, pc>>
    PROVE  FramesAreLocated' /\ NothingEqualIsRead' /\ ChangesAreDifferences'
<1>1. ASSUME NEW n \in Unlike(f)
      PROVE  /\ Append(f.path, n) # <<>>
             /\ At(base, Append(f.path, n)) = EntryOf(f.base, n)
             /\ At(head, Append(f.path, n)) = EntryOf(f.head, n)
             /\ ~Same(EntryOf(f.base, n), EntryOf(f.head, n))
    <2>1. n \in Names(f) /\ ~Same(EntryOf(f.base, n), EntryOf(f.head, n))
        BY DEF Unlike
    <2>2. n \in Name
        BY <2>1, NamesOfFrame
    <2>3. Len(Append(f.path, n)) > 0
        BY <2>2, StepDown
    <2>4. Append(f.path, n) # <<>>
        <3>1. ~(Len(<<>>) > 0)
            OBVIOUS
        <3>2. QED
            BY <2>3, <3>1, Zenon
    <2>5. QED
        BY <2>1, <2>2, <2>4, StepDown
<1>2. ASSUME NEW n \in Descending(f)
      PROVE  n \in Unlike(f) /\ Descend(EntryOf(f.base, n), EntryOf(f.head, n))
    BY DEF Descending
<1>3. FramesAreLocated'
    <2>1. ASSUME NEW g \in pending'
          PROVE  /\ g.base = Subtree(At(base, g.path))
                 /\ g.head = Subtree(At(head, g.path))
                 /\ Descend(At(base, g.path), At(head, g.path))
        <3>1. CASE g \in pending
            BY <3>1 DEF DiffInv, FramesAreLocated
        <3>2. CASE \E n \in Descending(f) : g = FrameAt(f, n)
            <4>1. PICK n \in Descending(f) : g = FrameAt(f, n)
                BY <3>2
            <4>2. /\ g.path = Append(f.path, n)
                  /\ g.base = Subtree(EntryOf(f.base, n))
                  /\ g.head = Subtree(EntryOf(f.head, n))
                BY <4>1 DEF FrameAt, Join
            <4>3. QED
                BY <1>1, <1>2, <4>2
        <3>3. QED
            BY <3>1, <3>2, Added
    <2>2. QED
        BY <2>1 DEF FramesAreLocated
<1>4. NothingEqualIsRead'
    <2>1. ASSUME NEW g \in pending', g.path # <<>>
          PROVE  ~Same(At(base, g.path), At(head, g.path))
        <3>1. CASE g \in pending
            BY <2>1, <3>1 DEF DiffInv, NothingEqualIsRead
        <3>2. CASE \E n \in Descending(f) : g = FrameAt(f, n)
            <4>1. PICK n \in Descending(f) : g = FrameAt(f, n)
                BY <3>2
            <4>2. g.path = Append(f.path, n)
                BY <4>1 DEF FrameAt, Join
            <4>3. QED
                BY <1>1, <1>2, <4>2
        <3>3. QED
            BY <3>1, <3>2, Added
    <2>2. QED
        BY <2>1 DEF NothingEqualIsRead
<1>5. ChangesAreDifferences'
    <2>1. ASSUME NEW c \in changes'
          PROVE  /\ c.base = At(base, c.path)
                 /\ c.head = At(head, c.path)
                 /\ ~Same(c.base, c.head)
        <3>1. CASE c \in changes
            BY <3>1 DEF DiffInv, ChangesAreDifferences
        <3>2. CASE \E n \in Unlike(f) \ Descending(f) : c = ChangeAt(f, n)
            <4>1. PICK n \in Unlike(f) : c = ChangeAt(f, n)
                BY <3>2
            <4>2. /\ c.path = Append(f.path, n)
                  /\ c.base = EntryOf(f.base, n)
                  /\ c.head = EntryOf(f.head, n)
                BY <4>1 DEF ChangeAt, Join
            <4>3. QED
                BY <1>1, <4>2
        <3>3. QED
            BY <3>1, <3>2, Added
    <2>2. QED
        BY <2>1 DEF ChangesAreDifferences
<1>6. QED
    BY <1>3, <1>4, <1>5

LEMMA WalkKeepsApart ==
    ASSUME DiffInv, NEW f \in pending, Walk(f), UNCHANGED <<base, head, pc>>
    PROVE  FramesAreApart' /\ ChangesAreApart'
<1> DEFINE child(n) == Append(f.path, n)
<1>1. /\ \A g \in pending : g.path \in Seq(Name)
      /\ \A c \in changes : c.path \in Seq(Name)
    BY PathType DEF DiffInv, TypeOK
<1>2. ASSUME NEW n \in Unlike(f) PROVE n \in Name /\ child(n) \in Seq(Name)
    <2>1. n \in Names(f)
        BY DEF Unlike
    <2>2. n \in Name
        BY <2>1, NamesOfFrame
    <2>3. QED
        BY <2>2, StepDown
<1>3. ASSUME NEW n \in Unlike(f), NEW m \in Unlike(f), IsPrefix(child(n), child(m))
      PROVE  n = m
    BY <1>1, <1>2, <1>3, ChildrenApart
<1>4. ASSUME NEW g \in pending, g # f, NEW n \in Unlike(f)
      PROVE  ~IsPrefix(child(n), g.path) /\ ~IsPrefix(g.path, child(n))
    <2>1. ~IsPrefix(f.path, g.path) /\ ~IsPrefix(g.path, f.path)
        BY <1>4 DEF DiffInv, FramesAreApart
    <2>2. QED
        BY <1>1, <1>2, <2>1, ApartFromChildren
<1>5. ASSUME NEW c \in changes, NEW n \in Unlike(f)
      PROVE  ~IsPrefix(child(n), c.path) /\ ~IsPrefix(c.path, child(n))
    <2>1. ~IsPrefix(f.path, c.path) /\ ~IsPrefix(c.path, f.path)
        BY DEF DiffInv, FramesAreApart
    <2>2. QED
        BY <1>1, <1>2, <2>1, ApartFromChildren
<1>6. \A n \in Descending(f) : n \in Unlike(f) /\ FrameAt(f, n).path = child(n)
    BY DEF Descending, FrameAt, Join
<1>7. \A n \in Unlike(f) : ChangeAt(f, n).path = child(n)
    BY DEF ChangeAt, Join
<1> HIDE DEF child
<1>8. ASSUME NEW g \in pending', NEW h \in pending', IsPrefix(g.path, h.path)
      PROVE  g = h
    <2>1. CASE g \in pending /\ g # f /\ h \in pending /\ h # f
        BY <1>8, <2>1 DEF DiffInv, FramesAreApart
    <2>2. CASE g \in pending /\ g # f /\ \E n \in Descending(f) : h = FrameAt(f, n)
        BY <1>4, <1>6, <1>8, <2>2
    <2>3. CASE h \in pending /\ h # f /\ \E n \in Descending(f) : g = FrameAt(f, n)
        BY <1>4, <1>6, <1>8, <2>3
    <2>4. CASE /\ \E n \in Descending(f) : g = FrameAt(f, n)
               /\ \E n \in Descending(f) : h = FrameAt(f, n)
        <3>1. PICK n \in Descending(f) : g = FrameAt(f, n)
            BY <2>4
        <3>2. PICK m \in Descending(f) : h = FrameAt(f, m)
            BY <2>4
        <3>3. IsPrefix(child(n), child(m))
            BY <1>6, <1>8, <3>1, <3>2
        <3>4. n = m
            BY <1>3, <1>6, <3>3
        <3>5. QED
            BY <3>1, <3>2, <3>4
    <2>5. QED
        BY <2>1, <2>2, <2>3, <2>4, Added
<1>9. ASSUME NEW g \in pending', NEW c \in changes'
      PROVE  ~IsPrefix(g.path, c.path) /\ ~IsPrefix(c.path, g.path)
    <2>1. CASE g \in pending /\ g # f /\ c \in changes
        BY <2>1 DEF DiffInv, FramesAreApart
    <2>2. CASE g \in pending /\ g # f /\ \E n \in Unlike(f) \ Descending(f) : c = ChangeAt(f, n)
        BY <1>4, <1>7, <2>2
    <2>3. CASE c \in changes /\ \E n \in Descending(f) : g = FrameAt(f, n)
        BY <1>5, <1>6, <2>3
    <2>4. CASE /\ \E n \in Descending(f) : g = FrameAt(f, n)
               /\ \E n \in Unlike(f) \ Descending(f) : c = ChangeAt(f, n)
        <3>1. PICK n \in Descending(f) : g = FrameAt(f, n)
            BY <2>4
        <3>2. PICK m \in Unlike(f) \ Descending(f) : c = ChangeAt(f, m)
            BY <2>4
        <3>3. g.path = child(n) /\ c.path = child(m) /\ n \in Unlike(f) /\ n # m
            BY <1>6, <1>7, <3>1, <3>2
        <3>4. QED
            BY <1>3, <3>3
    <2>5. QED
        BY <2>1, <2>2, <2>3, <2>4, Added
<1>10. ASSUME NEW c \in changes', NEW d \in changes', IsPrefix(c.path, d.path)
       PROVE  c = d
    <2>1. CASE c \in changes /\ d \in changes
        BY <1>10, <2>1 DEF DiffInv, ChangesAreApart
    <2>2. CASE c \in changes /\ \E n \in Unlike(f) \ Descending(f) : d = ChangeAt(f, n)
        BY <1>5, <1>7, <1>10, <2>2
    <2>3. CASE d \in changes /\ \E n \in Unlike(f) \ Descending(f) : c = ChangeAt(f, n)
        BY <1>5, <1>7, <1>10, <2>3
    <2>4. CASE /\ \E n \in Unlike(f) \ Descending(f) : c = ChangeAt(f, n)
               /\ \E n \in Unlike(f) \ Descending(f) : d = ChangeAt(f, n)
        <3>1. PICK n \in Unlike(f) \ Descending(f) : c = ChangeAt(f, n)
            BY <2>4
        <3>2. PICK m \in Unlike(f) \ Descending(f) : d = ChangeAt(f, m)
            BY <2>4
        <3>3. IsPrefix(child(n), child(m))
            BY <1>7, <1>10, <3>1, <3>2
        <3>4. n = m
            BY <1>3, <3>3
        <3>5. QED
            BY <3>1, <3>2, <3>4
    <2>5. QED
        BY <2>1, <2>2, <2>3, <2>4, Added
<1>11. QED
    BY <1>8, <1>9, <1>10 DEF FramesAreApart, ChangesAreApart

LEMMA WalkDescends ==
    ASSUME DiffInv, NEW f \in pending, Walk(f), UNCHANGED <<base, head, pc>>
    PROVE  ByDescent'
<1>1. f.path \in Seq(Name) /\ Descended(f.path) /\ Descend(At(base, f.path), At(head, f.path))
    BY PathType DEF DiffInv, TypeOK, ByDescent, FramesAreLocated
<1>2. ASSUME NEW n \in Unlike(f) PROVE n \in Name /\ Descended(Append(f.path, n))
    <2>1. n \in Name
        BY NamesOfFrame DEF Unlike
    <2>2. ASSUME NEW r \in Seq(Name), IsStrictPrefix(r, Append(f.path, n))
          PROVE  Descend(At(base, r), At(head, r))
        <3>1. IsPrefix(r, Append(f.path, n)) /\ r # Append(f.path, n)
            BY <2>2 DEF IsStrictPrefix
        <3>2. IsPrefix(r, f.path)
            BY <1>1, <2>1, <3>1, PrefixAppend
        <3>3. r = f.path \/ IsStrictPrefix(r, f.path)
            BY <3>2 DEF IsStrictPrefix
        <3>4. QED
            BY <1>1, <3>3 DEF Descended
    <2>3. QED
        BY <2>1, <2>2 DEF Descended
<1>3. \A p : Descended(p)' <=> Descended(p)
    BY DEF Descended
<1>4. ASSUME NEW g \in pending' PROVE Descended(g.path)
    <2>1. CASE g \in pending
        BY <2>1 DEF DiffInv, ByDescent
    <2>2. CASE \E n \in Descending(f) : g = FrameAt(f, n)
        <3>1. PICK n \in Descending(f) : g = FrameAt(f, n)
            BY <2>2
        <3>2. n \in Unlike(f) /\ g.path = Append(f.path, n)
            BY <3>1 DEF FrameAt, Join, Descending
        <3>3. QED
            BY <1>2, <3>2
    <2>3. QED
        BY <2>1, <2>2, Added
<1>5. ASSUME NEW c \in changes'
      PROVE  /\ Descended(c.path)
             /\ ~Descend(c.base, c.head)
             /\ c = [path |-> c.path, base |-> c.base, head |-> c.head]
    <2>1. CASE c \in changes
        BY <2>1 DEF DiffInv, ByDescent
    <2>2. CASE \E n \in Unlike(f) \ Descending(f) : c = ChangeAt(f, n)
        <3>1. PICK n \in Unlike(f) \ Descending(f) : c = ChangeAt(f, n)
            BY <2>2
        <3>2. /\ n \in Unlike(f) /\ c.path = Append(f.path, n)
              /\ c.base = EntryOf(f.base, n) /\ c.head = EntryOf(f.head, n)
              /\ c = [path |-> c.path, base |-> c.base, head |-> c.head]
            BY <3>1 DEF ChangeAt, Join
        <3>3. ~Descend(EntryOf(f.base, n), EntryOf(f.head, n))
            BY <3>1 DEF Descending
        <3>4. QED
            BY <1>2, <3>2, <3>3
    <2>3. QED
        BY <2>1, <2>2, Added
<1>6. QED
    BY <1>3, <1>4, <1>5 DEF ByDescent

\* Two entries with one object are the same as content, and what is below them
\* is the same too.
LEMMA SameObject ==
    ASSUME NEW u \in Entry \cup {NoEntry}, NEW v \in Entry \cup {NoEntry},
           u = v \/ Same(u, v)
    PROVE  Leaf(u) = Leaf(v) /\ Subtree(u) = Subtree(v)
<1>1. CASE u = v
    BY <1>1
<1>2. CASE Same(u, v)
    <2>1. u \in Entry /\ v \in Entry /\ u.id = v.id
        BY <1>2 DEF Same, NoEntry
    <2>2. CASE u.mode = "tree"
        <3>1. u.id \in Tree
            BY <2>1, <2>2, TreeDiffAssumption DEF Entry
        <3>2. v.mode = "tree"
            BY <2>1, <3>1, TreeDiffAssumption DEF Entry
        <3>3. QED
            BY <2>1, <2>2, <3>2 DEF Leaf, Subtree
    <2>3. CASE u.mode # "tree"
        <3>1. u.id \in Object
            BY <2>1, <2>3 DEF Entry
        <3>2. v.mode # "tree"
            BY <2>1, <3>1, TreeDiffAssumption DEF Entry
        <3>3. u.mode # "none" /\ v.mode # "none"
            BY <1>2 DEF Same
        <3>4. QED
            BY <2>1, <2>3, <3>2, <3>3 DEF Leaf, Subtree
    <2>4. QED
        BY <2>2, <2>3
<1>3. QED
    BY <1>1, <1>2

\* A name under which a frame finds no difference has none anywhere below it.
LEMMA PrunedIsEqual ==
    ASSUME DiffInv, NEW f \in pending, NEW n \in Name, n \notin Unlike(f),
           NEW p \in Seq(Name), IsPrefix(Append(f.path, n), p)
    PROVE  Leaf(At(base, p)) = Leaf(At(head, p))
<1> DEFINE q == Append(f.path, n)
           u == EntryOf(f.base, n)
           v == EntryOf(f.head, n)
<1>1. base \in Side /\ head \in Side /\ f.base \in Side /\ f.head \in Side
    BY DEF DiffInv, TypeOK, Side
<1>2. u \in Entry \cup {NoEntry} /\ v \in Entry \cup {NoEntry}
    BY <1>1, EntryOfType
<1>3. u = v \/ Same(u, v)
    <2>1. CASE f.base = f.head
        BY <2>1
    <2>2. CASE f.base # f.head /\ n \notin DOMAIN f.base \cup DOMAIN f.head
        BY <2>2 DEF EntryOf
    <2>3. CASE f.base # f.head /\ n \in DOMAIN f.base \cup DOMAIN f.head
        BY <2>3 DEF Names, Unlike
    <2>4. QED
        BY <2>1, <2>2, <2>3
<1>4. q \in Seq(Name) /\ At(base, q) = u /\ At(head, q) = v
    BY StepDown
<1>5. IsPrefix(q, p)
    OBVIOUS
<1> HIDE DEF q, u, v
<1>6. Leaf(u) = Leaf(v) /\ Subtree(u) = Subtree(v)
    BY <1>2, <1>3, SameObject
<1>7. Len(q) \in Nat /\ Len(q) <= Len(p) /\ q = SubSeq(p, 1, Len(q))
    BY <1>4, <1>5, PrefixIsCut
<1>8. CASE p = q
    BY <1>4, <1>6, <1>8
<1>9. CASE p # q
    <2>1. Len(q) < Len(p)
        BY <1>4, <1>5, <1>9, PrefixOrder
    <2> DEFINE rest == SubSeq(p, Len(q) + 1, Len(p))
    <2>2. At(Subtree(At(base, SubSeq(p, 1, Len(q)))), rest) = At(base, p)
        BY <1>1, <1>7, <2>1, AtRest
    <2>3. At(Subtree(At(head, SubSeq(p, 1, Len(q)))), rest) = At(head, p)
        BY <1>1, <1>7, <2>1, AtRest
    <2> HIDE DEF rest
    <2>4. At(Subtree(u), rest) = At(base, p) /\ At(Subtree(v), rest) = At(head, p)
        BY <1>4, <1>7, <2>2, <2>3
    <2>5. QED
        BY <1>6, <2>4
<1>10. QED
    BY <1>8, <1>9

LEMMA WalkCovers ==
    ASSUME DiffInv, NEW f \in pending, Walk(f), UNCHANGED <<base, head, pc>>, pc = "walk"
    PROVE  DifferencesAreCovered'
<1> SUFFICES ASSUME NEW p \in Seq(Name), Leaf(At(base, p)) # Leaf(At(head, p))
             PROVE  \/ \E g \in pending' : IsPrefix(g.path, p)
                    \/ \E c \in changes' : IsPrefix(c.path, p)
    BY DEF DifferencesAreCovered
<1>1. /\ pending' = (pending \ {f}) \cup {FrameAt(f, n) : n \in Descending(f)}
      /\ changes' = changes \cup {ChangeAt(f, n) : n \in Unlike(f) \ Descending(f)}
    BY WalkMeans
<1>2. CASE \E c \in changes : IsPrefix(c.path, p)
    BY <1>1, <1>2
<1>3. CASE \E g \in pending : g # f /\ IsPrefix(g.path, p)
    BY <1>1, <1>3
<1>4. CASE IsPrefix(f.path, p)
    <2>1. f.path \in Seq(Name)
        BY PathType DEF DiffInv, TypeOK
    <2>2. p # f.path
        <3>1. Descend(At(base, f.path), At(head, f.path))
            BY DEF DiffInv, FramesAreLocated
        <3>2. QED
            BY <3>1 DEF Descend, Leaf
    <2>3. Len(f.path) < Len(p)
        BY <1>4, <2>1, <2>2, PrefixOrder
    <2> DEFINE n == p[Len(f.path) + 1]
    <2>4. n \in Name
        BY <2>1, <2>3
    <2>5. IsPrefix(Append(f.path, n), p)
        BY <1>4, <2>1, <2>3, <2>4, PrefixAppend
    <2> HIDE DEF n
    <2>6. n \in Unlike(f)
        BY <2>4, <2>5, PrunedIsEqual
    <2>7. CASE n \in Descending(f)
        <3>1. FrameAt(f, n) \in pending' /\ FrameAt(f, n).path = Append(f.path, n)
            BY <1>1, <2>7 DEF FrameAt, Join
        <3>2. QED
            BY <2>5, <3>1
    <2>8. CASE n \notin Descending(f)
        <3>1. ChangeAt(f, n) \in changes' /\ ChangeAt(f, n).path = Append(f.path, n)
            BY <1>1, <2>6, <2>8 DEF ChangeAt, Join
        <3>2. QED
            BY <2>5, <3>1
    <2>9. QED
        BY <2>7, <2>8
<1>5. QED
    BY <1>2, <1>3, <1>4 DEF DiffInv, DifferencesAreCovered

-----------------------------------------------------------------------------
(***************************************************************************)
(* Theorems                                                                *)
(***************************************************************************)

LEMMA DiffInvNext == DiffInv /\ [Next]_vars => DiffInv'
<1> SUFFICES ASSUME DiffInv, [Next]_vars PROVE DiffInv'
    OBVIOUS
<1>1. CASE WalkNext
    <2>1. pc = "walk" /\ UNCHANGED <<base, head, pc>>
        BY <1>1 DEF WalkNext
    <2>2. PICK f \in pending : Walk(f)
        BY <1>1 DEF WalkNext
    <2>3. TypeOK'
        BY <2>1, <2>2, WalkTypes
    <2>4. FramesAreLocated' /\ NothingEqualIsRead' /\ ChangesAreDifferences'
        BY <2>1, <2>2, WalkLocates
    <2>5. FramesAreApart' /\ ChangesAreApart'
        BY <2>1, <2>2, WalkKeepsApart
    <2>6. DifferencesAreCovered'
        BY <2>1, <2>2, WalkCovers
    <2>7. ByDescent'
        BY <2>1, <2>2, WalkDescends
    <2>8. QED
        BY <2>1, <2>3, <2>4, <2>5, <2>6, <2>7 DEF DiffInv
<1>2. CASE ReadFails
    BY <1>2 DEF ReadFails, DiffInv, TypeOK, FramesAreLocated, NothingEqualIsRead,
                ChangesAreDifferences, FramesAreApart, ChangesAreApart, DifferencesAreCovered,
                ByDescent, Descended
<1>3. CASE Done
    BY <1>3 DEF Done, DiffInv, TypeOK, FramesAreLocated, NothingEqualIsRead,
                ChangesAreDifferences, FramesAreApart, ChangesAreApart, DifferencesAreCovered,
                ByDescent, Descended
<1>4. CASE UNCHANGED vars
    BY <1>4 DEF vars, DiffInv, TypeOK, FramesAreLocated, NothingEqualIsRead,
                ChangesAreDifferences, FramesAreApart, ChangesAreApart, DifferencesAreCovered,
                ByDescent, Descended
<1>5. QED
    BY <1>1, <1>2, <1>3, <1>4 DEF Next

LEMMA RestIsNotEmpty ==
    ASSUME NEW p \in Seq(Name), NEW k \in Nat, k < Len(p)
    PROVE  SubSeq(p, k + 1, Len(p)) # <<>>
<1>1. Len(SubSeq(p, k + 1, Len(p))) = Len(p) - k
    OBVIOUS
<1>2. Len(SubSeq(p, k + 1, Len(p))) > 0
    BY <1>1
<1>3. ~(Len(<<>>) > 0)
    OBVIOUS
<1>4. QED
    BY <1>2, <1>3, Zenon

\* What the changes leave at a path, when each side of a change is what the tree
\* has there.
LEMMA PatchedIs ==
    ASSUME NEW tree \in Side, NEW other \in Side, NEW side, NEW p \in Seq(Name),
           \A c \in changes : c.path \in Seq(Name) /\ c[side] = At(other, c.path),
           (\A c \in changes : ~IsPrefix(c.path, p)) => Leaf(At(tree, p)) = Leaf(At(other, p))
    PROVE  Leaf(Patched(tree, side, p)) = Leaf(At(other, p))
<1> DEFINE over == {c \in changes : IsPrefix(c.path, p)}
           c == CHOOSE c \in over : TRUE
           rest == SubSeq(p, Len(c.path) + 1, Len(p))
<1>1. CASE over = {}
    BY <1>1 DEF Patched
<1>2. CASE over # {}
    <2>1. c \in changes /\ IsPrefix(c.path, p)
        BY <1>2
    <2>2. Patched(tree, side, p) = IF rest = <<>> THEN c[side] ELSE At(Subtree(c[side]), rest)
        BY <1>2 DEF Patched
    <2>3. c.path \in Seq(Name) /\ c[side] = At(other, c.path)
        BY <2>1
    <2> HIDE DEF c
    <2>4. Len(c.path) \in Nat /\ Len(c.path) <= Len(p) /\ c.path = SubSeq(p, 1, Len(c.path))
        BY <2>1, <2>3, PrefixIsCut
    <2>5. CASE c.path = p
        <3>1. rest = <<>>
            BY <2>3, <2>5
        <3>2. QED
            BY <2>2, <2>3, <2>5, <3>1
    <2>6. CASE c.path # p
        <3>1. Len(c.path) < Len(p)
            BY <2>1, <2>3, <2>6, PrefixOrder
        <3>2. At(Subtree(At(other, SubSeq(p, 1, Len(c.path)))), rest) = At(other, p)
            BY <2>4, <3>1, AtRest
        <3>3. rest # <<>>
            BY <2>4, <3>1, RestIsNotEmpty
        <3> HIDE DEF rest
        <3>4. QED
            BY <2>2, <2>3, <2>4, <3>2, <3>3
    <2>7. QED
        BY <2>5, <2>6
<1>3. QED
    BY <1>1, <1>2

\* The invariant of the diff holds in every reachable state.
THEOREM DiffInvariant == Spec => []DiffInv
<1>1. Init => DiffInv
    BY DiffInvInit
<1>2. DiffInv /\ [Next]_vars => DiffInv'
    BY DiffInvNext
<1>3. QED
    BY <1>1, <1>2, PTL DEF Spec

\* Every reachable state of the walk has its type, and no frame or change lies
\* deeper than trees do (`walk', `join').
THEOREM DiffTypeCorrect == Spec => []TypeOK
<1>1. DiffInv => TypeOK
    BY DEF DiffInv
<1>2. QED
    BY <1>1, DiffInvariant, PTL

\* Entries that are not pruned and not both descended into are two contents.
LEMMA StoppedAtContent ==
    ASSUME NEW u \in Entry \cup {NoEntry}, NEW v \in Entry \cup {NoEntry},
           ~Same(u, v), ~Descend(u, v)
    PROVE  Leaf(u) # Leaf(v)
<1>1. u.mode \notin {"tree", "none"} \/ v.mode \notin {"tree", "none"}
    BY DEF Descend
<1>2. \A x : <<x>> # <<>>
    OBVIOUS
<1>3. CASE u.mode \in {"tree", "none"} \/ v.mode \in {"tree", "none"}
    BY <1>1, <1>2, <1>3 DEF Leaf
<1>4. CASE u.mode \notin {"tree", "none"} /\ v.mode \notin {"tree", "none"}
    <2>1. u.id # v.id
        BY <1>4 DEF Same
    <2>2. QED
        BY <1>4, <2>1 DEF Leaf
<1>5. QED
    BY <1>3, <1>4

\* What is recorded when nothing is left to compare is the diff of the trees.
LEMMA RecordedIsDiff == DiffInv => ChangesAreTheDiff
<1> SUFFICES ASSUME DiffInv, pc = "done" PROVE changes = DiffOf(base, head)
    BY DEF ChangesAreTheDiff
<1>1. base \in Side /\ head \in Side /\ \A c \in changes : c.path \in Path /\ c.path \in Seq(Name)
    BY PathType DEF DiffInv, TypeOK, Side
<1>2. ASSUME NEW c \in changes
      PROVE  /\ c = [path |-> c.path, base |-> At(base, c.path), head |-> At(head, c.path)]
             /\ c.path \in Differing(base, head)
    <2>1. /\ c.base = At(base, c.path) /\ c.head = At(head, c.path)
          /\ ~Same(c.base, c.head) /\ ~Descend(c.base, c.head)
          /\ c = [path |-> c.path, base |-> c.base, head |-> c.head]
        BY DEF DiffInv, ChangesAreDifferences, ByDescent
    <2>2. c.base \in Entry \cup {NoEntry} /\ c.head \in Entry \cup {NoEntry}
        BY DEF DiffInv, TypeOK
    <2>3. Leaf(c.base) # Leaf(c.head)
        BY <2>1, <2>2, StoppedAtContent
    <2>4. QED
        BY <1>1, <2>1, <2>3 DEF Differing
<1>3. ASSUME NEW c \in changes, NEW r \in Differing(base, head)
      PROVE  ~IsStrictPrefix(r, c.path)
    <2>1. r \in Seq(Name) /\ Leaf(At(base, r)) # Leaf(At(head, r))
        BY PathType DEF Differing
    <2>2. ~Descend(At(base, r), At(head, r))
        BY <2>1 DEF Descend, Leaf
    <2>3. QED
        BY <2>1, <2>2 DEF DiffInv, ByDescent, Descended
<1>4. ASSUME NEW q \in Differing(base, head), \A r \in Differing(base, head) : ~IsStrictPrefix(r, q)
      PROVE  \E c \in changes : c.path = q
    <2>1. q \in Seq(Name) /\ Leaf(At(base, q)) # Leaf(At(head, q))
        BY PathType DEF Differing
    <2>2. PICK c \in changes : IsPrefix(c.path, q)
        BY <2>1 DEF DiffInv, DifferencesAreCovered
    <2>3. c.path = q
        BY <1>2, <1>4, <2>2 DEF IsStrictPrefix
    <2>4. QED
        BY <2>3
<1>5. changes \subseteq DiffOf(base, head)
    BY <1>2, <1>3 DEF DiffOf
<1>6. DiffOf(base, head) \subseteq changes
    <2>1. ASSUME NEW d \in DiffOf(base, head) PROVE d \in changes
        <3>1. PICK q \in Differing(base, head) :
                /\ \A r \in Differing(base, head) : ~IsStrictPrefix(r, q)
                /\ d = [path |-> q, base |-> At(base, q), head |-> At(head, q)]
            BY DEF DiffOf
        <3>2. PICK c \in changes : c.path = q
            BY <1>4, <3>1
        <3>3. QED
            BY <1>2, <3>1, <3>2
    <2>2. QED
        BY <2>1
<1>7. QED
    BY <1>5, <1>6

\* The result of `diff_trees' is the diff of its two trees: the topmost paths at
\* which they have not the same file, with what either has there, and nothing else.
\* The order of the walk and of the HashMap leave no trace in it.
THEOREM ResultIsTheDiff == Spec => []ChangesAreTheDiff
<1>1. QED
    BY RecordedIsDiff, DiffInvariant, PTL

\* The diff is empty exactly when the trees have the same files: nothing that
\* differs goes unreported, and modes alone are never reported (`diff_trees').
THEOREM DiffIsEmptyWhenFilesAreEqual ==
    \A b, h \in Tree :
        DiffOf(b, h) = {} <=> \A p \in Path : Leaf(At(b, p)) = Leaf(At(h, p))
<1> SUFFICES ASSUME NEW b \in Tree, NEW h \in Tree
             PROVE  DiffOf(b, h) = {} <=> Differing(b, h) = {}
    BY DEF Differing
<1>1. Differing(b, h) = {} => DiffOf(b, h) = {}
    BY DEF DiffOf
<1>2. ASSUME Differing(b, h) # {} PROVE DiffOf(b, h) # {}
    <2> DEFINE lengths == {Len(p) : p \in Differing(b, h)}
    <2>1. \A p \in Differing(b, h) : p \in Seq(Name) /\ Len(p) \in Nat
        BY PathType DEF Differing
    <2>2. lengths \in SUBSET Nat /\ lengths # {}
        BY <1>2, <2>1
    <2> HIDE DEF lengths
    <2>3. PICK k \in lengths : \A l \in lengths : k <= l
        BY <2>2, LeastExists
    <2>4. PICK q \in Differing(b, h) : k = Len(q)
        BY <2>3 DEF lengths
    <2>5. ASSUME NEW r \in Differing(b, h), IsStrictPrefix(r, q) PROVE FALSE
        <3>1. Len(r) < Len(q)
            BY <2>1, <2>5, PrefixOrder DEF IsStrictPrefix
        <3>2. Len(r) \in lengths
            BY DEF lengths
        <3>3. QED
            BY <2>1, <2>3, <2>4, <3>1, <3>2
    <2>6. [path |-> q, base |-> At(b, q), head |-> At(h, q)] \in DiffOf(b, h)
        BY <2>5 DEF DiffOf
    <2>7. QED
        BY <2>6
<1>3. QED
    BY <1>1, <1>2

\* No two changes share a path or lie one below the other, so that the sort of
\* `diff_trees' leaves nothing to the order of the HashMap.
THEOREM ChangesDoNotOverlap == Spec => []ChangesAreApart
<1>1. DiffInv => ChangesAreApart
    BY DEF DiffInv
<1>2. QED
    BY <1>1, DiffInvariant, PTL

\* A subtree both sides share is never read (the pruning of `walk').
THEOREM EqualIsPruned == Spec => []NothingEqualIsRead
<1>1. DiffInv => NothingEqualIsRead
    BY DEF DiffInv
<1>2. QED
    BY <1>1, DiffInvariant, PTL

\* A diff that ends turns every file of the one tree into what the other has
\* there, and back (`diff_trees').
THEOREM DiffIsComplete == Spec => []ChangesMakeHead
<1>1. ASSUME DiffInv, pc = "done", NEW p \in Path
      PROVE  /\ Leaf(Patched(base, "head", p)) = Leaf(At(head, p))
             /\ Leaf(Patched(head, "base", p)) = Leaf(At(base, p))
    <2>1. base \in Side /\ head \in Side /\ p \in Seq(Name)
        BY <1>1, PathType DEF DiffInv, TypeOK, Side
    <2>2. \A c \in changes : /\ c.path \in Seq(Name)
                             /\ c["head"] = At(head, c.path) /\ c["base"] = At(base, c.path)
        BY <1>1, PathType DEF DiffInv, TypeOK, ChangesAreDifferences
    <2>3. (\A c \in changes : ~IsPrefix(c.path, p)) => Leaf(At(base, p)) = Leaf(At(head, p))
        BY <1>1, <2>1 DEF DiffInv, DifferencesAreCovered
    <2>4. Leaf(Patched(base, "head", p)) = Leaf(At(head, p))
        BY <2>1, <2>2, <2>3, PatchedIs
    <2>5. Leaf(Patched(head, "base", p)) = Leaf(At(base, p))
        BY <2>1, <2>2, <2>3, PatchedIs
    <2>6. QED
        BY <2>4, <2>5
<1>2. DiffInv => ChangesMakeHead
    BY <1>1 DEF ChangesMakeHead
<1>3. QED
    BY <1>2, DiffInvariant, PTL
=============================================================================

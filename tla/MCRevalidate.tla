---------------------------- MODULE MCRevalidate ----------------------------
\* Instances of Revalidate for TLC.
EXTENDS Revalidate, TLC

CONSTANTS a, b, t

MCLine == {a, b}
MCTree == {t}

\* One line, a line put above it, and the file renamed.
MCSnapshot ==
    {[path |-> <<a>>, elsewhere |-> NoFile, trees |-> {t}],
     [path |-> <<b, a>>, elsewhere |-> NoFile, trees |-> {}],
     [path |-> NoFile, elsewhere |-> <<a>>, trees |-> {t}]}

\* The diff whose one hunk is what is between the common ends.
MCSurvives(f, g, r) ==
    \/ r.last <= Len(g) /\ \A i \in 1..r.last : f[i] = g[i]
    \/ LET n == Len(f) - r.first + 1
       IN n <= Len(g) /\ \A i \in 0..n - 1 : f[Len(f) - i] = g[Len(g) - i]

MCSimilar(f, g) == f = g

MCSeed == {1, 2}

\* One seed puts either line first.
MCHash == 1 :> (<<a>> :> 1 @@ <<b>> :> 2) @@ 2 :> (<<a>> :> 2 @@ <<b>> :> 1)
=============================================================================

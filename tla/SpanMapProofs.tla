--------------------------- MODULE SpanMapProofs ---------------------------
(***************************************************************************)
(* Theorems about SpanMap, for files of any length, lines of any width and *)
(* whatever hunks the diff library reports.                                *)
(***************************************************************************)
EXTENDS SpanMap, FiniteSetTheorems, TLAPS

-----------------------------------------------------------------------------
(***************************************************************************)
(* Least and greatest line numbers                                         *)
(***************************************************************************)

\* Every non-empty set of numbers has a least one: the finite sets 0..n are
\* well founded under inclusion.
LEMMA LeastExists ==
    ASSUME NEW T \in SUBSET Nat, T # {}
    PROVE  \E x \in T : \A y \in T : x <= y
<1> DEFINE Segments == {0..n : n \in T}
<1>1. Segments \subseteq FiniteSubsetsOf(Nat)
    <2>1. \A n \in Nat : IsFiniteSet(0..n) /\ 0..n \subseteq Nat
        BY FS_Interval
    <2>2. QED
        BY <2>1 DEF FiniteSubsetsOf
<1>2. PICK s \in Segments : \A r \in Segments : <<r, s>> \notin StrictSubsetOrdering(Nat)
    <2>1. Segments # {}
        OBVIOUS
    <2>2. IsWellFoundedOn(StrictSubsetOrdering(Nat), FiniteSubsetsOf(Nat))
        BY FS_StrictSubsetOrderingWellFounded
    <2> HIDE DEF Segments
    <2>3. QED
        BY <1>1, <2>1, <2>2, WFMin
<1>3. PICK x \in T : s = 0..x
    BY <1>2
<1>4. ASSUME NEW y \in T, y < x PROVE FALSE
    <2>1. 0..y \subseteq 0..x /\ 0..y # 0..x
        BY <1>4
    <2>2. <<0..y, s>> \in StrictSubsetOrdering(Nat)
        BY <2>1, <1>3 DEF StrictSubsetOrdering
    <2>3. QED
        BY <2>2, <1>2
<1>5. QED
    BY <1>4

LEMMA MinOfLines ==
    ASSUME NEW n \in Nat, NEW S \in SUBSET (0..n), S # {}
    PROVE  Min(S) \in S /\ \A y \in S : Min(S) <= y
<1>1. \E x \in S : \A y \in S : x <= y
    BY LeastExists
<1>2. QED
    BY <1>1 DEF Min

LEMMA MaxOfLines ==
    ASSUME NEW n \in Nat, NEW S \in SUBSET (0..n), S # {}
    PROVE  Max(S) \in S /\ \A y \in S : Max(S) >= y
<1> DEFINE FromEnd == {n - x : x \in S}
<1>1. PICK d \in FromEnd : \A e \in FromEnd : d <= e
    <2>1. \A x \in S : n - x \in Nat
        OBVIOUS
    <2>2. FromEnd \in SUBSET Nat
        BY <2>1
    <2>3. FromEnd # {}
        OBVIOUS
    <2> HIDE DEF FromEnd
    <2>4. QED
        BY <2>2, <2>3, LeastExists
<1>2. PICK x \in S : d = n - x
    BY <1>1
<1>3. \A y \in S : x >= y
    <2>1. TAKE y \in S
    <2>2. n - x <= n - y
        BY <1>1, <1>2
    <2>3. QED
        BY <2>2
<1>4. QED
    BY <1>3 DEF Max

\* g gives the line boundaries of the first n lines.
Offsets(g, file, n) ==
    /\ g \in [0..n -> Nat]
    /\ \A i \in 0..n : g[i] = IF i = 0 THEN 0 ELSE g[i - 1] + Width[file[i]]

LEMMA OffsetsExist ==
    ASSUME NEW file \in Seq(Line), NEW n \in 0..Len(file)
    PROVE  \E g : Offsets(g, file, n)
<1> DEFINE Without == {m \in 0..Len(file) : ~\E g : Offsets(g, file, m)}
<1>1. ASSUME Without # {} PROVE FALSE
    <2>1. PICK m \in Without : \A k \in Without : m <= k
        <3>1. Without \in SUBSET Nat
            OBVIOUS
        <3> HIDE DEF Without
        <3>2. QED
            BY <1>1, <3>1, LeastExists
    <2>2. CASE m = 0
        <3>1. Offsets([i \in 0..0 |-> 0], file, 0)
            BY DEF Offsets
        <3>2. QED
            BY <2>2, <3>1
    <2>3. CASE m > 0
        <3>1. m - 1 \in 0..Len(file) /\ m - 1 \notin Without
            BY <2>1, <2>3
        <3>2. PICK g : Offsets(g, file, m - 1)
            BY <3>1
        <3> DEFINE h == [i \in 0..m |-> IF i = m THEN g[m - 1] + Width[file[m]] ELSE g[i]]
        <3>3. m \in 1..Len(file) /\ Width[file[m]] \in Nat
            BY <2>3, SpanMapAssumption
        <3>4. g \in [0..m - 1 -> Nat] /\ g[m - 1] \in Nat
            BY <3>2, <3>3 DEF Offsets
        <3>5. h \in [0..m -> Nat]
            BY <3>3, <3>4
        <3>6. ASSUME NEW i \in 0..m
              PROVE  h[i] = IF i = 0 THEN 0 ELSE h[i - 1] + Width[file[i]]
            BY <3>2, <3>3, <3>4 DEF Offsets
        <3> HIDE DEF h
        <3>7. Offsets(h, file, m)
            BY <3>5, <3>6 DEF Offsets
        <3>8. QED
            BY <3>7
    <2>4. QED
        BY <2>2, <2>3
<1>2. QED
    BY <1>1

LEMMA BoundariesAreOffsets ==
    ASSUME NEW file \in Seq(Line)
    PROVE  Offsets(Boundaries(file), file, Len(file))
<1> DEFINE Eq(g) == g = [i \in 0..Len(file) |-> IF i = 0 THEN 0 ELSE g[i - 1] + Width[file[i]]]
<1>1. PICK g : Offsets(g, file, Len(file))
    BY OffsetsExist
<1>2. Eq(g)
    BY <1>1 DEF Offsets
<1>3. Boundaries(file) = CHOOSE f : Eq(f)
    BY DEF Boundaries
<1>4. Eq(Boundaries(file))
    BY <1>2, <1>3
<1>5. \A i \in 0..Len(file) : Boundaries(file)[i] \in Nat
    <2> DEFINE b == Boundaries(file)
               Untyped == {i \in 0..Len(file) : b[i] \notin Nat}
    <2>1. \A i \in 0..Len(file) : b[i] = IF i = 0 THEN 0 ELSE b[i - 1] + Width[file[i]]
        BY <1>4
    <2> HIDE DEF b
    <2>2. ASSUME Untyped # {} PROVE FALSE
        <3>1. PICK m \in Untyped : \A k \in Untyped : m <= k
            <4>1. Untyped \in SUBSET Nat
                OBVIOUS
            <4> HIDE DEF Untyped
            <4>2. QED
                BY <2>2, <4>1, LeastExists
        <3>2. m > 0
            BY <2>1
        <3>3. m - 1 \in 0..Len(file) /\ m - 1 \notin Untyped /\ m \in 1..Len(file)
            BY <3>1, <3>2
        <3>4. b[m - 1] \in Nat /\ Width[file[m]] \in Nat
            BY <3>3, SpanMapAssumption
        <3>5. QED
            BY <2>1, <3>2, <3>4
    <2>3. QED
        BY <2>2 DEF b
<1>6. QED
    BY <1>4, <1>5 DEF Offsets

\* Lines follow one another in the bytes of a file.
LEMMA BoundariesIncrease ==
    ASSUME NEW file \in Seq(Line), NEW i \in 0..Len(file), NEW j \in 0..Len(file), i <= j
    PROVE  Boundaries(file)[i] <= Boundaries(file)[j]
<1> DEFINE b == Boundaries(file)
           Lower == {k \in i..Len(file) : b[k] < b[i]}
<1>1. /\ \A k \in 0..Len(file) : b[k] \in Nat
      /\ \A k \in 1..Len(file) : b[k] = b[k - 1] + Width[file[k]]
    BY BoundariesAreOffsets DEF Offsets
<1> HIDE DEF b
<1>2. ASSUME Lower # {} PROVE FALSE
    <2>1. PICK m \in Lower : \A k \in Lower : m <= k
        <3>1. Lower \in SUBSET Nat
            OBVIOUS
        <3> HIDE DEF Lower
        <3>2. QED
            BY <1>2, <3>1, LeastExists
    <2>2. m # i
        BY <1>1
    <2>3. m - 1 \in i..Len(file) /\ m - 1 \notin Lower /\ m \in 1..Len(file)
        BY <2>1, <2>2
    <2>4. b[m - 1] \in Nat /\ b[i] \in Nat /\ Width[file[m]] \in Nat
        BY <1>1, <2>3, SpanMapAssumption
    <2>5. QED
        BY <1>1, <2>3, <2>4
<1>3. j \notin Lower
    BY <1>2
<1>4. QED
    BY <1>1, <1>3 DEF b

\* `span_to_lines' names lines of the file, in order, whatever span it is
\* given, one that is not of this file included.
LEMMA LinesOfTheFile ==
    ASSUME NEW file \in Seq(Line), NEW s \in Span
    PROVE  /\ SpanToLines(file, s) \in Lines
           /\ SpanToLines(file, s).first <= SpanToLines(file, s).last
           /\ SpanToLines(file, s).last <= Len(file)
<1> DEFINE starts == {i \in 0..Len(file) : Boundaries(file)[i] <= s.start}
           ends == {i \in 0..Len(file) : Boundaries(file)[i] >= s.end}
           first == IF starts = {} THEN 0 ELSE Max(starts)
           last == IF s.end <= s.start THEN first
                   ELSE IF ends = {} THEN Len(file) ELSE Min(ends)
<1>1. SpanToLines(file, s) = [first |-> first, last |-> last]
    BY DEF SpanToLines
<1>2. starts \in SUBSET (0..Len(file)) /\ ends \in SUBSET (0..Len(file))
    OBVIOUS
<1>3. Len(file) \in Nat
    OBVIOUS
<1>4. /\ \A i \in starts, j \in ends : ~(s.end <= s.start) => i <= j
      /\ \A i \in starts \cup ends : i \in 0..Len(file)
    <2>1. ASSUME NEW i \in starts, NEW j \in ends, s.start < s.end, j < i PROVE FALSE
        <3>1. Boundaries(file)[j] <= Boundaries(file)[i]
            BY <2>1, BoundariesIncrease
        <3>2. Boundaries(file)[i] \in Nat /\ Boundaries(file)[j] \in Nat
            BY <2>1, BoundariesAreOffsets DEF Offsets
        <3>3. QED
            BY <2>1, <3>1, <3>2 DEF Span
    <2>2. QED
        BY <2>1 DEF Span
<1> HIDE DEF starts, ends
<1>5. first \in 0..Len(file) /\ (starts # {} => first \in starts)
    <2>1. CASE starts = {}
        BY <2>1, <1>3
    <2>2. CASE starts # {}
        BY <2>2, <1>2, <1>3, MaxOfLines
    <2>3. QED
        BY <2>1, <2>2
<1>6. last \in 0..Len(file)
    <2>1. ends # {} => Min(ends) \in 0..Len(file)
        BY <1>2, <1>3, MinOfLines
    <2>2. QED
        BY <2>1, <1>3, <1>5
<1>7. first <= last
    <2>1. CASE s.end <= s.start \/ ends = {} \/ starts = {}
        BY <2>1, <1>5, <1>6
    <2>2. CASE ~(s.end <= s.start) /\ ends # {} /\ starts # {}
        BY <2>2, <1>2, <1>3, <1>4, <1>5, MinOfLines
    <2>3. QED
        BY <2>1, <2>2
<1> HIDE DEF first, last
<1>8. QED
    BY <1>1, <1>3, <1>5, <1>6, <1>7 DEF Lines

-----------------------------------------------------------------------------
(***************************************************************************)
(* The walk                                                                *)
(***************************************************************************)

\* Nothing is left of one tracing when the next begins.
Fresh == pc \in {"new", "captured", "anchored"} => hunk = NoHunk /\ added = 0 /\ removed = 0

\* In the loop, every hunk passed was above the span, and the two counters say
\* how far the files have come apart after the last of them.
Walked ==
    pc = "walk" =>
        /\ lines.first <= lines.last
        /\ lines.last <= Len(blob)
        /\ hunk.before.last <= lines.first
        /\ hunk.after.last <= Len(target)
        /\ hunk.after.last + removed = hunk.before.last + added

\* The inductive invariant.
Mapping ==
    /\ TypeOK
    /\ Fresh
    /\ Walked
    /\ MappedLinesAreUnchanged
    /\ OnlyTouchedSpansAreLost

LEMMA FilesAreSequences == ASSUME NEW f \in File PROVE f \in Seq(Line)
<1>1. PICK m \in 0..MaxLines : f \in [1..m -> Line]
    BY DEF File, BoundedSeq, SeqOf
<1>2. m \in Nat
    BY SpanMapAssumption
<1>3. QED
    BY <1>1, <1>2

LEMMA EmptyFile == <<>> \in File
<1>1. <<>> \in [1..0 -> Line] /\ 0 \in 0..MaxLines
    BY SpanMapAssumption
<1>2. QED
    BY <1>1 DEF File, BoundedSeq, SeqOf

\* What arithmetic needs to know of a state.
LEMMA Numbers ==
    ASSUME TypeOK
    PROVE  /\ blob \in Seq(Line) /\ Len(blob) \in Nat
           /\ target \in Seq(Line) /\ Len(target) \in Nat
           /\ lines.first \in Nat /\ lines.last \in Nat
           /\ hunk.before.first \in Nat /\ hunk.before.last \in Nat
           /\ hunk.after.first \in Nat /\ hunk.after.last \in Nat
           /\ added \in Nat /\ removed \in Nat
<1>1. blob \in Seq(Line) /\ target \in Seq(Line)
    BY FilesAreSequences DEF TypeOK
<1>2. QED
    BY <1>1 DEF TypeOK, Hunk, Lines

LEMMA MappingInit == Init => Mapping
<1>1. <<>> \in File
    BY EmptyFile
<1>2. QED
    BY <1>1 DEF Init, Mapping, TypeOK, Fresh, Walked, NoHunk, NoSpan, Hunk, Lines, Span,
       MappedLinesAreUnchanged, OnlyTouchedSpansAreLost

\* An -L argument becomes a range of numbers there are.
LEMMA ArgumentsAreRanges == ASSUME NEW arg \in LinesArg PROVE ParseLines(arg) \in LineRange
<1>1. MaxNumber \in Nat
    BY SpanMapAssumption
<1>2. /\ arg.start \in 0..MaxNumber
      /\ arg.form # "line" => arg.second \in 0..MaxNumber
    BY DEF LinesArg
<1> DEFINE counted == SaturatingAdd(arg.start, arg.second) - 1
           end == IF arg.form = "plus"
                  THEN IF counted > arg.start THEN counted ELSE arg.start
                  ELSE IF arg.form = "to" THEN arg.second ELSE arg.start
<1>3. end \in 0..MaxNumber
    <2>1. CASE arg.form = "plus"
        <3>1. arg.second \in 0..MaxNumber
            BY <1>2, <2>1
        <3>2. counted \in Int /\ counted < MaxNumber
            BY <1>1, <1>2, <3>1 DEF SaturatingAdd
        <3> HIDE DEF counted
        <3>3. QED
            BY <1>1, <1>2, <2>1, <3>2
    <2>2. CASE arg.form # "plus"
        <3>1. arg.form = "to" => arg.second \in 0..MaxNumber
            BY <1>2
        <3>2. QED
            BY <1>2, <2>2, <3>1
    <2>3. QED
        BY <2>1, <2>2
<1>4. ParseLines(arg) = [start |-> arg.start, end |-> end]
    BY DEF ParseLines
<1> HIDE DEF end
<1>5. QED
    BY <1>2, <1>3, <1>4 DEF LineRange

\* A line range becomes a span.
LEMMA CaptureMapping ==
    ASSUME Mapping, NEW bytes \in File, CaptureLines(bytes)
    PROVE  Mapping'
<1>1. PICK arg \in LinesArg \cup {WholeFile} :
        \E s \in Span : pc = "new" /\ CaptureFrom(bytes, arg, s)
    <2>1. \A i \in 0..Len(bytes) : Boundaries(bytes)[i] \in Nat
        BY FilesAreSequences, BoundariesAreOffsets DEF Offsets
    <2>2. Len(bytes) \in Nat
        BY FilesAreSequences
    <2>3. ASSUME NEW range \in LineRange, FitsIn(range, bytes)
          PROVE  ByteSpanOf(bytes, range) \in Span
        <3>1. range.start \in Nat /\ range.end \in Nat
            BY SpanMapAssumption DEF LineRange
        <3>2. range.start - 1 \in 0..Len(bytes) /\ range.end \in 0..Len(bytes)
            BY <2>2, <2>3, <3>1 DEF FitsIn
        <3>3. QED
            BY <2>1, <3>2 DEF ByteSpanOf, Span
    <2>4. [start |-> 0, end |-> Boundaries(bytes)[Len(bytes)]] \in Span
        BY <2>1, <2>2 DEF Span
    <2>5. CASE \E arg \in LinesArg :
                /\ FitsIn(ParseLines(arg), bytes)
                /\ CaptureFrom(bytes, arg, ByteSpanOf(bytes, ParseLines(arg)))
        <3>1. PICK arg \in LinesArg :
                /\ FitsIn(ParseLines(arg), bytes)
                /\ CaptureFrom(bytes, arg, ByteSpanOf(bytes, ParseLines(arg)))
            BY <2>5
        <3>2. ByteSpanOf(bytes, ParseLines(arg)) \in Span
            BY <2>3, <3>1, ArgumentsAreRanges
        <3>3. QED
            BY <3>1, <3>2 DEF CaptureLines
    <2>6. QED
        BY <2>4, <2>5 DEF CaptureLines
<1>2. PICK s \in Span : pc = "new" /\ CaptureFrom(bytes, arg, s)
    BY <1>1
<1>3. QED
    BY <1>2 DEF Mapping, TypeOK, Fresh, Walked, CaptureFrom, walked,
       MappedLinesAreUnchanged, OnlyTouchedSpansAreLost

LEMMA BeginMapping == ASSUME Mapping, BeginMap PROVE Mapping'
<1>1. PICK file \in File \ {blob} :
        LET at == SpanToLines(blob, span)
        IN  /\ Trace(file)
            /\ lines' = at
            /\ pc' = IF at.last < at.first \/ at.last > Len(blob) THEN "lost" ELSE "walk"
            /\ UNCHANGED candidate
    BY DEF BeginMap
<1>2. /\ lines' \in Lines
      /\ lines'.first <= lines'.last
      /\ lines'.last <= Len(blob)
    BY <1>1, Numbers, LinesOfTheFile DEF Mapping, TypeOK
<1>3. pc' = "walk"
    BY <1>1, <1>2, Numbers DEF Lines, Mapping
<1>4. /\ target' \in File
      /\ UNCHANGED <<blob, content, span, asked, hunk, added, removed, candidate>>
      /\ hunk = NoHunk /\ added = 0 /\ removed = 0
    BY <1>1 DEF Trace, anchor, Fresh, Mapping
<1>5. TypeOK'
    BY <1>2, <1>3, <1>4 DEF Mapping, TypeOK
<1>6. Walked'
    <2>1. Len(target') \in Nat /\ lines'.first \in Nat
        BY <1>2, <1>4, FilesAreSequences DEF Lines
    <2>2. QED
        BY <1>2, <1>3, <1>4, <2>1 DEF Walked, NoHunk
<1>7. QED
    BY <1>3, <1>5, <1>6 DEF Mapping, Fresh, MappedLinesAreUnchanged, OnlyTouchedSpansAreLost

\* The files agree from the last hunk down to line q of the blob, which is
\* line r of the target, and the span is above it: then it maps, and to the
\* lines it had.
LEMMA ReportMapping ==
    ASSUME Mapping, pc = "walk", Report,
           NEW q \in Nat, lines.last <= q, q <= Len(blob),
           NEW r \in Nat, r <= Len(target),
           Agree([first |-> hunk.before.last, last |-> q],
                 [first |-> hunk.after.last, last |-> r])
    PROVE  Mapping'
<1> DEFINE top == hunk.before.last
           under == hunk.after.last
<1>1. /\ lines.first \in Nat /\ lines.last \in Nat /\ Len(target) \in Nat
      /\ top \in Nat /\ under \in Nat /\ added \in Nat /\ removed \in Nat
    BY Numbers DEF Mapping
<1>2. /\ lines.first <= lines.last /\ top <= lines.first
      /\ under + removed = top + added
    BY DEF Mapping, Walked
<1>3. /\ q - top = r - under
      /\ \A i \in top + 1..q : blob[i] = target[i - top + under]
    BY DEF Agree
<1> HIDE DEF top, under
<1>4. /\ removed <= lines.first + added
      /\ lines.last + added - removed <= Len(target)
    <2>1. PICK first \in Nat : first = lines.first
        BY <1>1
    <2>2. PICK last \in Nat : last = lines.last
        BY <1>1
    <2>3. /\ first <= last /\ top <= first /\ last <= q
          /\ under + removed = top + added /\ q - top = r - under
        BY <1>2, <1>3, <2>1, <2>2
    <2>4. removed <= first + added /\ last + added - removed <= r
        BY <1>1, <2>3
    <2>5. QED
        BY <1>1, <2>1, <2>2, <2>4
<1>5. \A i \in lines.first + 1..lines.last : target[i + added - removed] = blob[i]
    <2>1. TAKE i \in lines.first + 1..lines.last
    <2>2. i \in top + 1..q /\ i + added - removed = i - top + under
        <3>1. i \in Nat /\ lines.first < i /\ i <= lines.last
            BY <1>1
        <3>2. top < i /\ i <= q
            BY <1>1, <1>2, <3>1
        <3>3. QED
            BY <1>1, <1>2, <3>1, <3>2
    <2>3. QED
        BY <1>3, <2>2
<1>6. /\ pc' = "mapped"
      /\ candidate' = LinesToSpan(target, lines.first + added - removed,
                                          lines.last + added - removed)
      /\ UNCHANGED <<blob, content, span, asked, target, lines, hunk, added, removed>>
    BY <1>4 DEF Report, anchor
<1>7. candidate' \in Span
    <2>1. \A i \in 0..Len(target) : Boundaries(target)[i] \in Nat
        BY Numbers, BoundariesAreOffsets DEF Offsets, Mapping
    <2>2. /\ lines.first + added - removed \in 0..Len(target)
          /\ lines.last + added - removed \in 0..Len(target)
        <3>1. PICK first \in Nat : first = lines.first
            BY <1>1
        <3>2. PICK last \in Nat : last = lines.last
            BY <1>1
        <3>3. /\ first + added - removed \in 0..Len(target)
              /\ last + added - removed \in 0..Len(target)
            <4>1. first <= last /\ removed <= first + added /\ last + added - removed <= Len(target)
                BY <1>2, <1>4, <3>1, <3>2
            <4>2. QED
                BY <1>1, <4>1
        <3>4. QED
            BY <3>1, <3>2, <3>3
    <2>3. QED
        BY <1>6, <2>1, <2>2 DEF LinesToSpan, Span
<1>8. QED
    BY <1>5, <1>6, <1>7 DEF Mapping, TypeOK, Fresh, Walked,
       MappedLinesAreUnchanged, OnlyTouchedSpansAreLost

\* The hunks that may come next are hunks, further down both files.
LEMMA HunksAreBelow ==
    ASSUME Mapping, pc = "walk", NEW h \in Hunks
    PROVE  /\ h \in Hunk
           /\ h.before.first \in Nat /\ h.before.last \in Nat
           /\ h.after.first \in Nat /\ h.after.last \in Nat
           /\ h.before.first <= h.before.last /\ h.before.last <= Len(blob)
           /\ h.after.first <= h.after.last /\ h.after.last <= Len(target)
           /\ h.after.first = hunk.after.last + (h.before.first - hunk.before.last)
           /\ Agree([first |-> hunk.before.last, last |-> h.before.first],
                    [first |-> hunk.after.last, last |-> h.after.first])
<1>1. PICK b \in hunk.before.last..Len(blob), c \in hunk.before.last..Len(blob),
           d \in hunk.after.last..Len(target) :
        h = [before |-> [first |-> b, last |-> c],
             after |-> [first |-> hunk.after.last + (b - hunk.before.last), last |-> d]]
    BY DEF Hunks
<1>2. /\ h.before.first <= h.before.last
      /\ h.after.first <= h.after.last
      /\ Agree([first |-> hunk.before.last, last |-> h.before.first],
               [first |-> hunk.after.last, last |-> h.after.first])
    BY DEF Hunks, NextHunk
<1>3. /\ hunk.before.last \in Nat /\ hunk.after.last \in Nat
      /\ Len(blob) \in Nat /\ Len(target) \in Nat
    BY Numbers DEF Mapping
<1>4. /\ b \in Nat /\ c \in Nat /\ d \in Nat
      /\ hunk.after.last + (b - hunk.before.last) \in Nat
      /\ c <= Len(blob) /\ d <= Len(target)
    <2>1. PICK low \in Nat : low = hunk.before.last
        BY <1>3
    <2>2. PICK under \in Nat : under = hunk.after.last
        BY <1>3
    <2>3. b \in low..Len(blob) /\ c \in low..Len(blob) /\ d \in under..Len(target)
        BY <2>1, <2>2
    <2>4. b \in Nat /\ c \in Nat /\ d \in Nat /\ under + (b - low) \in Nat
        BY <1>3, <2>3
    <2>5. QED
        BY <1>3, <2>1, <2>2, <2>3, <2>4
<1>5. QED
    BY <1>1, <1>2, <1>4 DEF Hunk, Lines

LEMMA ShiftMapping == ASSUME Mapping, ShiftHunk PROVE Mapping'
<1>1. PICK h \in Hunks :
        /\ pc = "walk"
        /\ Above(h)
        /\ hunk' = h
        /\ removed' = removed + (h.before.last - h.before.first)
        /\ added' = added + (h.after.last - h.after.first)
        /\ UNCHANGED <<blob, content, span, asked, pc, target, lines, candidate>>
    BY DEF ShiftHunk, anchor
<1>2. /\ h \in Hunk
      /\ h.before.first \in Nat /\ h.before.last \in Nat
      /\ h.after.first \in Nat /\ h.after.last \in Nat
      /\ h.before.first <= h.before.last /\ h.before.last <= Len(blob)
      /\ h.after.first <= h.after.last /\ h.after.last <= Len(target)
      /\ h.after.first = hunk.after.last + (h.before.first - hunk.before.last)
    BY <1>1, HunksAreBelow
<1>3. /\ hunk.before.last \in Nat /\ hunk.after.last \in Nat
      /\ added \in Nat /\ removed \in Nat
    BY Numbers DEF Mapping
<1>4. /\ h.before.last - h.before.first \in Nat
      /\ h.after.last - h.after.first \in Nat
    BY <1>2
<1>5. added' \in Nat /\ removed' \in Nat
    BY <1>1, <1>3, <1>4
<1>6. TypeOK'
    BY <1>1, <1>2, <1>5 DEF Mapping, TypeOK
<1>7. h.after.last + removed' = h.before.last + added'
    <2>1. hunk.after.last + removed = hunk.before.last + added
        BY <1>1 DEF Mapping, Walked
    <2> DEFINE b == h.before.first  c == h.before.last
               d == h.after.first   e == h.after.last
               top == hunk.before.last  under == hunk.after.last
    <2>2. /\ b \in Nat /\ c \in Nat /\ d \in Nat /\ e \in Nat
          /\ top \in Nat /\ under \in Nat
          /\ d = under + (b - top)
          /\ under + removed = top + added
          /\ removed' = removed + (c - b) /\ added' = added + (e - d)
        BY <1>1, <1>2, <1>3, <2>1
    <2> HIDE DEF b, c, d, e, top, under
    <2>3. e + removed' = c + added'
        BY <2>2, <1>3
    <2>4. QED
        BY <2>3 DEF c, e
<1>8. Walked'
    BY <1>1, <1>2, <1>7 DEF Mapping, Walked, Above
<1>9. QED
    BY <1>1, <1>6, <1>8 DEF Mapping, Fresh, MappedLinesAreUnchanged, OnlyTouchedSpansAreLost

LEMMA TouchingMapping == ASSUME Mapping, TouchingHunk PROVE Mapping'
<1>1. PICK h \in Hunks :
        /\ pc = "walk" /\ pc' = "lost"
        /\ ~Above(h) /\ ~Below(h)
        /\ hunk' = h
        /\ UNCHANGED <<blob, content, span, asked, target, lines, added, removed, candidate>>
    BY DEF TouchingHunk, anchor
<1>2. h \in Hunk /\ h.before.first \in Nat /\ h.before.last \in Nat
    BY <1>1, HunksAreBelow
<1>3. TypeOK'
    BY <1>1, <1>2 DEF Mapping, TypeOK
<1>4. OnlyTouchedSpansAreLost'
    <2>1. lines.first \in Nat /\ lines.last \in Nat
        BY Numbers DEF Mapping
    <2>2. h.before.first < lines.last /\ h.before.last > lines.first
        BY <1>1, <1>2, <2>1 DEF Above, Below
    <2>3. QED
        BY <1>1, <2>2 DEF OnlyTouchedSpansAreLost
<1>5. QED
    BY <1>1, <1>3, <1>4 DEF Mapping, Fresh, Walked, MappedLinesAreUnchanged

LEMMA BelowMapping == ASSUME Mapping, BelowHunk PROVE Mapping'
<1>1. PICK h \in Hunks : pc = "walk" /\ Below(h) /\ Report
    BY DEF BelowHunk
<1>2. /\ h.before.first \in Nat /\ h.before.last \in Nat
      /\ h.after.first \in Nat /\ h.after.last \in Nat
      /\ h.before.first <= h.before.last /\ h.before.last <= Len(blob)
      /\ h.after.first <= h.after.last /\ h.after.last <= Len(target)
      /\ Agree([first |-> hunk.before.last, last |-> h.before.first],
               [first |-> hunk.after.last, last |-> h.after.first])
    BY <1>1, HunksAreBelow
<1>3. lines.last \in Nat /\ Len(blob) \in Nat /\ Len(target) \in Nat
    BY Numbers DEF Mapping
<1>4. /\ lines.last <= h.before.first
      /\ h.before.first <= Len(blob) /\ h.after.first <= Len(target)
    BY <1>1, <1>2, <1>3 DEF Below
<1>5. QED
    BY <1>1, <1>2, <1>4, ReportMapping

LEMMA EndMapping == ASSUME Mapping, NoMoreHunks PROVE Mapping'
<1>1. /\ Len(blob) \in Nat /\ Len(target) \in Nat
      /\ Len(blob) <= Len(blob) /\ Len(target) <= Len(target)
    BY Numbers DEF Mapping
<1>2. pc = "walk" /\ lines.last <= Len(blob) /\ Report
    BY DEF Mapping, Walked, NoMoreHunks
<1>3. QED
    BY <1>1, <1>2, ReportMapping DEF NoMoreHunks

LEMMA MappingNext == ASSUME Mapping, [Next]_vars PROVE Mapping'
<1> USE DEF Mapping, TypeOK, Fresh, Walked, MappedLinesAreUnchanged, OnlyTouchedSpansAreLost
<1>1. CASE Capture
    BY <1>1, CaptureMapping DEF Capture
<1>2. CASE CaptureWorktree
    BY <1>2, CaptureMapping DEF CaptureWorktree
<1>3. CASE PrintHandle
    BY <1>3 DEF PrintHandle, anchor, walked
<1>4. CASE TraceNowhere
    BY <1>4, EmptyFile DEF TraceNowhere, Trace, anchor, NoSpan, Span
<1>5. CASE TraceSameBlob
    BY <1>5 DEF TraceSameBlob, Trace, anchor
<1>6. CASE BeginMap
    BY <1>6, BeginMapping
<1>7. CASE ShiftHunk
    BY <1>7, ShiftMapping
<1>8. CASE TouchingHunk
    BY <1>8, TouchingMapping
<1>9. CASE BelowHunk
    BY <1>9, BelowMapping
<1>10. CASE NoMoreHunks
    BY <1>10, EndMapping
<1>11. CASE Return
    BY <1>11, EmptyFile DEF Return, anchor, NoHunk, NoSpan, Hunk, Lines, Span
<1>12. CASE UNCHANGED vars
    BY <1>12 DEF vars, anchor, walked
<1>13. QED
    BY <1>1, <1>2, <1>3, <1>4, <1>5, <1>6, <1>7, <1>8, <1>9, <1>10, <1>11, <1>12 DEF Next

LEMMA MappingHolds == Spec => []Mapping
<1>1. Mapping /\ [Next]_vars => Mapping'
    BY MappingNext
<1>2. QED
    BY <1>1, MappingInit, PTL DEF Spec

\* Every span captured or reported is one of bytes, and the counters of the
\* walk are never negative.
THEOREM SpanTypeCorrect == Spec => []TypeOK
<1>1. Mapping => TypeOK
    BY DEF Mapping
<1>2. QED
    BY <1>1, MappingHolds, PTL

\* A mapped anchor names the very lines of the blob it was captured from,
\* whatever the diff made of the rest of the file.
THEOREM MappingKeepsLines == Spec => []MappedLinesAreUnchanged
<1>1. Mapping => MappedLinesAreUnchanged
    BY DEF Mapping
<1>2. QED
    BY <1>1, MappingHolds, PTL

\* An anchor is only given up for a hunk that touches it: the subtraction and
\* the lookups of `map_span' never fail, at any boundary of any file.
THEOREM LossMeansEdit == Spec => []OnlyTouchedSpansAreLost
<1>1. Mapping => OnlyTouchedSpansAreLost
    BY DEF Mapping
<1>2. QED
    BY <1>1, MappingHolds, PTL
-----------------------------------------------------------------------------
(***************************************************************************)
(* Spans that run from the start of a line to the end of one               *)
(***************************************************************************)

\* Every line has bytes: no two boundaries are one.
LEMMA BoundariesAreApart ==
    ASSUME NEW file \in Seq(Line), NEW i \in 0..Len(file), NEW j \in 0..Len(file), i < j
    PROVE  Boundaries(file)[i] < Boundaries(file)[j]
<1> DEFINE b == Boundaries(file)
<1>1. /\ \A k \in 0..Len(file) : b[k] \in Nat
      /\ \A k \in 1..Len(file) : b[k] = b[k - 1] + Width[file[k]]
    BY BoundariesAreOffsets DEF Offsets
<1>2. j \in 1..Len(file) /\ j - 1 \in 0..Len(file) /\ i <= j - 1
    OBVIOUS
<1>3. b[i] <= b[j - 1]
    BY <1>2, BoundariesIncrease
<1>4. Width[file[j]] \in Nat \ {0}
    BY <1>2, SpanMapAssumption
<1> HIDE DEF b
<1>5. b[i] < b[j]
    <2>1. b[i] \in Nat /\ b[j - 1] \in Nat /\ b[j] = b[j - 1] + Width[file[j]]
        BY <1>1, <1>2
    <2>2. QED
        BY <1>3, <1>4, <2>1
<1>6. QED
    BY <1>5 DEF b

\* The span of lines a + 1 to b of the file.
SpanOf(file, a, b) == [start |-> Boundaries(file)[a], end |-> Boundaries(file)[b]]

\* `span_to_lines' undoes `byte_span_of' and `lines_to_span'.
LEMMA LinesOfSpan ==
    ASSUME NEW file \in Seq(Line), NEW a \in 0..Len(file), NEW b \in a..Len(file)
    PROVE  SpanToLines(file, SpanOf(file, a, b)) = [first |-> a, last |-> b]
<1> DEFINE s == SpanOf(file, a, b)
           starts == {i \in 0..Len(file) : Boundaries(file)[i] <= s.start}
           ends == {i \in 0..Len(file) : Boundaries(file)[i] >= s.end}
<1>1. Len(file) \in Nat /\ a \in 0..Len(file) /\ b \in 0..Len(file) /\ a <= b
    OBVIOUS
<1>2. /\ s.start = Boundaries(file)[a] /\ s.end = Boundaries(file)[b]
      /\ \A i \in 0..Len(file) : Boundaries(file)[i] \in Nat
    BY BoundariesAreOffsets DEF Offsets, SpanOf
<1>3. a \in starts /\ \A i \in starts : i <= a
    <2>1. ASSUME NEW i \in starts, a < i PROVE FALSE
        <3>1. Boundaries(file)[a] < Boundaries(file)[i]
            BY <1>1, <2>1, BoundariesAreApart
        <3>2. QED
            BY <1>1, <1>2, <2>1, <3>1
    <2>2. QED
        BY <1>1, <1>2, <2>1
<1>4. b \in ends /\ \A i \in ends : b <= i
    <2>1. ASSUME NEW i \in ends, i < b PROVE FALSE
        <3>1. Boundaries(file)[i] < Boundaries(file)[b]
            BY <1>1, <2>1, BoundariesAreApart
        <3>2. QED
            BY <1>1, <1>2, <2>1, <3>1
    <2>2. QED
        BY <1>1, <1>2, <2>1
<1>5. starts \in SUBSET (0..Len(file)) /\ ends \in SUBSET (0..Len(file))
    OBVIOUS
<1>6. s.end <= s.start <=> a = b
    <2>1. a < b => Boundaries(file)[a] < Boundaries(file)[b]
        BY <1>1, BoundariesAreApart
    <2>2. QED
        BY <1>1, <1>2, <2>1
<1>7. SpanToLines(file, s) =
        [first |-> IF starts = {} THEN 0 ELSE Max(starts),
         last |-> IF s.end <= s.start THEN IF starts = {} THEN 0 ELSE Max(starts)
                  ELSE IF ends = {} THEN Len(file) ELSE Min(ends)]
    BY DEF SpanToLines
<1> HIDE DEF s, starts, ends
<1>8. starts # {} /\ Max(starts) = a
    <2>1. Max(starts) \in starts /\ \A y \in starts : Max(starts) >= y
        BY <1>1, <1>3, <1>5, MaxOfLines
    <2>2. PICK m \in starts : m = Max(starts)
        BY <2>1
    <2>3. m <= a /\ m >= a
        BY <1>3, <2>1, <2>2
    <2>4. m \in 0..Len(file)
        BY <1>5
    <2>5. m = a
        BY <1>1, <2>3, <2>4
    <2>6. QED
        BY <1>3, <2>2, <2>5
<1>9. ends # {} /\ Min(ends) = b
    <2>1. Min(ends) \in ends /\ \A y \in ends : Min(ends) <= y
        BY <1>1, <1>4, <1>5, MinOfLines
    <2>2. PICK m \in ends : m = Min(ends)
        BY <2>1
    <2>3. m <= b /\ m >= b
        <3>1. Min(ends) <= b
            BY <1>4, <2>1
        <3>2. b <= m
            BY <1>4
        <3>3. m \in 0..Len(file)
            BY <1>5
        <3>4. QED
            BY <1>1, <2>2, <3>1, <3>2, <3>3
    <2>4. m \in 0..Len(file)
        BY <1>5
    <2>5. m = b
        BY <1>1, <2>3, <2>4
    <2>6. QED
        BY <1>4, <2>2, <2>5
<1>10. QED
    BY <1>6, <1>7, <1>8, <1>9 DEF s

\* A byte is of a line, and between its boundaries.
LEMMA BytesAreOfLines ==
    ASSUME NEW file \in Seq(Line), NEW byte \in Bytes(file)
    PROVE  /\ byte[1] \in 1..Len(file)
           /\ byte[2] \in 1..Width[file[byte[1]]]
           /\ byte = <<byte[1], byte[2]>>
           /\ Offset(file, byte) \in Nat
           /\ Boundaries(file)[byte[1] - 1] < Offset(file, byte)
           /\ Offset(file, byte) <= Boundaries(file)[byte[1]]
<1>1. PICK i \in 1..Len(file) : byte \in {i} \X (1..Width[file[i]])
    BY DEF Bytes
<1>2. byte[1] = i /\ byte[2] \in 1..Width[file[i]] /\ byte = <<byte[1], byte[2]>>
    BY <1>1
<1>3. /\ Boundaries(file)[i - 1] \in Nat /\ Boundaries(file)[i] \in Nat
      /\ Boundaries(file)[i] = Boundaries(file)[i - 1] + Width[file[i]]
    <2>1. i \in 0..Len(file) /\ i - 1 \in 0..Len(file) /\ i # 0
        OBVIOUS
    <2>2. QED
        BY <2>1, BoundariesAreOffsets DEF Offsets
<1>4. Width[file[i]] \in Nat
    BY SpanMapAssumption
<1>5. QED
    BY <1>2, <1>3, <1>4 DEF Offset

\* The bytes such a span covers are those of its lines.
LEMMA CoveredLines ==
    ASSUME NEW file \in Seq(Line), NEW a \in 0..Len(file), NEW b \in a..Len(file)
    PROVE  Covered(file, SpanOf(file, a, b)) = {byte \in Bytes(file) : byte[1] \in a + 1..b}
<1> DEFINE s == SpanOf(file, a, b)
<1>1. Len(file) \in Nat /\ a \in 0..Len(file) /\ b \in 0..Len(file) /\ a <= b
    OBVIOUS
<1>2. s.start = Boundaries(file)[a] /\ s.end = Boundaries(file)[b]
    BY DEF SpanOf
<1>3. ASSUME NEW byte \in Bytes(file)
      PROVE  s.start < Offset(file, byte) /\ Offset(file, byte) <= s.end
                <=> byte[1] \in a + 1..b
    <2>1. PICK i \in 1..Len(file) : i = byte[1]
        BY BytesAreOfLines
    <2>2. PICK offset \in Nat : offset = Offset(file, byte)
        BY BytesAreOfLines
    <2>3. /\ Boundaries(file)[i - 1] < offset /\ offset <= Boundaries(file)[i]
        BY <2>1, <2>2, BytesAreOfLines
    <2>4. i \in 0..Len(file) /\ i - 1 \in 0..Len(file)
        OBVIOUS
    <2>5. \A k \in 0..Len(file) : Boundaries(file)[k] \in Nat
        BY BoundariesAreOffsets DEF Offsets
    <2>6. /\ a <= i - 1 => Boundaries(file)[a] <= Boundaries(file)[i - 1]
          /\ i <= a => Boundaries(file)[i] <= Boundaries(file)[a]
          /\ b <= i - 1 => Boundaries(file)[b] <= Boundaries(file)[i - 1]
          /\ i <= b => Boundaries(file)[i] <= Boundaries(file)[b]
        BY <1>1, <2>4, BoundariesIncrease
    <2>7. Boundaries(file)[a] < offset /\ offset <= Boundaries(file)[b] <=> i \in a + 1..b
        <3>1. PICK above \in Nat : above = Boundaries(file)[a]
            BY <1>1, <2>5
        <3>2. PICK under \in Nat : under = Boundaries(file)[b]
            BY <1>1, <2>5
        <3>3. PICK low \in Nat : low = Boundaries(file)[i - 1]
            BY <2>4, <2>5
        <3>4. PICK high \in Nat : high = Boundaries(file)[i]
            BY <2>4, <2>5
        <3>5. /\ low < offset /\ offset <= high
              /\ a <= i - 1 => above <= low
              /\ i <= a => high <= above
              /\ b <= i - 1 => under <= low
              /\ i <= b => high <= under
            BY <2>3, <2>6, <3>1, <3>2, <3>3, <3>4
        <3>6. above < offset /\ offset <= under <=> i \in a + 1..b
            BY <1>1, <3>5
        <3>7. QED
            BY <3>1, <3>2, <3>6
    <2>8. QED
        BY <1>2, <2>1, <2>2, <2>7
<1>4. QED
    BY <1>3 DEF Covered

LEMMA BoundarySteps ==
    ASSUME NEW file \in Seq(Line)
    PROVE  /\ \A k \in 0..Len(file) : Boundaries(file)[k] \in Nat
           /\ \A k \in 1..Len(file) :
                    Boundaries(file)[k] = Boundaries(file)[k - 1] + Width[file[k]]
BY BoundariesAreOffsets DEF Offsets

\* n lines of f after line a are those of g after line c.
SameLines(f, a, g, c, n) == \A k \in 1..n : g[c + k] = f[a + k]

\* Equal lines are equally far apart, wherever they are.
LEMMA OffsetsAgree ==
    ASSUME NEW f \in Seq(Line), NEW g \in Seq(Line), NEW n \in Nat,
           NEW a \in Nat, a + n <= Len(f), NEW c \in Nat, c + n <= Len(g),
           SameLines(f, a, g, c, n)
    PROVE  \A k \in 0..n :
                Boundaries(g)[c + k] - Boundaries(g)[c] = Boundaries(f)[a + k] - Boundaries(f)[a]
<1> DEFINE p == Boundaries(f)
           q == Boundaries(g)
           Differ == {k \in 0..n : q[c + k] - q[c] # p[a + k] - p[a]}
<1>1. /\ \A k \in 0..Len(f) : p[k] \in Nat
      /\ \A k \in 1..Len(f) : p[k] = p[k - 1] + Width[f[k]]
    BY BoundarySteps
<1>2. /\ \A k \in 0..Len(g) : q[k] \in Nat
      /\ \A k \in 1..Len(g) : q[k] = q[k - 1] + Width[g[k]]
    BY BoundarySteps
<1>3. Len(f) \in Nat /\ Len(g) \in Nat
    OBVIOUS
<1> HIDE DEF p, q
<1>4. ASSUME Differ # {} PROVE FALSE
    <2>1. PICK m \in Differ : \A k \in Differ : m <= k
        <3>1. Differ \in SUBSET Nat
            OBVIOUS
        <3> HIDE DEF Differ
        <3>2. QED
            BY <1>4, <3>1, LeastExists
    <2>2. m # 0
        <3>1. c + 0 = c /\ a + 0 = a /\ q[c] \in Nat /\ p[a] \in Nat
            BY <1>1, <1>2, <1>3
        <3>2. q[c + 0] - q[c] = 0 /\ p[a + 0] - p[a] = 0
            BY <3>1
        <3>3. QED
            BY <2>1, <3>2
    <2>3. /\ m \in 1..n /\ m - 1 \in 0..n /\ m - 1 \notin Differ
        BY <2>1, <2>2
    <2>4. q[c + (m - 1)] - q[c] = p[a + (m - 1)] - p[a]
        BY <2>3
    <2>5. /\ c + m \in 1..Len(g) /\ a + m \in 1..Len(f)
          /\ (c + m) - 1 = c + (m - 1) /\ (a + m) - 1 = a + (m - 1)
          /\ c + (m - 1) \in 0..Len(g) /\ a + (m - 1) \in 0..Len(f)
          /\ a \in 0..Len(f) /\ c \in 0..Len(g)
        BY <1>3, <2>3
    <2>6. /\ q[c + m] = q[c + (m - 1)] + Width[g[c + m]]
          /\ p[a + m] = p[a + (m - 1)] + Width[f[a + m]]
          /\ g[c + m] = f[a + m]
        BY <1>1, <1>2, <2>3, <2>5 DEF SameLines
    <2>7. PICK w \in Nat : w = Width[f[a + m]]
        <3>1. f[a + m] \in Line
            BY <2>5
        <3>2. Width[f[a + m]] \in Nat
            BY <3>1, SpanMapAssumption
        <3>3. QED
            BY <3>2
    <2>8. /\ q[c + (m - 1)] \in Nat /\ q[c] \in Nat
          /\ p[a + (m - 1)] \in Nat /\ p[a] \in Nat
        BY <1>1, <1>2, <2>5
    <2>9. q[c + m] - q[c] = p[a + m] - p[a]
        <3>1. /\ q[c + m] = q[c + (m - 1)] + w
              /\ p[a + m] = p[a + (m - 1)] + w
            BY <2>6, <2>7
        <3>2. (q[c + (m - 1)] + w) - q[c] = (p[a + (m - 1)] + w) - p[a]
            <4>1. PICK x \in Nat, y \in Nat, u \in Nat, v \in Nat :
                    x = q[c + (m - 1)] /\ y = q[c] /\ u = p[a + (m - 1)] /\ v = p[a]
                BY <2>8
            <4>2. x - y = u - v
                BY <2>4, <4>1, Zenon
            <4>3. (x + w) - y = (u + w) - v
                BY <4>2
            <4>4. QED
                BY <4>1, <4>3, Zenon
        <3>3. QED
            BY <3>1, <3>2
    <2>10. QED
        BY <2>1, <2>9
<1>5. QED
    BY <1>4 DEF p, q

\* A span of some lines shows nothing that a span of equal lines does not.
LEMMA SliceIsIn ==
    ASSUME NEW f \in Seq(Line), NEW g \in Seq(Line), NEW n \in Nat,
           NEW a \in Nat, a + n <= Len(f), NEW c \in Nat, c + n <= Len(g),
           SameLines(f, a, g, c, n)
    PROVE  Slice(f, SpanOf(f, a, a + n)) \subseteq Slice(g, SpanOf(g, c, c + n))
<1> DEFINE s == SpanOf(f, a, a + n)
           t == SpanOf(g, c, c + n)
           At(file, of, byte) == <<Offset(file, byte) - of.start, file[byte[1]], byte[2]>>
<1>1. /\ Len(f) \in Nat /\ a \in 0..Len(f) /\ a + n \in a..Len(f) /\ a + n \in 0..Len(f)
      /\ Len(g) \in Nat /\ c \in 0..Len(g) /\ c + n \in c..Len(g) /\ c + n \in 0..Len(g)
      /\ Len(f) \in 0..Len(f) /\ Len(g) \in 0..Len(g)
    OBVIOUS
<1>2. /\ s.start = Boundaries(f)[a] /\ s.end = Boundaries(f)[a + n]
      /\ t.start = Boundaries(g)[c] /\ t.end = Boundaries(g)[c + n]
    BY DEF SpanOf
<1>3. /\ \A k \in 0..Len(f) : Boundaries(f)[k] \in Nat
      /\ \A k \in 0..Len(g) : Boundaries(g)[k] \in Nat
    BY BoundariesAreOffsets DEF Offsets
<1>4. ~(s.end > Boundaries(f)[Len(f)]) /\ ~(t.end > Boundaries(g)[Len(g)])
    <2>1. /\ Boundaries(f)[a + n] <= Boundaries(f)[Len(f)]
          /\ Boundaries(g)[c + n] <= Boundaries(g)[Len(g)]
        BY <1>1, BoundariesIncrease
    <2>2. /\ Boundaries(f)[a + n] \in Nat /\ Boundaries(f)[Len(f)] \in Nat
          /\ Boundaries(g)[c + n] \in Nat /\ Boundaries(g)[Len(g)] \in Nat
        BY <1>1, <1>3
    <2>3. /\ ~(Boundaries(f)[a + n] > Boundaries(f)[Len(f)])
          /\ ~(Boundaries(g)[c + n] > Boundaries(g)[Len(g)])
        BY <2>1, <2>2
    <2>4. QED
        BY <1>2, <2>3
<1>5. /\ Slice(f, s) = {At(f, s, byte) : byte \in Covered(f, s)}
      /\ Slice(g, t) = {At(g, t, byte) : byte \in Covered(g, t)}
    BY <1>4 DEF Slice
<1>6. /\ Covered(f, s) = {byte \in Bytes(f) : byte[1] \in a + 1..a + n}
      /\ Covered(g, t) = {byte \in Bytes(g) : byte[1] \in c + 1..c + n}
    BY <1>1, CoveredLines
<1>7. ASSUME NEW byte \in Covered(f, s)
      PROVE  \E other \in Covered(g, t) : At(g, t, other) = At(f, s, byte)
    <2>1. byte \in Bytes(f) /\ byte[1] \in a + 1..a + n
        BY <1>6
    <2>2. PICK k \in 1..n : byte[1] = a + k
        <3>1. byte[1] - a \in 1..n /\ byte[1] = a + (byte[1] - a)
            BY <2>1
        <3>2. QED
            BY <3>1
    <2>3. PICK place \in Nat : byte = <<a + k, place>> /\ place \in 1..Width[f[a + k]]
        <3>1. /\ byte[2] \in 1..Width[f[byte[1]]]
              /\ byte = <<byte[1], byte[2]>>
            BY <2>1, BytesAreOfLines
        <3>2. byte[2] \in 1..Width[f[a + k]] /\ byte = <<a + k, byte[2]>>
            BY <2>2, <3>1
        <3>3. byte[1] \in 1..Len(f)
            BY <2>1, BytesAreOfLines
        <3>4. Width[f[a + k]] \in Nat
            BY <2>2, <3>3, SpanMapAssumption
        <3>5. byte[2] \in Nat
            BY <3>2, <3>4
        <3>6. QED
            BY <3>2, <3>5
    <2> DEFINE other == <<c + k, place>>
    <2>4. g[c + k] = f[a + k] /\ c + k \in 1..Len(g) /\ c + k \in c + 1..c + n
        BY <1>1 DEF SameLines
    <2>5. other \in Covered(g, t)
        <3>1. DOMAIN g = 1..Len(g)
            OBVIOUS
        <3>2. other \in {c + k} \X (1..Width[g[c + k]])
            BY <2>3, <2>4
        <3>3. other \in Bytes(g)
            BY <2>4, <3>1, <3>2 DEF Bytes
        <3>4. QED
            BY <1>6, <2>4, <3>3
    <2>6. Offset(g, other) - t.start = Offset(f, byte) - s.start
        <3>1. (a + k) - 1 = a + (k - 1) /\ (c + k) - 1 = c + (k - 1) /\ k - 1 \in 0..n
            OBVIOUS
        <3>2. Boundaries(g)[c + (k - 1)] - Boundaries(g)[c]
                = Boundaries(f)[a + (k - 1)] - Boundaries(f)[a]
            <4>1. \A j \in 0..n : Boundaries(g)[c + j] - Boundaries(g)[c]
                                    = Boundaries(f)[a + j] - Boundaries(f)[a]
                BY OffsetsAgree
            <4>2. QED
                BY <3>1, <4>1
        <3>3. a + (k - 1) \in 0..Len(f) /\ c + (k - 1) \in 0..Len(g)
            BY <1>1
        <3>4. /\ Boundaries(g)[c + (k - 1)] \in Nat /\ Boundaries(g)[c] \in Nat
              /\ Boundaries(f)[a + (k - 1)] \in Nat /\ Boundaries(f)[a] \in Nat
            BY <1>1, <1>3, <3>3
        <3>5. /\ Offset(g, other) = Boundaries(g)[c + (k - 1)] + place
              /\ Offset(f, byte) = Boundaries(f)[a + (k - 1)] + place
            BY <2>3, <3>1 DEF Offset
        <3> HIDE DEF s, t, other
        <3>6. (Boundaries(g)[c + (k - 1)] + place) - Boundaries(g)[c]
                = (Boundaries(f)[a + (k - 1)] + place) - Boundaries(f)[a]
            <4>1. PICK x \in Nat, y \in Nat, u \in Nat, v \in Nat :
                    /\ x = Boundaries(g)[c + (k - 1)] /\ y = Boundaries(g)[c]
                    /\ u = Boundaries(f)[a + (k - 1)] /\ v = Boundaries(f)[a]
                BY <3>4
            <4>2. x - y = u - v
                BY <3>2, <4>1, Zenon
            <4>3. (x + place) - y = (u + place) - v
                BY <4>2
            <4>4. QED
                BY <4>1, <4>3, Zenon
        <3>7. QED
            BY <1>2, <3>5, <3>6
    <2>7. At(g, t, other) = At(f, s, byte)
        BY <2>3, <2>4, <2>6
    <2>8. QED
        BY <2>5, <2>7
<1> HIDE DEF s, t, At
<1>8. Slice(f, s) \subseteq Slice(g, t)
    BY <1>5, <1>7
<1>9. QED
    BY <1>8 DEF s, t

LEMMA SlicesAgree ==
    ASSUME NEW f \in Seq(Line), NEW g \in Seq(Line), NEW n \in Nat,
           NEW a \in Nat, a + n <= Len(f), NEW c \in Nat, c + n <= Len(g),
           SameLines(f, a, g, c, n)
    PROVE  Slice(g, SpanOf(g, c, c + n)) = Slice(f, SpanOf(f, a, a + n))
<1>1. Slice(f, SpanOf(f, a, a + n)) \subseteq Slice(g, SpanOf(g, c, c + n))
    BY SliceIsIn
<1>2. Slice(g, SpanOf(g, c, c + n)) \subseteq Slice(f, SpanOf(f, a, a + n))
    <2>1. SameLines(g, c, f, a, n)
        BY DEF SameLines
    <2>2. QED
        BY <2>1, SliceIsIn
<1>3. QED
    BY <1>1, <1>2

\* What -L asks for are the lines it was parsed to, if the file has them: a
\* count so large that it is cut at MaxNumber asks for more than any file has.
LEMMA WantedIsParsed ==
    ASSUME NEW arg \in LinesArg, NEW file \in File, FitsIn(ParseLines(arg), file)
    PROVE  Wanted(arg) = ParseLines(arg).start..ParseLines(arg).end
<1>1. PICK m \in 0..MaxLines : file \in [1..m -> Line]
    BY DEF File, BoundedSeq, SeqOf
<1>2. Len(file) \in Nat /\ Len(file) <= MaxLines
    BY <1>1, SpanMapAssumption
<1>3. MaxNumber \in Nat /\ MaxLines \in Nat /\ MaxLines + 1 < MaxNumber
    BY SpanMapAssumption
<1>4. /\ arg.start \in Nat
      /\ arg.form \in {"line", "to", "plus"}
      /\ arg.form # "line" => arg.second \in Nat
    BY <1>3 DEF LinesArg
<1>5. ParseLines(arg).start = arg.start
    BY DEF ParseLines
<1>6. CASE arg.form = "line"
    <2>1. ParseLines(arg).end = arg.start
        BY <1>6 DEF ParseLines
    <2>2. arg.start..arg.start = {arg.start}
        BY <1>4
    <2>3. QED
        BY <1>5, <1>6, <2>1, <2>2 DEF Wanted
<1>7. CASE arg.form = "to"
    BY <1>5, <1>7 DEF ParseLines, Wanted
<1>8. CASE arg.form = "plus"
    <2>1. PICK start \in Nat, count \in Nat : start = arg.start /\ count = arg.second
        BY <1>4, <1>8
    <2>2. ParseLines(arg).end = IF SaturatingAdd(start, count) - 1 > start
                                THEN SaturatingAdd(start, count) - 1 ELSE start
        BY <1>8, <2>1 DEF ParseLines
    <2>3. ParseLines(arg).end <= MaxLines /\ start >= 1
        BY <1>2, <1>3, <1>5, <2>1, <2>2 DEF FitsIn, SaturatingAdd
    <2>4. SaturatingAdd(start, count) = start + count
        BY <1>3, <2>2, <2>3 DEF SaturatingAdd
    <2>5. Max({count, 1}) = IF count > 1 THEN count ELSE 1
        <3>1. {count, 1} \in SUBSET (0..count + 1) /\ {count, 1} # {} /\ count + 1 \in Nat
            OBVIOUS
        <3>2. Max({count, 1}) \in {count, 1} /\ \A y \in {count, 1} : Max({count, 1}) >= y
            BY <3>1, MaxOfLines
        <3>3. QED
            BY <3>2
    <2>6. start + Max({count, 1}) - 1 = ParseLines(arg).end
        BY <2>2, <2>4, <2>5
    <2>7. QED
        BY <1>5, <1>8, <2>1, <2>6 DEF Wanted
<1>9. QED
    BY <1>4, <1>6, <1>7, <1>8

-----------------------------------------------------------------------------
(***************************************************************************)
(* From capture to report                                                  *)
(***************************************************************************)

\* A capture spans whole lines of what it read: those it was asked for.
Spanned ==
    /\ pc # "new" =>
            \E a \in 0..Len(content) :
                \E b \in a..Len(content) : span = SpanOf(content, a, b)
    /\ pc = "captured" /\ asked # WholeFile =>
            /\ FitsIn(ParseLines(asked), content)
            /\ span = ByteSpanOf(content, ParseLines(asked))

\* A tracing is of the anchor's span, and what it reports is that span moved.
Traced ==
    /\ pc \in {"walk", "mapped"} => lines = SpanToLines(blob, span)
    /\ pc = "same" => target = blob /\ candidate = span
    /\ pc = "mapped" =>
            /\ lines.first <= lines.last /\ lines.last <= Len(blob)
            /\ removed <= lines.first + added
            /\ lines.last + added - removed <= Len(target)
            /\ candidate = LinesToSpan(target, lines.first + added - removed,
                                               lines.last + added - removed)

\* The second inductive invariant, under the first.
Showing ==
    /\ Spanned
    /\ Traced

LEMMA ShowingInit == Init => Showing
BY DEF Init, Showing, Spanned, Traced

LEMMA CaptureShowing ==
    ASSUME Mapping, Showing, NEW bytes \in File, CaptureLines(bytes)
    PROVE  Showing'
<1>1. pc' = "captured" /\ content' = bytes
    BY DEF CaptureLines, CaptureFrom
<1>2. Len(bytes) \in Nat /\ Boundaries(bytes)[0] = 0
    <2>1. bytes \in Seq(Line)
        BY FilesAreSequences
    <2>2. QED
        BY <2>1, BoundariesAreOffsets DEF Offsets
<1>3. CASE \E arg \in LinesArg :
            /\ FitsIn(ParseLines(arg), bytes)
            /\ CaptureFrom(bytes, arg, ByteSpanOf(bytes, ParseLines(arg)))
    <2>1. PICK arg \in LinesArg :
            /\ FitsIn(ParseLines(arg), bytes)
            /\ CaptureFrom(bytes, arg, ByteSpanOf(bytes, ParseLines(arg)))
        BY <1>3
    <2>2. PICK range \in LineRange : range = ParseLines(arg)
        BY ArgumentsAreRanges
    <2>3. range.start \in Nat /\ range.end \in Nat
        BY SpanMapAssumption DEF LineRange
    <2>4. range.start - 1 \in 0..Len(bytes) /\ range.end \in range.start - 1..Len(bytes)
        BY <1>2, <2>1, <2>2, <2>3 DEF FitsIn
    <2>5. /\ asked' = arg
          /\ span' = ByteSpanOf(bytes, ParseLines(arg))
          /\ span' = SpanOf(bytes, range.start - 1, range.end)
        BY <2>1, <2>2 DEF CaptureFrom, ByteSpanOf, SpanOf
    <2>6. Spanned'
        BY <1>1, <2>1, <2>4, <2>5 DEF Spanned
    <2>7. QED
        BY <1>1, <2>6 DEF Showing, Traced
<1>4. CASE CaptureFrom(bytes, WholeFile, [start |-> 0, end |-> Boundaries(bytes)[Len(bytes)]])
    <2>1. asked' = WholeFile /\ span' = SpanOf(bytes, 0, Len(bytes))
        BY <1>2, <1>4 DEF CaptureFrom, SpanOf
    <2>2. 0 \in 0..Len(bytes) /\ Len(bytes) \in 0..Len(bytes)
        BY <1>2
    <2>3. Spanned'
        BY <1>1, <2>1, <2>2 DEF Spanned
    <2>4. QED
        BY <1>1, <2>3 DEF Showing, Traced
<1>5. QED
    BY <1>3, <1>4 DEF CaptureLines

\* A report leaves the span alone and is of the lines the walk began with.
LEMMA ReportShowing ==
    ASSUME Mapping, Mapping', Showing, pc = "walk", Report
    PROVE  Showing'
<1>1. /\ UNCHANGED <<blob, content, span, asked, target, lines, hunk, added, removed>>
      /\ pc' \in {"mapped", "lost"}
      /\ pc' = "mapped" =>
            /\ removed <= lines.first + added
            /\ lines.last + added - removed <= Len(target)
            /\ candidate' = LinesToSpan(target, lines.first + added - removed,
                                                lines.last + added - removed)
    BY DEF Report, anchor
<1>2. Spanned'
    BY <1>1 DEF Showing, Spanned
<1>3. Traced'
    BY <1>1 DEF Showing, Traced, Mapping, Walked
<1>4. QED
    BY <1>2, <1>3 DEF Showing

LEMMA ShowingNext == ASSUME Mapping, Mapping', Showing, [Next]_vars PROVE Showing'
<1> USE DEF Showing, Spanned, Traced
<1>1. CASE Capture
    <2>1. blob \in File /\ CaptureLines(blob)
        BY <1>1 DEF Capture, Mapping, TypeOK
    <2>2. QED
        BY <2>1, CaptureShowing
<1>2. CASE CaptureWorktree
    BY <1>2, CaptureShowing DEF CaptureWorktree
<1>3. CASE PrintHandle
    BY <1>3 DEF PrintHandle, anchor, walked
<1>4. CASE TraceNowhere
    BY <1>4 DEF TraceNowhere, Trace, anchor
<1>5. CASE TraceSameBlob
    BY <1>5 DEF TraceSameBlob, Trace, anchor
<1>6. CASE BeginMap
    <2>1. /\ pc = "anchored" /\ pc' \in {"lost", "walk"}
          /\ lines' = SpanToLines(blob, span)
          /\ UNCHANGED <<blob, content, span, asked>>
        BY <1>6 DEF BeginMap, Trace, anchor
    <2>2. QED
        BY <2>1
<1>7. CASE ShiftHunk
    BY <1>7 DEF ShiftHunk, anchor
<1>8. CASE TouchingHunk
    BY <1>8 DEF TouchingHunk, anchor
<1>9. CASE BelowHunk
    BY <1>9, ReportShowing DEF BelowHunk
<1>10. CASE NoMoreHunks
    BY <1>10, ReportShowing DEF NoMoreHunks
<1>11. CASE Return
    BY <1>11 DEF Return, anchor
<1>12. CASE UNCHANGED vars
    BY <1>12 DEF vars, anchor, walked
<1>13. QED
    BY <1>1, <1>2, <1>3, <1>4, <1>5, <1>6, <1>7, <1>8, <1>9, <1>10, <1>11, <1>12 DEF Next

LEMMA ShowingHolds == Spec => []Showing
<1>1. Mapping /\ Mapping' /\ Showing /\ [Next]_vars => Showing'
    BY ShowingNext
<1>2. QED
    BY <1>1, ShowingInit, MappingHolds, PTL DEF Spec

\* What the two invariants say of a capture.
LEMMA CaptureCovers == Mapping /\ Showing => CapturedAsAsked
<1> SUFFICES ASSUME Mapping, Showing, pc = "captured", asked # WholeFile
             PROVE  /\ Wanted(asked) \subseteq DOMAIN content
                    /\ span.end <= Boundaries(content)[Len(content)]
                    /\ Covered(content, span)
                         = {byte \in Bytes(content) : byte[1] \in Wanted(asked)}
    BY DEF CapturedAsAsked
<1>1. /\ asked \in LinesArg /\ content \in File
      /\ FitsIn(ParseLines(asked), content)
      /\ span = ByteSpanOf(content, ParseLines(asked))
    BY DEF Mapping, TypeOK, Showing, Spanned
<1>2. content \in Seq(Line) /\ Len(content) \in Nat
    BY <1>1, FilesAreSequences
<1>3. PICK range \in LineRange : range = ParseLines(asked)
    BY <1>1, ArgumentsAreRanges
<1>4. range.start \in Nat /\ range.end \in Nat
    BY SpanMapAssumption DEF LineRange
<1>5. /\ range.start >= 1
      /\ range.start - 1 \in 0..Len(content)
      /\ range.end \in range.start - 1..Len(content)
      /\ range.end \in 0..Len(content) /\ Len(content) \in 0..Len(content)
      /\ range.end <= Len(content)
    BY <1>1, <1>2, <1>3, <1>4 DEF FitsIn
<1>6. span = SpanOf(content, range.start - 1, range.end)
    BY <1>1, <1>3 DEF ByteSpanOf, SpanOf
<1>7. Wanted(asked) = range.start..range.end
    BY <1>1, <1>3, WantedIsParsed
<1>8. DOMAIN content = 1..Len(content) /\ range.start..range.end \subseteq 1..Len(content)
    BY <1>2, <1>4, <1>5
<1>9. Covered(content, span) = {byte \in Bytes(content) : byte[1] \in range.start..range.end}
    <2>1. (range.start - 1) + 1 = range.start
        BY <1>4
    <2>2. QED
        BY <1>2, <1>5, <1>6, <2>1, CoveredLines
<1>10. span.end <= Boundaries(content)[Len(content)]
    BY <1>2, <1>5, <1>6, BoundariesIncrease DEF SpanOf
<1>11. QED
    BY <1>7, <1>8, <1>9, <1>10

\* What they say of a mapped position: it shows the text of the lines of the blob
\* that the span is of.
LEMMA MappedShows ==
    ASSUME Mapping, Showing, pc = "mapped",
           NEW a \in 0..Len(blob), NEW b \in a..Len(blob), span = SpanOf(blob, a, b)
    PROVE  Slice(target, candidate) = Slice(blob, span)
<1>1. /\ blob \in Seq(Line) /\ target \in Seq(Line)
      /\ Len(blob) \in Nat /\ Len(target) \in Nat
      /\ added \in Nat /\ removed \in Nat
    BY Numbers DEF Mapping
<1>2. lines = [first |-> a, last |-> b]
    BY <1>1, LinesOfSpan DEF Showing, Traced
<1>3. /\ removed <= a + added
      /\ b + added - removed <= Len(target)
      /\ candidate = LinesToSpan(target, a + added - removed, b + added - removed)
      /\ \A i \in a + 1..b : target[i + added - removed] = blob[i]
    BY <1>2 DEF Showing, Traced, Mapping, MappedLinesAreUnchanged
<1>4. PICK n \in Nat : n = b - a
    BY <1>1
<1>5. PICK c \in Nat : c = a + added - removed
    <2>1. a + added - removed \in Nat
        BY <1>1, <1>3
    <2>2. QED
        BY <2>1
<1>6. /\ a \in Nat /\ b = a + n /\ a + n <= Len(blob)
      /\ b + added - removed = c + n /\ c + n <= Len(target)
    BY <1>1, <1>3, <1>4, <1>5
<1>7. SameLines(blob, a, target, c, n)
    <2> SUFFICES \A k \in 1..n : target[c + k] = blob[a + k]
        BY DEF SameLines
    <2>1. TAKE k \in 1..n
    <2>2. a + k \in a + 1..b /\ (a + k) + added - removed = c + k
        BY <1>1, <1>5, <1>6
    <2>3. QED
        BY <1>3, <2>2
<1>8. candidate = SpanOf(target, c, c + n) /\ span = SpanOf(blob, a, a + n)
    BY <1>3, <1>5, <1>6 DEF LinesToSpan, SpanOf
<1>9. Slice(target, SpanOf(target, c, c + n)) = Slice(blob, SpanOf(blob, a, a + n))
    BY <1>1, <1>6, <1>7, SlicesAgree
<1>10. QED
    BY <1>8, <1>9

\* And of a report on an anchor captured from its commit.
LEMMA ReportShows == Mapping /\ Showing => CandidateIsCapturedText
<1> SUFFICES ASSUME Mapping, Showing, Reported, content = blob
             PROVE  Slice(target, candidate) = Slice(content, span)
    BY DEF CandidateIsCapturedText
<1>1. CASE pc = "same"
    BY <1>1 DEF Showing, Traced
<1>2. CASE pc = "mapped"
    <2>1. PICK a \in 0..Len(blob) : \E b \in a..Len(blob) : span = SpanOf(blob, a, b)
        BY <1>2 DEF Showing, Spanned
    <2>2. PICK b \in a..Len(blob) : span = SpanOf(blob, a, b)
        BY <2>1
    <2>3. QED
        BY <1>2, <2>2, MappedShows
<1>3. QED
    BY <1>1, <1>2 DEF Reported

\* A candidate shows the very bytes the anchor was captured with, however long
\* the lines and whatever edits moved them.
THEOREM CandidateShowsText == Spec => []CandidateIsCapturedText
BY ReportShows, MappingHolds, ShowingHolds, PTL

\* The working tree agrees with the commit down to the last line of the span.
CleanToSpan ==
    \E n \in 0..Len(content) :
        /\ n <= Len(blob)
        /\ \A i \in 1..n : blob[i] = content[i]
        /\ span.end <= Boundaries(content)[n]

\* A candidate of an anchor captured from a working tree that is clean down to its
\* span shows the bytes captured, whatever was edited below it.
CleanSpanIsTraced ==
    Reported /\ CleanToSpan => Slice(target, candidate) = Slice(content, span)

\* Files that agree up to some line have the boundaries up to it in common.
LEMMA SameStart ==
    ASSUME NEW f \in Seq(Line), NEW g \in Seq(Line), NEW n \in Nat,
           n <= Len(f), n <= Len(g), SameLines(f, 0, g, 0, n)
    PROVE  \A k \in 0..n : Boundaries(g)[k] = Boundaries(f)[k]
<1>1. PICK z \in Nat, y \in Nat : z = 0 /\ y = 0
    OBVIOUS
<1>2. /\ Len(f) \in Nat /\ Len(g) \in Nat
      /\ z + n <= Len(f) /\ y + n <= Len(g)
      /\ SameLines(f, z, g, y, n)
    BY <1>1
<1>3. \A k \in 0..n : Boundaries(g)[y + k] - Boundaries(g)[y]
                        = Boundaries(f)[z + k] - Boundaries(f)[z]
    BY <1>2, OffsetsAgree
<1>4. Boundaries(f)[0] = 0 /\ Boundaries(g)[0] = 0
    <2>1. Boundaries(f)[0] = 0
        BY BoundariesAreOffsets DEF Offsets
    <2>2. Boundaries(g)[0] = 0
        BY BoundariesAreOffsets DEF Offsets
    <2>3. QED
        BY <2>1, <2>2
<1>5. ASSUME NEW k \in 0..n PROVE Boundaries(g)[k] = Boundaries(f)[k]
    <2>1. k \in 0..Len(f) /\ k \in 0..Len(g) /\ z + k = k /\ y + k = k
        BY <1>1, <1>2
    <2>2. PICK u \in Nat : u = Boundaries(f)[k]
        BY <2>1, BoundarySteps
    <2>3. PICK v \in Nat : v = Boundaries(g)[k]
        BY <2>1, BoundarySteps
    <2>4. v - 0 = u - 0
        BY <1>1, <1>3, <1>4, <2>1, <2>2, <2>3
    <2>5. u = v
        BY <2>4
    <2>6. QED
        BY <2>2, <2>3, <2>5
<1>6. QED
    BY <1>5

\* A span of what is clean is the span of the same lines of the blob.
LEMMA CleanSpan ==
    ASSUME content \in Seq(Line), blob \in Seq(Line), CleanToSpan,
           NEW a \in 0..Len(content), NEW b \in a..Len(content), span = SpanOf(content, a, b)
    PROVE  /\ a \in 0..Len(blob) /\ b \in a..Len(blob)
           /\ span = SpanOf(blob, a, b)
           /\ Slice(blob, span) = Slice(content, span)
<1>1. PICK n \in 0..Len(content) :
        /\ n <= Len(blob)
        /\ \A i \in 1..n : blob[i] = content[i]
        /\ span.end <= Boundaries(content)[n]
    BY DEF CleanToSpan
<1>2. /\ Len(content) \in Nat /\ Len(blob) \in Nat /\ n \in Nat
      /\ a \in Nat /\ b \in Nat /\ a <= b /\ b \in 0..Len(content)
    OBVIOUS
<1>3. b <= n
    <2>1. ASSUME n < b PROVE FALSE
        <3>1. Boundaries(content)[n] < Boundaries(content)[b]
            BY <1>2, <2>1, BoundariesAreApart
        <3>2. Boundaries(content)[b] <= Boundaries(content)[n]
            BY <1>1 DEF SpanOf
        <3>3. Boundaries(content)[n] \in Nat /\ Boundaries(content)[b] \in Nat
            BY <1>2, BoundarySteps
        <3>4. QED
            BY <3>1, <3>2, <3>3
    <2>2. QED
        BY <1>2, <2>1
<1>4. n <= Len(content) /\ a \in 0..Len(blob) /\ b \in a..Len(blob) /\ a \in 0..n /\ b \in 0..n
    BY <1>1, <1>2, <1>3
<1>5. \A k \in 0..n : Boundaries(blob)[k] = Boundaries(content)[k]
    <2>1. \A i \in 1..n : 0 + i = i
        OBVIOUS
    <2>2. SameLines(content, 0, blob, 0, n)
        BY <1>1, <2>1 DEF SameLines
    <2>3. QED
        BY <1>1, <1>2, <1>4, <2>2, SameStart
<1>6. span = SpanOf(blob, a, b)
    BY <1>4, <1>5 DEF SpanOf
<1>7. PICK m \in Nat : b = a + m
    <2>1. b - a \in Nat /\ b = a + (b - a)
        BY <1>2
    <2>2. QED
        BY <2>1
<1>8. SameLines(content, a, blob, a, m)
    <2>1. \A k \in 1..m : a + k \in 1..n
        BY <1>2, <1>3, <1>7
    <2>2. QED
        BY <1>1, <2>1 DEF SameLines
<1>9. a + m <= Len(content) /\ a + m <= Len(blob)
    BY <1>2, <1>4, <1>7
<1>10. Slice(blob, SpanOf(blob, a, a + m)) = Slice(content, SpanOf(content, a, a + m))
    BY <1>2, <1>8, <1>9, SlicesAgree
<1>11. QED
    BY <1>4, <1>6, <1>7, <1>10

\* A capture of a working tree is only misplaced by what was edited above its last
\* line: with the file clean down to there, the bytes recorded are found wherever
\* they moved, although the recorded commit has another file.
THEOREM DirtyBelowIsHarmless == Spec => []CleanSpanIsTraced
<1>1. Mapping /\ Showing => CleanSpanIsTraced
    <2> SUFFICES ASSUME Mapping, Showing, Reported, CleanToSpan
                 PROVE  Slice(target, candidate) = Slice(content, span)
        BY DEF CleanSpanIsTraced
    <2>1. content \in Seq(Line) /\ blob \in Seq(Line)
        BY FilesAreSequences DEF Mapping, TypeOK
    <2>2. PICK a \in 0..Len(content) :
            \E b \in a..Len(content) : span = SpanOf(content, a, b)
        BY DEF Reported, Showing, Spanned
    <2>3. PICK b \in a..Len(content) : span = SpanOf(content, a, b)
        BY <2>2
    <2>4. /\ a \in 0..Len(blob) /\ b \in a..Len(blob)
          /\ span = SpanOf(blob, a, b)
          /\ Slice(blob, span) = Slice(content, span)
        BY <2>1, <2>3, CleanSpan
    <2>5. CASE pc = "same"
        BY <2>4, <2>5 DEF Showing, Traced
    <2>6. CASE pc = "mapped"
        BY <2>4, <2>6, MappedShows
    <2>7. QED
        BY <2>5, <2>6 DEF Reported
<1>2. QED
    BY <1>1, MappingHolds, ShowingHolds, PTL

\* A capture covers the lines its -L argument asks for and no other byte, at
\* the last line, without a terminator, and where the count overflows.
THEOREM CaptureIsAsAsked == Spec => []CapturedAsAsked
BY CaptureCovers, MappingHolds, ShowingHolds, PTL

\* The text of the mapped lines is in the target: Revalidate assumes of its
\* Survives what this says of a tracing.
MappedTextIsThere ==
    pc = "mapped" =>
        LET first == lines.first + added - removed
            last == lines.last + added - removed
        IN  /\ removed <= lines.first + added /\ last <= Len(target)
            /\ SubSeq(target, first + 1, last) = SubSeq(blob, lines.first + 1, lines.last)

LEMMA SameText ==
    ASSUME NEW f \in Seq(Line), NEW g \in Seq(Line), NEW a \in Nat, NEW c \in Nat, NEW n \in Nat,
           a + n <= Len(f), c + n <= Len(g), SameLines(f, a, g, c, n)
    PROVE  SubSeq(g, c + 1, c + n) = SubSeq(f, a + 1, a + n)
<1> DEFINE s == SubSeq(f, a + 1, a + n)
           t == SubSeq(g, c + 1, c + n)
<1>1. /\ s = [k \in 1..n |-> f[a + k]]
      /\ t = [k \in 1..n |-> g[c + k]]
    <2>1. (a + n) - (a + 1) + 1 = n /\ (c + n) - (c + 1) + 1 = n
        OBVIOUS
    <2>2. s = [k \in 1..n |-> f[(a + 1) + (k - 1)]] /\ t = [k \in 1..n |-> g[(c + 1) + (k - 1)]]
        BY <2>1
    <2>3. \A k \in 1..n : (a + 1) + (k - 1) = a + k /\ (c + 1) + (k - 1) = c + k
        OBVIOUS
    <2>4. QED
        BY <2>2, <2>3
<1> HIDE DEF s, t
<1>2. \A k \in 1..n : g[c + k] = f[a + k]
    BY DEF SameLines
<1>3. s = t
    BY <1>1, <1>2
<1>4. QED
    BY <1>3 DEF s, t

LEMMA MappedText == Mapping /\ Showing => MappedTextIsThere
<1> SUFFICES ASSUME Mapping, Showing, pc = "mapped"
             PROVE  LET first == lines.first + added - removed
                        last == lines.last + added - removed
                    IN  /\ removed <= lines.first + added /\ last <= Len(target)
                        /\ SubSeq(target, first + 1, last)
                                = SubSeq(blob, lines.first + 1, lines.last)
    BY DEF MappedTextIsThere
<1>1. /\ blob \in Seq(Line) /\ target \in Seq(Line)
      /\ Len(blob) \in Nat /\ Len(target) \in Nat
      /\ added \in Nat /\ removed \in Nat
      /\ lines.first \in Nat /\ lines.last \in Nat
    BY Numbers DEF Mapping
<1>2. /\ lines.first <= lines.last /\ lines.last <= Len(blob)
      /\ removed <= lines.first + added
      /\ lines.last + added - removed <= Len(target)
    BY DEF Showing, Traced
<1>3. PICK a \in Nat : a = lines.first
    BY <1>1
<1>4. PICK b \in Nat : b = lines.last
    BY <1>1
<1>5. PICK n \in Nat : b = a + n
    <2>1. a <= b
        BY <1>2, <1>3, <1>4
    <2>2. b - a \in Nat /\ b = a + (b - a)
        BY <2>1
    <2>3. QED
        BY <2>2
<1>6. PICK c \in Nat : c = a + added - removed
    <2>1. removed <= a + added
        BY <1>2, <1>3
    <2>2. QED
        BY <1>1, <2>1
<1>7. /\ a + n <= Len(blob) /\ c + n <= Len(target)
      /\ b + added - removed = c + n
    <2>1. b + added - removed = c + n
        BY <1>1, <1>5, <1>6
    <2>2. QED
        BY <1>2, <1>4, <1>5, <2>1
<1>8. SameLines(blob, a, target, c, n)
    <2> SUFFICES ASSUME NEW k \in 1..n PROVE target[c + k] = blob[a + k]
        BY DEF SameLines
    <2>1. a + k \in lines.first + 1..lines.last /\ (a + k) + added - removed = c + k
        <3>1. a + k \in a + 1..b /\ (a + k) + added - removed = c + k
            BY <1>1, <1>5, <1>6
        <3>2. QED
            BY <1>3, <1>4, <3>1
    <2>2. QED
        BY <2>1 DEF Mapping, MappedLinesAreUnchanged
<1>9. SubSeq(target, c + 1, c + n) = SubSeq(blob, a + 1, a + n)
    BY <1>1, <1>7, <1>8, SameText
<1>10. QED
    BY <1>2, <1>3, <1>4, <1>5, <1>6, <1>7, <1>9

\* Where a tracing maps an anchor there is the text it was captured with, line for
\* line: what `revalidate' relies on when it takes a traced position for valid.
THEOREM MappedTextOccurs == Spec => []MappedTextIsThere
BY MappedText, MappingHolds, ShowingHolds, PTL
=============================================================================

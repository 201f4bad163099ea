------------------------------ MODULE SpanMap ------------------------------
(***************************************************************************)
(* One file anchor of git-anchor, from capture to its tracing onto other   *)
(* revisions (anchor.rs, util.rs and `diff_trace' in oracle.rs).           *)
(*                                                                         *)
(* `create' turns its -L argument into a range of lines and the range into *)
(* a byte span of the bytes it read: a blob of the commit the anchor       *)
(* names, or a file of the working tree over that commit. Tracing turns    *)
(* the span back into lines of the commit's blob, walks the hunks of its   *)
(* diff against the target's blob in order, shifting the lines past each   *)
(* hunk above them, and turns the shifted lines into a span of the target. *)
(*                                                                         *)
(* A file is the sequence of its lines, each with a width in bytes. The    *)
(* diff is the diff library's: the walk meets any hunks that library may   *)
(* compute, chosen one at a time. Paths and renames only decide which blob *)
(* of the target the anchor is traced into, and are left out with them.    *)
(***************************************************************************)
EXTENDS Naturals, Sequences, SequencesExt, FiniteSetsExt

CONSTANTS Line,         \* contents of a line, its terminator included
          Unterminated, \* those without a terminator, only ever last
          Width,        \* bytes of each line
          MaxLines,     \* bound: lines of a file
          MaxNumber     \* the largest number there is: 2^64 - 1 in the code

ASSUME SpanMapAssumption ==
    /\ Unterminated \subseteq Line
    /\ Width \in [Line -> Nat \ {0}]
    /\ MaxLines \in Nat
    /\ MaxNumber \in Nat
    /\ MaxLines + 1 < MaxNumber

File == {f \in BoundedSeq(Line, MaxLines) :
            \A i \in DOMAIN f : f[i] \in Unterminated => i = Len(f)}

\* `LineRange': 1-based and inclusive, as a caller spells it.
LineRange == [start : 0..MaxNumber, end : 0..MaxNumber]

\* What -L is given: one line, `start,end' or `start,+count'; WholeFile without it.
LinesArg == [form : {"line"}, start : 0..MaxNumber]
                \cup [form : {"to", "plus"}, start : 0..MaxNumber, second : 0..MaxNumber]

WholeFile == [form |-> "whole"]

Span == [start : Nat, end : Nat]

\* Lines, 0-based and half-open.
Lines == [first : Nat, last : Nat]

\* A hunk replaces before-lines by after-lines, 0-based and half-open.
Hunk == [before : Lines, after : Lines]

NoHunk == [before |-> [first |-> 0, last |-> 0], after |-> [first |-> 0, last |-> 0]]

VARIABLES blob,      \* the anchored path's file at genesis_rev
          content,   \* the bytes the capture read
          span,      \* `AnchorIdentity::span'
          asked,     \* the -L argument, while the command that captures runs
          pc,        \* "new", "captured", "anchored", "walk", or how the last tracing ended
          target,    \* the file it is traced into
          lines,     \* start_line and end_line
          hunk,      \* the last hunk looked at
          added,     \* lines added by hunks above the span
          removed,   \* and removed
          candidate  \* the span reported

walked == <<lines, hunk, added, removed>>
anchor == <<blob, content, span>>
vars == <<anchor, asked, pc, target, walked, candidate>>

NoSpan == [start |-> 0, end |-> 0]

-----------------------------------------------------------------------------
\* `saturating_add'.
SaturatingAdd(m, n) == IF m + n > MaxNumber THEN MaxNumber ELSE m + n

\* Variant: the line after the last one counted is taken for the last one.
ParseLinesPast(arg) ==
    [start |-> arg.start,
     end |-> IF arg.form = "plus" THEN SaturatingAdd(arg.start, arg.second)
             ELSE IF arg.form = "to" THEN arg.second ELSE arg.start]

\* `parse_lines_arg'. A count of none is taken for one.
ParseLines(arg) ==
    LET counted == SaturatingAdd(arg.start, arg.second) - 1
    IN  [start |-> arg.start,
         end |-> IF arg.form = "plus" THEN IF counted > arg.start THEN counted ELSE arg.start
                 ELSE IF arg.form = "to" THEN arg.second ELSE arg.start]

(***************************************************************************)
(* util.rs                                                                 *)
(***************************************************************************)

\* `line_boundaries': where each line starts, and where the last one ends.
Boundaries(file) ==
    LET offset[i \in 0..Len(file)] ==
            IF i = 0 THEN 0 ELSE offset[i - 1] + Width[file[i]]
    IN  offset

\* `byte_span_of' refuses these with LinesOutOfRange. A range that ends on
\* the line before its start is an empty span, and fits.
FitsIn(range, file) ==
    /\ range.start >= 1
    /\ range.start - 1 <= range.end
    /\ range.end <= Len(file)

ByteSpanOf(file, range) ==
    [start |-> Boundaries(file)[range.start - 1], end |-> Boundaries(file)[range.end]]

\* `span_to_lines': the lines that bytes of the span touch.
SpanToLines(file, s) ==
    LET boundary == Boundaries(file)
        starts == {i \in 0..Len(file) : boundary[i] <= s.start}
        ends == {i \in 0..Len(file) : boundary[i] >= s.end}
        first == IF starts = {} THEN 0 ELSE Max(starts)
    IN  [first |-> first,
         last |-> IF s.end <= s.start THEN first
                  ELSE IF ends = {} THEN Len(file) ELSE Min(ends)]

\* `lines_to_span', where it returns a span at all: see Report.
LinesToSpan(file, first, last) ==
    [start |-> Boundaries(file)[first], end |-> Boundaries(file)[last]]

-----------------------------------------------------------------------------
Init ==
    /\ blob \in File
    /\ content = <<>>
    /\ span = NoSpan
    /\ asked = WholeFile
    /\ pc = "new"
    /\ target = <<>>
    /\ lines = NoHunk.before
    /\ hunk = NoHunk
    /\ added = 0
    /\ removed = 0
    /\ candidate = NoSpan

CaptureFrom(bytes, arg, s) ==
    /\ asked' = arg
    /\ content' = bytes
    /\ span' = s
    /\ pc' = "captured"
    /\ UNCHANGED <<blob, target, walked, candidate>>

\* `span_for': a range of lines if it fits, or all of the file.
CaptureLines(bytes) ==
    /\ pc = "new"
    /\ \/ \E arg \in LinesArg :
             /\ FitsIn(ParseLines(arg), bytes)
             /\ CaptureFrom(bytes, arg, ByteSpanOf(bytes, ParseLines(arg)))
       \/ CaptureFrom(bytes, WholeFile, [start |-> 0, end |-> Boundaries(bytes)[Len(bytes)]])

\* `capture': the blob of the commit itself is read.
Capture == CaptureLines(blob)

\* `capture_worktree': the file on disk is read, HEAD is recorded.
CaptureWorktree == \E bytes \in File : CaptureLines(bytes)

\* `create' prints the anchor's handle and ends.
PrintHandle ==
    /\ pc = "captured"
    /\ pc' = "anchored"
    /\ asked' = WholeFile
    /\ UNCHANGED <<anchor, target, walked, candidate>>

\* `diff_trace' of the anchor into a target.
Trace(file) ==
    /\ pc = "anchored"
    /\ target' = file
    /\ UNCHANGED <<anchor, asked, hunk, added, removed>>

\* The path is gone from the target, or its commit from the repository.
TraceNowhere ==
    /\ Trace(<<>>)
    /\ pc' = "gone"
    /\ UNCHANGED <<lines, candidate>>

\* The blob is the same: so is the span.
TraceSameBlob ==
    /\ Trace(blob)
    /\ pc' = "same"
    /\ candidate' = span
    /\ UNCHANGED lines

\* `map_span', up to its loop.
BeginMap ==
    \E file \in File \ {blob} :
        LET at == SpanToLines(blob, span)
        IN  /\ Trace(file)
            /\ lines' = at
            /\ pc' = IF at.last < at.first \/ at.last > Len(blob) THEN "lost" ELSE "walk"
            /\ UNCHANGED candidate

\* The files agree over these lines, which is as many on both sides.
Agree(before, after) ==
    /\ before.last - before.first = after.last - after.first
    /\ \A i \in before.first + 1..before.last :
            blob[i] = target[i - before.first + after.first]

\* h may be the next hunk of the diff: the lines between the last one and it
\* are common to both files, and so is the line that follows it, if any does.
NextHunk(h) ==
    LET gap == [before |-> [first |-> hunk.before.last, last |-> h.before.first],
                after |-> [first |-> hunk.after.last, last |-> h.after.first]]
    IN  /\ hunk = NoHunk \/ gap.before.first < gap.before.last
        /\ h.before.last - h.before.first + h.after.last - h.after.first > 0
        /\ Agree(gap.before, gap.after)
        /\ \/ h.before.last = Len(blob) /\ h.after.last = Len(target)
           \/ /\ h.before.last < Len(blob) /\ h.after.last < Len(target)
              /\ blob[h.before.last + 1] = target[h.after.last + 1]

\* The hunks that may come next.
Hunks ==
    {h \in {[before |-> [first |-> b, last |-> c],
             after |-> [first |-> hunk.after.last + (b - hunk.before.last), last |-> d]] :
                b \in hunk.before.last..Len(blob), c \in hunk.before.last..Len(blob),
                d \in hunk.after.last..Len(target)} :
        /\ h.before.first <= h.before.last
        /\ h.after.first <= h.after.last
        /\ NextHunk(h)}

\* Variant: a hunk that ends where the span starts is not above it.
AboveApart(h) == h.before.last < lines.first

\* Entirely above the span.
Above(h) == h.before.last <= lines.first

\* Variant: entirely below the span once it ends there.
BelowByEnd(h) == h.before.last >= lines.last

\* Entirely below the span.
Below(h) == h.before.first >= lines.last

\* Variant: lines added above the span shift it, lines removed do not.
ShiftByAdded ==
    /\ pc = "walk"
    /\ \E h \in Hunks :
        /\ Above(h)
        /\ hunk' = h
        /\ added' = added + (h.after.last - h.after.first)
    /\ UNCHANGED <<anchor, asked, pc, target, lines, removed, candidate>>

\* Variant: only the growth is kept.
ShiftByGrowth ==
    /\ pc = "walk"
    /\ \E h \in Hunks :
        /\ Above(h)
        /\ hunk' = h
        /\ added' = added + (h.after.last - h.after.first) - (h.before.last - h.before.first)
    /\ UNCHANGED <<anchor, asked, pc, target, lines, removed, candidate>>

\* A hunk above the span shifts it.
ShiftHunk ==
    /\ pc = "walk"
    /\ \E h \in Hunks :
        /\ Above(h)
        /\ hunk' = h
        /\ removed' = removed + (h.before.last - h.before.first)
        /\ added' = added + (h.after.last - h.after.first)
    /\ UNCHANGED <<anchor, asked, pc, target, lines, candidate>>

\* A hunk that touches the span.
TouchingHunk ==
    /\ pc = "walk"
    /\ \E h \in Hunks :
        /\ ~Above(h) /\ ~Below(h)
        /\ hunk' = h
    /\ pc' = "lost"
    /\ UNCHANGED <<anchor, asked, target, lines, added, removed, candidate>>

\* The end of `map_span': subtraction and lookups are checked.
Report ==
    LET first == lines.first + added - removed
        last == lines.last + added - removed
    IN  /\ IF removed <= lines.first + added /\ last <= Len(target)
           THEN /\ candidate' = LinesToSpan(target, first, last)
                /\ pc' = "mapped"
           ELSE pc' = "lost" /\ UNCHANGED candidate
        /\ UNCHANGED <<anchor, asked, target, lines, hunk, added, removed>>

\* A hunk below the span ends the loop.
BelowHunk ==
    /\ pc = "walk"
    /\ \E h \in Hunks : ~Above(h) /\ Below(h)
    /\ Report

\* There is no further hunk.
NoMoreHunks ==
    /\ pc = "walk"
    /\ Agree([first |-> hunk.before.last, last |-> Len(blob)],
             [first |-> hunk.after.last, last |-> Len(target)])
    /\ Report

\* The caller has its answer, and may trace the anchor again; nothing is kept.
Return ==
    /\ pc \in {"gone", "same", "mapped", "lost"}
    /\ pc' = "anchored"
    /\ target' = <<>>
    /\ lines' = NoHunk.before
    /\ hunk' = NoHunk
    /\ added' = 0
    /\ removed' = 0
    /\ candidate' = NoSpan
    /\ UNCHANGED <<anchor, asked>>

Next ==
    \/ Capture
    \/ CaptureWorktree
    \/ PrintHandle
    \/ TraceNowhere
    \/ TraceSameBlob
    \/ BeginMap
    \/ ShiftHunk
    \/ TouchingHunk
    \/ BelowHunk
    \/ NoMoreHunks
    \/ Return

Spec == Init /\ [][Next]_vars

-----------------------------------------------------------------------------
(***************************************************************************)
(* Properties                                                              *)
(***************************************************************************)
\* The type invariant: spans and lines are natural numbers, so that nothing that is
\* subtracted goes below zero.
TypeOK ==
    /\ blob \in File /\ content \in File /\ target \in File
    /\ span \in Span /\ candidate \in Span
    /\ asked \in LinesArg \cup {WholeFile}
    /\ pc \in {"new", "captured", "anchored", "walk", "gone", "same", "mapped", "lost"}
    /\ lines \in Lines
    /\ hunk \in Hunk
    /\ added \in Nat /\ removed \in Nat

\* The bytes of a file: each is of a line and has a place in it.
Bytes(file) == UNION {{i} \X (1..Width[file[i]]) : i \in DOMAIN file}

\* Where a byte ends.
Offset(file, byte) == Boundaries(file)[byte[1] - 1] + byte[2]

Covered(file, s) ==
    {byte \in Bytes(file) : s.start < Offset(file, byte) /\ Offset(file, byte) <= s.end}

\* `Span::slice': what is at each place of a span, or none if it is not in the file.
Slice(file, s) ==
    IF s.end > Boundaries(file)[Len(file)]
    THEN {<<>>}
    ELSE {<<Offset(file, byte) - s.start, file[byte[1]], byte[2]>> : byte \in Covered(file, s)}

Reported == pc \in {"same", "mapped"}

\* An anchor captured from a commit is traced to nothing but the text it was
\* captured with: a candidate of confidence 1.0 shows exactly those bytes,
\* wherever the edits around them moved them.
CandidateIsCapturedText ==
    Reported /\ content = blob => Slice(target, candidate) = Slice(content, span)

\* The lines reported for the target are those of the blob, whatever hunks of
\* whatever sizes were passed on the way and whatever the diff made of the rest.
MappedLinesAreUnchanged ==
    pc = "mapped" =>
        \A i \in lines.first + 1..lines.last : target[i + added - removed] = blob[i]

\* An anchor is given up only for a hunk that changes it: the bounds checks of
\* the arithmetic never fail, and edits next to the span never lose it.
OnlyTouchedSpansAreLost ==
    pc = "lost" => /\ hunk.before.first < lines.last
                   /\ hunk.before.last > lines.first

\* The lines an -L argument asks for.
Wanted(arg) ==
    IF arg.form = "line" THEN {arg.start}
    ELSE IF arg.form = "to" THEN arg.start..arg.second
    ELSE arg.start..arg.start + Max({arg.second, 1}) - 1

\* The anchor is to the lines -L asked for, all of them and no others, at the
\* ends of the file, without a last terminator, and however -L spells them; an
\* argument that asks for more than the file has is refused and never cut short.
CapturedAsAsked ==
    pc = "captured" /\ asked # WholeFile =>
        /\ Wanted(asked) \subseteq DOMAIN content
        /\ span.end <= Boundaries(content)[Len(content)]
        /\ Covered(content, span) = {byte \in Bytes(content) : byte[1] \in Wanted(asked)}

\* The working tree's bytes are stored "so an anchor to uncommitted content
\* survives that content being committed, amended, or discarded"
\* (anchor.rs:239-241): once they are committed as they were, the candidate
\* shows them.
CommittedContentIsFound ==
    Reported /\ target = content => Slice(target, candidate) = Slice(content, span)
=============================================================================

------------------------------- MODULE Spans -------------------------------
(***************************************************************************)
(* Spans of a text and the rules by which fuse_spans of the service        *)
(* resolves overlaps and merges neighbours.  start is the offset of the    *)
(* first character, counted from 0, and end the offset after the last one. *)
(***************************************************************************)
EXTENDS Integers, SequencesExt

CONSTANT Blank   \* the space character

\* text[start:end] of Python, which clips offsets beyond the end.
Slice(t, start, end) == SubSeq(t, start + 1, IF end < Len(t) THEN end ELSE Len(t))

Length(s) == s.end - s.start

\* Mutant: only contained spans are found to overlap.
OverlapsContained(s, o) == s.start <= o.start /\ o.end <= s.end

Overlaps(s, o) == s.start < o.end /\ o.start < s.end

SourcePriority(s) == IF s.source = "regex" THEN 1 ELSE 0

\* Mutant: the longer span wins, whichever detector it comes from.
ReplacesShorter(candidate, last) == Length(candidate) > Length(last)

\* The candidate replaces the span that was kept last.
Replaces(candidate, last) ==
  \/ SourcePriority(candidate) > SourcePriority(last)
  \/ /\ SourcePriority(candidate) = SourcePriority(last)
     /\ Length(candidate) > Length(last)

\* One iteration of _resolve_overlapping.
ResolveStep(kept, s) ==
  IF kept = <<>> \/ ~ Overlaps(Last(kept), s)
    THEN Append(kept, s)
    ELSE IF Replaces(s, Last(kept))
      THEN Append(Front(kept), s)
      ELSE kept

\* Adjacent spans of one type, with a gap of at most one character.
Mergeable(last, current) ==
  /\ last.type = current.type
  /\ current.start - last.end \in 0..1

\* The text of a merged span has a space where the gap was.
Merged(last, current) ==
  [start |-> last.start, end |-> current.end, type |-> last.type,
   text |-> last.text \o (IF current.start - last.end = 1 THEN <<Blank>> ELSE <<>>)
                      \o current.text,
   source |-> IF SourcePriority(last) >= SourcePriority(current)
                THEN last.source ELSE current.source]

\* One iteration of _merge_adjacent.
MergeStep(fused, s) ==
  IF fused # <<>> /\ Mergeable(Last(fused), s)
    THEN Append(Front(fused), Merged(Last(fused), s))
    ELSE Append(fused, s)

\* sorted(spans, key=(start, -length)), which is stable: s is inserted behind
\* the spans that do not follow it.
InsertStep(sorted, s) ==
  LET follows(o) == s.start < o.start \/ (s.start = o.start /\ Length(s) > Length(o))
  IN SelectSeq(sorted, LAMBDA o : ~ follows(o)) \o <<s>> \o SelectSeq(sorted, follows)

\* fuse_spans as a function of the list of all spans.
FuseSpans(spans) ==
  LET sorted == FoldLeft(InsertStep, <<>>, spans)
      resolved == FoldLeft(ResolveStep, <<>>, sorted)
  IN FoldLeft(MergeStep, <<>>, resolved)
=============================================================================

----------------------------- MODULE SpanFusion -----------------------------
(***************************************************************************)
(* From detected spans to a tokenized text and back.  The regex detector   *)
(* matches patterns on a normalised copy of the text, the NER model reports *)
(* spans of the text itself; fuse_spans sorts the spans, resolves the       *)
(* overlaps from left to right and merges neighbours of one type; it runs   *)
(* in the composite detector and once more in tokenize.  The spans that are *)
(* left are cut out of the text and replaced by tokens, which rehydrate     *)
(* replaces by the values that were stored for them.                        *)
(*                                                                         *)
(* What a pattern or the model finds is a free choice.  A token is          *)
(* identified with its value: naming is the subject of TokenNaming.         *)
(***************************************************************************)
EXTENDS Spans

CONSTANTS
  Texts,     \* the texts of the requests
  Width,     \* how many characters a character has after NFKC
  Type,      \* PII types
  Rank,      \* position of a type's pattern in _COMPILED_PATTERNS
  MaxSpans,  \* bound: spans detected in a text
  MaxLength, \* bound: the offsets of a span
  Detector   \* the detectors in use: "regex", "slm"

ASSUME WidthAssumption == Width \in [DOMAIN Width -> Nat] /\ Blank \in DOMAIN Width
ASSUME TextsAssumption == Texts \subseteq Seq(DOMAIN Width)
ASSUME RankAssumption == Rank \in [Type -> Nat]
ASSUME BoundAssumption == MaxSpans \in Nat /\ MaxLength \in Nat
ASSUME DetectorAssumption == Detector \subseteq {"regex", "slm"}

VARIABLES
  text,      \* the text of the running request
  pc,        \* "idle", "detect", "resolve", "merge", "replace", "replaced",
             \* "restore", "restored"
  pass,      \* 1: fusion in the composite detector, 2: in tokenize
  found,     \* history: the spans that were detected
  todo,      \* sorted spans, not yet resolved, then not yet replaced
  resolved,  \* _resolve_overlapping: the result so far, then what to merge
  fused,     \* _merge_adjacent: the result so far
  first,     \* history: the result of the first pass
  output     \* the text as a list: characters and masked values

vars == <<text, pc, pass, found, todo, resolved, fused, first, output>>

-----------------------------------------------------------------------------
\* sorted(..., key=(start, -length)) is stable and the spans of the regex
\* detector come first in the list.
SortedBefore(s, o) ==
  \/ s.start < o.start
  \/ s.start = o.start /\ Length(s) > Length(o)
  \/ /\ s.start = o.start
     /\ Length(s) = Length(o)
     /\ SourcePriority(s) >= SourcePriority(o)
     /\ s.source = "regex" /\ o.source = "regex" => Rank[s.type] <= Rank[o.type]

-----------------------------------------------------------------------------
\* Length of the text the patterns are matched on.  When folding changes
\* the length, the NFKC form is used, whatever its length.
NormalLength(t) == FoldLeft(LAMBDA n, c : n + Width[c], 0, t)

\* Where a detector can report spans.
Extent(source) == IF source = "regex" THEN NormalLength(text) ELSE Len(text)

\* The offsets index the text as it was sent.
SpanAt(start, end, type, source) ==
  [start |-> start, end |-> end, type |-> type, source |-> source,
   text |-> Slice(text, start, end)]

\* The characters the detector looked at: those of the text that the given
\* range of the normalised copy comes from.
Seen(s) ==
  IF s.source = "slm"
    THEN (s.start + 1)..s.end
    ELSE {i \in DOMAIN text :
            /\ NormalLength(SubSeq(text, 1, i - 1)) < s.end
            /\ NormalLength(SubSeq(text, 1, i)) > s.start}

-----------------------------------------------------------------------------
(***************************************************************************)
(* _replace_spans and _replace_tokens.                                     *)
(***************************************************************************)
Plain(t) == [i \in DOMAIN t |-> [masked |-> FALSE, text |-> <<t[i]>>]]

Token(s) == [masked |-> TRUE, text |-> s.text]

\* result[start:end] = list(token)
Splice(pieces, s) ==
  SubSeq(pieces, 1, IF s.start < Len(pieces) THEN s.start ELSE Len(pieces))
    \o <<Token(s)>>
    \o SubSeq(pieces, s.end + 1, Len(pieces))

\* The characters of a text whose tokens are all resolved.
Joined(pieces) == [i \in DOMAIN pieces |-> pieces[i].text[1]]

-----------------------------------------------------------------------------
Init ==
  /\ text = <<>> /\ pc = "idle" /\ pass = 1 /\ found = {}
  /\ todo = <<>> /\ resolved = <<>> /\ fused = <<>> /\ first = <<>>
  /\ output = <<>>

\* A tokenize request.
Start(t) ==
  /\ pc = "idle"
  /\ text' = t
  /\ pc' = "detect"
  /\ UNCHANGED <<pass, found, todo, resolved, fused, first, output>>

\* One more span of a detector.  The spans are listed as they will be sorted.
Detect(start, end, type, source) ==
  LET s == SpanAt(start, end, type, source) IN
  /\ pc = "detect"
  /\ start < end /\ end <= Extent(source)
  /\ Len(todo) < MaxSpans
  /\ todo # <<>> => SortedBefore(Last(todo), s)
  /\ todo' = Append(todo, s)
  /\ found' = found \cup {s}
  /\ UNCHANGED <<text, pc, pass, resolved, fused, first, output>>

\* CompositeDetectionAdapter.detect has both results and calls fuse_spans.
DetectDone ==
  /\ pc = "detect"
  /\ pc' = "resolve"
  /\ UNCHANGED <<text, pass, found, todo, resolved, fused, first, output>>

\* One iteration of _resolve_overlapping.
Resolve ==
  LET s == Head(todo) IN
  /\ pc = "resolve"
  /\ todo # <<>>
  /\ todo' = Tail(todo)
  /\ resolved' = ResolveStep(resolved, s)
  /\ UNCHANGED <<text, pc, pass, found, fused, first, output>>

ResolveDone ==
  /\ pc = "resolve"
  /\ todo = <<>>
  /\ pc' = "merge"
  /\ UNCHANGED <<text, pass, found, todo, resolved, fused, first, output>>

\* Mutant: a merged span is not merged again.
MergePairs ==
  LET s == Head(resolved) IN
  /\ pc = "merge"
  /\ resolved # <<>>
  /\ resolved' = Tail(resolved)
  /\ fused' =
       IF fused # <<>> /\ Mergeable(Last(fused), s) /\ Last(fused) \in found \cup ToSet(first)
         THEN Append(Front(fused), Merged(Last(fused), s))
         ELSE Append(fused, s)
  /\ UNCHANGED <<text, pc, pass, found, todo, first, output>>

\* One iteration of _merge_adjacent.
Merge ==
  LET s == Head(resolved) IN
  /\ pc = "merge"
  /\ resolved # <<>>
  /\ resolved' = Tail(resolved)
  /\ fused' = MergeStep(fused, s)
  /\ UNCHANGED <<text, pc, pass, found, todo, first, output>>

\* The composite detector returns; execute fuses its spans again.
FuseAgain ==
  /\ pc = "merge" /\ pass = 1
  /\ resolved = <<>>
  /\ pass' = 2
  /\ pc' = "resolve"
  /\ todo' = fused
  /\ first' = fused
  /\ fused' = <<>>
  /\ UNCHANGED <<text, found, resolved, output>>

\* execute: what was found is replaced, beginning with the text as a list.
Replace ==
  /\ pc = "merge" /\ pass = 2
  /\ resolved = <<>>
  /\ pc' = "replace"
  /\ todo' = fused
  /\ output' = Plain(text)
  /\ UNCHANGED <<text, pass, found, resolved, fused, first>>

\* Mutant: left to right, with the offsets of the original text.
ReplaceForward ==
  /\ pc = "replace" /\ todo # <<>>
  /\ todo' = Tail(todo)
  /\ output' = Splice(output, Head(todo))
  /\ UNCHANGED <<text, pc, pass, found, resolved, fused, first>>

\* One iteration of _replace_spans: right to left, so that the earlier
\* offsets stay valid.
ReplaceSpan ==
  /\ pc = "replace" /\ todo # <<>>
  /\ todo' = Front(todo)
  /\ output' = Splice(output, Last(todo))
  /\ UNCHANGED <<text, pc, pass, found, resolved, fused, first>>

\* The tokenized text is returned.
ReplaceDone ==
  /\ pc = "replace" /\ todo = <<>>
  /\ pc' = "replaced"
  /\ UNCHANGED <<text, pass, found, todo, resolved, fused, first, output>>

\* A rehydrate request with the tokenized text.
Rehydrate ==
  /\ pc = "replaced"
  /\ pc' = "restore"
  /\ UNCHANGED <<text, pass, found, todo, resolved, fused, first, output>>

\* One iteration of _replace_tokens, right to left as well.
RestoreToken ==
  /\ pc = "restore"
  /\ \E k \in DOMAIN output :
       /\ output[k].masked /\ \A i \in k + 1..Len(output) : ~ output[i].masked
       /\ output' = SubSeq(output, 1, k - 1) \o Plain(output[k].text)
                      \o SubSeq(output, k + 1, Len(output))
  /\ UNCHANGED <<text, pc, pass, found, todo, resolved, fused, first>>

RestoreDone ==
  /\ pc = "restore" /\ \A k \in DOMAIN output : ~ output[k].masked
  /\ pc' = "restored"
  /\ UNCHANGED <<text, pass, found, todo, resolved, fused, first, output>>

\* The next request.
Return ==
  /\ pc \in {"replaced", "restored"}
  /\ text' = <<>> /\ pc' = "idle" /\ pass' = 1 /\ found' = {}
  /\ todo' = <<>> /\ resolved' = <<>> /\ fused' = <<>> /\ first' = <<>>
  /\ output' = <<>>

Next ==
  \/ \E t \in Texts : Start(t)
  \/ \E source \in Detector, type \in Type, start, end \in 0..MaxLength :
       Detect(start, end, type, source)
  \/ DetectDone
  \/ Resolve
  \/ ResolveDone
  \/ Merge
  \/ FuseAgain
  \/ Replace
  \/ ReplaceSpan
  \/ ReplaceDone
  \/ Rehydrate
  \/ RestoreToken
  \/ RestoreDone
  \/ Return

Spec == Init /\ [][Next]_vars

-----------------------------------------------------------------------------
(***************************************************************************)
(* Properties.                                                             *)
(***************************************************************************)
Span == {s \in [start : Nat, end : Nat, type : Type, source : {"regex", "slm"},
                text : Seq(DOMAIN Width)] : s.start < s.end}

Piece == [masked : BOOLEAN, text : Seq(DOMAIN Width)]

\* Types of the variables; every span is a non-empty range.
TypeOK ==
  /\ text \in Seq(DOMAIN Width)
  /\ pc \in {"idle", "detect", "resolve", "merge", "replace", "replaced", "restore",
              "restored"}
  /\ pass \in 1..2
  /\ found \subseteq Span
  /\ todo \in Seq(Span) /\ resolved \in Seq(Span)
  /\ fused \in Seq(Span) /\ first \in Seq(Span)

\* The spans of a sequence are in order and do not overlap.
InOrder(spans) == \A i \in 1..Len(spans) - 1 : spans[i].end <= spans[i + 1].start

\* "Output is sorted by start position and guaranteed non-overlapping"
\* (span_fusion.py): the spans kept and the spans merged are so at every
\* moment of both passes; replacing from the right relies on it.
Disjoint == InOrder(resolved) /\ InOrder(fused)

\* Why Disjoint holds: the spans to resolve are sorted and none starts
\* before the span that was kept last; the spans to merge are behind those
\* merged already.
FusionInv ==
  /\ TypeOK
  /\ Disjoint
  /\ pc \in {"idle", "detect"} => resolved = <<>>
  /\ pc \in {"idle", "detect", "resolve"} => fused = <<>>
  /\ pc \in {"idle", "merge"} => todo = <<>>
  /\ \A i \in 1..Len(todo) - 1 : todo[i].start <= todo[i + 1].start
  /\ todo # <<>> /\ resolved # <<>> =>
       resolved[Len(resolved)].start <= todo[1].start
  /\ fused # <<>> /\ resolved # <<>> =>
       fused[Len(fused)].end <= resolved[1].start

\* A second fusion changes nothing, so that it does not matter that the
\* composite detector and execute both call fuse_spans.
FusionIdempotent == pc = "replaced" => fused = first

\* The characters that are replaced in the output.
Hidden == UNION {(fused[i].start + 1)..fused[i].end : i \in DOMAIN fused}

\* Rules 1 and 2 of span_fusion.py: o may displace s.
Beats(o, s) ==
  /\ Overlaps(s, o)
  /\ \/ SourcePriority(o) > SourcePriority(s)
     \/ /\ SourcePriority(o) = SourcePriority(s)
        /\ \/ Length(o) > Length(s)
           \/ Length(o) = Length(s) /\ o.start <= s.start

Unbeaten == {s \in found : \A o \in found \ {s} : ~ Beats(o, s)}

\* A detected span that no overlapping span can beat is hidden completely,
\* whatever else was detected around it: a regex match is never given up
\* for a span of the model (rules 1 and 2 of span_fusion.py).
UnbeatenHidden ==
  pc = "replaced" => \A s \in Unbeaten : (s.start + 1)..s.end \subseteq Hidden

Covered(s, spans) == \E x \in ToSet(spans) : x.start <= s.start /\ s.end <= x.end

Apart(spans) == \A i \in 1..Len(spans) - 1 : ~ Mergeable(spans[i], spans[i + 1])

\* Why both hold: the first pass keeps what nothing beats and leaves no
\* neighbours to merge, and the second one hands on what it gets.
KeptInv ==
  /\ pc \in {"idle", "detect"} => pass = 1
  /\ pc \in {"replace", "replaced", "restore", "restored"} => pass = 2
  /\ pc = "idle" => found = {}
  /\ pc = "detect" => ToSet(todo) = found
  /\ pass = 1 /\ pc = "resolve" =>
       /\ ToSet(todo) \cup ToSet(resolved) \subseteq found
       /\ Unbeaten \subseteq ToSet(todo) \cup ToSet(resolved)
  /\ pass = 1 /\ pc = "merge" =>
       /\ \A s \in Unbeaten : Covered(s, resolved) \/ Covered(s, fused)
       /\ Apart(fused)
  /\ pass = 2 =>
       /\ \A s \in Unbeaten : Covered(s, first)
       /\ InOrder(first) /\ Apart(first)
       /\ pc = "resolve" => resolved \o todo = first
       /\ pc = "merge" => fused \o resolved = first
       /\ pc \notin {"resolve", "merge"} => fused = first

\* The offsets of all spans are in the text.  (Those of matches on a normalised
\* copy that is longer may not be: then a space of a merged span comes back
\* behind the end.)
OffsetsInside == \A s \in found : s.end <= Len(text)

\* A character between two spans that were merged.
InGap(i) == \E f \in ToSet(fused) : f.start + 1 < i /\ i < f.end

\* Rehydrating a tokenized text gives it back, except that a single character
\* between two merged spans comes back as a space.
RestoredUpToGaps ==
  pc = "restored" /\ OffsetsInside =>
    LET back == Joined(output) IN
    /\ Len(back) = Len(text)
    /\ \A i \in DOMAIN text : back[i] = text[i] \/ (back[i] = Blank /\ InGap(i))

\* Why: the text of a span is that of its range, up to blanks inside it ...
Faithful(s) ==
  /\ s.end <= Len(text) /\ Len(s.text) = Length(s)
  /\ \A j \in 1..Length(s) :
       \/ s.text[j] = text[s.start + j]
       \/ s.text[j] = Blank /\ 1 < j /\ j < Length(s)

\* ... and so the pieces lie behind one another in the text, at[i] characters
\* before the i-th; pieces that are no tokens are characters.
LiesAt(p, from, to) ==
  /\ to = from + Len(p.text)
  /\ \A j \in 1..Len(p.text) :
       p.text[j] = text[from + j] \/ (p.text[j] = Blank /\ InGap(from + j))

Layout(pieces, at) ==
  /\ at[1] = 0 /\ at[Len(pieces) + 1] = Len(text)
  /\ \A i \in 1..Len(pieces) : LiesAt(pieces[i], at[i], at[i + 1])
  /\ \A i, j \in 1..Len(pieces) + 1 :
       i <= j /\ (\A k \in i..j - 1 : ~ pieces[k].masked) => at[j] - at[i] = j - i

\* Up to the end of the span that is next, nothing is replaced yet.
Ahead ==
  todo # <<>> =>
    LET end == todo[Len(todo)].end
    IN end <= Len(output) /\ \A i \in 1..end : ~ output[i].masked

RestoreInv ==
  /\ output \in Seq(Piece)
  /\ OffsetsInside =>
       /\ \A s \in found \cup ToSet(todo) \cup ToSet(resolved) \cup ToSet(fused) : Faithful(s)
       /\ pc \in {"replace", "replaced", "restore", "restored"} =>
            \E at \in [1..Len(output) + 1 -> 0..Len(text)] : Layout(output, at)
       /\ pc = "replace" =>
            /\ Ahead /\ Len(todo) <= Len(fused)
            /\ \A i \in 1..Len(todo) : todo[i] = fused[i]
       /\ pc = "restored" => \A k \in DOMAIN output : ~ output[k].masked

\* What the service is for: "Tokenized text in -> original text out"
\* (docs/legal/DPIA.md), when no token has expired.
RoundTrip == pc = "restored" => Joined(output) = text

\* "The winning span is kept; the losing span is dropped entirely."
\* (_resolve_overlapping): a span is missing from the result only where a
\* span of the result overlaps it.
WinnerIsKept ==
  pc = "replaced" =>
    \A s \in found : (s.start + 1)..s.end \cap Hidden # {}

\* "The returned spans contain character offsets into the ORIGINAL
\* (unmasked) text" (RegexDetectionAdapter.detect): the range of a span is
\* the range of the characters the pattern matched.
OffsetsIntoOriginal ==
  \A s \in found : (s.start + 1)..s.end = Seen(s)

\* "more specific patterns (CF, IBAN) are listed first so that overlap
\* resolution in span_fusion prefers them over weaker patterns"
\* (_compile_patterns): a match is kept when all it overlaps are matches
\* of patterns further down the list.
SpecificPreferred ==
  pc = "replaced" =>
    \A s \in found :
      /\ s.source = "regex"
      /\ \A o \in found \ {s} :
           Overlaps(s, o) => o.source = "regex" /\ Rank[o.type] > Rank[s.type]
      => \E i \in DOMAIN fused :
           /\ fused[i].type = s.type
           /\ fused[i].start <= s.start
           /\ s.end <= fused[i].end

=============================================================================

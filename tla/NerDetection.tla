---------------------------- MODULE NerDetection ----------------------------
(***************************************************************************)
(* From labelled tokens to the spans that are hidden: the NER detector of  *)
(* the service (windows over long texts, reconstruction, trimming, fusion  *)
(* with the regex spans) and the stand-alone engine of inference/ and      *)
(* server.py, which does the same with other rules.                        *)
(*                                                                         *)
(* A text is a sequence of characters, a token a range of characters with  *)
(* the number of its word (see Annotation!Tokens), a label the one with    *)
(* the highest logit.                                                      *)
(***************************************************************************)
EXTENDS Annotation

CONSTANTS
  WindowSize,     \* tokens of a window: 512 less the two special tokens
  WindowOverlap,  \* the stride of the tokenizer: 128 tokens
  Letters, Quotes, Apostrophes, Leading, Trailing, OpenParen, CloseParen,
  FullStop, PossessiveS, Comma,   \* characters and sets of characters
  Abbreviations,  \* texts whose full stop is theirs
  AddressType     \* "ind"

ASSUME WindowAssumption ==
  /\ WindowSize \in Nat /\ WindowOverlap \in Nat
  /\ WindowOverlap < WindowSize

At(text, i) == text[i + 1]

\* text[i - 1] in " \n\t", or the beginning of the text.
AfterBlank(text, i) == i = 0 \/ At(text, i - 1) = Blank

-----------------------------------------------------------------------------
(***************************************************************************)
(* Windows and reconstruction.                                             *)
(***************************************************************************)
\* Mutant: windows that share no tokens.
WindowsApart(n) ==
  [k \in 1..(IF n <= WindowSize THEN 1 ELSE 1 + ((n - 1) \div WindowSize)) |->
     [from |-> (k - 1) * WindowSize + 1,
      to |-> Min({k * WindowSize, n})]]

\* The windows the tokenizer cuts n tokens into: consecutive ones share
\* WindowOverlap tokens, and the first that reaches the end is the last.
Windows(n) ==
  LET step == WindowSize - WindowOverlap
      count == IF n <= WindowSize THEN 1
               ELSE 1 + ((n - WindowSize + step - 1) \div step)
  IN [k \in 1..count |-> [from |-> (k - 1) * step + 1,
                          to |-> Min({(k - 1) * step + WindowSize, n})]]

\* Whether text[start:end].strip() is not empty.
Uncovered(text, start, end) == \E i \in start..(end - 1) : At(text, i) # Blank

\* Mutant: the apostrophe of a word delimits too.
DelimitsAlways(text, token) ==
  token.end = token.start + 1 /\ At(text, token.start) \in Quotes \cup Apostrophes

\* A quotation mark that is a token of its own delimits entities, unless it
\* is the apostrophe of a word.
Delimits(text, token) ==
  LET inside == /\ token.start > 0 /\ token.end < Len(text)
                /\ At(text, token.start - 1) \in Letters
                /\ At(text, token.end) \in Letters
  IN /\ token.end = token.start + 1
     /\ At(text, token.start) \in Quotes \cup Apostrophes
     /\ ~ (At(text, token.start) \in Apostrophes /\ inside)

NewDecoding == [done |-> <<>>, cur |-> NoEntity, word |-> 0]

\* The label of the first token of a word.  An I label that continues nothing
\* begins an entity.
ReadLabel(scan, label, token) ==
  IF label.bio = "O" THEN Closed(scan)
  ELSE IF label.bio = "I" /\ scan.cur # NoEntity /\ scan.cur.type = label.type
    THEN [scan EXCEPT !.cur.end = token.end]
  ELSE [Closed(scan) EXCEPT
          !.cur = [start |-> token.start, end |-> token.end, type |-> label.type]]

\* Mutant: every token of a word is read by its own label.
DecodeEachToken(scan, text, label, token, quotes) == ReadLabel(scan, label, token)

\* One iteration of _reconstruct_spans; only the service's delimits at quotes.
DecodeToken(scan, text, label, token, quotes) ==
  IF quotes /\ Delimits(text, token) THEN [Closed(scan) EXCEPT !.word = 0]
  ELSE IF token.word = scan.word THEN
    IF scan.cur = NoEntity THEN scan ELSE [scan EXCEPT !.cur.end = token.end]
  ELSE [ReadLabel(scan, label, token) EXCEPT !.word = token.word]

\* The entities of the tokens of one window.
ReconstructSpans(text, tokens, labels, window, quotes) ==
  LET step(scan, i) == DecodeToken(scan, text, labels[i], tokens[i], quotes)
  IN Closed(FoldLeft(step, NewDecoding,
                     [k \in 1..(window.to - window.from + 1) |-> window.from + k - 1])).done

-----------------------------------------------------------------------------
(***************************************************************************)
(* Trimming.                                                               *)
(***************************************************************************)
OpensOutside(text, i) == At(text, i) \in Quotes \cup {OpenParen} /\ AfterBlank(text, i)

\* The two loops of the service, one after the other.
TrimStart(text, start, end) ==
  LET i == Min({j \in start..end : j = end \/ At(text, j) \notin Leading})
  IN IF i < end /\ OpensOutside(text, i) THEN i + 1 ELSE i

\* The one loop of the stand-alone engine.
TrimStartOnce(text, start, end) ==
  Min({j \in start..end :
         j = end \/ ~ (At(text, j) \in Leading \/ OpensOutside(text, j))})

AbbreviationAtEnd(text, start, end) ==
  \E i \in start..(end - 1) :
    /\ i = start \/ At(text, i - 1) = Blank
    /\ Slice(text, i, end) \in Abbreviations

\* The trailing loop, which both have.
TrimEnd(text, start, end) ==
  LET letter(i) == i >= start /\ At(text, i) \in Letters
      possessive(i) == /\ i - start >= 3 /\ At(text, i - 1) = PossessiveS
                       /\ At(text, i - 2) \in Apostrophes /\ letter(i - 3)
      removed(i) ==   \* how many characters the iteration takes off
        LET ch == At(text, i - 1)
        IN CASE ch \in Trailing -> 1
             [] ch = FullStop -> IF AbbreviationAtEnd(text, start, i) THEN 0 ELSE 1
             [] ch = CloseParen ->
                  IF \E j \in start..(i - 2) : At(text, j) = OpenParen THEN 0 ELSE 1
             [] possessive(i) -> 2
             [] ch \in Apostrophes -> IF letter(i - 2) THEN 0 ELSE 1
             [] ch \in Quotes -> 1
             [] OTHER -> 0
      trim[i \in start..end] ==
        IF i = start \/ removed(i) = 0 THEN i ELSE trim[i - removed(i)]
  IN trim[end]

\* _trim_spans; once is the stand-alone engine's variant.
TrimSpans(text, entities, once) ==
  LET trimmed(e) ==
        LET start == IF once THEN TrimStartOnce(text, e.start, e.end)
                             ELSE TrimStart(text, e.start, e.end)
        IN [start |-> start, end |-> TrimEnd(text, start, e.end), type |-> e.type]
      kept(e) == e.start < e.end
  IN SelectSeq([i \in DOMAIN entities |-> trimmed(entities[i])], kept)

-----------------------------------------------------------------------------
(***************************************************************************)
(* The service: NerDetectionAdapter and CompositeDetector.                 *)
(***************************************************************************)
\* The input check of one window; covered is covered_end.
WindowFails(text, tokens, window, covered) ==
  \/ window.to < window.from
  \/ Uncovered(text, covered, tokens[window.from].start)

CoveredEnd(tokens, window, covered) == Max({covered, tokens[window.to].end})

AsSpans(text, entities, source) ==
  [i \in DOMAIN entities |->
     [start |-> entities[i].start, end |-> entities[i].end, type |-> entities[i].type,
      text |-> Slice(text, entities[i].start, entities[i].end), source |-> source]]

\* CompositeDetector.detect.
Detected(text, regexSpans, raw) ==
  FuseSpans(regexSpans \o AsSpans(text, TrimSpans(text, raw, FALSE), "slm"))

-----------------------------------------------------------------------------
(***************************************************************************)
(* The stand-alone engine: one window, the rest of the text is cut off.    *)
(***************************************************************************)
\* _should_merge: one space, and in addresses also a comma.
ShouldMerge(text, last, current) ==
  LET gap == Slice(text, last.end, current.start)
  IN IF last.type = AddressType
       THEN Len(gap) \in 1..2 /\ \A i \in DOMAIN gap : gap[i] \in {Blank, Comma}
       ELSE gap = <<Blank>>

\* fuse_spans of inference/.
FuseStandalone(text, entities) ==
  LET step(merged, e) ==
        IF merged # <<>> /\ Last(merged).type = e.type /\ ShouldMerge(text, Last(merged), e)
          THEN Append(Front(merged), [Last(merged) EXCEPT !.end = e.end])
          ELSE Append(merged, e)
  IN FoldLeft(step, <<>>, TrimSpans(text, entities, TRUE))

\* predict: the tokens beyond WindowSize are dropped.
PredictStandalone(text, tokens, labels) ==
  FuseStandalone(text, ReconstructSpans(text, tokens, labels,
                         [from |-> 1, to |-> Min({WindowSize, Len(tokens)})], FALSE))

\* _merge_regex_ner of server.py: an entity half of which the regex covers is
\* dropped; the others are added, in order of their start.
MergeRegexNer(regexSpans, entities) ==
  LET covered(e) == {c \in e.start..(e.end - 1) :
                       \E i \in DOMAIN regexSpans :
                         regexSpans[i].start <= c /\ c < regexSpans[i].end}
      kept == SelectSeq(entities, LAMBDA e : 2 * Cardinality(covered(e)) < Length(e))
  IN FoldLeft(LAMBDA sorted, e :
                LET follows(o) == e.start < o.start
                IN SelectSeq(sorted, LAMBDA o : ~ follows(o)) \o <<e>> \o SelectSeq(sorted, follows),
              <<>>, regexSpans \o kept)
=============================================================================

------------------------------ MODULE NerChain ------------------------------
(***************************************************************************)
(* One row of a dataset on its way through the programs that agree on BIO  *)
(* labels: convert.py, validate_spans.py and bio_converter.py make the     *)
(* labels the model learns; the service and the stand-alone engine read    *)
(* labels back; metrics.py scores what they found.                         *)
(*                                                                         *)
(* The model is external: it predicts the label it was taught, or gets one *)
(* word wrong; of tokens without a label (-100) it predicts anything.      *)
(***************************************************************************)
EXTENDS NerDetection, Evaluation, Generators

CONSTANTS
  Rows,          \* the rows of the sources
  ServiceTypes,  \* PS_TYPES
  Labels,        \* the labels of the model
  StrayLabels,   \* what it predicts for tokens it was not taught
  RegexType      \* the type of what the regex detectors find

\* A token is a range of characters and the number of its word.
TokenRange == [start : Nat, end : Nat, word : Nat]

\* What a tokenizer reports of a text of n characters: ranges of characters,
\* in the order of the text.
TokenizerReport(tokenized, n) ==
  /\ tokenized \in Seq(TokenRange) /\ n \in Nat
  /\ \A i \in DOMAIN tokenized :
       tokenized[i].start < tokenized[i].end /\ tokenized[i].end <= n
  /\ \A i, j \in DOMAIN tokenized :
       i <= j => /\ tokenized[i].start <= tokenized[j].start
                 /\ tokenized[i].end <= tokenized[j].end

\* The tokenizer is external.
ASSUME RowsAssumption ==
  \A r \in Rows : TokenizerReport(Tokens(r.words), Len(Joined(r.words)))

VARIABLES
  pc,        \* the next step
  row,       \* the row, until it is validated
  words,     \* its text, in words and pieces
  text,      \* and in characters
  tokens,    \* the tokens of the text
  entities,  \* the gold entities
  labels,    \* the predicted label of each token
  right,     \* no word was predicted wrong
  window,    \* the window the service reads next
  covered,   \* covered_end
  raw,       \* the entities of the windows read so far
  spans,     \* what the service hides
  baseline,  \* the stand-alone engine without fusion
  alone,     \* and with it
  served,    \* server.py: alone and the regex entities
  report     \* the evaluation of baseline and alone

vars == <<pc, row, words, text, tokens, entities, labels, right, window, covered, raw, spans,
          baseline, alone, served, report>>

Forgotten == [layout |-> "forgotten"]

\* What the regex detectors find: words of their own.
RegexSpans ==
  LET found == SelectSeq([i \in DOMAIN words |-> i], LAMBDA i : Word(words[i]) \in RegexLike)
  IN [k \in DOMAIN found |->
        [start |-> WordStart(words, found[k]), end |-> WordEnd(words, found[k]),
         type |-> RegexType, text |-> Word(words[found[k]]), source |-> "regex"]]

Init ==
  /\ row \in Rows
  /\ pc = "convert" /\ words = row.words /\ text = Joined(words)
  /\ tokens = Tokens(words) /\ entities = <<>> /\ labels = <<>> /\ right = TRUE
  /\ window = 1 /\ covered = 0 /\ raw = <<>> /\ spans = <<>>
  /\ baseline = <<>> /\ alone = <<>> /\ served = <<>> /\ report = <<>>

\* The converters keep only rows with an entity; the generators' examples may
\* have none.
Convert ==
  /\ pc = "convert"
  /\ entities' = Converted(row)
  /\ pc' = IF entities' = <<>> /\ row.layout # "generated" THEN "dropped" ELSE "validate"
  /\ UNCHANGED <<row, words, text, tokens, labels, right, window, covered, raw, spans, baseline, alone,
                 served, report>>

\* An example with a defect is rejected; of the others only text and entities
\* are written.
Validate ==
  /\ pc = "validate"
  /\ IF ValidateExample(text, entities, ServiceTypes).verdict = "none"
       THEN pc' = "predict" /\ row' = Forgotten
       ELSE pc' = "rejected" /\ UNCHANGED row
  /\ UNCHANGED <<words, text, tokens, entities, labels, right, window, covered, raw, spans, baseline, alone,
                 served, report>>

\* External: the model.
Predict ==
  /\ pc = "predict"
  /\ LET taught == ConvertExample(tokens, entities)
         ignored == {i \in DOMAIN tokens : taught[i] = Ignored}
         predicted(stray) == [i \in DOMAIN tokens |-> IF i \in ignored THEN stray[i] ELSE taught[i]]
     IN \/ /\ right' = TRUE
           /\ \E stray \in [ignored -> StrayLabels] : labels' = predicted(stray)
        \/ /\ right' = FALSE
           /\ \E i \in DOMAIN tokens \ ignored : \E l \in Labels \ {taught[i]} :
                labels' = [predicted([j \in ignored |-> Outside]) EXCEPT ![i] = l]
  /\ pc' = "window"
  /\ UNCHANGED <<row, words, text, tokens, entities, window, covered, raw, spans, baseline, alone, served,
                 report>>

\* One iteration of detect.
ReadWindow ==
  /\ pc = "window" /\ window <= Len(Windows(Len(tokens)))
  /\ LET w == Windows(Len(tokens))[window]
     IN IF WindowFails(text, tokens, w, covered)
          THEN pc' = "failed" /\ UNCHANGED <<window, covered, raw>>
          ELSE /\ raw' = raw \o ReconstructSpans(text, tokens, labels, w, TRUE)
               /\ covered' = CoveredEnd(tokens, w, covered)
               /\ window' = window + 1
               /\ UNCHANGED pc
  /\ UNCHANGED <<row, words, text, tokens, entities, labels, right, spans, baseline, alone, served, report>>

\* The end of detect, and the fusion with the regex spans.
Detect ==
  /\ pc = "window" /\ window > Len(Windows(Len(tokens)))
  /\ IF Uncovered(text, covered, Len(text))
       THEN pc' = "failed" /\ UNCHANGED spans
       ELSE pc' = "standalone" /\ spans' = Detected(text, RegexSpans, raw)
  /\ UNCHANGED <<row, words, text, tokens, entities, labels, right, window, covered, raw, baseline, alone,
                 served, report>>

\* The configurations of benchmark_fusion.py and the answer of server.py.
Standalone ==
  /\ pc = "standalone"
  /\ baseline' = ReconstructSpans(text, tokens, labels,
                                  [from |-> 1, to |-> Min({WindowSize, Len(tokens)})], FALSE)
  /\ alone' = PredictStandalone(text, tokens, labels)
  /\ served' = MergeRegexNer(RegexSpans, AsSpans(text, alone', "ner"))
  /\ pc' = "evaluate"
  /\ UNCHANGED <<row, words, text, tokens, entities, labels, right, window, covered, raw, spans, report>>

Evaluate ==
  /\ pc = "evaluate"
  /\ LET score(prediction) ==
           EvaluateStep(NewReport, prediction, entities, IsHardNegative("", entities))
     IN report' = [baseline |-> score(baseline), alone |-> score(alone)]
  /\ pc' = "done"
  /\ UNCHANGED <<row, words, text, tokens, entities, labels, right, window, covered, raw, spans, baseline,
                 alone, served>>

Next == Convert \/ Validate \/ Predict \/ ReadWindow \/ Detect \/ Standalone \/ Evaluate

Spec == Init /\ [][Next]_vars
-----------------------------------------------------------------------------
LettersOf(found, type) ==
  {c \in 0..(Len(text) - 1) :
     /\ At(text, c) \in Letters
     /\ \E i \in DOMAIN found : found[i].start <= c /\ c < found[i].end
                                /\ type \in {found[i].type, Unmapped}}

\* A character that has to be looked at.
Visible(c) == At(text, c) # Blank

\* Window k of the service reaches over a character.
Reaches(k, c) ==
  LET w == Windows(Len(tokens))[k]
  IN tokens[w.from].start <= c /\ c < tokens[w.to].end

\* detect returns spans only when its windows reach over every visible
\* character: none lies before, between or behind them.  (One that the
\* tokenizer skips inside a window is not noticed.)  (ner_detection.py 71-128.)
InputCovered ==
  pc \in {"standalone", "evaluate", "done"} =>
    \A c \in 0..(Len(text) - 1) :
      Visible(c) => \E k \in DOMAIN Windows(Len(tokens)) : Reaches(k, c)

\* It fails only when a visible character is in no token, wherever the windows
\* are cut.  (ner_detection.py 71-128.)
FailsOnlyUncovered ==
  pc = "failed" =>
    \/ tokens = <<>>
    \/ \E c \in 0..(Len(text) - 1) :
         Visible(c) /\ \A t \in DOMAIN tokens : ~ (tokens[t].start <= c /\ c < tokens[t].end)

\* Why: the windows read so far reach over what is covered.
CoveredInv ==
  /\ TokenizerReport(tokens, Len(text))
  /\ pc \in {"convert", "validate", "predict"} => window = 1 /\ covered = 0
  /\ window \in 1..(Len(Windows(Len(tokens))) + 1) /\ covered \in Nat
  /\ \A c \in 0..(Len(text) - 1) :
       Visible(c) /\ c < covered => \E k \in 1..(window - 1) : Reaches(k, c)
  /\ \A k \in 1..(window - 1) :
       LET w == Windows(Len(tokens))[k]
       IN w.from <= w.to /\ tokens[w.to].end <= covered
  /\ InputCovered
  /\ FailsOnlyUncovered

\* No word that the detectors treat in a way of their own.
NoQuotes == \A i \in 0..(Len(text) - 1) :
  /\ At(text, i) \notin Quotes
  /\ At(text, i) \in Apostrophes =>
       /\ i > 0 /\ i < Len(text) - 1
       /\ At(text, i - 1) \in Letters /\ At(text, i + 1) \in Letters

OneWindow == Len(tokens) <= WindowSize

\* Every entity begins with a word of which the tokenizer keeps the start.
AtWords == \A i \in DOMAIN entities :
  /\ \E t \in DOMAIN tokens : tokens[t].start = entities[i].start
  /\ \E w \in DOMAIN words : WordStart(words, w) = entities[i].start

\* The words of tag runs of a row: <<first, last, type>>.
Runs ==
  LET tag(i) == row.tags[i]
      joins(i) == tag(i).bio = "I" /\ (tag(i).type = tag(i - 1).type \/ row.layout = "humadex")
  IN {r \in (DOMAIN row.words) \X (DOMAIN row.words) :
        /\ tag(r[1]).bio = "B" /\ r[1] <= r[2]
        /\ \A i \in (r[1] + 1)..r[2] : joins(i)
        /\ r[2] < Len(row.words) => ~ joins(r[2] + 1)}

\* The entities of a converted row are the runs of its tags whose type the
\* service has: the text before the entity is the words before the run, and
\* its own text the words of the run.  A row that lists values without
\* offsets is the exception where a value also occurs earlier.
\* (convert.py 91-183, 301-448, 570-702.)
RowsConvertExactly ==
  pc \in {"validate", "dropped"} /\ row.layout # "generated" =>
    LET before(r) == Joined(SubSeq(words, 1, r[1] - 1)) \o (IF r[1] = 1 THEN <<>> ELSE <<Blank>>)
        value(r) == Joined(SubSeq(words, r[1], r[2]))
        expected == {r \in Runs : /\ TypeMap[row.tags[r[1]].type] # Unmapped
                                  /\ value(r) \notin RegexLike}
        is(e, r) == /\ e.text = value(r) /\ e.type = TypeMap[row.tags[r[1]].type]
                    /\ \/ Slice(text, 0, e.start) = before(r)
                       \/ row.layout = "values" /\ e.start < Len(before(r))
    IN /\ Len(entities) = Cardinality(expected)
       /\ \A r \in expected : \E i \in DOMAIN entities : is(entities[i], r)

\* The two validators agree: an example that validate_spans.py accepts has no
\* defect for validate.py, and one it rejects has, unless its entities are
\* only out of order.  (validate_spans.py 37-125, validate.py 52-222.)
ValidatorsAgree ==
  LET defects == ValidateFile(text, entities, ServiceTypes)
      shared == \E c \in 0..(Len(text) - 1) :
                  Cardinality({i \in DOMAIN entities :
                                 entities[i].start <= c /\ c < entities[i].end}) > 1
  IN /\ pc = "predict" => defects = {}
     /\ pc = "rejected" => (defects # {} <=> shared)

\* Only such a row is rejected.  The labels of an example break the rule that
\* validate.py states for the datasets, that no token continues an entity
\* that has not begun, exactly where an entity begins inside a word and goes
\* on in the next: the token that begins it is not the first one of its word
\* and gets no label.  (validate_spans.py 37-125, validate.py 391-398,
\* bio_converter.py 89-108.)
ConvertedValid ==
  LET taught(e) == {t \in DOMAIN tokens :
                      /\ tokens[t].start < e.end /\ e.start < tokens[t].end
                      /\ t = 1 \/ tokens[t].word # tokens[t - 1].word}
      beheaded(e) == taught(e) # {} /\ \A t \in taught(e) : tokens[t].start > e.start
  IN /\ pc = "rejected" => row.layout = "values"
     /\ pc = "predict" =>
          (BioConsistent(ConvertExample(tokens, entities))
             <=> \A i \in DOMAIN entities : ~ beheaded(entities[i]))

\* A model that makes no mistake scores full marks, whatever it predicts for
\* the tokens it was not taught: the engine reads the taught labels back to
\* the gold entities.  With fusion this needs gold entities that are not
\* trimmed and not merged: none ends in punctuation, and no two of one type
\* are one space apart.  (bio_converter.py 28-116, inference.py 172-260,
\* metrics.py 161-175, 296-431.)
PerfectScore ==
  pc = "done" /\ right /\ OneWindow /\ AtWords =>
    LET full(r) == r.exact = [tp |-> Len(entities), fp |-> 0, fn |-> 0]
        clean(e) == At(text, e.start) \in Letters /\ At(text, e.end - 1) \in Letters
    IN /\ full(report.baseline)
       /\ (/\ \A i \in DOMAIN entities : clean(entities[i])
           /\ \A i \in 1..(Len(entities) - 1) :
                entities[i].type = entities[i + 1].type =>
                  entities[i + 1].start > entities[i].end + 2)
          => /\ full(report.alone)
             /\ Verdict(entities, baseline, alone) = "NEUTRAL"

\* The service hides, under its type, every letter of an entity that the
\* model recognises and that fits the overlap of the windows with one token
\* to spare, wherever the windows are cut and whatever the model predicts for
\* other tokens.  (ner_detection.py 71-128, 130-195, 197-246.)
ShortEntitiesHidden ==
  pc = "standalone" /\ right /\ NoQuotes /\ AtWords =>
    \A i \in DOMAIN entities :
      LET e == entities[i]
          toks == {t \in DOMAIN tokens : tokens[t].start < e.end /\ e.start < tokens[t].end}
      IN (/\ Cardinality(toks) <= WindowOverlap + 1
          /\ \A r \in DOMAIN RegexSpans : ~ Overlaps(e, RegexSpans[r])) =>
         \A c \in e.start..(e.end - 1) :
           At(text, c) \in Letters => c \in LettersOf(spans, e.type)

\* On a text of one window without quotation marks, what one engine finds the
\* others hide too: the service every letter the stand-alone engine finds
\* outside the reach of the regex detectors, and server.py every letter the
\* service hides.  (ner_detection.py 130-246, span_fusion.py, server.py
\* 64-77.)
EnginesAgree ==
  pc = "done" /\ OneWindow /\ NoQuotes =>
    /\ RegexSpans = <<>> => LettersOf(alone, Unmapped) \subseteq LettersOf(spans, Unmapped)
    /\ LettersOf(spans, Unmapped) \subseteq LettersOf(served, Unmapped)

\* The counts of a report fit together: true and false matches are all
\* entities, a match by position is also one by overlap, the types add up to
\* the whole, and the confusion matrix has each gold entity and each
\* prediction once.  (metrics.py 140-289, 296-431.)
ScoresAddUp ==
  pc = "done" =>
    \A config \in DOMAIN report :
      LET r == report[config]
          sum(part) == FoldFunction(LAMBDA c, n : n + c[part], 0, r.perType)
          places == DOMAIN r.confusion
          without(side, mark) == Cardinality({i \in places : r.confusion[i][side] # mark})
      IN /\ r.exact.tp <= r.partial.tp
         /\ r.partial.tp + r.partial.fp = r.predictions
         /\ ComputeF1(r.partial).support = r.gold
         /\ ComputeF1(r.exact).support = r.gold
         /\ sum("tp") = r.exact.tp
         /\ sum("fp") = r.exact.fp
         /\ without(1, "SPURIOUS") = r.gold
         /\ without(2, "MISS") = r.predictions
         /\ r.partial.tp <= Cardinality({i \in places : r.confusion[i][1] = r.confusion[i][2]})
=============================================================================

----------------------------- MODULE Annotation -----------------------------
(***************************************************************************)
(* From the rows of the public datasets to the labels the model learns.    *)
(* convert.py rebuilds the text of a row and the character spans of its    *)
(* entities, in one way for each layout of the sources; validate_spans.py  *)
(* rejects examples with bad spans; bio_converter.py labels the tokens.    *)
(*                                                                         *)
(* A row is a sequence of words, each cut into the pieces the model's      *)
(* tokenizer makes of it, with a BIO tag for each word.                    *)
(***************************************************************************)
EXTENDS Spans, FiniteSetsExt

CONSTANTS
  TypeMap,     \* MULTINERD_MAP etc.: the service's type of a source's type
  Unmapped,    \* no type
  RegexLike,   \* texts the regex detector handles
  Untokenized  \* characters the tokenizer drops

NoEntity == [start |-> 0, end |-> 0, type |-> Unmapped]
Outside == [bio |-> "O", type |-> Unmapped]
Ignored == [bio |-> "ignored", type |-> Unmapped]   \* the label -100

Word(pieces) == FlattenSeq(pieces)

\* The words joined by single spaces.
Joined(words) ==
  FoldLeftDomain(LAMBDA t, i : t \o (IF i = 1 THEN <<>> ELSE <<Blank>>) \o Word(words[i]),
                 <<>>, words)

\* Mutant: the space in front of a word is not counted.
WordStartUnspaced(words, i) == Len(Joined(SubSeq(words, 1, i - 1)))

\* The offset at which word i begins.
WordStart(words, i) == Len(Joined(SubSeq(words, 1, i - 1))) + (IF i = 1 THEN 0 ELSE 1)
WordEnd(words, i) == WordStart(words, i) + Len(Word(words[i]))

-----------------------------------------------------------------------------
(***************************************************************************)
(* Reading tags.  A scan has the entities that are complete and the one    *)
(* that is open.                                                           *)
(***************************************************************************)
Closed(scan) ==
  [scan EXCEPT !.done = IF scan.cur = NoEntity THEN @ ELSE Append(@, scan.cur),
               !.cur = NoEntity]

\* A tag for the characters start..end.  An I tag of another type than the
\* open entity's extends it if lenient, and else closes it.
ReadTag(scan, tag, start, end, lenient) ==
  IF tag.bio = "B" THEN
    [Closed(scan) EXCEPT !.cur = [start |-> start, end |-> end, type |-> tag.type]]
  ELSE IF tag.bio = "I" /\ scan.cur # NoEntity /\ (lenient \/ tag.type = scan.cur.type) THEN
    [scan EXCEPT !.cur.end = end]
  ELSE Closed(scan)

NewScan == [done |-> <<>>, cur |-> NoEntity]

\* _emit_*_entity: types the service has no code for and texts of the regex
\* detector are left out.
Emitted(text, raw) ==
  LET kept(e) == /\ TypeMap[e.type] # Unmapped
                 /\ Slice(text, e.start, e.end) \notin RegexLike
      emit(e) == [start |-> e.start, end |-> e.end, type |-> TypeMap[e.type],
                  text |-> Slice(text, e.start, e.end)]
      kept_ == SelectSeq(raw, kept)
  IN [i \in DOMAIN kept_ |-> emit(kept_[i])]

ReadWords(row, lenient) ==
  LET step(scan, i) == ReadTag(scan, row.tags[i], WordStart(row.words, i),
                               WordEnd(row.words, i), lenient)
  IN Emitted(Joined(row.words), Closed(FoldLeftDomain(step, NewScan, row.words)).done)

\* MultiNERD and WikiNEuRal.
BioToExample(row) == ReadWords(row, FALSE)

\* text.find(part), -1 if there is none.
Find(text, part) ==
  LET at == {i \in 0..(Len(text) - Len(part)) : Slice(text, i, i + Len(part)) = part}
  IN IF at = {} THEN -1 ELSE Min(at)

\* _parse_span_labels and _parse_label_string: values with their types, and
\* with offsets unless from is -1.
ParseSpanLabels(text, items) ==
  LET located(m) ==
        LET at == IF m.from # -1 THEN m.from ELSE Find(text, m.value)
        IN [start |-> at, end |-> IF m.from # -1 THEN m.to ELSE at + Len(m.value),
            type |-> m.type, value |-> m.value]
      good(e) == e.start # -1 /\ Slice(text, e.start, e.end) = e.value
      all == SelectSeq([i \in DOMAIN items |-> located(items[i])], good)
  IN Emitted(text, [i \in DOMAIN all |->
                      [start |-> all[i].start, end |-> all[i].end, type |-> all[i].type]])

\* The annotations of a row as the sources with whole texts list them.
Items(row, offsets) ==
  LET text == Joined(row.words)
      step(scan, i) == ReadTag(scan, row.tags[i], WordStart(row.words, i),
                               WordEnd(row.words, i), FALSE)
      raw == Closed(FoldLeftDomain(step, NewScan, row.words)).done
  IN [i \in DOMAIN raw |->
        [value |-> Slice(text, raw[i].start, raw[i].end), type |-> raw[i].type,
         from |-> IF offsets THEN raw[i].start ELSE -1,
         to |-> IF offsets THEN raw[i].end ELSE -1]]

\* HUMADEX, the layout with tokens and tags and the one with a text and
\* annotations, whose offsets are taken as they are.
ConvertHumadex(row) ==
  LET items == Items(row, TRUE)
      annotated == [i \in DOMAIN items |->
                      [start |-> items[i].from, end |-> items[i].to, type |-> items[i].type]]
  IN IF row.layout = "humadex" THEN ReadWords(row, TRUE)
     ELSE Emitted(Joined(row.words), annotated)

\* _parse_ai4privacy_row.  The columns of a Parquet file are arrays, of which
\* _parse_bio_tokens, the fallback, makes no entity.
ParseAi4privacyRow(row) ==
  ParseSpanLabels(Joined(row.words), Items(row, row.layout = "mask"))

Converted(row) ==
  CASE row.layout = "tags" -> BioToExample(row)
    [] row.layout = "generated" -> row.entities
    [] row.layout \in {"humadex", "annotations"} -> ConvertHumadex(row)
    [] OTHER -> ParseAi4privacyRow(row)

-----------------------------------------------------------------------------
\* _validate_example: the first entity with a defect decides; labels counts
\* the entities in front of it.
ValidateExample(text, entities, types) ==
  LET defect(e, prev) ==
        CASE e.type \notin types -> "invalid_label"
          [] ~ (0 <= e.start /\ e.end <= Len(text) /\ e.start < e.end) -> "offset_out_of_bounds"
          [] Slice(text, e.start, e.end) # e.text -> "offset_mismatch"
          [] e.start < prev -> "overlapping_entities"
          [] OTHER -> "none"
      step(acc, e) ==
        IF acc.verdict # "none" THEN acc
        ELSE LET d == defect(e, acc.prev)
             IN [verdict |-> d, prev |-> e.end,
                 labels |-> IF d = "none" THEN acc.labels + 1 ELSE acc.labels]
  IN FoldLeft(step, [verdict |-> "none", prev |-> -1, labels |-> 0], entities)

\* Mutant: an entity is compared with the one before it.
OverlappingNeighbours(entities) ==
  \E i \in 2..Len(entities) : Overlaps(entities[i], entities[i - 1])

\* An entity is compared with all that came before it.
Overlapping(entities) ==
  \E i \in DOMAIN entities : \E j \in 1..(i - 1) : Overlaps(entities[i], entities[j])

\* _validate_file: the checks that an example of the chat layout fails; all
\* entities are looked at, in any order.
ValidateFile(text, entities, types) ==
  LET bounded(e) == 0 <= e.start /\ e.end <= Len(text) /\ e.start < e.end
      fails(check) ==
        CASE check = "entity_type_valid" -> \E i \in DOMAIN entities : entities[i].type \notin types
          [] check = "offset_bounds" -> \E i \in DOMAIN entities : ~ bounded(entities[i])
          [] check = "offset_alignment" -> \E i \in DOMAIN entities :
               /\ bounded(entities[i])
               /\ Slice(text, entities[i].start, entities[i].end) # entities[i].text
          [] check = "no_overlap" -> Overlapping(entities)
  IN {c \in {"entity_type_valid", "offset_bounds", "offset_alignment", "no_overlap"} : fails(c)}

\* The tokens of a text: the pieces of its words, as ranges of characters.
Tokens(words) ==
  LET pieces(i) ==
        LET w == words[i]
            start(j) == WordStart(words, i) + Len(Word(SubSeq(w, 1, j - 1)))
        IN [j \in DOMAIN w |-> [start |-> start(j), end |-> start(j) + Len(w[j]), word |-> i]]
      text == Joined(words)
      kept(t) == Slice(text, t.start, t.end) \notin Untokenized
  IN SelectSeq(FlattenSeq([i \in DOMAIN words |-> pieces(i)]), kept)

\* Mutant: a token that starts with the entity is inside it.
LabelOfInside(token, e) == [bio |-> IF token.start < e.start THEN "B" ELSE "I", type |-> e.type]

LabelOf(token, e) == [bio |-> IF token.start <= e.start THEN "B" ELSE "I", type |-> e.type]

\* bio_converter.convert_example: the first entity that meets the token.
ConvertExample(tokens, entities) ==
  LET meets(t) == {i \in DOMAIN entities :
                     t.start < entities[i].end /\ entities[i].start < t.end}
      first(i) == i = 1 \/ tokens[i].word # tokens[i - 1].word
  IN [i \in DOMAIN tokens |->
        IF ~ first(i) THEN Ignored
        ELSE IF meets(tokens[i]) = {} THEN Outside
        ELSE LabelOf(tokens[i], entities[Min(meets(tokens[i]))])]

\* validate_ner_dataset: an I label follows a B or I label of its type.
BioConsistent(labels) ==
  LET seen == SelectSeq(labels, LAMBDA l : l # Ignored)
  IN \A i \in DOMAIN seen :
       seen[i].bio = "I" => i > 1 /\ seen[i - 1].bio # "O" /\ seen[i - 1].type = seen[i].type
=============================================================================

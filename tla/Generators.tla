----------------------------- MODULE Generators -----------------------------
(***************************************************************************)
(* The examples of synthetic_generator.py and boundary_hard_generator.py.  *)
(* A sentence is a sequence of parts, each plain or an entity; the parts   *)
(* are pieces of the tokenizer, Space between words.  Offsets are sums of  *)
(* the lengths of the parts, as in the code.  The phrases of the templates *)
(* are reduced to what stands next to an entity.                           *)
(***************************************************************************)
EXTENDS Annotation

CONSTANTS
  Filler,        \* a word of the templates
  Names,         \* values: of people,
  Places,        \*   places,
  Companies,     \*   organisations,
  Terms,         \*   everything else, and
  Addresses,     \*   addresses
  Stop, Apart, Open, Close, Quote   \* pieces: full stop, comma, brackets, quotation mark

Space == <<Blank>>

Plain(pieces) == [type |-> Unmapped, pieces |-> pieces]
Value(type, pieces) == [type |-> type, pieces |-> pieces]

\* Mutant: the quotation mark in front of an entity is counted twice.
PartStartQuoted(parts, i) ==
  LET before == FlattenSeq([j \in 1..(i - 1) |-> FlattenSeq(parts[j].pieces)])
  IN Len(before) + (IF i > 1 /\ Quote \in ToSet(parts[i - 1].pieces) THEN 1 ELSE 0)

\* The length of what stands in front of part i.
PartStart(parts, i) == Len(FlattenSeq([j \in 1..(i - 1) |-> FlattenSeq(parts[j].pieces)]))

\* _make_example and _make: the text, in words, and the entities, which the
\* code asserts to be where they should.
Example(parts) ==
  LET word(acc, piece) == IF piece = Space THEN Append(acc, <<>>)
                          ELSE Append(Front(acc), Append(Last(acc), piece))
      entity(i) == [start |-> PartStart(parts, i),
                    end |-> PartStart(parts, i) + Len(FlattenSeq(parts[i].pieces)),
                    type |-> parts[i].type, text |-> FlattenSeq(parts[i].pieces)]
      values == SelectSeq([i \in DOMAIN parts |-> i], LAMBDA i : parts[i].type # Unmapped)
  IN [layout |-> "generated",
      words |-> FoldLeft(word, <<<<>>>>, FlattenSeq([i \in DOMAIN parts |-> parts[i].pieces])),
      entities |-> [k \in DOMAIN values |-> entity(values[k])]]

\* prefix value suffix
Sentences(prefixes, type, values, suffixes) ==
  {Example(<<Plain(p), Value(type, v), Plain(s)>>) : p \in prefixes, v \in values, s \in suffixes}

None == <<>>
Before == <<Filler, Space>>
Behind == <<Space, Filler>>

-----------------------------------------------------------------------------
(***************************************************************************)
(* synthetic_generator.py.                                                 *)
(***************************************************************************)
GeneratePe == Sentences({None, Before}, "pe", Names, {Behind})
GenerateInd == Sentences({Before}, "ind", Addresses, {None, Behind})
GenerateDt == Sentences({Before}, "dt", Terms, {None, Behind})

\* A condition or a drug, a hospital, a drug for a condition, a doctor.
GenerateMed ==
  Sentences({Before}, "med", Terms, {None, Behind})
    \cup Sentences({Before}, "org", Companies, {None, Behind})
    \cup {Example(<<Plain(Before), Value("med", d), Plain(Behind \o <<Space>>), Value("med", c)>>) :
            d \in Terms, c \in Terms}
    \cup Sentences({Before}, "pe", Names, {Behind})

\* A proceeding or a decision, or a law firm.
GenerateLeg ==
  Sentences({Before}, "leg", Terms, {None}) \cup Sentences({Before}, "org", Companies, {None, Behind})

\* A relation and a name: one entity, found in the sentence.
GenerateRel ==
  Sentences({None, Before}, "rel", {<<Filler, Space>> \o n : n \in Names}, {Behind})

\* An amount, or a debtor and an amount.
GenerateFin ==
  Sentences({Before}, "fin", Terms, {None, Behind})
    \cup {Example(<<Value("pe", n), Plain(Behind \o <<Space>>), Value("fin", a), Plain(Behind)>>) :
            n \in Names, a \in Terms}

GeneratePro == Sentences({Before, Before \o Before}, "pro", Terms, {None, Behind})

GenerateSynthetic ==
  GeneratePe \cup GenerateInd \cup GenerateDt \cup GenerateMed \cup GenerateLeg \cup GenerateRel
    \cup GenerateFin \cup GeneratePro

-----------------------------------------------------------------------------
(***************************************************************************)
(* boundary_hard_generator.py.  A tab or a line break is a blank here.     *)
(***************************************************************************)
PersonPunct ==
  Sentences({None, Before}, "pe", Names, {<<Apart>> \o Behind, <<Stop>> \o Behind})
    \cup Sentences({<<Open, Filler, Space>>}, "pe", Names, {<<Close>>})
    \cup Sentences({<<Quote>>}, "pe", Names, {<<Quote>> \o Behind})

PersonApostrophe ==
  Sentences({Before}, "pe", Names, {Behind, <<Apart>> \o Behind, <<Stop>> \o Behind})

AddressComplete ==
  Sentences({Before}, "ind", Addresses, {None, <<Stop>>, <<Apart>> \o Behind, Behind})

OrgAbbreviation ==
  Sentences({Before}, "org", Companies, {<<Apart>> \o Behind, <<Stop>> \o Behind})
    \cup Sentences({<<Open>>}, "org", Companies, {<<Close>>})

LocApostrophe ==
  Sentences({Before}, "loc", Places, {None, <<Stop>>, <<Apart>> \o Behind})

MultiEntity ==
  {Example(<<Value("pe", n), Plain(<<Apart>> \o Behind \o <<Space>>), Value("ind", a),
             Plain(<<Stop>>)>>) : n \in Names, a \in Addresses}
    \cup {Example(<<Plain(Before), Value("pe", n), Plain(<<Space, Open>>), Value("org", o),
                    Plain(<<Close, Stop>>)>>) : n \in Names, o \in Companies}
    \cup {Example(<<Plain(Before), Value("pe", n), Plain(Behind \o <<Space>>), Value("med", c),
                    Plain(<<Stop>>)>>) : n \in Names, c \in Terms}

HardNegatives == {Example(<<Plain(Before \o <<Filler, Stop>>)>>)}

\* Two blanks, or a line break between an entity and the next word.
OcrNoise ==
  Sentences({Before \o <<Space>>}, "pe", Names, {<<Apart>> \o Behind})
    \cup Sentences({Before}, "ind", Addresses, {None})
    \cup {Example(<<Plain(Before), Value("pe", n), Plain(Behind \o <<Space>>), Value("ind", a)>>) :
            n \in Names, a \in Addresses}

GenerateBoundaryHard ==
  PersonPunct \cup PersonApostrophe \cup AddressComplete \cup OrgAbbreviation \cup LocApostrophe
    \cup MultiEntity \cup HardNegatives \cup OcrNoise
=============================================================================

----------------------------- MODULE MCNerChain -----------------------------
(***************************************************************************)
(* Rows of up to three words for NerChain.  "7" is a number that the regex *)
(* detector handles, "x" and "y" are types of a source, "z" is one that    *)
(* the service has no code for.                                            *)
(***************************************************************************)
EXTENDS NerChain

MCBlank == " "
MCUnmapped == "none"
MCTypeMap == [t \in {"x", "y", "z", "none"} |->
                CASE t = "x" -> "pe" [] t = "y" -> "ind" [] OTHER -> "none"]
MCLetters == {"a", "b", "c"}
MCRegexLike == {<<"7">>}
MCAbbreviations == {<<"c", ".">>}

Tag(bio, type) == [bio |-> bio, type |-> type]

Short == { << <<"a">> >>, << <<"b">>, <<"c">> >>, << <<"b">>, <<",">> >> }
Kinds == Short \cup { << <<"a">>, <<"'">>, <<"b">> >> }

\* Words that only short rows have.
Rare == { << <<"7">> >>, << <<"'">>, <<"a">> >>, << <<"?">> >>, << <<"c", ".">> >>,
          << <<"(">>, <<"b">>, <<")", ".">> >> }

SourceTags == {Tag("O", "none"), Tag("B", "x"), Tag("I", "x"), Tag("B", "y"), Tag("I", "y")}

Layouts == {"tags", "humadex", "annotations", "mask", "values"}

RowsOf(n, layouts, kinds, tags) ==
  [layout : layouts, words : [1..n -> kinds], tags : [1..n -> tags]]

SourceRows ==
  RowsOf(1, Layouts, Kinds \cup Rare, SourceTags)
    \cup RowsOf(2, Layouts, Kinds \cup Rare, SourceTags \cup {Tag("B", "z")})
    \cup RowsOf(3, Layouts, Short, SourceTags)

\* Values of the generators.
MCNames == { << <<"a">>, <<" ">>, <<"b">> >>, << <<"a">>, <<" ">>, <<"b">>, <<"'">>, <<"c">> >> }
MCPlaces == { << <<"b">>, <<"'">>, <<"a">> >> }
MCCompanies == { << <<"a">>, <<" ">>, <<"c", ".">> >> }
MCTerms == { << <<"b">>, <<"a">> >> }
MCAddresses == { << <<"b">>, <<",">>, <<" ">>, <<"(">>, <<"a">>, <<")">> >> }
MCFiller == <<"c">>
MCStop == <<".">>
MCApart == <<",">>
MCOpen == <<"(">>
MCClose == <<")">>
MCQuote == <<"q">>

MCRows == SourceRows \cup GenerateSynthetic \cup GenerateBoundaryHard
GeneratedRows == GenerateSynthetic \cup GenerateBoundaryHard

MCLabels == {Tag("O", "none")} \cup {Tag(b, t) : b \in {"B", "I"}, t \in {"pe", "ind"}}
MCStrayLabels == {Tag("B", "ind"), Tag("I", "pe")}
=============================================================================

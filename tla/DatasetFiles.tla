---------------------------- MODULE DatasetFiles ----------------------------
(***************************************************************************)
(* The files of the dataset pipeline and the programs that make one        *)
(* another's input: download, convert, the generators, validate_spans,     *)
(* clean_mix, chat_formatter, split and ner_formatter.  They are run by    *)
(* hand, in any order and again, one at a time, with their default         *)
(* directories (chat_formatter also with data/cleaned), and may be         *)
(* interrupted.                                                            *)
(*                                                                         *)
(* A file is a sequence of records.  A record has a text, may have an      *)
(* entity that clean_mix removes (dirty), and may be in the chat layout,   *)
(* where text and entities are out of reach of clean_mix.                  *)
(***************************************************************************)
EXTENDS Integers, FiniteSets, Sequences, Counting

CONSTANTS
  Source,         \* the public datasets
  Text,           \* the texts of the records
  Examples,       \* what convert makes of each dataset
  SyntheticPacks, HardNegativePacks, BoundaryHardPacks,   \* the packs each generator may make
  ListedBefore,   \* the order of file names in a sorted directory, a set of pairs
  Orders,         \* the orders the seed may bring n examples into; bound: its domain
  Formatted,      \* directories chat_formatter is run on
  MaxPrograms     \* bound: programs that are run

Read == {"processed", "synthetic"}   \* the directories clean_mix reads
Splits == <<"train", "val", "test">>
Split == {"train", "val", "test"}

\* Paths are pairs of a directory and a name; a name in cleaned may have the
\* name of another directory appended.
Stem ==
  Source \cup {"chat_formatted", "synthetic", "hard_negatives", "boundary_hard", "boundary_hard_clean"}
OwnName == {<<n>> : n \in Stem}
FileName == OwnName \cup {<<n, d>> : n \in Stem, d \in Read}
Path == ({"raw"} \cup Read) \X OwnName \cup {"cleaned"} \X FileName \cup {"final", "final_ner"} \X Split

Record == [text : Text, dirty : BOOLEAN, chat : BOOLEAN]
NewRecord == [text : Text, dirty : BOOLEAN, chat : {FALSE}]

ASSUME FilesAssumption ==
  /\ IsFiniteSet(Source) /\ "chat_formatted" \notin Source
  /\ DOMAIN Examples = Source /\ \A s \in Source : Examples[s] \in Seq(NewRecord)
  /\ \A pack \in SyntheticPacks \cup HardNegativePacks \cup BoundaryHardPacks : pack \in Seq(NewRecord)
  /\ Formatted \subseteq Read \cup {"cleaned"}
  /\ MaxPrograms \in Nat

\* Names are sorted: they are distinct, and the order is total.
ASSUME ListingAssumption ==
  /\ \A m, n \in FileName : <<m, n>> \in ListedBefore \/ <<n, m>> \in ListedBefore
  /\ \A m, n \in FileName : <<m, n>> \in ListedBefore /\ <<n, m>> \in ListedBefore => m = n
  /\ \A l, m, n \in FileName :
       <<l, m>> \in ListedBefore /\ <<m, n>> \in ListedBefore => <<l, n>> \in ListedBefore

\* A shuffle loses and repeats nothing.
ASSUME OrdersAssumption ==
  \A n \in DOMAIN Orders : \A order \in Orders[n] :
    /\ n \in Nat /\ order \in [1..n -> 1..n]
    /\ \A i, j \in 1..n : order[i] = order[j] => i = j

VARIABLES
  downloaded, \* of each dataset: "absent", "empty" (the load failed) or "loaded"
  files,      \* path |-> records, of the files that exist
  job,        \* the program that runs, with the files it has still to write
  programs,   \* how many were run
  splitOf,    \* history: the chat file of the last split, if it completed
  arrowOf,    \* history: the same of the Arrow datasets, if their three splits are complete
  cleanOf,    \* history: the files the last clean_mix read, if it completed
  chatDir     \* history: the directory of the chat file

filesVars == <<downloaded, files, job, programs, splitOf, arrowOf, cleanOf, chatDir>>

Nothing == [nothing |-> TRUE]
Idle == [cmd |-> "none", todo |-> <<>>, data |-> <<>>]

Chat == <<"processed", <<"chat_formatted">>>>
In(dir) == {p \in DOMAIN files : p[1] = dir}
Written(path, records) ==
  [p \in DOMAIN files \cup {path} |-> IF p = path THEN records ELSE files[p]]

\* sorted(dir.glob(...)): files of one directory by their names.
Listed(paths) == InOrder(paths, {x \in paths \X paths : <<x[1][2], x[2][2]>> \in ListedBefore})

FilesInit ==
  /\ downloaded = [s \in Source |-> "absent"] /\ files = [p \in {} |-> <<>>]
  /\ job = Idle /\ programs = 0
  /\ splitOf = Nothing /\ arrowOf = Nothing /\ cleanOf = Nothing /\ chatDir = "none"

Begin(cmd, todo, data) ==
  job' = IF todo = <<>> THEN Idle ELSE [cmd |-> cmd, todo |-> todo, data |-> data]

\* A program starts when none is running.
Started == job = Idle /\ programs < MaxPrograms /\ programs' = programs + 1

\* The first file of a job is written; it may be the last.
Proceed == job' = IF Len(job.todo) = 1 THEN Idle ELSE [job EXCEPT !.todo = Tail(@)]
LastOne == Len(job.todo) = 1

-----------------------------------------------------------------------------
\* download_dataset: the directory is there before the dataset is loaded.
Download(s) ==
  /\ Started
  /\ downloaded' \in {[downloaded EXCEPT ![s] = "loaded"], [downloaded EXCEPT ![s] = IF @ = "absent" THEN "empty" ELSE @]}
  /\ UNCHANGED <<files, job, splitOf, arrowOf, cleanOf, chatDir>>

\* convert_all, one file for each directory of raw.
ConvertAll ==
  /\ Started
  /\ Begin("convert", Listed({<<"raw", <<s>>>> : s \in {t \in Source : downloaded[t] # "absent"}}), <<>>)
  /\ UNCHANGED <<downloaded, files, splitOf, arrowOf, cleanOf, chatDir>>

ConvertStep ==
  /\ job.cmd = "convert"
  /\ LET s == Head(job.todo)[2][1]
     IN files' = Written(<<"processed", <<s>>>>, IF downloaded[s] = "loaded" THEN Examples[s] ELSE <<>>)
  /\ Proceed
  /\ UNCHANGED <<downloaded, programs, splitOf, arrowOf, cleanOf, chatDir>>

\* The generators.  Templates are drawn with replacement: a pack may have one
\* text several times.
Generate(name, packs) ==
  /\ Started
  /\ \E pack \in packs : files' = Written(<<"synthetic", <<name>>>>, pack)
  /\ UNCHANGED <<downloaded, job, splitOf, arrowOf, cleanOf, chatDir>>

\* validate_and_filter, as its documentation calls it.
ValidateAndFilter ==
  /\ Started /\ <<"synthetic", <<"boundary_hard">>>> \in DOMAIN files
  /\ files' = Written(<<"synthetic", <<"boundary_hard_clean">>>>,
                      files[<<"synthetic", <<"boundary_hard">>>>])
  /\ UNCHANGED <<downloaded, job, splitOf, arrowOf, cleanOf, chatDir>>

-----------------------------------------------------------------------------
(***************************************************************************)
(* clean_mix.                                                              *)
(***************************************************************************)
\* _filter_entities.  A record of the chat layout has no key "entities".
FilterEntities(r) == IF r.chat THEN r ELSE [r EXCEPT !.dirty = FALSE]

Cleaned(records) == [i \in DOMAIN records |-> FilterEntities(records[i])]

\* Mutant: a file that is already there is left alone.
CleanPathOnce(p) ==
  IF <<"cleaned", p[2]>> \in DOMAIN files THEN <<"skipped", p[2]>> ELSE <<"cleaned", p[2]>>

\* A name that is taken gets the source directory appended.
CleanPath(p) ==
  LET same == <<"cleaned", p[2]>>
  IN IF same \in DOMAIN files THEN <<"cleaned", <<p[2][1], p[1]>>>> ELSE same

CleanMix ==
  /\ Started
  /\ Begin("clean", Listed(In("processed")) \o Listed(In("synthetic")),
           [p \in In("processed") \cup In("synthetic") |-> files[p]])
  /\ cleanOf' = Nothing
  /\ UNCHANGED <<downloaded, files, splitOf, arrowOf, chatDir>>

CleanStep ==
  /\ job.cmd = "clean"
  /\ LET p == Head(job.todo)
     IN files' = IF files[p] = <<>> THEN files ELSE Written(CleanPath(p), Cleaned(files[p]))
  /\ cleanOf' = IF LastOne THEN [records |-> job.data] ELSE cleanOf
  /\ Proceed
  /\ UNCHANGED <<downloaded, programs, splitOf, arrowOf, chatDir>>

-----------------------------------------------------------------------------
(***************************************************************************)
(* chat_formatter, split and ner_formatter.                                *)
(***************************************************************************)
\* Mutant: the text of a chat record is found.
HasTextAny(r) == TRUE

\* A chat record has no text at its top level.
HasText(r) == ~ r.chat

ToChat(r) == [r EXCEPT !.chat = TRUE]

\* The examples of a file, in its order.
ChatRecords(records) ==
  LET withText == {i \in DOMAIN records : HasText(records[i])}
      nth == InOrder(withText, {x \in withText \X withText : x[1] <= x[2]})
  IN [k \in DOMAIN nth |-> ToChat(records[nth[k]])]

\* format_all: all files of dir but one of the name of the output, and two of
\* the three packs.
FormatAll(dir) ==
  /\ Started
  /\ LET pack(name) == Listed({p \in DOMAIN files : p = <<"synthetic", <<name>>>>})
         inputs == Listed({p \in In(dir) : p[2] # Chat[2]})
     IN job' = [cmd |-> "chat", todo |-> inputs \o pack("synthetic") \o pack("hard_negatives"),
                data |-> [dir |-> dir, formatted |-> <<>>]]
  /\ UNCHANGED <<downloaded, files, splitOf, arrowOf, cleanOf, chatDir>>

FormatFile ==
  /\ job.cmd = "chat" /\ job.todo # <<>>
  /\ job' = [job EXCEPT !.todo = Tail(@),
                        !.data.formatted = @ \o ChatRecords(files[Head(job.todo)])]
  /\ UNCHANGED <<downloaded, files, programs, splitOf, arrowOf, cleanOf, chatDir>>

FormatSave ==
  /\ job.cmd = "chat" /\ job.todo = <<>>
  /\ files' = Written(Chat, job.data.formatted)
  /\ chatDir' = job.data.dir
  /\ job' = Idle
  /\ UNCHANGED <<downloaded, programs, splitOf, arrowOf, cleanOf>>

\* Mutant: the validation set is not taken out of the test set.
PartitionOverlapping(order) ==
  LET n == Len(order)
      rest == (n + 4) \div 5
  IN [train |-> SubSeq(order, 1, n - rest), val |-> SubSeq(order, n - rest + 1, n - (rest + 1) \div 2),
      test |-> SubSeq(order, n - rest + 1, n)]

\* train_test_split twice, 80/10/10, rounded up for the smaller part.
Partition(order) ==
  LET n == Len(order)
      rest == (n + 4) \div 5
      test == (rest + 1) \div 2
  IN [train |-> SubSeq(order, 1, n - rest), val |-> SubSeq(order, n - rest + 1, n - test),
      test |-> SubSeq(order, n - test + 1, n)]

\* The examples of one part.
Taken(parts, split, chat) == [k \in DOMAIN parts[split] |-> chat[parts[split][k]]]

\* Without examples the program returns; with fewer than six a part would be
\* empty, which train_test_split refuses.
SplitDataset ==
  /\ Started
  /\ Chat \in DOMAIN files /\ Len(files[Chat]) >= 6 /\ Len(files[Chat]) \in DOMAIN Orders
  /\ LET chat == files[Chat]
     IN \E order \in Orders[Len(chat)] :
          Begin("split", Splits, [chat |-> chat, parts |-> Partition(order)])
  /\ splitOf' = Nothing
  /\ UNCHANGED <<downloaded, files, arrowOf, cleanOf, chatDir>>

SplitStep ==
  /\ job.cmd = "split"
  /\ LET chat == job.data.chat
         split == Head(job.todo)
     IN /\ files' = Written(<<"final", split>>, Taken(job.data.parts, split, chat))
        /\ splitOf' = IF LastOne THEN [records |-> chat] ELSE splitOf
  /\ Proceed
  /\ UNCHANGED <<downloaded, programs, arrowOf, cleanOf, chatDir>>

\* format_ner_dataset: a split that is missing is skipped.
FormatNer ==
  /\ Started
  /\ Begin("ner", Splits, <<>>)
  /\ arrowOf' = Nothing
  /\ UNCHANGED <<downloaded, files, splitOf, cleanOf, chatDir>>

FormatNerStep ==
  /\ job.cmd = "ner"
  /\ LET from == <<"final", Head(job.todo)>>
     IN files' = IF from \in DOMAIN files
                   THEN Written(<<"final_ner", Head(job.todo)>>, files[from]) ELSE files
  /\ arrowOf' = IF LastOne THEN splitOf ELSE arrowOf
  /\ Proceed
  /\ UNCHANGED <<downloaded, programs, splitOf, cleanOf, chatDir>>

\* The program is interrupted between two files.
Interrupt ==
  /\ job # Idle /\ job' = Idle
  /\ UNCHANGED <<downloaded, files, programs, splitOf, arrowOf, cleanOf, chatDir>>

FilesNext ==
  \/ \E s \in Source : Download(s)
  \/ ConvertAll \/ ConvertStep
  \/ Generate("synthetic", SyntheticPacks) \/ Generate("hard_negatives", HardNegativePacks)
  \/ Generate("boundary_hard", BoundaryHardPacks) \/ ValidateAndFilter
  \/ CleanMix \/ CleanStep
  \/ (\E dir \in Formatted : FormatAll(dir)) \/ FormatFile \/ FormatSave
  \/ SplitDataset \/ SplitStep \/ FormatNer \/ FormatNerStep \/ Interrupt

FilesSpec == FilesInit /\ [][FilesNext]_filesVars
-----------------------------------------------------------------------------
FilesTypeOK ==
  /\ downloaded \in [Source -> {"absent", "empty", "loaded"}]
  /\ DOMAIN files \subseteq Path /\ IsFiniteSet(DOMAIN files)
  /\ \A p \in DOMAIN files : files[p] \in Seq(Record)
  /\ job.cmd \in {"none", "convert", "clean", "chat", "split", "ner"}
  /\ job.cmd = "none" => job = Idle
  /\ programs \in 0..MaxPrograms

Times(records, r) == Cardinality({i \in DOMAIN records : records[i] = r})
Arrow(split) == IF <<"final_ner", split>> \in DOMAIN files THEN files[<<"final_ner", split>>] ELSE <<>>

\* The three datasets the model is trained and tested on are a partition of
\* the examples of one chat file, if the split and the conversion before them
\* were not interrupted.  So an example is in two of them only if the chat
\* file has it twice.  (split.py 83-192, ner_formatter.py 28-77.)
SplitsPartition ==
  arrowOf # Nothing =>
    LET all == Arrow("train") \o Arrow("val") \o Arrow("test")
    IN /\ Len(all) = Len(arrowOf.records)
       /\ \A i \in DOMAIN all : Times(all, all[i]) = Times(arrowOf.records, all[i])

\* After clean_mix the cleaned directory has every file that it read,
\* whatever was there before, under one name or another.
\* (clean_mix.py 184-250.)
CleanedComplete ==
  cleanOf # Nothing =>
    \A p \in DOMAIN cleanOf.records :
      p[1] \in {"processed", "synthetic"} /\ cleanOf.records[p] # <<>> =>
        \E q \in In("cleaned") : files[q] = Cleaned(cleanOf.records[p])

\* A chat file made from the cleaned directory has no entity that clean_mix
\* removes, but for the packs that are read where they are: not either by way
\* of an older chat file that clean_mix copied.
\* (clean_mix.py 107-160, 184-250, chat_formatter.py 80-150.)
CleanChat ==
  chatDir = "cleaned" =>
    \A i \in DOMAIN files[Chat] :
      files[Chat][i].dirty =>
        \E pack \in SyntheticPacks \cup HardNegativePacks : \E j \in DOMAIN pack :
          pack[j].text = files[Chat][i].text

-----------------------------------------------------------------------------
(***************************************************************************)
(* What makes them so: the invariant of a step.                            *)
(***************************************************************************)
\* The shape of the job's list and data.  No file is listed twice.
JobOk ==
  LET todo == job.todo IN
  /\ job = [cmd |-> job.cmd, todo |-> todo, data |-> job.data]
  /\ job.cmd = "convert" => todo \in Seq({"raw"} \X {<<s>> : s \in Source}) /\ todo # <<>>
  /\ job.cmd = "clean" =>
       /\ todo # <<>> /\ todo \in Seq(In("processed") \cup In("synthetic"))
       /\ \A i, j \in DOMAIN todo : todo[i] = todo[j] => i = j
       /\ job.data = [p \in In("processed") \cup In("synthetic") |-> files[p]]
  /\ job.cmd = "chat" =>
       /\ job.data = [dir |-> job.data.dir, formatted |-> job.data.formatted]
       /\ job.data.dir \in Formatted /\ job.data.formatted \in Seq(Record)
       /\ todo \in Seq(In(job.data.dir) \cup
                         {p \in DOMAIN files : p[1] = "synthetic" /\ p[2] \in {<<"synthetic">>, <<"hard_negatives">>}})
  /\ job.cmd \in {"split", "ner"} => todo \in {Splits, <<"val", "test">>, <<"test">>}

Waiting == {job.todo[i] : i \in DOMAIN job.todo}

\* The packs are as they were made, and what clean_mix wrote is clean.
FilesClean ==
  /\ \A p \in DOMAIN files :
       p = <<"synthetic", <<"synthetic">>>> => files[p] \in SyntheticPacks
  /\ \A p \in DOMAIN files :
       p = <<"synthetic", <<"hard_negatives">>>> => files[p] \in HardNegativePacks
  /\ \A p \in In("cleaned") : \A i \in DOMAIN files[p] : files[p][i].dirty => files[p][i].chat

\* A record that is dirty comes from a pack.
FromPack(r) ==
  r.dirty => \E pack \in SyntheticPacks \cup HardNegativePacks : \E j \in DOMAIN pack : pack[j].text = r.text

ChatInv ==
  /\ chatDir = "cleaned" => Chat \in DOMAIN files /\ \A i \in DOMAIN files[Chat] : FromPack(files[Chat][i])
  /\ job.cmd = "chat" /\ job.data.dir = "cleaned" =>
       \A i \in DOMAIN job.data.formatted : FromPack(job.data.formatted[i])

\* The file p was copied to one of its two names.
Copied(p, records) ==
  \E q \in {<<"cleaned", p[2]>>, <<"cleaned", <<p[2][1], p[1]>>>>} \cap DOMAIN files :
    files[q] = Cleaned(records)

CleanInv ==
  /\ job.cmd = "clean" =>
       /\ cleanOf = Nothing
       /\ \A p \in DOMAIN job.data \ Waiting : job.data[p] # <<>> => Copied(p, job.data[p])
  /\ cleanOf # Nothing =>
       /\ cleanOf = [records |-> cleanOf.records] /\ DOMAIN cleanOf.records \subseteq Path
       /\ \A p \in DOMAIN cleanOf.records : cleanOf.records[p] # <<>> => Copied(p, cleanOf.records[p])

\* The files of dir are the parts of chat, but for those that are still
\* waited for.
PartsIn(dir, chat, order, missing) ==
  \A s \in Split \ missing :
    <<dir, s>> \in DOMAIN files /\ files[<<dir, s>>] = Taken(Partition(order), s, chat)

\* history is Nothing, or tells of what the files of dir are the parts.
Parted(dir, history) ==
  history # Nothing =>
    /\ history = [records |-> history.records]
    /\ history.records \in Seq(Record) /\ Len(history.records) >= 6
    /\ Len(history.records) \in DOMAIN Orders
    /\ \E order \in Orders[Len(history.records)] : PartsIn(dir, history.records, order, {})

SplitInv ==
  /\ job.cmd = "split" =>
       LET chat == job.data.chat IN
       /\ splitOf = Nothing /\ job.data = [chat |-> chat, parts |-> job.data.parts]
       /\ chat \in Seq(Record) /\ Len(chat) >= 6 /\ Len(chat) \in DOMAIN Orders
       /\ \E order \in Orders[Len(chat)] :
            job.data.parts = Partition(order) /\ PartsIn("final", chat, order, Waiting)
  /\ job.cmd = "ner" =>
       /\ arrowOf = Nothing
       /\ \A s \in Split \ Waiting : <<"final", s>> \in DOMAIN files =>
            <<"final_ner", s>> \in DOMAIN files /\ files[<<"final_ner", s>>] = files[<<"final", s>>]
  /\ Parted("final", splitOf) /\ Parted("final_ner", arrowOf)

FilesInv == FilesTypeOK /\ JobOk /\ FilesClean /\ ChatInv /\ CleanInv /\ SplitInv

\* No text is in both the training and the test data.
\* (ner_formatter.py 7: "Split happens BEFORE tokenization to avoid data leakage".)
NoLeakage ==
  arrowOf # Nothing =>
    {Arrow("train")[i].text : i \in DOMAIN Arrow("train")}
      \cap {Arrow("test")[i].text : i \in DOMAIN Arrow("test")} = {}
=============================================================================

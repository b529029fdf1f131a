-------------------------- MODULE TrainingProofs --------------------------
(***************************************************************************)
(* Proofs about the training data, for every set of datasets, every        *)
(* content of the files, every number of programs and wherever they are    *)
(* interrupted: the Arrow datasets are a partition of a chat file,         *)
(* clean_mix loses no file, and no removed entity comes back by way of the *)
(* cleaned directory.  And about the windows of the NER detector, for      *)
(* every text and every size of the windows: no visible character lies     *)
(* outside them.                                                           *)
(***************************************************************************)
EXTENDS DatasetFiles, NerChain, CountingProofs, SequenceTheorems

-----------------------------------------------------------------------------
(***************************************************************************)
(* Facts about the operators.                                              *)
(***************************************************************************)
LEMMA WrittenFacts ==
  ASSUME FilesTypeOK, NEW path \in Path, NEW records \in Seq(Record),
         files' = Written(path, records)
  PROVE  /\ DOMAIN files' = DOMAIN files \cup {path}
         /\ files'[path] = records
         /\ \A p \in DOMAIN files : p # path => files'[p] = files[p]
         /\ DOMAIN files' \subseteq Path /\ IsFiniteSet(DOMAIN files')
         /\ \A p \in DOMAIN files' : files'[p] \in Seq(Record)
<1>1. IsFiniteSet(DOMAIN files \cup {path})
  BY FS_AddElement DEF FilesTypeOK
<1>2. /\ DOMAIN files' = DOMAIN files \cup {path}
      /\ \A p \in DOMAIN files' : files'[p] = IF p = path THEN records ELSE files[p]
  BY DEF Written
<1>3. /\ DOMAIN files \subseteq Path
      /\ \A p \in DOMAIN files : files[p] \in Seq(Record)
  BY DEF FilesTypeOK
<1> HIDE DEF Path, Record
<1> QED BY <1>1, <1>2, <1>3

\* A sorted directory has each of its files once.
LEMMA ListedFacts ==
  ASSUME NEW S, IsFiniteSet(S), \A p \in S : p[2] \in FileName,
         \A p, q \in S : p[2] = q[2] => p = q
  PROVE  /\ Listed(S) \in Seq(S)
         /\ \A i, j \in DOMAIN Listed(S) : Listed(S)[i] = Listed(S)[j] => i = j
         /\ \A p \in S : \E i \in DOMAIN Listed(S) : Listed(S)[i] = p
<1> DEFINE R == {x \in S \X S : <<x[1][2], x[2][2]>> \in ListedBefore}
<1>1. IsOrder(R, S)
  <2>1. \A p, q \in S : <<p, q>> \in R <=> <<p[2], q[2]>> \in ListedBefore
    OBVIOUS
  <2> HIDE DEF R, FileName
  <2>2. \A x \in S : x[2] \in FileName
    OBVIOUS
  <2>3. \A x, y \in S : <<x, y>> \in R \/ <<y, x>> \in R
    <3> SUFFICES ASSUME NEW x \in S, NEW y \in S PROVE <<x, y>> \in R \/ <<y, x>> \in R
      OBVIOUS
    <3>1. x[2] \in FileName /\ y[2] \in FileName
      BY <2>2
    <3>2. <<x[2], y[2]>> \in ListedBefore \/ <<y[2], x[2]>> \in ListedBefore
      BY <3>1, ListingAssumption
    <3> QED BY <2>1, <3>2
  <2>4. \A x, y \in S : <<x, y>> \in R /\ <<y, x>> \in R => x = y
    <3> SUFFICES ASSUME NEW x \in S, NEW y \in S, <<x, y>> \in R, <<y, x>> \in R PROVE x = y
      OBVIOUS
    <3>1. x[2] \in FileName /\ y[2] \in FileName
      BY <2>2
    <3>2. <<x[2], y[2]>> \in ListedBefore /\ <<y[2], x[2]>> \in ListedBefore
      BY <2>1
    <3>3. x[2] = y[2]
      BY <3>1, <3>2, ListingAssumption
    <3> QED BY <3>3
  <2>5. \A x, y, z \in S : <<x, y>> \in R /\ <<y, z>> \in R => <<x, z>> \in R
    <3> SUFFICES ASSUME NEW x \in S, NEW y \in S, NEW z \in S, <<x, y>> \in R, <<y, z>> \in R
                 PROVE  <<x, z>> \in R
      OBVIOUS
    <3>1. <<x[2], y[2]>> \in ListedBefore /\ <<y[2], z[2]>> \in ListedBefore
      BY <2>1
    <3>2. <<x[2], z[2]>> \in ListedBefore
      BY <2>2, <3>1, ListingAssumption
    <3> QED BY <2>1, <3>2
  <2> QED BY <2>3, <2>4, <2>5 DEF IsOrder
<1>2. Listed(S) = InOrder(S, R)
  BY DEF Listed
<1> HIDE DEF R
<1>3. /\ Cardinality(S) \in Nat /\ Listed(S) \in [1..Cardinality(S) -> S]
      /\ \A j, k \in 1..Cardinality(S) : Listed(S)[j] = Listed(S)[k] => j = k
      /\ \A x \in S : \E k \in 1..Cardinality(S) : Listed(S)[k] = x
  BY <1>1, <1>2, InOrderListing
<1> HIDE DEF Listed
<1> QED BY <1>3, SeqDef

\* _filter_entities leaves a record that is in the chat layout or clean.
LEMMA CleanedFacts ==
  ASSUME NEW records \in Seq(Record)
  PROVE  /\ Cleaned(records) \in Seq(Record)
         /\ \A i \in DOMAIN Cleaned(records) : Cleaned(records)[i].dirty => Cleaned(records)[i].chat
<1>1. \A r \in Record : FilterEntities(r) \in Record /\ (FilterEntities(r).dirty => FilterEntities(r).chat)
  BY DEF Record, FilterEntities
<1>2. /\ Len(records) \in Nat /\ DOMAIN records = 1..Len(records)
      /\ \A i \in 1..Len(records) : records[i] \in Record
  OBVIOUS
<1>3. Cleaned(records) \in [1..Len(records) -> Record]
  BY <1>1, <1>2 DEF Cleaned
<1>4. \A i \in DOMAIN Cleaned(records) : Cleaned(records)[i] = FilterEntities(records[i])
  BY <1>2 DEF Cleaned
<1> QED BY <1>1, <1>2, <1>3, <1>4, SeqDef

\* What chat_formatter makes of a file: each record comes from one that had a
\* text.
LEMMA ChatRecordsFacts ==
  ASSUME NEW records \in Seq(Record)
  PROVE  /\ ChatRecords(records) \in Seq(Record)
         /\ \A k \in DOMAIN ChatRecords(records) : \E i \in DOMAIN records :
              ~ records[i].chat /\ ChatRecords(records)[k] = ToChat(records[i])
<1> DEFINE withText == {i \in DOMAIN records : HasText(records[i])}
           R == {x \in withText \X withText : x[1] <= x[2]}
           nth == InOrder(withText, R)
<1>1. /\ Len(records) \in Nat /\ DOMAIN records = 1..Len(records)
      /\ \A i \in DOMAIN records : records[i] \in Record
  OBVIOUS
<1>2. IsFiniteSet(withText) /\ withText \subseteq Nat
  <2>1. IsFiniteSet(1..Len(records))
    BY <1>1, FS_Interval
  <2>2. withText \in SUBSET (1..Len(records))
    BY <1>1
  <2> HIDE DEF withText
  <2>3. IsFiniteSet(withText)
    BY <2>1, <2>2, FS_Subset
  <2> QED BY <2>2, <2>3
<1>3. IsOrder(R, withText)
  <2>1. \A i, j \in withText : <<i, j>> \in R <=> i <= j
    OBVIOUS
  <2> HIDE DEF R, withText
  <2> QED BY <1>2, <2>1 DEF IsOrder
<1>4. Cardinality(withText) \in Nat /\ nth \in [1..Cardinality(withText) -> withText]
  <2> HIDE DEF R, withText
  <2> QED BY <1>2, <1>3, InOrderListing
<1>5. ChatRecords(records) = [k \in DOMAIN nth |-> ToChat(records[nth[k]])]
  BY DEF ChatRecords
<1>6. \A i \in withText : i \in DOMAIN records /\ ~ records[i].chat
  BY DEF HasText
<1>7. \A r \in Record : ToChat(r) \in Record
  BY DEF ToChat, Record
<1> HIDE DEF R, withText, nth
<1>8. ChatRecords(records) \in [1..Cardinality(withText) -> Record]
  BY <1>1, <1>4, <1>5, <1>6, <1>7
<1>9. ChatRecords(records) \in Seq(Record)
  BY <1>4, <1>8, SeqDef
<1>10. ASSUME NEW k \in DOMAIN ChatRecords(records)
       PROVE  nth[k] \in DOMAIN records /\ ~ records[nth[k]].chat
                /\ ChatRecords(records)[k] = ToChat(records[nth[k]])
  BY <1>4, <1>5, <1>6
<1> QED BY <1>9, <1>10

\* The parts of a split follow one another in the shuffled order.
LEMMA PartitionFacts ==
  ASSUME NEW n \in Nat, n >= 6, NEW order \in [1..n -> 1..n]
  PROVE  \E b, c \in 1..n :
           /\ b < c /\ c < n
           /\ Partition(order)["train"] = [k \in 1..b |-> order[k]]
           /\ Partition(order)["val"] = [k \in 1..(c - b) |-> order[b + k]]
           /\ Partition(order)["test"] = [k \in 1..(n - c) |-> order[c + k]]
<1> DEFINE rest == (n + 4) \div 5
           test == (rest + 1) \div 2
           b == n - rest
           c == n - test
<1>1. rest \in Nat /\ rest >= 2 /\ rest < n
  OBVIOUS
<1>2. test \in Nat /\ test >= 1 /\ test < rest
  <2> HIDE DEF rest
  <2> QED BY <1>1
<1>3. order \in Seq(1..n) /\ Len(order) = n
  OBVIOUS
<1>4. Partition(order) = [train |-> SubSeq(order, 1, b), val |-> SubSeq(order, b + 1, c),
                          test |-> SubSeq(order, c + 1, n)]
  BY <1>3 DEF Partition
<1> HIDE DEF rest, test
<1>5. b \in 1..n /\ c \in 1..n /\ b < c /\ c < n
  BY <1>1, <1>2
<1> HIDE DEF b, c
<1>6. SubSeq(order, 1, b) = [k \in 1..b |-> order[k]]
  BY <1>3, <1>5
<1>7. SubSeq(order, b + 1, c) = [k \in 1..(c - b) |-> order[b + k]]
  BY <1>3, <1>5
<1>8. SubSeq(order, c + 1, n) = [k \in 1..(n - c) |-> order[c + k]]
  BY <1>3, <1>5
<1>9. /\ Partition(order)["train"] = SubSeq(order, 1, b)
      /\ Partition(order)["val"] = SubSeq(order, b + 1, c)
      /\ Partition(order)["test"] = SubSeq(order, c + 1, n)
  <2> DEFINE t == SubSeq(order, 1, b)
             v == SubSeq(order, b + 1, c)
             u == SubSeq(order, c + 1, n)
  <2> HIDE DEF t, v, u
  <2>1. Partition(order) = [train |-> t, val |-> v, test |-> u]
    BY <1>4 DEF t, v, u
  <2>2. Partition(order)["train"] = t /\ Partition(order)["val"] = v /\ Partition(order)["test"] = u
    BY <2>1
  <2> QED BY <2>2 DEF t, v, u
<1> HIDE DEF Partition
<1>10. /\ Partition(order)["train"] = [k \in 1..b |-> order[k]]
       /\ Partition(order)["val"] = [k \in 1..(c - b) |-> order[b + k]]
       /\ Partition(order)["test"] = [k \in 1..(n - c) |-> order[c + k]]
  BY <1>6, <1>7, <1>8, <1>9
<1> QED BY <1>5, <1>10

LEMMA HistoryFacts == \A x : Nothing # [records |-> x]
BY DEF Nothing

\* Which paths there are.
LEMMA PathFacts ==
  /\ \A n \in Stem : <<"processed", <<n>>>> \in Path /\ <<"synthetic", <<n>>>> \in Path
  /\ \A n \in Stem : <<"cleaned", <<n>>>> \in Path
  /\ \A n \in Stem, d \in Read : <<"cleaned", <<n, d>>>> \in Path
  /\ \A s \in Split : <<"final", s>> \in Path /\ <<"final_ner", s>> \in Path
  /\ Chat \in Path /\ Source \subseteq Stem
BY DEF Path, OwnName, FileName, Stem, Read, Chat

LEMMA FilePathFacts ==
  ASSUME NEW p \in Path, p[1] \in Read
  PROVE  /\ p[2][1] \in Stem /\ p[2] = <<p[2][1]>> /\ p = <<p[1], p[2]>>
         /\ p[2] \in FileName
BY DEF Path, OwnName, Read, FileName

LEMMA CleanedPathFacts ==
  ASSUME NEW p \in Path, p[1] = "cleaned"
  PROVE  p[2] \in FileName /\ p = <<p[1], p[2]>>
BY DEF Path, OwnName, Read, FileName

\* The files of a directory are finitely many and listed once each.
LEMMA DirectoryFacts ==
  ASSUME FilesTypeOK, NEW d \in Read \cup {"cleaned"}, NEW S \in SUBSET In(d)
  PROVE  /\ Listed(S) \in Seq(S)
         /\ \A i, j \in DOMAIN Listed(S) : Listed(S)[i] = Listed(S)[j] => i = j
         /\ \A p \in S : \E i \in DOMAIN Listed(S) : Listed(S)[i] = p
<1>1. S \in SUBSET DOMAIN files /\ \A p \in S : p \in Path /\ p[1] = d
  BY DEF In, FilesTypeOK
<1>2. IsFiniteSet(S)
  BY <1>1, FS_Subset DEF FilesTypeOK
<1>3. \A p \in S : p[2] \in FileName /\ p = <<p[1], p[2]>>
  BY <1>1, FilePathFacts, CleanedPathFacts
<1>4. \A p, q \in S : p[2] = q[2] => p = q
  BY <1>1, <1>3
<1> QED BY <1>2, <1>3, <1>4, ListedFacts

\* A write leaves the other directories alone.
LEMMA OtherDirectories ==
  ASSUME FilesTypeOK, NEW path \in Path, NEW records \in Seq(Record),
         files' = Written(path, records), NEW d, path[1] # d
  PROVE  In(d)' = In(d) /\ \A p \in In(d) : files'[p] = files[p]
BY WrittenFacts DEF In

\* What is left of a list of several.
LEMMA TailFacts ==
  ASSUME NEW T, NEW q \in Seq(T), Len(q) # 1, q # <<>>
  PROVE  /\ Tail(q) \in Seq(T) /\ Tail(q) # <<>> /\ DOMAIN Tail(q) = 1..(Len(q) - 1)
         /\ \A i \in DOMAIN Tail(q) : i + 1 \in DOMAIN q /\ Tail(q)[i] = q[i + 1]
<1>1. Len(q) \in Nat /\ Len(q) # 0 /\ DOMAIN q = 1..Len(q)
  OBVIOUS
<1>2. Tail(q) \in Seq(T) /\ Len(Tail(q)) = Len(q) - 1
  OBVIOUS
<1>3. DOMAIN Tail(q) = 1..(Len(q) - 1)
  BY <1>2
<1>4. \A i \in 1..(Len(q) - 1) : i + 1 \in DOMAIN q /\ Tail(q)[i] = q[i + 1]
  BY <1>1
<1>5. Tail(q) # <<>>
  <2>1. Len(Tail(q)) # 0
    BY <1>1, <1>2
  <2> QED BY <1>2, <2>1, EmptySeq
<1> QED BY <1>2, <1>3, <1>4, <1>5

\* The last file of a job, or one of several.
LEMMA ProceedFacts ==
  ASSUME NEW T, job.todo \in Seq(T), job.todo # <<>>, Proceed,
         job = [cmd |-> job.cmd, todo |-> job.todo, data |-> job.data]
  PROVE  /\ Head(job.todo) \in T /\ 1 \in DOMAIN job.todo /\ Head(job.todo) = job.todo[1]
         /\ \/ /\ LastOne /\ job' = Idle /\ Waiting = {Head(job.todo)}
            \/ /\ ~ LastOne /\ job' = [cmd |-> job.cmd, todo |-> Tail(job.todo), data |-> job.data]
               /\ Tail(job.todo) \in Seq(T) /\ Tail(job.todo) # <<>>
               /\ DOMAIN Tail(job.todo) = 1..(Len(job.todo) - 1)
               /\ \A i \in DOMAIN Tail(job.todo) :
                    i + 1 \in DOMAIN job.todo /\ Tail(job.todo)[i] = job.todo[i + 1]
               /\ Waiting' = Waiting \ {Head(job.todo)} \/ Head(job.todo) \in Waiting'
               /\ Waiting \subseteq Waiting' \cup {Head(job.todo)}
<1>1. /\ Len(job.todo) \in Nat /\ Len(job.todo) >= 1 /\ DOMAIN job.todo = 1..Len(job.todo)
      /\ Head(job.todo) \in T /\ Head(job.todo) = job.todo[1]
  OBVIOUS
<1>2. CASE LastOne
  <2>1. job' = Idle
    BY <1>2 DEF Proceed, LastOne
  <2>2. Waiting = {Head(job.todo)}
    BY <1>1, <1>2 DEF Waiting, LastOne
  <2> QED BY <1>1, <1>2, <2>1, <2>2
<1>3. CASE ~ LastOne
  <2>1. job' = [cmd |-> job.cmd, todo |-> Tail(job.todo), data |-> job.data]
    BY <1>3 DEF Proceed, LastOne
  <2>2. /\ Tail(job.todo) \in Seq(T) /\ Tail(job.todo) # <<>>
        /\ DOMAIN Tail(job.todo) = 1..(Len(job.todo) - 1)
        /\ \A i \in DOMAIN Tail(job.todo) :
             i + 1 \in DOMAIN job.todo /\ Tail(job.todo)[i] = job.todo[i + 1]
    BY <1>1, <1>3, TailFacts DEF LastOne
  <2>3. job'.todo = Tail(job.todo)
    BY <2>1
  <2>4. Waiting' = {Tail(job.todo)[i] : i \in DOMAIN Tail(job.todo)}
    BY <2>3 DEF Waiting
  <2>5. Waiting \subseteq Waiting' \cup {Head(job.todo)}
    <3> SUFFICES ASSUME NEW i \in DOMAIN job.todo, i # 1 PROVE job.todo[i] \in Waiting'
      BY <1>1 DEF Waiting
    <3>1. i - 1 \in DOMAIN Tail(job.todo) /\ Tail(job.todo)[i - 1] = job.todo[i]
      BY <1>1, <2>2, SMTT(30)
    <3> QED BY <3>1, <2>4
  <2>6. Waiting' \subseteq Waiting
    <3> SUFFICES ASSUME NEW i \in DOMAIN Tail(job.todo) PROVE Tail(job.todo)[i] \in Waiting
      BY <2>4
    <3> QED BY <2>2 DEF Waiting
  <2> QED BY <1>1, <1>3, <2>1, <2>2, <2>5, <2>6
<1> QED BY <1>2, <1>3

-----------------------------------------------------------------------------
(***************************************************************************)
(* The parts of the invariant that a step does not disturb.                *)
(***************************************************************************)
\* The files of these directories are still there, with the same records.
Kept(dirs) == \A p \in DOMAIN files : p[1] \in dirs => p \in DOMAIN files' /\ files'[p] = files[p]

\* No file was written in these directories.
Untouched(dirs) == Kept(dirs) /\ \A p \in DOMAIN files' : p[1] \in dirs => p \in DOMAIN files

LEMMA WrittenElsewhere ==
  ASSUME FilesTypeOK, NEW path \in Path, NEW records \in Seq(Record),
         files' = Written(path, records), NEW dirs, path[1] \notin dirs
  PROVE  Untouched(dirs)
<1>1. /\ DOMAIN files' = DOMAIN files \cup {path}
      /\ \A p \in DOMAIN files : p # path => files'[p] = files[p]
  BY WrittenFacts
<1> QED BY <1>1 DEF Untouched, Kept

LEMMA FilesUnchanged ==
  ASSUME UNCHANGED files, NEW dirs
  PROVE  Untouched(dirs)
BY DEF Untouched, Kept

LEMMA CleanKept ==
  ASSUME FilesClean, Untouched({"synthetic", "cleaned"})
  PROVE  FilesClean'
<1>1. \A p \in DOMAIN files' : p[1] \in {"synthetic", "cleaned"} =>
        p \in DOMAIN files /\ files'[p] = files[p]
  BY DEF Untouched, Kept
<1>2. /\ <<"synthetic", <<"synthetic">>>>[1] = "synthetic"
      /\ <<"synthetic", <<"hard_negatives">>>>[1] = "synthetic"
  OBVIOUS
<1> QED BY <1>1, <1>2 DEF FilesClean, In

LEMMA ChatInvKept ==
  ASSUME ChatInv, UNCHANGED chatDir, job'.cmd # "chat",
         Chat \in DOMAIN files => Chat \in DOMAIN files' /\ files'[Chat] = files[Chat]
  PROVE  ChatInv'
BY DEF ChatInv, FromPack

LEMMA CopiedKept ==
  ASSUME Kept({"cleaned"}), NEW p, NEW records, Copied(p, records)
  PROVE  Copied(p, records)'
BY DEF Kept, Copied

LEMMA CleanInvKept ==
  ASSUME CleanInv, UNCHANGED cleanOf, job'.cmd # "clean", Kept({"cleaned"})
  PROVE  CleanInv'
<1> SUFFICES ASSUME cleanOf # Nothing, NEW p \in DOMAIN cleanOf.records, cleanOf.records[p] # <<>>
             PROVE  Copied(p, cleanOf.records[p])'
  BY DEF CleanInv
<1> QED BY CopiedKept DEF CleanInv

LEMMA SplitInvKept ==
  ASSUME SplitInv, UNCHANGED <<splitOf, arrowOf>>, job'.cmd \notin {"split", "ner"},
         Kept({"final", "final_ner"})
  PROVE  SplitInv'
<1>1. Parted("final", splitOf)'
  BY DEF SplitInv, Parted, PartsIn, Kept
<1>2. Parted("final_ner", arrowOf)'
  BY DEF SplitInv, Parted, PartsIn, Kept
<1> QED BY <1>1, <1>2 DEF SplitInv

\* A job that is over, or one that has not begun.
LEMMA IdleFacts ==
  /\ Idle.cmd = "none" /\ Idle.todo = <<>>
  /\ Idle = [cmd |-> Idle.cmd, todo |-> Idle.todo, data |-> Idle.data]
BY DEF Idle

LEMMA IdleJobOk == ASSUME job' = Idle PROVE JobOk'
BY IdleFacts DEF JobOk

-----------------------------------------------------------------------------
(***************************************************************************)
(* Downloads, conversion and the generators.                               *)
(***************************************************************************)
LEMMA NamesApart ==
  /\ \A s \in Source : <<"processed", <<s>>>> # Chat
  /\ \A q : <<"synthetic", q>> # Chat /\ <<"cleaned", q>> # Chat
  /\ \A q : <<"final", q>> # Chat /\ <<"final_ner", q>> # Chat
  /\ Chat[1] = "processed" /\ Chat[2] = <<"chat_formatted">>
BY FilesAssumption DEF Chat

\* The files keep their types, and the job, if it is over or has only begun.
LEMMA TypeOfWritten ==
  ASSUME FilesTypeOK, NEW path \in Path, NEW records \in Seq(Record),
         files' = Written(path, records), UNCHANGED downloaded, programs' \in 0..MaxPrograms,
         job'.cmd \in {"none", "convert", "clean", "chat", "split", "ner"},
         job'.cmd = "none" => job' = Idle
  PROVE  FilesTypeOK'
BY WrittenFacts DEF FilesTypeOK

LEMMA StartedFacts ==
  ASSUME FilesTypeOK, Started
  PROVE  job = Idle /\ job.cmd = "none" /\ programs' \in 0..MaxPrograms
BY FilesAssumption, IdleFacts DEF Started, FilesTypeOK

LEMMA DownloadInv ==
  ASSUME FilesInv, NEW s \in Source, Download(s)
  PROVE  FilesInv'
<1> USE DEF FilesInv
<1>1. job = Idle /\ job' = Idle /\ job'.cmd = "none" /\ programs' \in 0..MaxPrograms
  BY StartedFacts, IdleFacts DEF Download
<1>2. UNCHANGED <<files, splitOf, arrowOf, cleanOf, chatDir>>
  BY DEF Download
<1>3. FilesTypeOK'
  BY <1>1, <1>2 DEF FilesTypeOK, Download
<1>4. Untouched({"synthetic", "cleaned"}) /\ Kept({"cleaned"}) /\ Kept({"final", "final_ner"})
  BY <1>2, FilesUnchanged DEF Untouched
<1> QED BY <1>1, <1>2, <1>3, <1>4, IdleJobOk, CleanKept, ChatInvKept, CleanInvKept, SplitInvKept

\* What a list says of the job that begins with it.
LEMMA BeginFacts ==
  ASSUME NEW cmd, NEW list, NEW data, Begin(cmd, list, data)
  PROVE  \/ list = <<>> /\ job' = Idle /\ job'.cmd = "none"
         \/ list # <<>> /\ job' = [cmd |-> cmd, todo |-> list, data |-> data]
BY IdleFacts DEF Begin

LEMMA ConvertAllInv ==
  ASSUME FilesInv, ConvertAll
  PROVE  FilesInv'
<1> USE DEF FilesInv
<1> DEFINE there == {t \in Source : downloaded[t] # "absent"}
           sources == {<<"raw", <<s>>>> : s \in there}
           list == Listed(sources)
<1>1. job = Idle /\ programs' \in 0..MaxPrograms /\ Begin("convert", list, <<>>)
  BY StartedFacts DEF ConvertAll
<1>2. UNCHANGED <<downloaded, files, splitOf, arrowOf, cleanOf, chatDir>>
  BY DEF ConvertAll
<1>3. list \in Seq(sources)
  <2>1. IsFiniteSet(there)
    BY FilesAssumption, FS_Subset
  <2>2. IsFiniteSet(sources)
    <3> DEFINE f == [s \in there |-> <<"raw", <<s>>>>]
    <3>1. f \in Surjection(there, sources)
      BY DEF Surjection
    <3> HIDE DEF f, there, sources
    <3> QED BY <2>1, <3>1, FS_Surjection
  <2>3. \A p \in sources : p[2] \in FileName /\ p = <<"raw", p[2]>>
    BY DEF FileName, OwnName, Stem
  <2>4. \A p, q \in sources : p[2] = q[2] => p = q
    <3> HIDE DEF sources
    <3> QED BY <2>3
  <2> HIDE DEF sources
  <2> QED BY <2>2, <2>3, <2>4, ListedFacts
<1>4. list \in Seq({"raw"} \X {<<s>> : s \in Source})
  <2>1. sources \subseteq {"raw"} \X {<<s>> : s \in Source}
    OBVIOUS
  <2> HIDE DEF sources, list
  <2> QED BY <1>3, <2>1, SeqMonotonic
<1> HIDE DEF list
<1>5. /\ job'.cmd \in {"none", "convert"} /\ (job'.cmd = "none" => job' = Idle) /\ JobOk'
  <2>1. CASE list = <<>> /\ job' = Idle /\ job'.cmd = "none"
    BY <2>1, IdleJobOk
  <2>2. CASE list # <<>> /\ job' = [cmd |-> "convert", todo |-> list, data |-> <<>>]
    BY <1>4, <2>2 DEF JobOk
  <2> QED BY <1>1, <2>1, <2>2, BeginFacts
<1>6. FilesTypeOK'
  BY <1>1, <1>2, <1>5 DEF FilesTypeOK
<1>7. Untouched({"synthetic", "cleaned"}) /\ Kept({"cleaned"}) /\ Kept({"final", "final_ner"})
  BY <1>2, FilesUnchanged DEF Untouched
<1> QED BY <1>2, <1>5, <1>6, <1>7, CleanKept, ChatInvKept, CleanInvKept, SplitInvKept

\* A job of cmd after one of its files: over, or with the rest still to do.
LEMMA NextOfJob ==
  ASSUME JobOk, NEW T, job.todo \in Seq(T), job.todo # <<>>, Proceed
  PROVE  \/ job' = Idle /\ job'.cmd = "none"
         \/ job' = [cmd |-> job.cmd, todo |-> Tail(job.todo), data |-> job.data] /\ job'.cmd = job.cmd
BY ProceedFacts, IdleFacts DEF JobOk

LEMMA ConvertStepInv ==
  ASSUME FilesInv, ConvertStep
  PROVE  FilesInv'
<1> USE DEF FilesInv
<1> DEFINE s == Head(job.todo)[2][1]
           T == {"raw"} \X {<<t>> : t \in Source}
           records == IF downloaded[s] = "loaded" THEN Examples[s] ELSE <<>>
           path == <<"processed", <<s>>>>
<1>1. /\ UNCHANGED <<downloaded, programs, splitOf, arrowOf, cleanOf, chatDir>>
      /\ files' = Written(path, records) /\ Proceed /\ job.cmd = "convert"
  BY DEF ConvertStep
<1>2. job.todo \in Seq(T) /\ job.todo # <<>>
  BY <1>1 DEF JobOk
<1>3. s \in Source
  <2>1. Head(job.todo) \in T
    <3> HIDE DEF T
    <3> QED BY <1>2
  <2> QED BY <2>1
<1>4. records \in Seq(Record)
  <2>1. Seq(NewRecord) \subseteq Seq(Record)
    BY SeqMonotonic DEF NewRecord, Record
  <2> HIDE DEF s
  <2> QED BY <1>3, <2>1, FilesAssumption
<1>5. path \in Path /\ path # Chat /\ path[1] = "processed"
  BY <1>3, PathFacts, NamesApart
<1> HIDE DEF path, records, s, T
<1>6. Untouched({"synthetic", "cleaned"}) /\ Kept({"cleaned"}) /\ Kept({"final", "final_ner"})
  BY <1>1, <1>4, <1>5, WrittenElsewhere DEF Untouched
<1>7. Chat \in DOMAIN files => Chat \in DOMAIN files' /\ files'[Chat] = files[Chat]
  BY <1>1, <1>4, <1>5, WrittenFacts
<1>8. /\ job'.cmd \in {"none", "convert"} /\ (job'.cmd = "none" => job' = Idle) /\ JobOk'
  <2>1. CASE job' = Idle /\ job'.cmd = "none"
    BY <2>1, IdleJobOk
  <2>2. CASE job' = [cmd |-> job.cmd, todo |-> Tail(job.todo), data |-> job.data] /\ ~ job' = Idle
    <3>1. Tail(job.todo) \in Seq(T) /\ Tail(job.todo) # <<>>
      BY <1>1, <1>2, <2>2, ProceedFacts DEF JobOk
    <3> QED BY <1>1, <2>2, <3>1 DEF JobOk, T
  <2> QED BY <1>1, <1>2, <2>1, <2>2, NextOfJob, IdleFacts
<1>9. FilesTypeOK'
  BY <1>1, <1>4, <1>5, <1>8, TypeOfWritten DEF FilesTypeOK
<1> QED BY <1>1, <1>6, <1>7, <1>8, <1>9, CleanKept, ChatInvKept, CleanInvKept, SplitInvKept

LEMMA GenerateInv ==
  ASSUME FilesInv,
         NEW name \in {"synthetic", "hard_negatives", "boundary_hard"}, NEW packs,
         \/ name = "synthetic" /\ packs = SyntheticPacks
         \/ name = "hard_negatives" /\ packs = HardNegativePacks
         \/ name = "boundary_hard" /\ packs = BoundaryHardPacks,
         Generate(name, packs)
  PROVE  FilesInv'
<1> USE DEF FilesInv
<1> DEFINE path == <<"synthetic", <<name>>>>
<1>1. PICK pack \in packs : files' = Written(path, pack)
  BY DEF Generate
<1>2. /\ UNCHANGED <<downloaded, job, splitOf, arrowOf, cleanOf, chatDir>>
      /\ job = Idle /\ job' = Idle /\ job'.cmd = "none" /\ programs' \in 0..MaxPrograms
  BY StartedFacts, IdleFacts DEF Generate
<1>3. pack \in Seq(Record)
  <2>1. pack \in Seq(NewRecord)
    BY FilesAssumption
  <2> QED BY <2>1, SeqMonotonic DEF NewRecord, Record
<1>4. path \in Path /\ path # Chat /\ path[1] = "synthetic"
  BY PathFacts, NamesApart DEF Stem
<1>5. Kept({"cleaned"}) /\ Kept({"final", "final_ner"})
  <2> HIDE DEF path
  <2> QED BY <1>1, <1>3, <1>4, WrittenElsewhere DEF Untouched
<1>6. FilesClean'
  <2>1. /\ files'[path] = pack /\ \A p \in DOMAIN files' : p # path => p \in DOMAIN files /\ files'[p] = files[p]
    <3> HIDE DEF path
    <3> QED BY <1>1, <1>3, <1>4, WrittenFacts, ZenonT(60)
  <2>2. \A p \in DOMAIN files' : p = <<"synthetic", <<"synthetic">>>> => files'[p] \in SyntheticPacks
    BY <2>1 DEF FilesClean
  <2>3. \A p \in DOMAIN files' :
          p = <<"synthetic", <<"hard_negatives">>>> => files'[p] \in HardNegativePacks
    BY <2>1 DEF FilesClean
  <2>4. \A p \in DOMAIN files' : p[1] = "cleaned" => p \in DOMAIN files /\ files'[p] = files[p]
    BY <2>1, <1>4
  <2> QED BY <2>2, <2>3, <2>4 DEF FilesClean, In
<1> HIDE DEF path
<1>7. Chat \in DOMAIN files => Chat \in DOMAIN files' /\ files'[Chat] = files[Chat]
  BY <1>1, <1>3, <1>4, WrittenFacts
<1>8. FilesTypeOK'
  BY <1>1, <1>2, <1>3, <1>4, TypeOfWritten
<1> QED BY <1>2, <1>5, <1>6, <1>7, <1>8, IdleJobOk, ChatInvKept, CleanInvKept, SplitInvKept

LEMMA ValidateAndFilterInv ==
  ASSUME FilesInv, ValidateAndFilter
  PROVE  FilesInv'
<1> USE DEF FilesInv
<1> DEFINE from == <<"synthetic", <<"boundary_hard">>>>
           path == <<"synthetic", <<"boundary_hard_clean">>>>
<1>1. from \in DOMAIN files /\ files' = Written(path, files[from])
  BY DEF ValidateAndFilter
<1>2. /\ UNCHANGED <<downloaded, job, splitOf, arrowOf, cleanOf, chatDir>>
      /\ job = Idle /\ job' = Idle /\ job'.cmd = "none" /\ programs' \in 0..MaxPrograms
  BY StartedFacts, IdleFacts DEF ValidateAndFilter
<1>3. files[from] \in Seq(Record)
  BY <1>1 DEF FilesTypeOK
<1>4. path \in Path /\ path # Chat /\ path[1] = "synthetic"
  BY PathFacts, NamesApart DEF Stem
<1>5. Kept({"cleaned"}) /\ Kept({"final", "final_ner"})
  <2> HIDE DEF path
  <2> QED BY <1>1, <1>3, <1>4, WrittenElsewhere DEF Untouched
<1>6. FilesClean'
  <2>1. \A p \in DOMAIN files' : p # path => p \in DOMAIN files /\ files'[p] = files[p]
    <3> HIDE DEF path, from
    <3> DEFINE records == files[from]
    <3>1. files' = Written(path, records) /\ records \in Seq(Record) /\ path \in Path
      BY <1>1, <1>3, <1>4
    <3> HIDE DEF records
    <3>2. /\ DOMAIN files' = DOMAIN files \cup {path}
          /\ \A p \in DOMAIN files : p # path => files'[p] = files[p]
      BY <3>1, WrittenFacts
    <3> QED BY <3>2
  <2>2. path # <<"synthetic", <<"synthetic">>>> /\ path # <<"synthetic", <<"hard_negatives">>>>
    OBVIOUS
  <2>3. path[1] # "cleaned"
    OBVIOUS
  <2> HIDE DEF path
  <2> QED BY <2>1, <2>2, <2>3 DEF FilesClean, In
<1> HIDE DEF path, from
<1>7. Chat \in DOMAIN files => Chat \in DOMAIN files' /\ files'[Chat] = files[Chat]
  BY <1>1, <1>3, <1>4, WrittenFacts
<1>8. FilesTypeOK'
  BY <1>1, <1>2, <1>3, <1>4, TypeOfWritten
<1> QED BY <1>2, <1>5, <1>6, <1>7, <1>8, IdleJobOk, ChatInvKept, CleanInvKept, SplitInvKept

\* A program that is interrupted leaves its files as they are.
LEMMA InterruptInv ==
  ASSUME FilesInv, Interrupt
  PROVE  FilesInv'
<1> USE DEF FilesInv
<1>1. /\ UNCHANGED <<downloaded, files, programs, splitOf, arrowOf, cleanOf, chatDir>>
      /\ job' = Idle /\ job'.cmd = "none"
  BY IdleFacts DEF Interrupt
<1>2. FilesTypeOK'
  BY <1>1 DEF FilesTypeOK
<1>3. Untouched({"synthetic", "cleaned"}) /\ Kept({"cleaned"}) /\ Kept({"final", "final_ner"})
  BY <1>1, FilesUnchanged DEF Untouched
<1> QED BY <1>1, <1>2, <1>3, IdleJobOk, CleanKept, ChatInvKept, CleanInvKept, SplitInvKept

-----------------------------------------------------------------------------
(***************************************************************************)
(* clean_mix.                                                              *)
(***************************************************************************)
LEMMA ConcatOfLists ==
  ASSUME NEW A, NEW B, NEW q \in Seq(A), NEW r \in Seq(B)
  PROVE  /\ q \o r \in Seq(A \cup B)
         /\ \A i \in DOMAIN (q \o r) :
              \/ i \in DOMAIN q /\ (q \o r)[i] = q[i]
              \/ i \notin DOMAIN q /\ i - Len(q) \in DOMAIN r /\ (q \o r)[i] = r[i - Len(q)]
         /\ \A i \in DOMAIN q : i \in DOMAIN (q \o r) /\ (q \o r)[i] = q[i]
         /\ \A i \in DOMAIN r : Len(q) + i \in DOMAIN (q \o r) /\ (q \o r)[Len(q) + i] = r[i]
<1>1. q \in Seq(A \cup B) /\ r \in Seq(A \cup B)
  BY SeqMonotonic
<1>2. /\ q \o r \in Seq(A \cup B) /\ Len(q) \in Nat /\ Len(r) \in Nat /\ Len(q \o r) = Len(q) + Len(r)
      /\ \A i \in 1..(Len(q) + Len(r)) : (q \o r)[i] = IF i <= Len(q) THEN q[i] ELSE r[i - Len(q)]
  BY <1>1
<1>3. DOMAIN q = 1..Len(q) /\ DOMAIN r = 1..Len(r) /\ DOMAIN (q \o r) = 1..(Len(q) + Len(r))
  BY <1>2
<1> QED BY <1>2, <1>3

LEMMA CleanMixInv ==
  ASSUME FilesInv, CleanMix
  PROVE  FilesInv'
<1> USE DEF FilesInv
<1> DEFINE A == In("processed")
           B == In("synthetic")
           list == Listed(A) \o Listed(B)
           data == [p \in A \cup B |-> files[p]]
<1>1. /\ UNCHANGED <<downloaded, files, splitOf, arrowOf, chatDir>> /\ cleanOf' = Nothing
      /\ job = Idle /\ programs' \in 0..MaxPrograms /\ Begin("clean", list, data)
  BY StartedFacts DEF CleanMix
<1>2. /\ Listed(A) \in Seq(A) /\ Listed(B) \in Seq(B)
      /\ \A i, j \in DOMAIN Listed(A) : Listed(A)[i] = Listed(A)[j] => i = j
      /\ \A i, j \in DOMAIN Listed(B) : Listed(B)[i] = Listed(B)[j] => i = j
      /\ \A p \in A : \E i \in DOMAIN Listed(A) : Listed(A)[i] = p
      /\ \A p \in B : \E i \in DOMAIN Listed(B) : Listed(B)[i] = p
  BY DirectoryFacts DEF Read
<1>3. A \cap B = {}
  BY DEF In
<1> HIDE DEF A, B
<1>4. /\ list \in Seq(A \cup B)
      /\ \A p \in A \cup B : \E i \in DOMAIN list : list[i] = p
  <2>1. /\ list \in Seq(A \cup B)
        /\ \A i \in DOMAIN Listed(A) : i \in DOMAIN list /\ list[i] = Listed(A)[i]
        /\ \A i \in DOMAIN Listed(B) :
             Len(Listed(A)) + i \in DOMAIN list /\ list[Len(Listed(A)) + i] = Listed(B)[i]
    BY <1>2, ConcatOfLists
  <2> HIDE DEF list
  <2>2. ASSUME NEW p \in A PROVE \E i \in DOMAIN list : list[i] = p
    BY <1>2, <2>1
  <2>3. ASSUME NEW p \in B PROVE \E i \in DOMAIN list : list[i] = p
    <3>1. PICK i \in DOMAIN Listed(B) : Listed(B)[i] = p
      BY <1>2
    <3> QED BY <2>1, <3>1
  <2> QED BY <2>1, <2>2, <2>3
<1>5. \A i, j \in DOMAIN list : list[i] = list[j] => i = j
  <2> DEFINE q == Listed(A)
             r == Listed(B)
  <2>1. /\ Len(q) \in Nat /\ \A i \in DOMAIN q : q[i] \in A
        /\ \A i \in DOMAIN r : r[i] \in B
    BY <1>2
  <2>2. \A i \in DOMAIN list :
          /\ i \in Nat
          /\ \/ i \in DOMAIN q /\ list[i] = q[i]
             \/ i \notin DOMAIN q /\ i - Len(q) \in DOMAIN r /\ list[i] = r[i - Len(q)]
    BY <1>2, <1>4, ConcatOfLists
  <2> HIDE DEF q, r, list
  <2> SUFFICES ASSUME NEW i \in DOMAIN list, NEW j \in DOMAIN list, list[i] = list[j] PROVE i = j
    OBVIOUS
  <2>3. CASE i \in DOMAIN q /\ j \in DOMAIN q
    BY <1>2, <2>2, <2>3 DEF q
  <2>4. CASE i \notin DOMAIN q /\ j \notin DOMAIN q
    <3>1. i - Len(q) = j - Len(q)
      BY <1>2, <2>2, <2>4 DEF r
    <3> QED BY <2>1, <2>2, <3>1
  <2> QED BY <1>3, <2>1, <2>2, <2>3, <2>4
<1> HIDE DEF list
<1>6. /\ job'.cmd \in {"none", "clean"} /\ (job'.cmd = "none" => job' = Idle) /\ JobOk'
      /\ job'.cmd = "clean" => job'.data = data /\ Waiting' = A \cup B
  <2>1. CASE list = <<>> /\ job' = Idle /\ job'.cmd = "none"
    BY <2>1, IdleJobOk
  <2>2. CASE list # <<>> /\ job' = [cmd |-> "clean", todo |-> list, data |-> data]
    <3>1. In("processed")' = A /\ In("synthetic")' = B
      BY <1>1 DEF In, A, B
    <3>2. job'.todo = list /\ job'.cmd = "clean" /\ job'.data = data
      BY <2>2
    <3>3. Waiting' = A \cup B
      <4>1. \A i \in DOMAIN list : list[i] \in A \cup B
        BY <1>4
      <4> QED BY <1>4, <3>2, <4>1 DEF Waiting
    <3>4. data = [p \in In("processed") \cup In("synthetic") |-> files[p]]'
      BY <1>1, <3>1
    <3> HIDE DEF data
    <3>5. JobOk'
      BY <1>4, <1>5, <2>2, <3>1, <3>2, <3>4 DEF JobOk
    <3> QED BY <3>2, <3>3, <3>5
  <2> QED BY <1>1, <2>1, <2>2, BeginFacts
<1>7. CleanInv'
  BY <1>1, <1>6 DEF CleanInv
<1>8. FilesTypeOK'
  BY <1>1, <1>6 DEF FilesTypeOK
<1>9. Untouched({"synthetic", "cleaned"}) /\ Kept({"final", "final_ner"})
  BY <1>1, FilesUnchanged DEF Untouched
<1> QED BY <1>1, <1>6, <1>7, <1>8, <1>9, CleanKept, ChatInvKept, SplitInvKept

\* The name that a copy gets is its own: either it was free, or no other file
\* is copied to it.
LEMMA CleanPathFacts ==
  ASSUME NEW p \in Path, p[1] \in Read
  PROVE  /\ CleanPath(p) \in Path /\ CleanPath(p)[1] = "cleaned"
         /\ CleanPath(p) \in {<<"cleaned", p[2]>>, <<"cleaned", <<p[2][1], p[1]>>>>}
         /\ \A q \in Path : q[1] \in Read /\ q # p =>
              \A x \in {<<"cleaned", q[2]>>, <<"cleaned", <<q[2][1], q[1]>>>>} \cap DOMAIN files :
                CleanPath(p) # x
<1>1. /\ p[2][1] \in Stem /\ p[2] = <<p[2][1]>> /\ p = <<p[1], p[2]>>
  BY FilePathFacts
<1>2. CleanPath(p) \in Path /\ CleanPath(p)[1] = "cleaned"
  <2>1. <<"cleaned", p[2]>> \in Path
    BY <1>1, PathFacts
  <2>2. <<"cleaned", <<p[2][1], p[1]>>>> \in Path
    BY <1>1, PathFacts
  <2> QED BY <2>1, <2>2 DEF CleanPath
<1>3. ASSUME NEW q \in Path, q[1] \in Read, q # p,
             NEW x \in {<<"cleaned", q[2]>>, <<"cleaned", <<q[2][1], q[1]>>>>} \cap DOMAIN files
      PROVE  CleanPath(p) # x
  <2>1. q[2] = <<q[2][1]>> /\ q = <<q[1], q[2]>>
    BY <1>3, FilePathFacts
  <2>2. CASE <<"cleaned", p[2]>> \notin DOMAIN files
    BY <1>3, <2>2 DEF CleanPath
  <2>3. CASE <<"cleaned", p[2]>> \in DOMAIN files
    <3>1. CleanPath(p) = <<"cleaned", <<p[2][1], p[1]>>>>
      BY <2>3 DEF CleanPath
    <3>2. \A a, b, c : <<a, b>> # <<c>>
      OBVIOUS
    <3>3. <<"cleaned", <<p[2][1], p[1]>>>> # <<"cleaned", q[2]>>
      BY <2>1, <3>2
    <3>4. <<p[2][1], p[1]>> # <<q[2][1], q[1]>>
      BY <1>1, <1>3, <2>1
    <3> QED BY <1>3, <3>1, <3>3, <3>4
  <2> QED BY <2>2, <2>3
<1> QED BY <1>2, <1>3 DEF CleanPath

LEMMA CleanStepInv ==
  ASSUME FilesInv, CleanStep
  PROVE  FilesInv'
<1> USE DEF FilesInv
<1> DEFINE p == Head(job.todo)
           data == job.data
           sources == In("processed") \cup In("synthetic")
           copy == Cleaned(files[p])
           path == CleanPath(p)
           copied(q) == \E x \in {<<"cleaned", q[2]>>, <<"cleaned", <<q[2][1], q[1]>>>>} \cap DOMAIN files' :
                          files'[x] = Cleaned(data[q])
           kept == /\ DOMAIN files' \subseteq Path /\ IsFiniteSet(DOMAIN files')
                   /\ \A q \in DOMAIN files' : files'[q] \in Seq(Record)
                   /\ In("processed")' = In("processed") /\ In("synthetic")' = In("synthetic")
                   /\ \A q \in sources : files'[q] = files[q]
                   /\ Kept({"final", "final_ner"})
                   /\ Chat \in DOMAIN files => Chat \in DOMAIN files' /\ files'[Chat] = files[Chat]
<1>1. /\ UNCHANGED <<downloaded, programs, splitOf, arrowOf, chatDir>> /\ job.cmd = "clean" /\ Proceed
      /\ files' = IF files[p] = <<>> THEN files ELSE Written(path, copy)
      /\ cleanOf' = IF LastOne THEN [records |-> data] ELSE cleanOf
  BY DEF CleanStep
<1>2. /\ job.todo # <<>> /\ job.todo \in Seq(sources) /\ cleanOf = Nothing
      /\ \A i, j \in DOMAIN job.todo : job.todo[i] = job.todo[j] => i = j
      /\ data = [q \in sources |-> files[q]]
      /\ job = [cmd |-> job.cmd, todo |-> job.todo, data |-> data]
  BY <1>1 DEF JobOk, CleanInv
<1>3. \A q \in sources : q \in DOMAIN files /\ q \in Path /\ q[1] \in Read /\ files[q] \in Seq(Record)
  BY DEF In, Read, FilesTypeOK
<1> HIDE DEF sources, data
<1>4. p \in sources
  BY <1>2
<1> HIDE DEF p
<1>5. /\ copy \in Seq(Record) /\ \A i \in DOMAIN copy : copy[i].dirty => copy[i].chat
  BY <1>3, <1>4, CleanedFacts
<1>6. /\ path \in Path /\ path[1] = "cleaned"
      /\ path \in {<<"cleaned", p[2]>>, <<"cleaned", <<p[2][1], p[1]>>>>}
      /\ \A q \in sources : q # p =>
           \A x \in {<<"cleaned", q[2]>>, <<"cleaned", <<q[2][1], q[1]>>>>} \cap DOMAIN files : path # x
  BY <1>3, <1>4, CleanPathFacts
<1>c. data[p] = files[p] /\ DOMAIN data = sources /\ \A q \in sources : data[q] = files[q]
  BY <1>2, <1>4
<1>7. ASSUME files[p] # <<>>
      PROVE  /\ \A q \in sources : (q = p \/ q \notin Waiting) /\ data[q] # <<>> => copied(q)
             /\ FilesClean' /\ kept
  <2> HIDE DEF copy, path
  <2>1. files' = Written(path, copy)
    BY <1>1, <1>7
  <2>2. /\ DOMAIN files' = DOMAIN files \cup {path} /\ files'[path] = copy
        /\ \A q \in DOMAIN files : q # path => files'[q] = files[q]
        /\ DOMAIN files' \subseteq Path /\ IsFiniteSet(DOMAIN files')
        /\ \A q \in DOMAIN files' : files'[q] \in Seq(Record)
    BY <1>5, <1>6, <2>1, WrittenFacts
  <2>3. Untouched({"processed", "synthetic", "final", "final_ner"})
    BY <1>5, <1>6, <2>1, WrittenElsewhere
  <2>4. ASSUME NEW q \in sources, q = p \/ q \notin Waiting, data[q] # <<>>
        PROVE  copied(q)
    <3>1. CASE q = p
      <4>1. files'[path] = Cleaned(data[q]) /\ path \in DOMAIN files'
        BY <1>c, <2>2, <3>1 DEF copy
      <4> QED BY <1>6, <3>1, <4>1
    <3>2. CASE q # p
      <4>1. Copied(q, data[q])
        BY <1>1, <1>c, <2>4, <3>2 DEF CleanInv, data
      <4>2. PICK x \in {<<"cleaned", q[2]>>, <<"cleaned", <<q[2][1], q[1]>>>>} \cap DOMAIN files :
              files[x] = Cleaned(data[q])
        BY <4>1 DEF Copied
      <4>3. x # path
        BY <1>6, <3>2
      <4>4. x \in DOMAIN files' /\ files'[x] = Cleaned(data[q])
        BY <2>2, <4>2, <4>3
      <4> QED BY <4>4
    <3> QED BY <3>1, <3>2
  <2>5. FilesClean'
    <3>1. \A q \in DOMAIN files' : q[1] = "synthetic" => q \in DOMAIN files /\ files'[q] = files[q]
      BY <2>3 DEF Untouched, Kept
    <3>2. \A q \in DOMAIN files' : q[1] = "cleaned" =>
            \A i \in DOMAIN files'[q] : files'[q][i].dirty => files'[q][i].chat
      <4> SUFFICES ASSUME NEW q \in DOMAIN files', q[1] = "cleaned", NEW i \in DOMAIN files'[q],
                          files'[q][i].dirty
                   PROVE  files'[q][i].chat
        OBVIOUS
      <4>1. CASE q = path
        BY <1>5, <2>2, <4>1
      <4>2. CASE q # path
        BY <2>2, <4>2 DEF FilesClean, In
      <4> QED BY <4>1, <4>2
    <3> QED BY <3>1, <3>2 DEF FilesClean, In
  <2>6. In("processed")' = In("processed") /\ In("synthetic")' = In("synthetic")
    BY <2>3 DEF Untouched, Kept, In
  <2>7. \A q \in sources : files'[q] = files[q]
    BY <2>3 DEF Untouched, Kept, In, sources
  <2>8. /\ Kept({"final", "final_ner"})
        /\ (Chat \in DOMAIN files => Chat \in DOMAIN files' /\ files'[Chat] = files[Chat])
    BY <2>3, NamesApart DEF Untouched, Kept
  <2> QED BY <2>2, <2>4, <2>5, <2>6, <2>7, <2>8
<1>8. ASSUME files[p] = <<>>
      PROVE  /\ \A q \in sources : (q = p \/ q \notin Waiting) /\ data[q] # <<>> => copied(q)
             /\ FilesClean' /\ kept
  <2>1. UNCHANGED files
    BY <1>1, <1>8
  <2>2. ASSUME NEW q \in sources, q = p \/ q \notin Waiting, data[q] # <<>>
        PROVE  copied(q)
    <3>1. Copied(q, data[q])
      BY <1>1, <1>8, <1>c, <2>2 DEF CleanInv, data
    <3> QED BY <2>1, <3>1 DEF Copied
  <2>3. FilesClean' /\ kept
    <3>1. Untouched({"synthetic", "cleaned"}) /\ Kept({"final", "final_ner"})
      BY <2>1, FilesUnchanged DEF Untouched
    <3>2. FilesClean'
      BY <3>1, CleanKept
    <3> QED BY <2>1, <3>1, <3>2 DEF FilesTypeOK, In
  <2> QED BY <2>2, <2>3
<1>9. /\ \A q \in sources : (q = p \/ q \notin Waiting) /\ data[q] # <<>> => copied(q)
      /\ FilesClean' /\ kept
  BY <1>7, <1>8
<1> HIDE DEF copy, path
<1>10. job.todo \in Seq(sources) /\ Proceed /\ p = Head(job.todo)
  BY <1>1, <1>2 DEF p
<1>11. CASE LastOne
  <2>1. job' = Idle /\ job'.cmd = "none" /\ Waiting = {p} /\ cleanOf' = [records |-> data]
    BY <1>1, <1>2, <1>10, <1>11, ProceedFacts, IdleFacts DEF data
  <2>2. FilesTypeOK'
    BY <1>1, <1>9, <2>1 DEF FilesTypeOK
  <2>3. CleanInv'
    <3>1. \A q \in sources : data[q] # <<>> => copied(q)
      BY <1>9, <2>1
    <3>2. sources \subseteq Path
      BY <1>3
    <3> HIDE DEF kept
    <3>3. cleanOf' = [records |-> cleanOf'.records] /\ cleanOf'.records = data
      BY <2>1
    <3> QED BY <1>c, <2>1, <3>1, <3>2, <3>3 DEF CleanInv, Copied
  <2> QED BY <1>1, <1>9, <2>1, <2>2, <2>3, IdleJobOk, ChatInvKept, SplitInvKept
<1>12. CASE ~ LastOne
  <2>1. /\ job' = [cmd |-> job.cmd, todo |-> Tail(job.todo), data |-> data]
        /\ Tail(job.todo) \in Seq(sources) /\ Tail(job.todo) # <<>>
        /\ \A i \in DOMAIN Tail(job.todo) :
             i + 1 \in DOMAIN job.todo /\ Tail(job.todo)[i] = job.todo[i + 1]
        /\ DOMAIN Tail(job.todo) = 1..(Len(job.todo) - 1)
        /\ Waiting \subseteq Waiting' \cup {p}
    BY <1>1, <1>2, <1>10, <1>12, ProceedFacts DEF data
  <2>2. cleanOf' = Nothing /\ job'.cmd = "clean" /\ job'.data = data /\ job'.todo = Tail(job.todo)
    BY <1>1, <1>2, <1>12, <2>1
  <2>3. FilesTypeOK'
    BY <1>1, <1>9, <2>2 DEF FilesTypeOK
  <2>4. CleanInv'
    <3>1. \A q \in sources \ Waiting' : data[q] # <<>> => copied(q)
      BY <1>9, <2>1
    <3> HIDE DEF kept
    <3> QED BY <1>c, <2>2, <3>1 DEF CleanInv, Copied
  <2>5. JobOk'
    <3>1. data = [q \in sources |-> files[q]] /\ sources = (In("processed") \cup In("synthetic"))'
      BY <1>2, <1>9 DEF sources
    <3>2. data = [q \in In("processed") \cup In("synthetic") |-> files[q]]'
      BY <1>9, <3>1
    <3>3. \A i, j \in DOMAIN Tail(job.todo) : Tail(job.todo)[i] = Tail(job.todo)[j] => i = j
      BY <1>2, <2>1
    <3>4. Tail(job.todo) \in Seq((In("processed") \cup In("synthetic"))')
      BY <2>1, <3>1
    <3> HIDE DEF kept
    <3> QED BY <1>1, <2>1, <2>2, <3>2, <3>3, <3>4 DEF JobOk
  <2> QED BY <1>1, <1>9, <2>2, <2>3, <2>4, <2>5, ChatInvKept, SplitInvKept
<1> QED BY <1>11, <1>12

-----------------------------------------------------------------------------
(***************************************************************************)
(* chat_formatter.                                                         *)
(***************************************************************************)
Packs == {p \in DOMAIN files : p[1] = "synthetic" /\ p[2] \in {<<"synthetic">>, <<"hard_negatives">>}}

LEMMA FormatAllInv ==
  ASSUME FilesInv, NEW dir \in Formatted, FormatAll(dir)
  PROVE  FilesInv'
<1> USE DEF FilesInv
<1> DEFINE own == {p \in In(dir) : p[2] # Chat[2]}
           pack(name) == {p \in DOMAIN files : p = <<"synthetic", <<name>>>>}
           todo == Listed(own) \o Listed(pack("synthetic")) \o Listed(pack("hard_negatives"))
           data == [dir |-> dir, formatted |-> <<>>]
<1>1. /\ UNCHANGED <<downloaded, files, splitOf, arrowOf, cleanOf, chatDir>>
      /\ job = Idle /\ programs' \in 0..MaxPrograms
      /\ job' = [cmd |-> "chat", todo |-> todo, data |-> data]
  BY StartedFacts DEF FormatAll
<1>2. todo \in Seq(In(dir) \cup Packs)
  <2>1. Listed(own) \in Seq(own)
    <3>1. dir \in Read \cup {"cleaned"} /\ own \in SUBSET In(dir)
      BY FilesAssumption
    <3> HIDE DEF own
    <3> QED BY <3>1, DirectoryFacts
  <2>2. ASSUME NEW name \in {"synthetic", "hard_negatives"}
        PROVE  Listed(pack(name)) \in Seq(Packs)
    <3>1. pack(name) \in SUBSET In("synthetic") /\ pack(name) \subseteq Packs
      BY DEF In, Packs
    <3> HIDE DEF pack
    <3>2. Listed(pack(name)) \in Seq(pack(name))
      BY <3>1, DirectoryFacts DEF Read
    <3> QED BY <3>1, <3>2, SeqMonotonic
  <2>3. own \subseteq In(dir)
    OBVIOUS
  <2> HIDE DEF own, pack
  <2>4. Listed(own) \in Seq(In(dir) \cup Packs)
    BY <2>1, <2>3, SeqMonotonic
  <2>5. \A name \in {"synthetic", "hard_negatives"} : Listed(pack(name)) \in Seq(In(dir) \cup Packs)
    BY <2>2, SeqMonotonic
  <2> QED BY <2>4, <2>5
<1> HIDE DEF todo
<1>3. job'.cmd = "chat" /\ job'.todo = todo /\ job'.data = data /\ job'.data.dir = dir
      /\ job'.data.formatted = <<>>
  BY <1>1
<1>4. JobOk'
  <2>1. (In(dir) \cup Packs)' = In(dir) \cup Packs
    BY <1>1 DEF In, Packs
  <2>2. <<>> \in Seq(Record)
    OBVIOUS
  <2> QED BY <1>1, <1>2, <1>3, <2>1, <2>2 DEF JobOk, In, Packs
<1>5. ChatInv'
  BY <1>1, <1>3 DEF ChatInv, FromPack
<1>6. FilesTypeOK'
  BY <1>1, <1>3 DEF FilesTypeOK
<1>7. Untouched({"synthetic", "cleaned"}) /\ Kept({"cleaned"}) /\ Kept({"final", "final_ner"})
  BY <1>1, FilesUnchanged DEF Untouched
<1> QED BY <1>1, <1>3, <1>4, <1>5, <1>6, <1>7, CleanKept, CleanInvKept, SplitInvKept

\* What chat_formatter takes from the cleaned directory and from the packs.
LEMMA ChatOfFile ==
  ASSUME FilesInv, NEW p \in In("cleaned") \cup Packs, NEW k \in DOMAIN ChatRecords(files[p])
  PROVE  FromPack(ChatRecords(files[p])[k])
<1> USE DEF FilesInv
<1> DEFINE r == ChatRecords(files[p])[k]
<1>1. p \in DOMAIN files /\ p \in Path /\ files[p] \in Seq(Record)
  BY DEF In, Packs, FilesTypeOK
<1>2. PICK i \in DOMAIN files[p] : ~ files[p][i].chat /\ r = ToChat(files[p][i])
  BY <1>1, ChatRecordsFacts
<1>3. r.dirty = files[p][i].dirty /\ r.text = files[p][i].text
  <2>1. files[p][i] \in Record
    BY <1>1
  <2> HIDE DEF r
  <2> QED BY <1>2, <2>1 DEF ToChat, Record
<1> HIDE DEF r
<1>4. CASE p \in In("cleaned")
  <2>1. ~ r.dirty
    BY <1>2, <1>3, <1>4 DEF FilesClean
  <2> QED BY <2>1 DEF FromPack, r
<1>5. CASE p \in Packs
  <2>1. p = <<"synthetic", <<"synthetic">>>> \/ p = <<"synthetic", <<"hard_negatives">>>>
    BY <1>1, <1>5, FilePathFacts DEF Packs, Read
  <2>2. files[p] \in SyntheticPacks \cup HardNegativePacks
    BY <1>1, <2>1 DEF FilesClean
  <2> QED BY <1>2, <1>3, <2>2 DEF FromPack, r
<1> QED BY <1>4, <1>5

LEMMA FormatFileInv ==
  ASSUME FilesInv, FormatFile
  PROVE  FilesInv'
<1> USE DEF FilesInv
<1> DEFINE p == Head(job.todo)
           dir == job.data.dir
           done == job.data.formatted
           more == ChatRecords(files[p])
           T == In(dir) \cup Packs
<1>1. /\ UNCHANGED <<downloaded, files, programs, splitOf, arrowOf, cleanOf, chatDir>>
      /\ job.cmd = "chat" /\ job.todo # <<>>
      /\ job = [cmd |-> "chat", todo |-> job.todo, data |-> [dir |-> dir, formatted |-> done]]
      /\ dir \in Formatted /\ done \in Seq(Record) /\ job.todo \in Seq(T)
  BY DEF FormatFile, JobOk, Packs
<1>2. job' = [cmd |-> "chat", todo |-> Tail(job.todo), data |-> [dir |-> dir, formatted |-> done \o more]]
  <2>1. job' = [job EXCEPT !.todo = Tail(@), !.data.formatted = @ \o ChatRecords(files[Head(job.todo)])]
    BY DEF FormatFile
  <2>2. /\ job.cmd = "chat" /\ job.data = [dir |-> dir, formatted |-> done]
        /\ job = [cmd |-> job.cmd, todo |-> job.todo, data |-> job.data]
    BY <1>1
  <2> DEFINE all == done \o more
             rest == Tail(job.todo)
  <2>3. job' = [job EXCEPT !.todo = rest, !.data.formatted = all]
    BY <2>1
  <2> HIDE DEF all, rest, dir, done
  <2>4. job' = [cmd |-> "chat", todo |-> rest, data |-> [dir |-> dir, formatted |-> all]]
    <3> DEFINE half == [job EXCEPT !.todo = rest]
    <3>1. half = [cmd |-> "chat", todo |-> rest, data |-> job.data]
      BY <2>2
    <3>2. job' = [half EXCEPT !.data = [half.data EXCEPT !.formatted = all]]
      BY <2>3
    <3> HIDE DEF half
    <3>3. half.data = [dir |-> dir, formatted |-> done]
      BY <2>2, <3>1
    <3>4. [half.data EXCEPT !.formatted = all] = [dir |-> dir, formatted |-> all]
      BY <3>3
    <3> QED BY <3>1, <3>2, <3>4
  <2> QED BY <2>4 DEF all, rest
<1> HIDE DEF dir, done, T
<1>3. p \in T /\ Tail(job.todo) \in Seq(T)
  BY <1>1
<1>4. p \in DOMAIN files /\ files[p] \in Seq(Record)
  BY <1>3 DEF T, In, Packs, FilesTypeOK
<1>5. more \in Seq(Record)
  BY <1>4, ChatRecordsFacts
<1>6. \A k \in DOMAIN more : dir = "cleaned" => FromPack(more[k])
  BY <1>3, ChatOfFile DEF T
<1> HIDE DEF more, p
<1>7. /\ done \o more \in Seq(Record)
      /\ \A k \in DOMAIN (done \o more) : \/ k \in DOMAIN done /\ (done \o more)[k] = done[k]
                                         \/ \E j \in DOMAIN more : (done \o more)[k] = more[j]
  BY <1>1, <1>5, ConcatOfLists
<1>8. /\ job'.cmd = "chat" /\ job'.todo = Tail(job.todo) /\ job'.data.dir = dir
      /\ job'.data.formatted = done \o more
      /\ job'.data = [dir |-> dir, formatted |-> done \o more]
  BY <1>2
<1>9. JobOk'
  <2>1. T = (In(job.data.dir) \cup Packs)'
    BY <1>1, <1>8 DEF In, Packs, T
  <2>2. Tail(job.todo) \in Seq((In(job.data.dir) \cup Packs)')
    BY <1>3, <2>1
  <2> HIDE DEF p, more
  <2> QED BY <1>1, <1>2, <1>7, <1>8, <2>2 DEF JobOk, Packs
<1>10. ChatInv'
  <2>1. ASSUME dir = "cleaned", NEW k \in DOMAIN (done \o more)
        PROVE  FromPack((done \o more)[k])
    <3>1. \A j \in DOMAIN done : FromPack(done[j])
      BY <1>1, <2>1 DEF ChatInv, done, dir
    <3> QED BY <1>6, <1>7, <2>1, <3>1
  <2>2. chatDir' = "cleaned" =>
          Chat \in DOMAIN files' /\ \A i \in DOMAIN files'[Chat] : FromPack(files'[Chat][i])
    BY <1>1 DEF ChatInv
  <2> QED BY <1>8, <2>1, <2>2 DEF ChatInv, FromPack
<1>11. FilesTypeOK'
  BY <1>1, <1>8 DEF FilesTypeOK
<1>12. Untouched({"synthetic", "cleaned"}) /\ Kept({"cleaned"}) /\ Kept({"final", "final_ner"})
  BY <1>1, FilesUnchanged DEF Untouched
<1> QED BY <1>1, <1>8, <1>9, <1>10, <1>11, <1>12, CleanKept, CleanInvKept, SplitInvKept

LEMMA FormatSaveInv ==
  ASSUME FilesInv, FormatSave
  PROVE  FilesInv'
<1> USE DEF FilesInv
<1> DEFINE done == job.data.formatted
<1>1. /\ UNCHANGED <<downloaded, programs, splitOf, arrowOf, cleanOf>>
      /\ job.cmd = "chat" /\ chatDir' = job.data.dir /\ job' = Idle /\ job'.cmd = "none"
      /\ files' = Written(Chat, done) /\ done \in Seq(Record)
  BY IdleFacts DEF FormatSave, JobOk
<1>2. Chat \in Path /\ Chat[1] = "processed"
  BY PathFacts, NamesApart
<1> HIDE DEF done
<1>3. Untouched({"synthetic", "cleaned"}) /\ Kept({"cleaned"}) /\ Kept({"final", "final_ner"})
  BY <1>1, <1>2, WrittenElsewhere DEF Untouched
<1>4. Chat \in DOMAIN files' /\ files'[Chat] = done
  BY <1>1, <1>2, WrittenFacts
<1>5. ChatInv'
  <2>1. ASSUME chatDir' = "cleaned" PROVE \A i \in DOMAIN done : FromPack(done[i])
    BY <1>1, <2>1 DEF ChatInv, done
  <2> QED BY <1>1, <1>4, <2>1 DEF ChatInv, FromPack
<1>6. FilesTypeOK'
  BY <1>1, <1>2, TypeOfWritten DEF FilesTypeOK
<1> QED BY <1>1, <1>3, <1>5, <1>6, IdleJobOk, CleanKept, CleanInvKept, SplitInvKept

-----------------------------------------------------------------------------
(***************************************************************************)
(* split and ner_formatter.                                                *)
(***************************************************************************)
\* What is left to write of the three parts.
LEMMA SplitsFacts ==
  ASSUME NEW todo \in {Splits, <<"val", "test">>, <<"test">>}
  PROVE  /\ todo \in Seq(Split) /\ todo # <<>>
         /\ Len(todo) # 1 => Tail(todo) \in {Splits, <<"val", "test">>, <<"test">>}
<1>1. CASE todo = Splits
  <2>1. Tail(<<"train", "val", "test">>) = <<"val", "test">>
    OBVIOUS
  <2> QED BY <1>1, <2>1 DEF Splits, Split
<1>2. CASE todo = <<"val", "test">>
  <2>1. Tail(<<"val", "test">>) = <<"test">>
    OBVIOUS
  <2> QED BY <1>2, <2>1 DEF Split
<1>3. CASE todo = <<"test">>
  BY <1>3 DEF Split
<1> QED BY <1>1, <1>2, <1>3

\* A part of the chat file is a sequence of its records.
LEMMA TakenFacts ==
  ASSUME NEW chat \in Seq(Record), Len(chat) >= 6, Len(chat) \in DOMAIN Orders,
         NEW order \in Orders[Len(chat)], NEW s \in Split
  PROVE  Taken(Partition(order), s, chat) \in Seq(Record)
<1> DEFINE n == Len(chat)
           part == Partition(order)[s]
<1>1. n \in Nat /\ order \in [1..n -> 1..n]
  BY OrdersAssumption
<1>2. \A i \in 1..n : chat[i] \in Record
  OBVIOUS
<1> HIDE DEF n
<1>3. PICK b \in 1..n, c \in 1..n :
        /\ b < c /\ c < n
        /\ Partition(order)["train"] = [k \in 1..b |-> order[k]]
        /\ Partition(order)["val"] = [k \in 1..(c - b) |-> order[b + k]]
        /\ Partition(order)["test"] = [k \in 1..(n - c) |-> order[c + k]]
  BY <1>1, PartitionFacts DEF n
<1>4. \E m \in Nat : DOMAIN part = 1..m /\ \A k \in 1..m : part[k] \in 1..n
  <2>0. n \in Nat /\ b \in 1..n /\ c \in 1..n /\ b < c /\ c < n
    BY <1>1, <1>3
  <2>1. CASE s = "train"
    <3>1. part = [k \in 1..(b) |-> order[k]]
      BY <1>3, <2>1
    <3>2. b \in Nat /\ \A k \in 1..(b) : k \in 1..n
      BY <2>0
    <3> HIDE DEF part
    <3>3. DOMAIN part = 1..(b) /\ \A k \in 1..(b) : part[k] \in 1..n
      BY <1>1, <3>1, <3>2
    <3> QED BY <3>2, <3>3
  <2>2. CASE s = "val"
    <3>1. part = [k \in 1..(c - b) |-> order[b + k]]
      BY <1>3, <2>2
    <3>2. c - b \in Nat /\ \A k \in 1..(c - b) : b + k \in 1..n
      BY <2>0
    <3> HIDE DEF part
    <3>3. DOMAIN part = 1..(c - b) /\ \A k \in 1..(c - b) : part[k] \in 1..n
      BY <1>1, <3>1, <3>2
    <3> QED BY <3>2, <3>3
  <2>3. CASE s = "test"
    <3>1. part = [k \in 1..(n - c) |-> order[c + k]]
      BY <1>3, <2>3
    <3>2. n - c \in Nat /\ \A k \in 1..(n - c) : c + k \in 1..n
      BY <2>0
    <3> HIDE DEF part
    <3>3. DOMAIN part = 1..(n - c) /\ \A k \in 1..(n - c) : part[k] \in 1..n
      BY <1>1, <3>1, <3>2
    <3> QED BY <3>2, <3>3
  <2> QED BY <2>1, <2>2, <2>3 DEF Split
<1> HIDE DEF part
<1>5. PICK m \in Nat : DOMAIN part = 1..m /\ \A k \in 1..m : part[k] \in 1..n
  BY <1>4
<1>6. Taken(Partition(order), s, chat) = [k \in 1..m |-> chat[part[k]]]
  BY <1>5 DEF Taken, part
<1>7. [k \in 1..m |-> chat[part[k]]] \in [1..m -> Record]
  BY <1>2, <1>5
<1> QED BY <1>6, <1>7, SeqDef

LEMMA SplitDatasetInv ==
  ASSUME FilesInv, SplitDataset
  PROVE  FilesInv'
<1> USE DEF FilesInv
<1> DEFINE chat == files[Chat]
<1>1. PICK order \in Orders[Len(chat)] :
        Begin("split", Splits, [chat |-> chat, parts |-> Partition(order)])
  BY DEF SplitDataset
<1>2. /\ UNCHANGED <<downloaded, files, arrowOf, cleanOf, chatDir>> /\ splitOf' = Nothing
      /\ job = Idle /\ programs' \in 0..MaxPrograms
      /\ chat \in Seq(Record) /\ Len(chat) >= 6 /\ Len(chat) \in DOMAIN Orders
  BY StartedFacts DEF SplitDataset, FilesTypeOK
<1> DEFINE data == [chat |-> chat, parts |-> Partition(order)]
<1> HIDE DEF chat
<1>3. job' = [cmd |-> "split", todo |-> Splits, data |-> data]
  BY <1>1, BeginFacts DEF Splits
<1>4. /\ job'.cmd = "split" /\ job'.todo = Splits /\ job'.data = data
      /\ job'.data.chat = chat /\ job'.data.parts = Partition(order)
  BY <1>3
<1>5. JobOk'
  BY <1>3, <1>4 DEF JobOk
<1>6. Waiting' = Split
  <2>1. {Splits[i] : i \in DOMAIN Splits} = Split
    BY DEF Splits, Split
  <2> QED BY <1>4, <2>1 DEF Waiting
<1>7. SplitInv'
  <2>1. Parted("final_ner", arrowOf)'
    BY <1>2 DEF SplitInv, Parted, PartsIn
  <2>2. Parted("final", splitOf)'
    BY <1>2 DEF Parted
  <2>3. PartsIn("final", job.data.chat, order, Waiting)'
    BY <1>6 DEF PartsIn
  <2> HIDE DEF data
  <2>4. job'.data = [chat |-> job'.data.chat, parts |-> job'.data.parts]
    BY <1>4 DEF data
  <2> QED BY <1>1, <1>2, <1>4, <2>1, <2>2, <2>3, <2>4 DEF SplitInv
<1>8. FilesTypeOK'
  BY <1>2, <1>4 DEF FilesTypeOK
<1>9. Untouched({"synthetic", "cleaned"}) /\ Kept({"cleaned"})
  BY <1>2, FilesUnchanged DEF Untouched
<1> QED BY <1>2, <1>4, <1>5, <1>7, <1>8, <1>9, CleanKept, ChatInvKept, CleanInvKept

\* What a program that writes the three parts has done after one of them.
LEMMA PartFacts ==
  ASSUME FilesInv, job.cmd \in {"split", "ner"}, Proceed
  PROVE  LET s == Head(job.todo) IN
         /\ s \in Split /\ s \in Waiting
         /\ \/ LastOne /\ job' = Idle /\ job'.cmd = "none" /\ Waiting = {s}
            \/ /\ ~ LastOne /\ job' = [cmd |-> job.cmd, todo |-> Tail(job.todo), data |-> job.data]
               /\ job'.cmd = job.cmd /\ job'.data = job.data /\ Waiting \subseteq Waiting' \cup {s}
         /\ JobOk'
<1> USE DEF FilesInv
<1>1. /\ job.todo \in {Splits, <<"val", "test">>, <<"test">>}
      /\ job = [cmd |-> job.cmd, todo |-> job.todo, data |-> job.data]
  BY DEF JobOk
<1>2. job.todo \in Seq(Split) /\ job.todo # <<>>
  BY <1>1, SplitsFacts
<1>3. Head(job.todo) \in Split /\ Head(job.todo) \in Waiting
  BY <1>1, <1>2, ProceedFacts DEF Waiting
<1>4. CASE LastOne
  <2>1. job' = Idle /\ Waiting = {Head(job.todo)}
    BY <1>1, <1>2, <1>4, ProceedFacts
  <2> QED BY <1>3, <1>4, <2>1, IdleFacts, IdleJobOk
<1>5. CASE ~ LastOne
  <2>1. /\ job' = [cmd |-> job.cmd, todo |-> Tail(job.todo), data |-> job.data]
        /\ Waiting \subseteq Waiting' \cup {Head(job.todo)}
    BY <1>1, <1>2, <1>5, ProceedFacts
  <2>2. Tail(job.todo) \in {Splits, <<"val", "test">>, <<"test">>}
    BY <1>1, <1>5, SplitsFacts DEF LastOne
  <2>3. JobOk'
    BY <2>1, <2>2 DEF JobOk
  <2> QED BY <1>3, <1>5, <2>1, <2>3
<1> QED BY <1>4, <1>5

LEMMA SplitStepInv ==
  ASSUME FilesInv, SplitStep
  PROVE  FilesInv'
<1> USE DEF FilesInv
<1> DEFINE chat == job.data.chat
           s == Head(job.todo)
           path == <<"final", s>>
<1>1. /\ UNCHANGED <<downloaded, programs, arrowOf, cleanOf, chatDir>> /\ job.cmd = "split" /\ Proceed
      /\ files' = Written(path, Taken(job.data.parts, s, chat))
      /\ splitOf' = IF LastOne THEN [records |-> chat] ELSE splitOf
  BY DEF SplitStep
<1>2. /\ splitOf = Nothing /\ job.data = [chat |-> chat, parts |-> job.data.parts]
      /\ chat \in Seq(Record) /\ Len(chat) >= 6 /\ Len(chat) \in DOMAIN Orders
  BY <1>1 DEF SplitInv
<1>3. PICK order \in Orders[Len(chat)] :
        job.data.parts = Partition(order) /\ PartsIn("final", chat, order, Waiting)
  BY <1>1 DEF SplitInv
<1> DEFINE mine == Taken(Partition(order), s, chat)
<1>4. files' = Written(path, mine)
  BY <1>1, <1>3
<1>5. /\ s \in Split /\ s \in Waiting /\ JobOk'
      /\ \/ LastOne /\ job' = Idle /\ job'.cmd = "none" /\ Waiting = {s}
         \/ ~ LastOne /\ job'.cmd = "split" /\ job'.data = job.data /\ Waiting \subseteq Waiting' \cup {s}
  BY <1>1, PartFacts
<1> HIDE DEF chat, s
<1>6. mine \in Seq(Record)
  BY <1>2, <1>5, TakenFacts
<1>7. path \in Path /\ path[1] = "final" /\ path # Chat
  BY <1>5, PathFacts, NamesApart
<1> HIDE DEF mine
<1>8. Untouched({"synthetic", "cleaned", "final_ner"})
  <2> HIDE DEF path
  <2> QED BY <1>4, <1>6, <1>7, WrittenElsewhere
<1>9. /\ DOMAIN files' = DOMAIN files \cup {path} /\ files'[path] = mine
      /\ \A p \in DOMAIN files : p # path => files'[p] = files[p]
  <2> HIDE DEF path
  <2> QED BY <1>4, <1>6, <1>7, WrittenFacts
<1>10. Chat \in DOMAIN files => Chat \in DOMAIN files' /\ files'[Chat] = files[Chat]
  BY <1>7, <1>9
<1>11. Untouched({"synthetic", "cleaned"}) /\ Kept({"cleaned"}) /\ Kept({"final_ner"})
  BY <1>8 DEF Untouched, Kept
<1>12. FilesTypeOK'
  <2>1. job'.cmd \in {"none", "split"} /\ (job'.cmd = "none" => job' = Idle)
    BY <1>5
  <2> HIDE DEF path
  <2> QED BY <1>1, <1>4, <1>6, <1>7, <2>1, TypeOfWritten DEF FilesTypeOK
<1>13. ASSUME NEW t \in Split, t = s \/ t \notin Waiting
       PROVE  <<"final", t>> \in DOMAIN files' /\ files'[<<"final", t>>] = Taken(Partition(order), t, chat)
  <2>1. CASE t = s
    BY <1>9, <2>1 DEF mine
  <2>2. CASE t # s
    <3>1. <<"final", t>> \in DOMAIN files /\ files[<<"final", t>>] = Taken(Partition(order), t, chat)
      BY <1>3, <1>13, <2>2 DEF PartsIn
    <3>2. <<"final", t>> # path
      BY <2>2
    <3> QED BY <1>9, <3>1, <3>2
  <2> QED BY <2>1, <2>2
<1>14. Parted("final_ner", arrowOf)'
  BY <1>1, <1>11 DEF SplitInv, Parted, PartsIn, Kept
<1>15. SplitInv'
  <2>1. CASE LastOne
    <3>1. job'.cmd = "none" /\ splitOf' = [records |-> chat] /\ Waiting = {s}
      BY <1>1, <1>5, <2>1
    <3>2. splitOf'.records = chat /\ splitOf' = [records |-> splitOf'.records]
      BY <3>1
    <3>3. PartsIn("final", splitOf.records, order, {})'
      BY <1>13, <3>1, <3>2 DEF PartsIn
    <3>4. Parted("final", splitOf)'
      BY <1>2, <1>3, <3>2, <3>3 DEF Parted
    <3> QED BY <1>14, <3>1, <3>4 DEF SplitInv
  <2>2. CASE ~ LastOne
    <3>1. /\ job'.cmd = "split" /\ splitOf' = Nothing /\ job'.data = job.data
          /\ Waiting \subseteq Waiting' \cup {s}
      BY <1>1, <1>2, <1>5, <2>2
    <3>2. job'.data.chat = chat /\ job'.data.parts = Partition(order)
      BY <1>3, <3>1 DEF chat
    <3>3. PartsIn("final", job.data.chat, order, Waiting)'
      BY <1>13, <3>1, <3>2 DEF PartsIn
    <3>4. Parted("final", splitOf)'
      BY <3>1 DEF Parted
    <3>5. job'.data = [chat |-> job'.data.chat, parts |-> job'.data.parts]
      BY <1>2, <3>1 DEF chat
    <3> QED BY <1>2, <1>3, <1>14, <3>1, <3>2, <3>3, <3>4, <3>5 DEF SplitInv
  <2> QED BY <2>1, <2>2
<1>16. job'.cmd # "clean" /\ job'.cmd # "chat"
  BY <1>5
<1> QED BY <1>1, <1>5, <1>10, <1>11, <1>12, <1>15, <1>16, CleanKept, ChatInvKept, CleanInvKept

LEMMA FormatNerInv ==
  ASSUME FilesInv, FormatNer
  PROVE  FilesInv'
<1> USE DEF FilesInv
<1>1. /\ UNCHANGED <<downloaded, files, splitOf, cleanOf, chatDir>> /\ arrowOf' = Nothing
      /\ job = Idle /\ programs' \in 0..MaxPrograms /\ Begin("ner", Splits, <<>>)
  BY StartedFacts DEF FormatNer
<1>2. job' = [cmd |-> "ner", todo |-> Splits, data |-> <<>>]
  BY <1>1, BeginFacts DEF Splits
<1>3. job'.cmd = "ner" /\ job'.todo = Splits
  BY <1>2
<1>4. JobOk'
  BY <1>2, <1>3 DEF JobOk
<1>5. Waiting' = Split
  <2>1. {Splits[i] : i \in DOMAIN Splits} = Split
    BY DEF Splits, Split
  <2> QED BY <1>3, <2>1 DEF Waiting
<1>6. SplitInv'
  <2>1. Parted("final", splitOf)'
    BY <1>1 DEF SplitInv, Parted, PartsIn
  <2>2. Parted("final_ner", arrowOf)'
    BY <1>1 DEF Parted
  <2> QED BY <1>1, <1>3, <1>5, <2>1, <2>2 DEF SplitInv
<1>7. FilesTypeOK'
  BY <1>1, <1>3 DEF FilesTypeOK
<1>8. Untouched({"synthetic", "cleaned"}) /\ Kept({"cleaned"})
  BY <1>1, FilesUnchanged DEF Untouched
<1> QED BY <1>1, <1>3, <1>4, <1>6, <1>7, <1>8, CleanKept, ChatInvKept, CleanInvKept

LEMMA FormatNerStepInv ==
  ASSUME FilesInv, FormatNerStep
  PROVE  FilesInv'
<1> USE DEF FilesInv
<1> DEFINE s == Head(job.todo)
           from == <<"final", s>>
           path == <<"final_ner", s>>
<1>1. /\ UNCHANGED <<downloaded, programs, splitOf, cleanOf, chatDir>> /\ job.cmd = "ner" /\ Proceed
      /\ files' = IF from \in DOMAIN files THEN Written(path, files[from]) ELSE files
      /\ arrowOf' = IF LastOne THEN splitOf ELSE arrowOf
  BY DEF FormatNerStep
<1>2. /\ s \in Split /\ s \in Waiting /\ JobOk'
      /\ \/ LastOne /\ job' = Idle /\ job'.cmd = "none" /\ Waiting = {s}
         \/ ~ LastOne /\ job'.cmd = "ner" /\ job'.data = job.data /\ Waiting \subseteq Waiting' \cup {s}
  BY <1>1, PartFacts
<1> HIDE DEF s
<1>3. path \in Path /\ path[1] = "final_ner" /\ path # Chat
  BY <1>2, PathFacts, NamesApart
<1>4. job'.cmd # "clean" /\ job'.cmd # "chat" /\ job'.cmd # "split"
      /\ job'.cmd \in {"none", "ner"} /\ (job'.cmd = "none" => job' = Idle)
  BY <1>2
<1>5. /\ FilesTypeOK' /\ Untouched({"synthetic", "cleaned", "final"})
      /\ \A p \in DOMAIN files : p # path => p \in DOMAIN files' /\ files'[p] = files[p]
      /\ from \in DOMAIN files => path \in DOMAIN files' /\ files'[path] = files[from]
  <2>1. CASE from \in DOMAIN files
    <3> DEFINE records == files[from]
    <3>1. files' = Written(path, records) /\ records \in Seq(Record)
      BY <1>1, <2>1 DEF FilesTypeOK
    <3> HIDE DEF records, path
    <3>2. Untouched({"synthetic", "cleaned", "final"})
      BY <1>3, <3>1, WrittenElsewhere
    <3>3. FilesTypeOK'
      BY <1>1, <1>3, <1>4, <3>1, TypeOfWritten DEF FilesTypeOK
    <3>4. /\ DOMAIN files' = DOMAIN files \cup {path} /\ files'[path] = records
          /\ \A p \in DOMAIN files : p # path => files'[p] = files[p]
      BY <1>3, <3>1, WrittenFacts
    <3> QED BY <3>2, <3>3, <3>4 DEF records
  <2>2. CASE from \notin DOMAIN files
    <3>1. UNCHANGED files
      BY <1>1, <2>2
    <3>2. FilesTypeOK'
      BY <1>1, <1>4, <3>1 DEF FilesTypeOK
    <3> QED BY <2>2, <3>1, <3>2, FilesUnchanged
  <2> QED BY <2>1, <2>2
<1>6. Chat \in DOMAIN files => Chat \in DOMAIN files' /\ files'[Chat] = files[Chat]
  BY <1>3, <1>5
<1>7. Untouched({"synthetic", "cleaned"}) /\ Kept({"cleaned"}) /\ Untouched({"final"})
  BY <1>5 DEF Untouched, Kept
<1>8. \A t \in Split : <<"final", t>> \in DOMAIN files' =>
        <<"final", t>> \in DOMAIN files /\ files'[<<"final", t>>] = files[<<"final", t>>]
  BY <1>7 DEF Untouched, Kept
<1>9. ASSUME NEW t \in Split, t = s \/ t \notin Waiting, <<"final", t>> \in DOMAIN files'
      PROVE  <<"final_ner", t>> \in DOMAIN files' /\ files'[<<"final_ner", t>>] = files'[<<"final", t>>]
  <2>1. CASE t = s
    BY <1>5, <1>8, <1>9, <2>1
  <2>2. CASE t # s
    <3>1. <<"final_ner", t>> \in DOMAIN files /\ files[<<"final_ner", t>>] = files[<<"final", t>>]
      BY <1>1, <1>8, <1>9, <2>2 DEF SplitInv
    <3>2. <<"final_ner", t>> # path
      BY <2>2
    <3> HIDE DEF path
    <3> QED BY <1>5, <1>8, <1>9, <3>1, <3>2
  <2> QED BY <2>1, <2>2
<1>10. Parted("final", splitOf)'
  <2>1. Kept({"final"})
    BY <1>7 DEF Untouched
  <2> QED BY <1>1, <2>1 DEF SplitInv, Parted, PartsIn, Kept
<1>11. SplitInv'
  <2>1. CASE LastOne
    <3>1. job'.cmd = "none" /\ arrowOf' = splitOf /\ UNCHANGED splitOf /\ Waiting = {s}
      BY <1>1, <1>2, <2>1
    <3>2. ASSUME NEW chat, NEW order, PartsIn("final", chat, order, {})'
          PROVE  PartsIn("final_ner", chat, order, {})'
      BY <1>9, <3>1, <3>2 DEF PartsIn
    <3>3. Parted("final_ner", arrowOf)'
      BY <1>10, <3>1, <3>2 DEF Parted, PartsIn
    <3> QED BY <1>10, <3>1, <3>3 DEF SplitInv
  <2>2. CASE ~ LastOne
    <3>1. /\ job'.cmd = "ner" /\ arrowOf' = Nothing /\ Waiting \subseteq Waiting' \cup {s}
      BY <1>1, <1>2, <2>2 DEF SplitInv
    <3>2. Parted("final_ner", arrowOf)'
      BY <3>1 DEF Parted
    <3>3. \A t \in Split \ Waiting' : t = s \/ t \notin Waiting
      BY <3>1
    <3> QED BY <1>9, <1>10, <3>1, <3>2, <3>3 DEF SplitInv
  <2> QED BY <2>1, <2>2
<1> QED BY <1>1, <1>2, <1>4, <1>5, <1>6, <1>7, <1>11, CleanKept, ChatInvKept, CleanInvKept

-----------------------------------------------------------------------------
(***************************************************************************)
(* The theorems.                                                           *)
(***************************************************************************)
LEMMA InitFilesInv == FilesInit => FilesInv
<1> SUFFICES ASSUME FilesInit PROVE FilesInv
  OBVIOUS
<1>1. /\ DOMAIN files = {} /\ job = Idle /\ job.cmd = "none" /\ programs = 0
      /\ downloaded = [s \in Source |-> "absent"]
      /\ splitOf = Nothing /\ arrowOf = Nothing /\ cleanOf = Nothing /\ chatDir = "none"
  BY IdleFacts DEF FilesInit
<1>2. IsFiniteSet(DOMAIN files)
  BY <1>1, FS_EmptySet
<1>3. FilesTypeOK
  BY <1>1, <1>2, FilesAssumption DEF FilesTypeOK
<1>4. JobOk
  BY <1>1, IdleFacts DEF JobOk
<1>5. FilesClean /\ ChatInv /\ CleanInv /\ SplitInv
  BY <1>1 DEF FilesClean, ChatInv, CleanInv, SplitInv, Parted, In
<1> QED BY <1>3, <1>4, <1>5 DEF FilesInv

LEMMA NextFilesInv == FilesInv /\ [FilesNext]_filesVars => FilesInv'
<1> SUFFICES ASSUME FilesInv, [FilesNext]_filesVars PROVE FilesInv'
  OBVIOUS
<1>1. CASE UNCHANGED filesVars
  <2>1. UNCHANGED <<downloaded, files, job, programs, splitOf, arrowOf, cleanOf, chatDir>>
    BY <1>1 DEF filesVars
  <2>2. FilesTypeOK'
    BY <2>1 DEF FilesInv, FilesTypeOK
  <2>3. JobOk'
    BY <2>1 DEF FilesInv, JobOk, In
  <2>4. FilesClean'
    BY <2>1 DEF FilesInv, FilesClean, In
  <2>5. ChatInv'
    BY <2>1 DEF FilesInv, ChatInv, FromPack
  <2>6. CleanInv'
    BY <2>1 DEF FilesInv, CleanInv, Copied, Waiting
  <2>7. SplitInv'
    BY <2>1 DEF FilesInv, SplitInv, Parted, PartsIn, Waiting
  <2> QED BY <2>2, <2>3, <2>4, <2>5, <2>6, <2>7 DEF FilesInv
<1>2. CASE FilesNext
  <2>1. ASSUME NEW s \in Source, Download(s) PROVE FilesInv'
    BY <2>1, DownloadInv
  <2>2. ASSUME \/ Generate("synthetic", SyntheticPacks) \/ Generate("hard_negatives", HardNegativePacks)
               \/ Generate("boundary_hard", BoundaryHardPacks)
        PROVE  FilesInv'
    BY <2>2, GenerateInv
  <2>3. ASSUME NEW dir \in Formatted, FormatAll(dir) PROVE FilesInv'
    BY <2>3, FormatAllInv
  <2>4. CASE ConvertAll \/ ConvertStep \/ ValidateAndFilter \/ CleanMix \/ CleanStep
    BY <2>4, ConvertAllInv, ConvertStepInv, ValidateAndFilterInv, CleanMixInv, CleanStepInv
  <2>5. CASE FormatFile \/ FormatSave \/ SplitDataset \/ SplitStep \/ FormatNer \/ FormatNerStep \/ Interrupt
    BY <2>5, FormatFileInv, FormatSaveInv, SplitDatasetInv, SplitStepInv, FormatNerInv,
       FormatNerStepInv, InterruptInv
  <2> QED BY <1>2, <2>1, <2>2, <2>3, <2>4, <2>5 DEF FilesNext
<1> QED BY <1>1, <1>2

\* The invariant of the pipeline: every program leaves its files as its
\* history says, wherever it is interrupted.
THEOREM FilesInvariant == FilesSpec => []FilesInv
<1> QED BY InitFilesInv, NextFilesInv, PTL DEF FilesSpec

\* Every copy that clean_mix made is in the cleaned directory.
THEOREM FilesCleanedComplete == FilesSpec => []CleanedComplete
<1>1. FilesInv => CleanedComplete
  <2> SUFFICES ASSUME FilesInv, cleanOf # Nothing, NEW p \in DOMAIN cleanOf.records,
                      cleanOf.records[p] # <<>>
               PROVE  \E q \in In("cleaned") : files[q] = Cleaned(cleanOf.records[p])
    BY DEF CleanedComplete
  <2>1. PICK q \in {<<"cleaned", p[2]>>, <<"cleaned", <<p[2][1], p[1]>>>>} \cap DOMAIN files :
          files[q] = Cleaned(cleanOf.records[p])
    BY DEF FilesInv, CleanInv, Copied
  <2> QED BY <2>1 DEF In
<1> QED BY <1>1, FilesInvariant, PTL

\* No entity that clean_mix removed comes back into a chat file made from the
\* cleaned directory.
THEOREM FilesCleanChat == FilesSpec => []CleanChat
<1>1. FilesInv => CleanChat
  BY DEF FilesInv, ChatInv, CleanChat, FromPack
<1> QED BY <1>1, FilesInvariant, PTL

\* The parts one after the other are the chat file in the shuffled order.
LEMMA PartsJoined ==
  ASSUME NEW chat \in Seq(Record), Len(chat) >= 6, Len(chat) \in DOMAIN Orders,
         NEW order \in Orders[Len(chat)],
         NEW t, t = Taken(Partition(order), "train", chat),
         NEW v, v = Taken(Partition(order), "val", chat),
         NEW u, u = Taken(Partition(order), "test", chat)
  PROVE  t \o v \o u = [i \in 1..Len(chat) |-> chat[order[i]]]
<1> DEFINE n == Len(chat)
           all == t \o v \o u
<1>1. n \in Nat /\ order \in [1..n -> 1..n]
  BY OrdersAssumption
<1>2. t \in Seq(Record) /\ v \in Seq(Record) /\ u \in Seq(Record)
  BY TakenFacts DEF Split
<1> HIDE DEF n
<1>3. PICK b \in 1..n, c \in 1..n :
        /\ b < c /\ c < n
        /\ Partition(order)["train"] = [k \in 1..b |-> order[k]]
        /\ Partition(order)["val"] = [k \in 1..(c - b) |-> order[b + k]]
        /\ Partition(order)["test"] = [k \in 1..(n - c) |-> order[c + k]]
  BY <1>1, PartitionFacts DEF n
<1>4. t = [k \in 1..b |-> chat[order[k]]]
  BY <1>3 DEF Taken
<1>5. v = [k \in 1..(c - b) |-> chat[order[b + k]]]
  BY <1>3 DEF Taken
<1>6. u = [k \in 1..(n - c) |-> chat[order[c + k]]]
  BY <1>3 DEF Taken
<1>7. /\ b \in Nat /\ c \in Nat /\ c - b \in Nat /\ n - c \in Nat
      /\ Len(t) = b /\ Len(v) = c - b /\ Len(u) = n - c
  <2>1. b \in Nat /\ c \in Nat /\ c - b \in Nat /\ n - c \in Nat
    BY <1>1, <1>3
  <2> QED BY <2>1, <1>2, <1>4, <1>5, <1>6
<1>8. /\ t \o v \in Seq(Record) /\ Len(t \o v) = c
      /\ \A i \in 1..c : (t \o v)[i] = IF i <= b THEN t[i] ELSE v[i - b]
  <2>1. b + (c - b) = c
    BY <1>7
  <2>2. /\ t \o v \in Seq(Record) /\ Len(t \o v) = b + (c - b)
        /\ \A i \in 1..(b + (c - b)) : (t \o v)[i] = IF i <= b THEN t[i] ELSE v[i - b]
    BY <1>2, <1>7, ConcatProperties
  <2> QED BY <2>1, <2>2
<1>9. /\ all \in Seq(Record) /\ Len(all) = n
      /\ \A i \in 1..n : all[i] = IF i <= c THEN (t \o v)[i] ELSE u[i - c]
  <2>1. c + (n - c) = n
    BY <1>1, <1>7
  <2> DEFINE tv == t \o v
  <2> HIDE DEF tv
  <2>2. tv \in Seq(Record) /\ Len(tv) = c
    BY <1>8 DEF tv
  <2>a. u \in Seq(Record) /\ Len(u) = n - c
    BY <1>2, <1>7
  <2> HIDE DEF n
  <2>b. /\ tv \o u \in Seq(Record) /\ Len(tv \o u) = Len(tv) + Len(u)
        /\ \A i \in 1..(Len(tv) + Len(u)) :
             (tv \o u)[i] = IF i <= Len(tv) THEN tv[i] ELSE u[i - Len(tv)]
    BY <2>2, <2>a, ConcatProperties, SMTT(30)
  <2>3. /\ tv \o u \in Seq(Record) /\ Len(tv \o u) = c + (n - c)
        /\ \A i \in 1..(c + (n - c)) : (tv \o u)[i] = IF i <= c THEN tv[i] ELSE u[i - c]
    BY <2>2, <2>a, <2>b
  <2> QED BY <2>1, <2>3 DEF tv
<1>10. ASSUME NEW i \in 1..n PROVE all[i] = chat[order[i]]
  <2>0. i \in Nat /\ i >= 1 /\ i <= n
    BY <1>1
  <2> HIDE DEF all
  <2>1. CASE i <= b
    <3>1. i \in 1..b /\ i \in 1..c /\ i \in 1..n
      BY <1>3, <1>7, <2>0, <2>1
    <3>2. all[i] = (t \o v)[i]
      BY <1>7, <1>9, <2>0, <3>1
    <3>3. (t \o v)[i] = t[i]
      BY <1>8, <2>1, <3>1
    <3> QED BY <1>4, <3>1, <3>2, <3>3
  <2>2. CASE b < i /\ i <= c
    <3>0. i \in 1..c /\ i - b \in 1..(c - b) /\ b + (i - b) = i /\ ~ i <= b
      BY <1>7, <2>0, <2>2
    <3>a. all[i] = (t \o v)[i]
      BY <1>9, <2>2
    <3>b. (t \o v)[i] = v[i - b]
      BY <1>8, <3>0
    <3>1. all[i] = v[i - b] /\ i - b \in 1..(c - b) /\ b + (i - b) = i
      BY <3>0, <3>a, <3>b
    <3> QED BY <1>5, <3>1
  <2>3. CASE c < i
    <3>1. all[i] = u[i - c] /\ i - c \in 1..(n - c) /\ c + (i - c) = i
      BY <1>1, <1>3, <1>7, <1>9, <2>0, <2>3
    <3> QED BY <1>6, <3>1
  <2> QED BY <1>1, <1>7, <2>0, <2>1, <2>2, <2>3
<1> HIDE DEF all
<1>11. all = [i \in 1..n |-> chat[order[i]]]
  BY <1>1, <1>9, <1>10
<1> QED BY <1>11 DEF all, n

\* A shuffle keeps how often each record is there.
LEMMA TimesShuffled ==
  ASSUME NEW chat \in Seq(Record), Len(chat) \in DOMAIN Orders, NEW order \in Orders[Len(chat)],
         NEW all, all = [i \in 1..Len(chat) |-> chat[order[i]]], NEW r
  PROVE  Times(all, r) = Times(chat, r)
<1> DEFINE n == Len(chat)
           A == {i \in DOMAIN all : all[i] = r}
           B == {i \in DOMAIN chat : chat[i] = r}
           f == [i \in A |-> order[i]]
<1>1. /\ n \in Nat /\ order \in [1..n -> 1..n] /\ DOMAIN chat = 1..n
      /\ \A i, j \in 1..n : order[i] = order[j] => i = j
  BY OrdersAssumption
<1> HIDE DEF n
<1>2. order \in Surjection(1..n, 1..n)
  <2>1. IsFiniteSet(1..n)
    BY <1>1, FS_Interval
  <2>2. order \in Injection(1..n, 1..n)
    BY <1>1 DEF Injection, IsInjective
  <2> QED BY <2>1, <2>2, FS_Injection
<1>3. DOMAIN all = 1..n /\ \A i \in 1..n : all[i] = chat[order[i]]
  BY DEF n
<1>4. \A i \in A : i \in 1..n /\ order[i] \in B
  BY <1>1, <1>3
<1>5. f \in [A -> B] /\ \A i, j \in A : f[i] = f[j] => i = j
  <2> HIDE DEF A, B
  <2> QED BY <1>1, <1>4
<1>6. \A j \in B : \E i \in A : f[i] = j
  <2> SUFFICES ASSUME NEW j \in B PROVE \E i \in A : f[i] = j
    OBVIOUS
  <2>1. j \in 1..n /\ chat[j] = r
    BY <1>1
  <2>2. PICK i \in 1..n : order[i] = j
    BY <1>2, <2>1 DEF Surjection
  <2>3. i \in A
    BY <1>3, <2>1, <2>2
  <2> QED BY <2>2, <2>3
<1>7. IsFiniteSet(A)
  <2>1. IsFiniteSet(1..n) /\ A \in SUBSET (1..n)
    BY <1>1, <1>3, FS_Interval
  <2> QED BY <2>1, FS_Subset
<1> HIDE DEF A, B, f
<1>8. f \in Bijection(A, B)
  BY <1>5, <1>6 DEF Bijection, Injection, Surjection, IsInjective
<1>9. Cardinality(B) = Cardinality(A)
  BY <1>7, <1>8, FS_Bijection DEF ExistsBijection
<1> QED BY <1>9 DEF Times, A, B

\* The three Arrow datasets have every example of the chat file as often as it
\* has it, and nothing else.
THEOREM FilesSplitsPartition == FilesSpec => []SplitsPartition
<1>1. FilesInv => SplitsPartition
  <2> SUFFICES ASSUME FilesInv, arrowOf # Nothing PROVE SplitsPartition
    BY DEF SplitsPartition
  <2> DEFINE chat == arrowOf.records
             all == Arrow("train") \o Arrow("val") \o Arrow("test")
  <2>1. /\ chat \in Seq(Record) /\ Len(chat) >= 6 /\ Len(chat) \in DOMAIN Orders
        /\ \E order \in Orders[Len(chat)] : PartsIn("final_ner", chat, order, {})
    BY DEF FilesInv, SplitInv, Parted
  <2> HIDE DEF chat
  <2>2. PICK order \in Orders[Len(chat)] : PartsIn("final_ner", chat, order, {})
    BY <2>1
  <2>3. /\ Arrow("train") = Taken(Partition(order), "train", chat)
        /\ Arrow("val") = Taken(Partition(order), "val", chat)
        /\ Arrow("test") = Taken(Partition(order), "test", chat)
    BY <2>2 DEF PartsIn, Arrow, Split
  <2>4. all = [i \in 1..Len(chat) |-> chat[order[i]]]
    BY <2>1, <2>3, PartsJoined
  <2> HIDE DEF all
  <2>5. Len(all) = Len(chat)
    <3>1. Len(chat) \in Nat
      BY <2>1
    <3> QED BY <2>4, <3>1
  <2>6. \A r : Times(all, r) = Times(chat, r)
    BY <2>1, <2>4, TimesShuffled
  <2> QED BY <2>5, <2>6 DEF SplitsPartition, all, chat
<1> QED BY <1>1, FilesInvariant, PTL
-----------------------------------------------------------------------------
(***************************************************************************)
(* The windows the service reads a long text in.                           *)
(***************************************************************************)
LEMMA MinOfTwo ==
  ASSUME NEW a \in Int, NEW b \in Int
  PROVE  Min({a, b}) = IF a <= b THEN a ELSE b
<1> DEFINE least(x) == \A y \in {a, b} : x <= y
<1>1. \E x \in {a, b} : least(x)
  OBVIOUS
<1>2. Min({a, b}) = CHOOSE x \in {a, b} : least(x)
  BY DEF Min
<1>3. Min({a, b}) \in {a, b} /\ least(Min({a, b}))
  BY <1>1, <1>2
<1> QED BY <1>3

LEMMA MaxOfTwo ==
  ASSUME NEW a \in Int, NEW b \in Int
  PROVE  Max({a, b}) = IF a >= b THEN a ELSE b
<1> DEFINE greatest(x) == \A y \in {a, b} : x >= y
<1>1. \E x \in {a, b} : greatest(x)
  OBVIOUS
<1>2. Max({a, b}) = CHOOSE x \in {a, b} : greatest(x)
  BY DEF Max
<1>3. Max({a, b}) \in {a, b} /\ greatest(Max({a, b}))
  BY <1>1, <1>2
<1> QED BY <1>3

LEMMA Quotient ==
  ASSUME NEW x \in Nat, NEW d \in Nat \ {0}
  PROVE  /\ x \div d \in Nat
         /\ (x \div d) * d <= x /\ x < (x \div d) * d + d
<1>1. x \div d \in Int /\ x % d \in 0..(d - 1) /\ x = (d * (x \div d)) + (x % d)
  OBVIOUS
<1>2. x \div d \in Nat
  OBVIOUS
<1> QED BY <1>1, <1>2

\* How the windows lie over n tokens: the first begins at the first token, each
\* one begins at the latest one token after the one before it ends, and the
\* last ends at the last token.
LEMMA WindowFacts ==
  ASSUME NEW n \in Nat
  PROVE  /\ Len(Windows(n)) \in Nat \ {0} /\ DOMAIN Windows(n) = 1..Len(Windows(n))
         /\ n > 0 => \A k \in DOMAIN Windows(n) :
                       /\ Windows(n)[k].from \in 1..n
                       /\ Windows(n)[k].to \in Windows(n)[k].from..n
         /\ Windows(n)[1].from = 1
         /\ \A k \in 1..(Len(Windows(n)) - 1) : Windows(n)[k + 1].from <= Windows(n)[k].to + 1
         /\ Windows(n)[Len(Windows(n))].to = n
<1> DEFINE step == WindowSize - WindowOverlap
           q == (n - WindowSize + step - 1) \div step
           count == IF n <= WindowSize THEN 1 ELSE 1 + q
           before(k) == (k - 1) * step
<1>1. step \in Nat \ {0} /\ WindowSize \in Nat \ {0} /\ step <= WindowSize
  BY WindowAssumption
<1>2. /\ n > WindowSize => /\ q \in Nat
                           /\ q * step <= n - WindowSize + step - 1
                           /\ n - WindowSize + step - 1 < q * step + step
  <2>1. SUFFICES ASSUME n > WindowSize
                 PROVE  /\ q \in Nat /\ q * step <= n - WindowSize + step - 1
                        /\ n - WindowSize + step - 1 < q * step + step
    OBVIOUS
  <2>2. n - WindowSize + step - 1 \in Nat
    BY <2>1, <1>1
  <2> HIDE DEF step
  <2> QED BY <2>2, <1>1, Quotient
<1>3. count \in Nat \ {0}
  <2> HIDE DEF q
  <2> QED BY <1>1, <1>2
<1>4. Windows(n) = [k \in 1..count |->
                      [from |-> before(k) + 1, to |-> Min({before(k) + WindowSize, n})]]
  BY DEF Windows
<1>5. \A k \in 1..count : /\ before(k) \in Nat /\ before(k + 1) = before(k) + step
                          /\ before(k) <= before(count)
  <2> SUFFICES ASSUME NEW k \in 1..count
               PROVE  /\ before(k) \in Nat /\ before(k + 1) = before(k) + step
                      /\ before(k) <= before(count)
    OBVIOUS
  <2>1. k - 1 \in Nat /\ count - k \in Nat
    BY <1>3
  <2> HIDE DEF step, count
  <2>2. before(k) \in Nat /\ (count - k) * step \in Nat
    BY <2>1, <1>1, <1>3
  <2>3. before(count) = before(k) + (count - k) * step /\ before(k + 1) = before(k) + step
    BY <2>1, <1>1, <1>3
  <2> QED BY <2>2, <2>3, <1>1, <1>3
<1>6. before(count) + WindowSize >= n /\ (count > 1 => before(count) + WindowOverlap < n)
  <2>1. CASE n <= WindowSize
    <3>1. count = 1
      BY <2>1
    <3>2. before(1) = 0
      BY <1>1
    <3> QED BY <3>1, <3>2, <2>1, <1>1
  <2>2. CASE n > WindowSize
    <3>1. count - 1 = q
      <4> HIDE DEF q
      <4> QED BY <2>2, <1>1, <1>2
    <3>2. before(count) = q * step
      BY <3>1
    <3>3. q * step \in Int
      BY <1>1, <1>2, <2>2
    <3> DEFINE p == q * step
    <3>4. p \in Int /\ p <= n - WindowSize + step - 1 /\ n - WindowSize + step - 1 < p + step
      BY <3>3, <1>2, <2>2
    <3>5. step = WindowSize - WindowOverlap
      OBVIOUS
    <3>6. before(count) = p
      BY <3>2
    <3> HIDE DEF p, step, before, count, q
    <3> QED BY <3>4, <3>5, <3>6, <1>1, WindowAssumption
  <2> QED BY <2>1, <2>2, <1>1
<1>7. \A k \in 1..count : /\ Windows(n)[k].from = before(k) + 1
                          /\ Windows(n)[k].to = IF before(k) + WindowSize <= n
                                                  THEN before(k) + WindowSize ELSE n
  <2> SUFFICES ASSUME NEW k \in 1..count
               PROVE  /\ Windows(n)[k].from = before(k) + 1
                      /\ Windows(n)[k].to = IF before(k) + WindowSize <= n
                                              THEN before(k) + WindowSize ELSE n
    OBVIOUS
  <2>1. before(k) + WindowSize \in Int
    BY <1>5, <1>1
  <2> HIDE DEF before, count
  <2> QED BY <2>1, <1>4, MinOfTwo
<1>8. DOMAIN Windows(n) = 1..count /\ Len(Windows(n)) = count
  BY <1>4, <1>3
<1>9. before(1) = 0
  BY <1>1
<1>10. \A k \in 1..count : n > 0 => before(k) < n
  <2> SUFFICES ASSUME NEW k \in 1..count, n > 0 PROVE before(k) < n
    OBVIOUS
  <2>1. CASE count = 1
    BY <2>1, <1>9
  <2>2. CASE count > 1
    <3>1. before(k) <= before(count) /\ before(k) \in Nat /\ before(count) \in Nat
      BY <1>5, <1>3
    <3> HIDE DEF before, count, step
    <3> QED BY <3>1, <2>2, <1>6, WindowAssumption
  <2> QED BY <2>1, <2>2, <1>3
<1> HIDE DEF before, count, step, q
<1>11. n > 0 => \A k \in 1..count : /\ Windows(n)[k].from \in 1..n
                                    /\ Windows(n)[k].to \in Windows(n)[k].from..n
  BY <1>1, <1>5, <1>7, <1>10
<1>12. Windows(n)[1].from = 1
  BY <1>3, <1>7, <1>9
<1>13. ASSUME NEW k \in 1..(count - 1)
       PROVE  Windows(n)[k + 1].from <= Windows(n)[k].to + 1
  <2>1. k \in 1..count /\ k + 1 \in 1..count
    BY <1>3
  <2>2. Windows(n)[k + 1].from = before(k) + step + 1 /\ before(k) \in Nat
    BY <2>1, <1>5, <1>7
  <2>3. before(k + 1) <= n
    <3>1. n > 0
      <4>1. before(count) + WindowOverlap < n /\ before(count) \in Nat
        BY <1>6, <1>5, <1>3
      <4> QED BY <4>1, WindowAssumption
    <3> QED BY <3>1, <2>1, <1>10, <1>5
  <2>4. before(k) + step <= n
    BY <2>1, <2>3, <1>5
  <2> QED BY <2>1, <2>2, <2>4, <1>1, <1>7
<1>14. Windows(n)[count].to = n
  <2>1. count \in 1..count /\ before(count) \in Nat
    BY <1>3, <1>5
  <2> QED BY <2>1, <1>6, <1>7, <1>1
<1> QED BY <1>3, <1>8, <1>11, <1>12, <1>13, <1>14

\* Every run of tokens that is at most one token longer than what two windows
\* share lies in a window, wherever the text is cut: what a window cuts
\* through, the next one reads whole.  (ner_detection.py 76-80.)
THEOREM WindowsKeepShortRuns ==
  ASSUME NEW n \in Nat, NEW a \in 1..n, NEW b \in a..n, b - a <= WindowOverlap
  PROVE  \E k \in DOMAIN Windows(n) : Windows(n)[k].from <= a /\ b <= Windows(n)[k].to
<1> DEFINE step == WindowSize - WindowOverlap
           count == Len(Windows(n))
           q == (a - 1) \div step
<1>1. /\ step \in Nat \ {0} /\ count \in Nat \ {0} /\ DOMAIN Windows(n) = 1..count
      /\ Windows(n)[count].to = n
  BY WindowFacts, WindowAssumption
<1>2. q \in Nat /\ q * step <= a - 1 /\ a - 1 < q * step + step
  <2>1. a - 1 \in Nat
    OBVIOUS
  <2> HIDE DEF step
  <2> QED BY <2>1, <1>1, Quotient
<1>3. \A k \in 1..count :
        /\ Windows(n)[k].from = (k - 1) * step + 1
        /\ Windows(n)[k].to = Min({(k - 1) * step + WindowSize, n})
  BY <1>1 DEF Windows
<1> HIDE DEF step, count, q
<1>4. CASE q < count
  <2>1. q + 1 \in 1..count /\ (q + 1) - 1 = q
    BY <1>1, <1>2, <1>4
  <2> DEFINE p == q * step
  <2>2. p \in Int
    BY <1>1, <1>2
  <2>3. Windows(n)[q + 1].from = p + 1 /\ Windows(n)[q + 1].to = Min({p + WindowSize, n})
    BY <2>1, <1>3
  <2>4. p <= a - 1 /\ a - 1 < p + step
    BY <1>2
  <2>5. p + WindowSize \in Int
    BY <2>2, WindowAssumption
  <2>6. step = WindowSize - WindowOverlap
    BY DEF step
  <2> HIDE DEF p
  <2>7. Windows(n)[q + 1].from <= a /\ b <= Windows(n)[q + 1].to
    BY <2>2, <2>3, <2>4, <2>5, <2>6, MinOfTwo, WindowAssumption
  <2> QED BY <2>1, <2>7, <1>1
<1>5. CASE q >= count
  <2>1. count \in 1..count /\ Windows(n)[count].to = n
    BY <1>1
  <2>2. (count - 1) * step <= q * step
    <3>1. q - (count - 1) \in Nat
      BY <1>1, <1>2, <1>5
    <3>2. (q - (count - 1)) * step \in Nat
      BY <3>1, <1>1
    <3>3. q * step = (count - 1) * step + (q - (count - 1)) * step
      BY <1>1, <1>2
    <3>4. (count - 1) * step \in Int
      BY <1>1
    <3> QED BY <3>2, <3>3, <3>4
  <2>3. (count - 1) * step \in Int /\ q * step \in Int
    BY <1>1, <1>2
  <2>4. Windows(n)[count].from <= a
    <3> DEFINE r == (count - 1) * step
               p == q * step
    <3>1. r \in Int /\ p \in Int /\ r <= p /\ p <= a - 1
      BY <2>2, <2>3, <1>2
    <3>2. Windows(n)[count].from = r + 1
      BY <2>1, <1>3
    <3> HIDE DEF r, p
    <3> QED BY <3>1, <3>2
  <2> QED BY <2>1, <2>4, <1>1
<1> QED BY <1>1, <1>2, <1>4, <1>5

-----------------------------------------------------------------------------
(***************************************************************************)
(* What the service reads of a text.                                       *)
(***************************************************************************)
LEMMA TokenFacts ==
  ASSUME NEW tokenized, NEW size, TokenizerReport(tokenized, size)
  PROVE  /\ size \in Nat /\ Len(tokenized) \in Nat /\ DOMAIN tokenized = 1..Len(tokenized)
         /\ \A i \in 1..Len(tokenized) :
              /\ tokenized[i].start \in Nat /\ tokenized[i].end \in Nat
              /\ tokenized[i].start < tokenized[i].end /\ tokenized[i].end <= size
         /\ \A i, j \in 1..Len(tokenized) :
              i <= j => /\ tokenized[i].start <= tokenized[j].start
                        /\ tokenized[i].end <= tokenized[j].end
<1>1. tokenized \in Seq(TokenRange) /\ size \in Nat
  BY DEF TokenizerReport
<1>2. Len(tokenized) \in Nat /\ DOMAIN tokenized = 1..Len(tokenized)
  BY <1>1
<1>3. \A i \in 1..Len(tokenized) : tokenized[i] \in TokenRange
  BY <1>1
<1>4. \A r \in TokenRange : r.start \in Nat /\ r.end \in Nat
  BY DEF TokenRange
<1> QED BY <1>1, <1>2, <1>3, <1>4 DEF TokenizerReport

\* The next window leaves a visible character in front of it only if it is in
\* no token: the tokens in front of the window are in the one before it.
LEMMA GapHasNoToken ==
  ASSUME CoveredInv, window <= Len(Windows(Len(tokens))),
         NEW w, w = Windows(Len(tokens))[window], w.from <= w.to,
         NEW c \in Int, covered <= c, c < tokens[w.from].start,
         NEW t \in DOMAIN tokens
  PROVE  ~ (tokens[t].start <= c /\ c < tokens[t].end)
<1> DEFINE n == Len(tokens)
<1>1. /\ n \in Nat /\ DOMAIN tokens = 1..n /\ covered \in Nat
      /\ \A i \in 1..n : tokens[i].start \in Nat /\ tokens[i].end \in Nat
  BY TokenFacts DEF CoveredInv
<1>2. \A i, j \in 1..n : i <= j => /\ tokens[i].start <= tokens[j].start
                                   /\ tokens[i].end <= tokens[j].end
  BY TokenFacts DEF CoveredInv
<1>a. /\ Len(Windows(n)) \in Nat \ {0} /\ DOMAIN Windows(n) = 1..Len(Windows(n))
      /\ n > 0 => \A k \in DOMAIN Windows(n) :
                    /\ Windows(n)[k].from \in 1..n
                    /\ Windows(n)[k].to \in Windows(n)[k].from..n
      /\ Windows(n)[1].from = 1
      /\ \A k \in 1..(Len(Windows(n)) - 1) : Windows(n)[k + 1].from <= Windows(n)[k].to + 1
  BY <1>1, WindowFacts
<1>3. window \in 1..Len(Windows(n))
  BY <1>a, <1>1 DEF CoveredInv
<1>4. n > 0 /\ w.from \in 1..n
  <2>1. t \in 1..n
    BY <1>1
  <2> QED BY <2>1, <1>1, <1>3, <1>a
<1>5. CASE t >= w.from
  <2>1. tokens[w.from].start <= tokens[t].start
    BY <1>1, <1>2, <1>4, <1>5
  <2> QED BY <2>1, <1>1, <1>4, SMTT(30)
<1>6. CASE t < w.from
  <2>1. window # 1
    BY <1>1, <1>4, <1>6, <1>a
  <2>2. window - 1 \in 1..(Len(Windows(n)) - 1) /\ (window - 1) + 1 = window
    BY <2>1, <1>1, <1>3, <1>a
  <2> DEFINE v == Windows(n)[window - 1]
  <2>3. w.from <= v.to + 1 /\ v.to \in 1..n
    <3>1. window - 1 \in DOMAIN Windows(n)
      BY <2>2, <1>1, <1>a
    <3> QED BY <2>2, <3>1, <1>1, <1>4, <1>a, SMTT(30)
  <2>4. tokens[v.to].end <= covered
    BY <2>2 DEF CoveredInv
  <2> HIDE DEF v, n
  <2>5. tokens[t].end <= tokens[v.to].end
    BY <2>3, <1>1, <1>2, <1>4, <1>6, SMTT(30)
  <2> QED BY <2>3, <2>4, <2>5, <1>1
<1> QED BY <1>1, <1>4, <1>5, <1>6

LEMMA CoveredInit ==
  ASSUME Init
  PROVE  CoveredInv
<1>1. TokenizerReport(tokens, Len(text))
  BY RowsAssumption DEF Init
<1>2. Len(tokens) \in Nat
  BY <1>1 DEF TokenizerReport
<1>3. Len(Windows(Len(tokens))) \in Nat
  BY <1>2, WindowFacts
<1>4. Len(text) \in Nat
  BY <1>1 DEF TokenizerReport
<1>5. pc = "convert" /\ window = 1 /\ covered = 0
  BY DEF Init
<1> HIDE DEF Init
<1> QED BY <1>1, <1>3, <1>4, <1>5 DEF CoveredInv, InputCovered, FailsOnlyUncovered

\* A step that reads nothing.
LEMMA CoveredKept ==
  ASSUME CoveredInv, UNCHANGED <<tokens, text, window, covered>>,
         pc' \in {"convert", "validate", "predict"} => pc \in {"convert", "validate", "predict"},
         pc' # "failed",
         pc' \in {"standalone", "evaluate", "done"} => pc \in {"standalone", "evaluate", "done"}
  PROVE  CoveredInv'
BY DEF CoveredInv, InputCovered, FailsOnlyUncovered, Visible, Reaches

LEMMA CoveredReadWindow ==
  ASSUME CoveredInv, ReadWindow
  PROVE  CoveredInv'
<1> DEFINE n == Len(tokens)
           m == Len(text)
           w == Windows(n)[window]
<1>1. /\ n \in Nat /\ DOMAIN tokens = 1..n /\ covered \in Nat /\ m \in Nat
      /\ \A i \in 1..n : tokens[i].start \in Nat /\ tokens[i].end \in Nat
      /\ \A i \in 1..n : tokens[i].start < tokens[i].end /\ tokens[i].end <= m
  BY TokenFacts DEF CoveredInv
<1>2. window \in 1..Len(Windows(n)) /\ Len(Windows(n)) \in Nat
  BY <1>1, WindowFacts DEF CoveredInv, ReadWindow
<1>3. UNCHANGED <<tokens, text>> /\ pc = "window"
  BY DEF ReadWindow
<1>4. n = 0 => w.to = 0 /\ w.from = 1
  BY <1>1, <1>2, MinOfTwo, WindowAssumption DEF Windows
<1>5. n > 0 => w.from \in 1..n /\ w.to \in w.from..n
  BY <1>1, <1>2, WindowFacts
<1>6. CASE WindowFails(text, tokens, w, covered)
  <2>1. pc' = "failed" /\ UNCHANGED <<window, covered>>
    BY <1>6 DEF ReadWindow
  <2>2. FailsOnlyUncovered'
    <3>1. CASE n = 0
      BY <3>1, <1>3, EmptySeq DEF FailsOnlyUncovered, CoveredInv, TokenizerReport
    <3>2. CASE n > 0
      <4>1. w.from <= w.to /\ tokens[w.from].start \in Nat /\ tokens[w.from].start <= m
        <5>1. w.from \in 1..n /\ w.to \in w.from..n
          BY <3>2, <1>5
        <5>2. tokens[w.from].start \in Nat /\ tokens[w.from].end \in Nat
              /\ tokens[w.from].start < tokens[w.from].end /\ tokens[w.from].end <= m
          BY <5>1, <1>1
        <5> HIDE DEF w, n, m
        <5> QED BY <5>1, <5>2, <1>1
      <4>2. Uncovered(text, covered, tokens[w.from].start)
        BY <1>6, <4>1, <1>5, <3>2 DEF WindowFails
      <4>3. PICK c \in covered..(tokens[w.from].start - 1) : At(text, c) # Blank
        BY <4>2 DEF Uncovered
      <4>4. c \in Int /\ covered <= c /\ c < tokens[w.from].start
        BY <4>1, <4>3, <1>1
      <4>5. c \in 0..(m - 1)
        BY <4>1, <4>4, <1>1
      <4>6. \A t \in DOMAIN tokens : ~ (tokens[t].start <= c /\ c < tokens[t].end)
        <5>1. window <= Len(Windows(n))
          BY <1>2
        <5> HIDE DEF w
        <5> QED BY <4>1, <4>4, <5>1, GapHasNoToken DEF w
      <4> QED BY <4>3, <4>5, <4>6, <1>3 DEF FailsOnlyUncovered, Visible
    <3> QED BY <3>1, <3>2, <1>1
  <2>3. InputCovered'
    BY <2>1 DEF InputCovered
  <2> QED BY <2>1, <2>2, <2>3, <1>3 DEF CoveredInv, Visible, Reaches
<1>7. CASE ~ WindowFails(text, tokens, w, covered)
  <2>1. /\ pc' = pc /\ window' = window + 1
        /\ covered' = Max({covered, tokens[w.to].end})
    BY <1>7 DEF ReadWindow, CoveredEnd
  <2>2. n > 0 /\ w.from <= w.to /\ w.from \in 1..n /\ w.to \in 1..n
    BY <1>1, <1>4, <1>5, <1>7 DEF WindowFails
  <2>3. covered' = IF covered >= tokens[w.to].end THEN covered ELSE tokens[w.to].end
    <3> DEFINE e == tokens[w.to].end
    <3>1. e \in Int /\ covered \in Int
      BY <2>2, <1>1
    <3> HIDE DEF e
    <3>2. Max({covered, e}) = IF covered >= e THEN covered ELSE e
      BY <3>1, MaxOfTwo
    <3> QED BY <3>2, <2>1 DEF e
  <2>4. covered' \in Nat /\ covered <= covered' /\ tokens[w.to].end <= covered'
    BY <2>2, <2>3, <1>1
  <2>5. window' \in 1..(Len(Windows(n)) + 1) /\ 1..(window' - 1) = 1..window
    BY <2>1, <1>2
  <2>6. ASSUME NEW c \in 0..(m - 1), Visible(c), c < covered'
        PROVE  \E k \in 1..window : Reaches(k, c)
    <3>1. CASE c < covered
      <4>1. \E k \in 1..(window - 1) : Reaches(k, c)
        BY <2>6, <3>1 DEF CoveredInv
      <4> QED BY <4>1, <1>2
    <3>2. CASE c >= covered
      <4>1. c < tokens[w.to].end
        BY <2>3, <2>6, <3>2, <2>2, <1>1
      <4>2. ~ (c \in covered..(tokens[w.from].start - 1))
        BY <1>7, <2>6 DEF WindowFails, Uncovered, Visible
      <4>3. tokens[w.from].start <= c
        BY <4>2, <3>2, <2>2, <1>1
      <4>4. Reaches(window, c)
        BY <4>1, <4>3 DEF Reaches
      <4> QED BY <4>4, <1>2
    <3> QED BY <3>1, <3>2, <1>1
  <2>7. ASSUME NEW k \in 1..window
        PROVE  /\ Windows(n)[k].from <= Windows(n)[k].to
               /\ tokens[Windows(n)[k].to].end <= covered'
    <3>1. CASE k = window
      BY <3>1, <2>2, <2>4
    <3>2. CASE k # window
      <4>1. k \in 1..(window - 1)
        BY <3>2, <1>2
      <4>2. /\ Windows(n)[k].from <= Windows(n)[k].to
            /\ tokens[Windows(n)[k].to].end <= covered
        BY <4>1 DEF CoveredInv
      <4>3. Windows(n)[k].to \in 1..n
        <5>1. k \in DOMAIN Windows(n)
          BY <1>1, <1>2, WindowFacts
        <5>2. Windows(n)[k].from \in 1..n /\ Windows(n)[k].to \in Windows(n)[k].from..n
          <6> HIDE DEF w
          <6> QED BY <5>1, <2>2, <1>1, WindowFacts
        <5> QED BY <5>2
      <4>4. tokens[Windows(n)[k].to].end \in Nat
        BY <4>3, <1>1
      <4> QED BY <4>2, <4>4, <2>4, <1>1
    <3> QED BY <3>1, <3>2
  <2>8. TokenizerReport(tokens, Len(text))
    BY DEF CoveredInv
  <2>9. Windows(Len(tokens'))= Windows(n) /\ Len(text') = m
    BY <1>3
  <2>10. \A c \in 0..(m - 1) : /\ Visible(c)' = Visible(c)
                               /\ \A k \in 1..window : Reaches(k, c)' = Reaches(k, c)
    BY <1>3 DEF Reaches, Visible
  <2>11. (InputCovered /\ FailsOnlyUncovered)'
    BY <2>1, <1>3 DEF InputCovered, FailsOnlyUncovered
  <2>12. (TokenizerReport(tokens, Len(text)))'
    BY <2>8, <1>3
  <2>13. pc' \notin {"convert", "validate", "predict"}
    BY <2>1, <1>3
  <2>14. \A c \in 0..(m - 1) : Visible(c)' /\ c < covered' => \E k \in 1..window : Reaches(k, c)'
    <3> SUFFICES ASSUME NEW c \in 0..(m - 1), Visible(c)', c < covered'
                 PROVE  \E k \in 1..window : Reaches(k, c)'
      OBVIOUS
    <3>1. Visible(c)
      BY <2>10
    <3>2. PICK k \in 1..window : Reaches(k, c)
      BY <2>6, <3>1
    <3> QED BY <2>10, <3>2
  <2> HIDE DEF n, m, w
  <2>15. CoveredInv' <=>
           /\ (TokenizerReport(tokens, Len(text)))'
           /\ pc' \in {"convert", "validate", "predict"} => window' = 1 /\ covered' = 0
           /\ window' \in 1..(Len(Windows(Len(tokens'))) + 1) /\ covered' \in Nat
           /\ \A c \in 0..(Len(text') - 1) :
                Visible(c)' /\ c < covered' => \E k \in 1..(window' - 1) : Reaches(k, c)'
           /\ \A k \in 1..(window' - 1) :
                /\ Windows(Len(tokens'))[k].from <= Windows(Len(tokens'))[k].to
                /\ tokens'[Windows(Len(tokens'))[k].to].end <= covered'
           /\ (InputCovered /\ FailsOnlyUncovered)'
    BY DEF CoveredInv
  <2> QED BY <2>4, <2>5, <2>7, <2>9, <2>11, <2>12, <2>13, <2>14, <2>15, <1>3
<1> QED BY <1>6, <1>7

LEMMA CoveredDetect ==
  ASSUME CoveredInv, Detect
  PROVE  CoveredInv'
<1> DEFINE n == Len(tokens)
           m == Len(text)
<1>1. /\ n \in Nat /\ DOMAIN tokens = 1..n /\ covered \in Nat /\ m \in Nat
      /\ \A i \in 1..n : tokens[i].end \in Nat
      /\ \A i, j \in 1..n : i <= j => tokens[i].end <= tokens[j].end
  BY TokenFacts DEF CoveredInv
<1>a. /\ Len(Windows(n)) \in Nat \ {0} /\ DOMAIN Windows(n) = 1..Len(Windows(n))
      /\ Windows(n)[Len(Windows(n))].to = n
  BY <1>1, WindowFacts
<1>b. window \in 1..(Len(Windows(n)) + 1) /\ window > Len(Windows(n))
  BY DEF CoveredInv, Detect
<1>2. window = Len(Windows(n)) + 1 /\ Len(Windows(n)) \in Nat \ {0}
      /\ DOMAIN Windows(n) = 1..(window - 1)
  BY <1>a, <1>b
<1>3. UNCHANGED <<tokens, text, window, covered>> /\ pc = "window"
  BY DEF Detect
<1>4. CASE Uncovered(text, covered, m)
  <2>1. pc' = "failed"
    BY <1>4 DEF Detect
  <2>2. PICK c \in covered..(m - 1) : At(text, c) # Blank
    BY <1>4 DEF Uncovered
  <2>3. ASSUME NEW t \in DOMAIN tokens
        PROVE  ~ (tokens[t].start <= c /\ c < tokens[t].end)
    <3>1. Windows(n)[window - 1].to = n /\ window - 1 \in 1..(window - 1)
      BY <1>a, <1>2
    <3>2. tokens[n].end <= covered
      BY <3>1 DEF CoveredInv
    <3>3. n \in 1..n /\ t \in 1..n /\ t <= n
      BY <1>1
    <3>4. tokens[t].end <= tokens[n].end /\ tokens[t].end \in Nat /\ tokens[n].end \in Nat
      BY <3>3, <1>1
    <3> QED BY <3>2, <3>4, <2>2, <1>1
  <2>4. FailsOnlyUncovered'
    <3>1. c \in 0..(m - 1)
      BY <1>1, <2>2
    <3> QED BY <3>1, <2>2, <2>3, <1>3 DEF FailsOnlyUncovered, Visible
  <2>5. InputCovered'
    BY <2>1 DEF InputCovered
  <2> QED BY <2>1, <2>4, <2>5, <1>3 DEF CoveredInv, Visible, Reaches
<1>5. CASE ~ Uncovered(text, covered, m)
  <2>1. pc' = "standalone"
    BY <1>5 DEF Detect
  <2>2. ASSUME NEW c \in 0..(m - 1), Visible(c)
        PROVE  \E k \in DOMAIN Windows(n) : Reaches(k, c)
    <3>1. c < covered
      BY <1>1, <1>5, <2>2 DEF Uncovered, Visible
    <3> QED BY <3>1, <2>2, <1>2 DEF CoveredInv
  <2>3. InputCovered'
    BY <2>2, <1>3 DEF InputCovered, Visible, Reaches
  <2>4. FailsOnlyUncovered'
    BY <2>1 DEF FailsOnlyUncovered
  <2> QED BY <2>1, <2>3, <2>4, <1>3 DEF CoveredInv, Visible, Reaches
<1> QED BY <1>4, <1>5

\* The windows read so far reach over what is covered: with this the next two
\* theorems hold.
THEOREM WindowsCover == Spec => []CoveredInv
<1>1. Init => CoveredInv
  BY CoveredInit
<1>2. CoveredInv /\ [Next]_vars => CoveredInv'
  <2> SUFFICES ASSUME CoveredInv, [Next]_vars PROVE CoveredInv'
    OBVIOUS
  <2>1. CASE Convert
    BY <2>1, CoveredKept DEF Convert
  <2>2. CASE Validate
    BY <2>2, CoveredKept DEF Validate
  <2>3. CASE Predict
    <3>1. pc = "predict" /\ pc' = "window" /\ UNCHANGED <<tokens, text, window, covered>>
      BY <2>3 DEF Predict
    <3> QED BY <3>1, CoveredKept
  <2>4. CASE ReadWindow
    BY <2>4, CoveredReadWindow
  <2>5. CASE Detect
    BY <2>5, CoveredDetect
  <2>6. CASE Standalone
    <3>1. /\ pc = "standalone" /\ pc' = "evaluate"
          /\ UNCHANGED <<tokens, text, window, covered>>
      BY <2>6 DEF Standalone
    <3> QED BY <3>1, CoveredKept
  <2>7. CASE Evaluate
    <3>1. /\ pc = "evaluate" /\ pc' = "done"
          /\ UNCHANGED <<tokens, text, window, covered>>
      BY <2>7 DEF Evaluate
    <3> QED BY <3>1, CoveredKept
  <2>8. CASE UNCHANGED vars
    BY <2>8 DEF vars, CoveredInv, InputCovered, FailsOnlyUncovered, Visible, Reaches
  <2> QED BY <2>1, <2>2, <2>3, <2>4, <2>5, <2>6, <2>7, <2>8 DEF Next
<1> QED BY <1>1, <1>2, PTL DEF Spec

\* detect returns spans only of a text whose visible characters are all within
\* reach of its windows, wherever they are cut.  (ner_detection.py 71-128.)
THEOREM NoGapBetweenWindows == Spec => []InputCovered
<1>1. CoveredInv => InputCovered
  BY DEF CoveredInv
<1> QED BY <1>1, WindowsCover, PTL

\* detect raises an error only for a visible character that the tokenizer left
\* out, never for where the windows are cut.  (ner_detection.py 71-128.)
THEOREM NoNeedlessFailure == Spec => []FailsOnlyUncovered
<1>1. CoveredInv => FailsOnlyUncovered
  BY DEF CoveredInv
<1> QED BY <1>1, WindowsCover, PTL
=============================================================================

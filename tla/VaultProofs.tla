---------------------------- MODULE VaultProofs ----------------------------
(***************************************************************************)
(* Type correctness, key consistency and agreement of answers of Vault,    *)
(* and that it implements VaultService, for every number of requests,      *)
(* hashes, calls, DEKs and attempts; with the facts about its operators    *)
(* that the proofs share.                                                  *)
(***************************************************************************)
EXTENDS VaultRefinement, FiniteSetTheorems, TLAPS

USE NoDekAssumption, NoRevAssumption, TtlAssumption, TriesAssumption

-----------------------------------------------------------------------------
(***************************************************************************)
(* Facts about the operators.                                              *)
(***************************************************************************)
\* A fresh DEK is a DEK, and differs from the stored one and from every
\* snapshot's.
LEMMA FreshDekFacts ==
  ASSUME FreshDeks # {}
  PROVE  FreshDek \in Dek
  BY DEF FreshDek, FreshDeks

\* A fresh revision differs from the stored one and from every snapshot's.
LEMMA FreshRevFacts ==
  ASSUME FreshRevs # {}
  PROVE  /\ FreshRev \in Rev
         /\ FreshRev # rev
         /\ \A o \in Rotator : FreshRev # ro[o].srev
  BY DEF FreshRev, FreshRevs, RevsInUse

\* The local state of a call that is not running.
LEMMA IdleFacts ==
  /\ IdleTz \in TzState
  /\ IdleFl \in FlState
  /\ IdleRo \in RoState
  /\ IdleTz.pc = "idle" /\ IdleFl.pc = "idle" /\ IdleRo.pc = "idle"
  <1>1. /\ (CHOOSE r \in Req : TRUE) \in Req
        /\ (CHOOSE h \in Hash : TRUE) \in Hash
        /\ (CHOOSE op \in Op : TRUE) \in Op
    BY NonEmptyAssumption
  <1>2. (CHOOSE a \in Addr : TRUE) \in Addr
    <2>1. PICK r \in Req, h \in Hash : TRUE
      BY NonEmptyAssumption
    <2>2. <<r, h>> \in Addr
      BY DEF Addr
    <2> QED BY <2>2
  <1>3. IdleTz \in TzState /\ IdleTz.pc = "idle"
    BY <1>1 DEF IdleTz, TzState
  <1>4. IdleFl \in FlState /\ IdleFl.pc = "idle"
    BY <1>1 DEF IdleFl, FlState
  <1>5. [a \in Addr |-> NoDek] \in [Addr -> Dek \cup {NoDek}]
    OBVIOUS
  <1>6. IdleRo \in RoState /\ IdleRo.pc = "idle"
    BY <1>1, <1>2, <1>5 DEF IdleRo, RoState
  <1> QED BY <1>3, <1>4, <1>6

\* The number of confirmed tokens is a natural number.
LEMMA LiveCount ==
  ASSUME TypeOK, NEW o \in Rotator
  PROVE  Cardinality(ro[o].live) \in Nat
  <1>1. IsFiniteSet(Addr)
    BY FiniteAssumption, FS_Product DEF Addr
  <1>2. ro[o].live \in SUBSET Addr
    BY DEF TypeOK, RoState
  <1>3. IsFiniteSet(ro[o].live)
    BY <1>1, <1>2, FS_Subset
  <1> QED BY <1>3, FS_CardinalityType

-----------------------------------------------------------------------------
(***************************************************************************)
(* Type correctness.                                                       *)
(***************************************************************************)
LEMMA InitType == Init => TypeOK
  <1> SUFFICES ASSUME Init PROVE TypeOK OBVIOUS
  <1>1. /\ dek \in Dek \cup {NoDek}
        /\ cipher \in [Addr -> Dek \cup {NoDek}]
        /\ ttl \in [Addr -> 0..TTL]
        /\ index \in [Req -> SUBSET Hash]
        /\ indexTtl \in [Req -> 0..TTL]
        /\ rev \in Rev \cup {NoRev}
    BY DEF Init
  <1>2. result \in [Op -> Nat \cup {NoResult}]
    BY DEF Init
  <1>3. /\ tz \in [Tokenizer -> TzState]
        /\ fl \in [Flusher -> FlState]
        /\ ro \in [Rotator -> RoState]
    BY IdleFacts DEF Init
  <1>4. /\ dirty \in SUBSET (Tokenizer \cup Rotator)
        /\ answers \in [Op -> SUBSET (Nat \cup {NoResult})]
    BY DEF Init
  <1> QED BY <1>1, <1>2, <1>3, <1>4 DEF TypeOK

LEMMA InitAttempt == Init => AttemptLeft
  BY IdleFacts DEF Init, AttemptLeft, IdleTz, IdleRo

Procs == Tokenizer \cup Rotator

\* A call that is replaced by a well-typed one with an attempt left.
LEMMA TzUpdate ==
  ASSUME TypeOK, AttemptLeft, NEW t \in Tokenizer, NEW s \in TzState,
         tz' = [tz EXCEPT ![t] = s], s.pc # "reread" => s.tries < MaxTries,
         UNCHANGED ro
  PROVE  tz' \in [Tokenizer -> TzState] /\ AttemptLeft'
  <1>1. tz' \in [Tokenizer -> TzState]
    BY DEF TypeOK
  <1>2. \A u \in Tokenizer : tz'[u] = IF u = t THEN s ELSE tz[u]
    BY DEF TypeOK
  <1> QED BY <1>1, <1>2 DEF AttemptLeft

\* Steps of a tokenize call that change nothing but its own state.
LEMMA TzOnlyType ==
  ASSUME TypeOK, AttemptLeft, TzOnly, dirty' \in SUBSET Procs,
         NEW t \in Tokenizer, NEW s \in TzState,
         tz' = [tz EXCEPT ![t] = s], s.pc # "reread" => s.tries < MaxTries
  PROVE  TypeOK' /\ AttemptLeft'
  <1>1. tz' \in [Tokenizer -> TzState] /\ AttemptLeft'
    BY TzUpdate DEF TzOnly
  <1> QED BY <1>1 DEF TypeOK, TzOnly, redis, Procs

LEMMA TokenizeType ==
  ASSUME TypeOK, AttemptLeft, NEW t \in Tokenizer,
         \/ \E r \in Req, S \in SUBSET Hash : TokenizeStart(t, r, S)
         \/ TokenizeStep(t)
         \/ TokenizeAbort(t)
  PROVE  TypeOK' /\ AttemptLeft'
  <1>0. /\ tz[t] \in TzState
        /\ tz[t].pc # "reread" => tz[t].tries < MaxTries
        /\ 0 < MaxTries /\ 0 \in 0..MaxTries
        /\ dek \in Dek \cup {NoDek}
        /\ dirty \in SUBSET Procs
    BY DEF TypeOK, AttemptLeft, Procs
  <1>a. /\ IdleTz \in TzState
        /\ IdleTz.pc = "idle" /\ IdleTz.tries = 0
    BY IdleFacts DEF IdleTz
  <1>1. ASSUME NEW r \in Req, NEW S \in SUBSET Hash, TokenizeStart(t, r, S)
        PROVE  TypeOK' /\ AttemptLeft'
    <2> DEFINE s == [IdleTz EXCEPT !.pc = "getDek", !.req = r, !.todo = S]
    <2>1. s \in TzState /\ s.tries = 0
      BY <1>a DEF TzState
    <2>2. tz' = [tz EXCEPT ![t] = s]
      BY <1>1 DEF TokenizeStart
    <2>3. 0 < MaxTries
      BY <1>0
    <2>4. TzOnly /\ dirty' \in SUBSET Procs
      BY <1>0, <1>1 DEF TokenizeStart
    <2> HIDE DEF s
    <2> QED BY <2>1, <2>2, <2>3, <2>4, TzOnlyType
  <1>2. CASE GetDek(t)
    <2>1. TzOnly /\ dirty' \in SUBSET Procs
      BY <1>0, <1>2 DEF GetDek
    <2>2. CASE dek # NoDek
      <3> DEFINE s == [tz[t] EXCEPT !.pc = "readDek"]
      <3>1. s \in TzState /\ tz' = [tz EXCEPT ![t] = s]
        BY <1>0, <1>2, <2>2 DEF GetDek, TzGoto, TzState
      <3>2. s.tries < MaxTries
        BY <1>0, <1>2 DEF GetDek, TzState
      <3> HIDE DEF s
      <3> QED BY <2>1, <3>1, <3>2, TzOnlyType
    <2>3. CASE dek = NoDek
      <3> DEFINE s == [tz[t] EXCEPT !.pc = "dekWatch", !.dek = FreshDek]
      <3>1. FreshDek \in Dek \cup {NoDek}
        BY <1>2, <2>3, FreshDekFacts DEF GetDek
      <3>2. s \in TzState /\ tz' = [tz EXCEPT ![t] = s]
        <4>1. s \in TzState
          BY ONLY <1>0, <3>1 DEF TzState
        <4>2. tz' = [tz EXCEPT ![t] = s]
          BY <1>2, <2>3 DEF GetDek
        <4> QED BY <4>1, <4>2
      <3>3. s.tries < MaxTries
        BY <1>0, <1>2 DEF GetDek, TzState
      <3> HIDE DEF s
      <3> QED BY <2>1, <3>2, <3>3, TzOnlyType
    <2> QED BY <2>2, <2>3
  <1>3. CASE DekWatch(t)
    <2>1. PICK pc \in {"readDek", "dekExec"} : tz' = [tz EXCEPT ![t].pc = pc]
      BY <1>3 DEF DekWatch, TzGoto
    <2> DEFINE s == [tz[t] EXCEPT !.pc = pc]
    <2>2. s \in TzState /\ tz' = [tz EXCEPT ![t] = s]
      BY <1>0, <2>1 DEF TzState
    <2>3. s.tries < MaxTries
      BY <1>0, <1>3 DEF DekWatch, TzState
    <2>4. TzOnly /\ dirty' \in SUBSET Procs
      BY <1>0, <1>3 DEF DekWatch, Unwatch
    <2> HIDE DEF s
    <2> QED BY <2>2, <2>3, <2>4, TzOnlyType
  <1>4. CASE DekExec(t)
    <2>1. /\ UNCHANGED <<cipher, ttl, index, indexTtl, rev, result, fl, ro, answers>>
          /\ tz[t].pc = "dekExec" /\ tz[t].dek \in Dek \cup {NoDek}
      BY <1>0, <1>4 DEF DekExec, TzState
    <2>2. CASE t \notin dirty
      <3> DEFINE s == [tz[t] EXCEPT !.pc = "readDek", !.tries = 0]
      <3>0. s \in TzState
        BY <1>0 DEF TzState
      <3>1. s \in TzState /\ tz' = [tz EXCEPT ![t] = s]
        BY <1>4, <2>2, <3>0 DEF DekExec
      <3>2. s.tries < MaxTries
        BY <1>0 DEF TzState
      <3>3. dek' = tz[t].dek /\ dirty' \in SUBSET Procs
        BY <1>0, <1>4, <2>2 DEF DekExec, DekWatchers, Committing, Procs
      <3> HIDE DEF s
      <3>4. tz' \in [Tokenizer -> TzState] /\ AttemptLeft'
        BY <2>1, <3>1, <3>2, TzUpdate
      <3> QED BY <2>1, <3>3, <3>4 DEF TypeOK, Procs
    <2>3. CASE t \in dirty
      <3>1. TzOnly /\ dirty' \in SUBSET Procs
        BY <1>0, <1>4, <2>1, <2>3 DEF DekExec, Unwatch, TzOnly, redis
      <3>2. CASE tz[t].tries + 1 < MaxTries
        <4> DEFINE s == [tz[t] EXCEPT !.pc = "dekWatch", !.tries = tz[t].tries + 1]
        <4>1. tz[t].tries + 1 \in 0..MaxTries
          BY <1>0, <3>2 DEF TzState
        <4>2. s \in TzState /\ tz' = [tz EXCEPT ![t] = s]
          BY <1>0, <1>4, <2>3, <3>2, <4>1 DEF DekExec, TzState
        <4>3. s.tries < MaxTries
          BY <1>0, <3>2 DEF TzState
        <4> HIDE DEF s
        <4> QED BY <3>1, <4>2, <4>3, TzOnlyType
      <3>3. CASE ~(tz[t].tries + 1 < MaxTries)
        BY <1>0, <1>a, <1>4, <2>3, <3>1, <3>3, TzOnlyType DEF DekExec, TzDone
      <3> QED BY <3>2, <3>3
    <2> QED BY <2>2, <2>3
  <1>5. CASE ReadDek(t)
    <2>1. TzOnly /\ dirty' \in SUBSET Procs
      BY <1>0, <1>5 DEF ReadDek
    <2>2. CASE dek = NoDek \/ tz[t].todo = {}
      BY <1>0, <1>a, <1>5, <2>1, <2>2, TzOnlyType DEF ReadDek, TzDone
    <2>3. CASE ~(dek = NoDek \/ tz[t].todo = {})
      <3> DEFINE s == [tz[t] EXCEPT !.pc = "storeWatch", !.dek = dek, !.tries = 0]
      <3>0. s \in TzState
        BY <1>0 DEF TzState
      <3>1. s \in TzState /\ tz' = [tz EXCEPT ![t] = s]
        BY <1>5, <2>3, <3>0 DEF ReadDek
      <3>2. s.tries < MaxTries
        BY <1>0 DEF TzState
      <3> HIDE DEF s
      <3> QED BY <2>1, <3>1, <3>2, TzOnlyType
    <2> QED BY <2>2, <2>3
  <1>6. ASSUME NEW h \in Hash, StoreWatch(t, h)
        PROVE  TypeOK' /\ AttemptLeft'
    <2>1. TzOnly /\ dirty' \in SUBSET Procs
      BY <1>0, <1>6 DEF StoreWatch, Unwatch
    <2>2. CASE dek # tz[t].dek
      <3> DEFINE s == [tz[t] EXCEPT !.pc = "reread", !.tries = tz[t].tries + 1,
                                    !.hash = h]
      <3>1. tz[t].tries + 1 \in 0..MaxTries
        BY <1>0, <1>6 DEF StoreWatch, TzState
      <3>2. s \in TzState /\ tz' = [tz EXCEPT ![t] = s]
        BY <1>0, <1>6, <2>2, <3>1 DEF StoreWatch, TzState
      <3>3. s.pc = "reread"
        BY <1>0 DEF TzState
      <3> HIDE DEF s
      <3> QED BY <2>1, <3>2, <3>3, TzOnlyType
    <2>3. CASE dek = tz[t].dek
      <3> DEFINE s == [tz[t] EXCEPT !.pc = "storeExec", !.hash = h]
      <3>1. s \in TzState /\ tz' = [tz EXCEPT ![t] = s]
        BY <1>0, <1>6, <2>3 DEF StoreWatch, TzState
      <3>2. s.tries < MaxTries
        BY <1>0, <1>6 DEF StoreWatch, TzState
      <3> HIDE DEF s
      <3> QED BY <2>1, <3>1, <3>2, TzOnlyType
    <2> QED BY <2>2, <2>3
  <1>7. CASE StoreExec(t)
    <2>1. CASE t \in dirty
      <3> DEFINE s == [tz[t] EXCEPT !.pc = "reread", !.tries = tz[t].tries + 1]
      <3>1. tz[t].tries + 1 \in 0..MaxTries
        BY <1>0, <1>7 DEF StoreExec, TzState
      <3>2. s \in TzState /\ tz' = [tz EXCEPT ![t] = s]
        BY <1>0, <1>7, <2>1, <3>1 DEF StoreExec, TzState
      <3>3. s.pc = "reread"
        BY <1>0 DEF TzState
      <3>4. TzOnly /\ dirty' \in SUBSET Procs
        BY <1>0, <1>7, <2>1 DEF StoreExec, Unwatch, TzOnly
      <3> HIDE DEF s
      <3> QED BY <3>2, <3>3, <3>4, TzOnlyType
    <2>2. CASE t \notin dirty
      <3> DEFINE s == [tz[t] EXCEPT !.pc = "register"]
      <3>1. s \in TzState /\ tz' = [tz EXCEPT ![t] = s]
        BY <1>0, <1>7, <2>2 DEF StoreExec, TzGoto, TzState
      <3>2. s.tries < MaxTries
        BY <1>0, <1>7 DEF StoreExec, TzState
      <3> HIDE DEF s
      <3>3. tz' \in [Tokenizer -> TzState] /\ AttemptLeft'
        BY <1>7, <3>1, <3>2, TzUpdate DEF StoreExec
      <3>4. /\ index' \in [Req -> SUBSET Hash]
            /\ indexTtl' \in [Req -> 0..TTL]
        <4>1. tz[t].req \in Req /\ tz[t].hash \in Hash /\ TTL \in 0..TTL
          BY <1>0 DEF TzState
        <4>2. AddToIndex(tz[t].req, tz[t].hash) \/ UNCHANGED <<index, indexTtl>>
          BY <1>7, <2>2 DEF StoreExec
        <4> QED BY ONLY TypeOK, <4>1, <4>2 DEF TypeOK, AddToIndex
      <3>5. rev' \in Rev
        BY <1>7, <2>2, FreshRevFacts DEF StoreExec
      <3> DEFINE a == <<tz[t].req, tz[t].hash>>
      <3>6. /\ tz[t].dek \in Dek \cup {NoDek}
            /\ cipher' = [cipher EXCEPT ![a] = tz[t].dek]
            /\ ttl' = [ttl EXCEPT ![a] = TTL]
        BY <1>0, <1>7, <2>2 DEF StoreExec, TzState
      <3> HIDE DEF a
      <3>7. /\ cipher' \in [Addr -> Dek \cup {NoDek}]
            /\ ttl' \in [Addr -> 0..TTL]
        <4>1. TTL \in 0..TTL
          OBVIOUS
        <4>2. cipher \in [Addr -> Dek \cup {NoDek}] /\ ttl \in [Addr -> 0..TTL]
          BY DEF TypeOK
        <4> QED BY <3>6, <4>1, <4>2
      <3>8. dirty' \in SUBSET Procs
        BY <1>0, <1>7, <2>2
           DEF StoreExec, RevWatchers, TokenWatchers, Committing, Procs
      <3> QED
        BY <1>7, <2>2, <3>3, <3>4, <3>5, <3>7, <3>8
           DEF StoreExec, TypeOK, Procs
    <2> QED BY <2>1, <2>2
  <1>8. CASE Reread(t)
    <2>1. TzOnly /\ dirty' \in SUBSET Procs
      BY <1>0, <1>8 DEF Reread
    <2>2. CASE dek = NoDek \/ tz[t].tries = MaxTries
      BY <1>0, <1>a, <1>8, <2>1, <2>2, TzOnlyType DEF Reread, TzDone
    <2>3. CASE ~(dek = NoDek \/ tz[t].tries = MaxTries)
      <3> DEFINE s == [tz[t] EXCEPT !.pc = "storeWatch", !.dek = dek]
      <3>1. s \in TzState /\ tz' = [tz EXCEPT ![t] = s]
        BY <1>0, <1>8, <2>3 DEF Reread, TzState
      <3>2. s.tries < MaxTries
        BY <1>0, <2>3 DEF TzState
      <3> HIDE DEF s
      <3> QED BY <2>1, <3>1, <3>2, TzOnlyType
    <2> QED BY <2>2, <2>3
  <1>9. CASE Register(t)
    <2>1. /\ index' \in [Req -> SUBSET Hash]
          /\ indexTtl' \in [Req -> 0..TTL]
          /\ UNCHANGED <<dek, cipher, ttl, rev, result, fl, ro, dirty, answers>>
      BY <1>0, <1>9 DEF Register, AddToIndex, TzState, TypeOK
    <2> DEFINE rest == tz[t].todo \ {tz[t].hash}
    <2>2. tz' \in [Tokenizer -> TzState] /\ AttemptLeft'
      <3>1. CASE rest = {}
        BY <1>0, <1>a, <1>9, <2>1, <3>1, TzUpdate DEF Register, TzDone
      <3>2. CASE rest # {}
        <4> DEFINE s == [tz[t] EXCEPT !.pc = "storeWatch", !.todo = rest,
                                      !.tries = 0]
        <4>1. rest \in SUBSET Hash
          BY <1>0 DEF TzState
        <4>0. s \in TzState
          BY <1>0, <4>1 DEF TzState
        <4>2. s \in TzState /\ tz' = [tz EXCEPT ![t] = s]
          BY <1>9, <3>2, <4>0 DEF Register
        <4>3. s.tries < MaxTries
          BY <1>0 DEF TzState
        <4> HIDE DEF s
        <4> QED BY <2>1, <4>2, <4>3, TzUpdate
      <3> QED BY <3>1, <3>2
    <2> QED BY <2>1, <2>2 DEF TypeOK
  <1>10. CASE TokenizeAbort(t)
    <2>1. TzOnly /\ dirty' \in SUBSET Procs
      BY <1>0, <1>10 DEF TokenizeAbort, Unwatch
    <2>2. tz' = [tz EXCEPT ![t] = IdleTz]
      BY <1>10 DEF TokenizeAbort, TzDone
    <2> QED BY <1>0, <1>a, <2>1, <2>2, TzOnlyType
  <1> QED
    BY <1>1, <1>2, <1>3, <1>4, <1>5, <1>6, <1>7, <1>8, <1>9, <1>10
       DEF TokenizeStep

LEMMA FlushType ==
  ASSUME TypeOK, AttemptLeft, NEW f \in Flusher,
         \/ \E r \in Req : FlushMembers(f, r)
         \/ FlushStep(f)
         \/ FlushAbort(f)
  PROVE  TypeOK' /\ AttemptLeft'
  <1> USE DEF TypeOK, AttemptLeft
  <1>0. fl[f] \in FlState /\ IdleFl \in FlState
    BY IdleFacts
  <1>1. ASSUME NEW r \in Req, FlushMembers(f, r)
        PROVE  TypeOK' /\ AttemptLeft'
    BY <1>0, <1>1 DEF FlushMembers, FlState, redis
  <1>2. CASE FlushUnlink(f)
    <2>1. dirty' \in SUBSET (Tokenizer \cup Rotator)
      BY <1>2 DEF FlushUnlink, TokenWatchers, Committing
    <2>2. /\ cipher' \in [Addr -> Dek \cup {NoDek}]
          /\ ttl' \in [Addr -> 0..TTL]
      BY <1>2 DEF FlushUnlink
    <2> QED BY <1>0, <1>2, <2>1, <2>2 DEF FlushUnlink, FlState
  <1>3. CASE FlushDel(f)
    BY <1>0, <1>3 DEF FlushDel, FlState
  <1>4. CASE FlushAbort(f)
    BY <1>0, <1>4 DEF FlushAbort, redis
  <1> QED
    BY <1>1, <1>2, <1>3, <1>4 DEF FlushStep

LEMMA RoUpdate ==
  ASSUME TypeOK, AttemptLeft, NEW o \in Rotator, NEW s \in RoState,
         ro' = [ro EXCEPT ![o] = s], s.tries < RotationTries, UNCHANGED tz
  PROVE  ro' \in [Rotator -> RoState] /\ AttemptLeft'
  <1>1. ro' \in [Rotator -> RoState]
    BY DEF TypeOK
  <1>2. \A u \in Rotator : ro'[u] = IF u = o THEN s ELSE ro[u]
    BY DEF TypeOK
  <1> QED BY <1>1, <1>2 DEF AttemptLeft

\* Steps of a rotation that change nothing but its own state.
LEMMA RoOnlyType ==
  ASSUME TypeOK, AttemptLeft, RoOnly, dirty' \in SUBSET Procs,
         answers' \in [Op -> SUBSET (Nat \cup {NoResult})],
         NEW o \in Rotator, NEW s \in RoState,
         ro' = [ro EXCEPT ![o] = s], s.tries < RotationTries
  PROVE  TypeOK' /\ AttemptLeft'
  <1>1. ro' \in [Rotator -> RoState] /\ AttemptLeft'
    BY RoUpdate DEF RoOnly
  <1> QED BY <1>1 DEF TypeOK, RoOnly, redis, Procs

\* A finished rotation.
LEMMA RoDoneType ==
  ASSUME TypeOK, NEW o \in Rotator,
         NEW out \in {"none", "rotated", "notFound", "decryptError",
                      "noExpiry", "contention"},
         RoDone(o, out)
  PROVE  \E s \in RoState : /\ ro' = [ro EXCEPT ![o] = s]
                            /\ s = [IdleRo EXCEPT !.out = out]
                            /\ s.pc = "idle" /\ s.tries = 0 /\ s.tries < RotationTries
  <1> DEFINE s == [IdleRo EXCEPT !.out = out]
  <1>1. s \in RoState
    BY IdleFacts DEF RoState
  <1>2. s.tries = 0 /\ s.pc = "idle" /\ s.tries < RotationTries
    BY DEF IdleRo
  <1>3. ro' = [ro EXCEPT ![o] = s] /\ s = [IdleRo EXCEPT !.out = out]
    BY DEF RoDone
  <1> HIDE DEF s
  <1> QED BY <1>1, <1>2, <1>3

\* A refused commit.
LEMMA RoRetryType ==
  ASSUME TypeOK, AttemptLeft, NEW o \in Rotator, RoRetry(o)
  PROVE  \E s \in RoState : /\ ro' = [ro EXCEPT ![o] = s]
                            /\ s.pc \in {"idle", "snapshot"}
                            /\ s.tries < RotationTries
  <1>1. ro[o] \in RoState
    BY DEF TypeOK
  <1>2. CASE ro[o].tries + 1 < RotationTries
    <2> DEFINE s == [IdleRo EXCEPT !.pc = "snapshot", !.op = ro[o].op,
                                   !.tries = ro[o].tries + 1]
    <2>1. ro[o].tries + 1 \in 0..RotationTries /\ ro[o].op \in Op
      BY <1>1, <1>2 DEF RoState
    <2>2. s \in RoState
      BY <2>1, IdleFacts DEF RoState
    <2>3. s.tries < RotationTries /\ s.pc = "snapshot"
      BY <1>2 DEF IdleRo
    <2>4. ro' = [ro EXCEPT ![o] = s]
      BY <1>2 DEF RoRetry
    <2> HIDE DEF s
    <2> QED BY <2>2, <2>3, <2>4
  <1>3. CASE ~(ro[o].tries + 1 < RotationTries)
    BY <1>3, RoDoneType DEF RoRetry
  <1> QED BY <1>2, <1>3

LEMMA RotateType ==
  ASSUME TypeOK, AttemptLeft, NEW o \in Rotator,
         \/ \E op \in Op : RotateStart(o, op)
         \/ RotateStep(o)
         \/ RotateAbort(o)
  PROVE  TypeOK' /\ AttemptLeft'
  <1>0. /\ ro[o] \in RoState /\ IdleRo \in RoState /\ IdleRo.tries = 0
        /\ ro[o].tries < RotationTries /\ 0 < RotationTries
        /\ dek \in Dek \cup {NoDek} /\ rev \in Rev \cup {NoRev}
        /\ cipher \in [Addr -> Dek \cup {NoDek}]
        /\ dirty \in SUBSET Procs
        /\ (dirty \ {o}) \in SUBSET Procs
        /\ ro[o].op \in Op
    BY IdleFacts DEF TypeOK, AttemptLeft, Procs, RoState, IdleRo
  <1>1. /\ answers \in [Op -> SUBSET (Nat \cup {NoResult})]
        /\ \A op \in Op, n \in Nat \cup {NoResult} :
             [answers EXCEPT ![op] = @ \cup {n}]
               \in [Op -> SUBSET (Nat \cup {NoResult})]
        /\ result[ro[o].op] \in Nat \cup {NoResult}
    BY <1>0 DEF TypeOK
  <1>2. ASSUME NEW op \in Op, RotateStart(o, op)
        PROVE  TypeOK' /\ AttemptLeft'
    <2> DEFINE s == [IdleRo EXCEPT !.pc = "prior", !.op = op]
    <2>1. s \in RoState /\ s.tries < RotationTries
      <3>1. s \in RoState
        BY ONLY <1>0, op \in Op DEF RoState
      <3>2. s.tries = IdleRo.tries
        BY ONLY <1>0 DEF RoState
      <3> QED BY ONLY <1>0, <3>1, <3>2
    <2>2. /\ ro' = [ro EXCEPT ![o] = s] /\ RoOnly
          /\ UNCHANGED <<dirty, answers>>
      BY <1>2 DEF RotateStart
    <2> HIDE DEF s
    <2> QED BY <1>0, <1>1, <2>1, <2>2, RoOnlyType
  <1>3. CASE RotatePrior(o)
    <2>1. RoOnly /\ UNCHANGED dirty
      BY <1>3 DEF RotatePrior
    <2>2. CASE result[ro[o].op] # NoResult
      BY <1>0, <1>1, <1>3, <2>1, <2>2, RoDoneType, RoOnlyType
         DEF RotatePrior, RoAnswer
    <2>3. CASE result[ro[o].op] = NoResult
      <3> DEFINE s == [ro[o] EXCEPT !.pc = "snapshot"]
      <3>1. s \in RoState /\ s.tries < RotationTries
        BY <1>0 DEF RoState
      <3>2. ro' = [ro EXCEPT ![o] = s] /\ UNCHANGED answers
        BY <1>3, <2>3 DEF RotatePrior
      <3> HIDE DEF s
      <3> QED BY <1>0, <1>1, <2>1, <3>1, <3>2, RoOnlyType
    <2> QED BY <2>2, <2>3
  <1>4. CASE RotateSnapshot(o)
    <2> DEFINE s == [ro[o] EXCEPT !.pc = "scan", !.sdek = dek, !.srev = rev,
                                  !.scan = Addr, !.snap = [a \in Addr |-> NoDek]]
    <2>1. s \in RoState /\ s.tries < RotationTries
      BY <1>0 DEF RoState
    <2>2. /\ ro' = [ro EXCEPT ![o] = s] /\ RoOnly
          /\ UNCHANGED <<dirty, answers>>
      BY <1>4 DEF RotateSnapshot
    <2> HIDE DEF s
    <2> QED BY <1>0, <1>1, <2>1, <2>2, RoOnlyType
  <1>5. ASSUME NEW a \in Addr, RotateScan(o, a)
        PROVE  TypeOK' /\ AttemptLeft'
    <2> DEFINE c == IF Live(a) THEN cipher[a] ELSE NoDek
               s == [ro[o] EXCEPT !.scan = @ \ {a}, !.snap = [@ EXCEPT ![a] = c]]
    <2>1. c \in Dek \cup {NoDek}
      BY <1>0
    <2>2. ro' = [ro EXCEPT ![o] = s]
      BY <1>0, <1>5 DEF RotateScan, RoState
    <2> HIDE DEF c
    <2>3. s \in RoState /\ s.tries < RotationTries
      BY <1>0, <2>1 DEF RoState
    <2>4. RoOnly /\ UNCHANGED <<dirty, answers>>
      BY <1>5 DEF RotateScan
    <2> HIDE DEF s
    <2> QED BY <1>0, <1>1, <2>2, <2>3, <2>4, RoOnlyType
  <1>6. CASE RotateWatch(o)
    <2>1. /\ RoOnly /\ UNCHANGED answers /\ dirty' \in SUBSET Procs
      BY <1>0, <1>6 DEF RotateWatch, Unwatch
    <2>2. CASE RoDone(o, "notFound") \/ RoDone(o, "decryptError")
      BY <1>1, <2>1, <2>2, RoDoneType, RoOnlyType
    <2>3. CASE /\ FreshDeks # {}
               /\ ro' = [ro EXCEPT ![o].pc = "result", ![o].ndek = FreshDek]
      <3> DEFINE s == [ro[o] EXCEPT !.pc = "result", !.ndek = FreshDek]
      <3>1. FreshDek \in Dek
        BY <2>3, FreshDekFacts
      <3>2. s \in RoState /\ s.tries < RotationTries
        BY <1>0, <3>1 DEF RoState
      <3>3. ro' = [ro EXCEPT ![o] = s]
        BY <2>3
      <3> HIDE DEF s
      <3> QED BY <1>1, <2>1, <3>2, <3>3, RoOnlyType
    <2> QED BY <1>6, <2>2, <2>3 DEF RotateWatch
  <1>7. CASE RotateResult(o)
    <2>1. RoOnly /\ dirty' \in SUBSET Procs
      BY <1>0, <1>7 DEF RotateResult, Unwatch
    <2>2. CASE result[ro[o].op] # NoResult
      BY <1>0, <1>1, <1>7, <2>1, <2>2, RoDoneType, RoOnlyType
         DEF RotateResult, RoAnswer
    <2>3. CASE result[ro[o].op] = NoResult
      <3> DEFINE s == [ro[o] EXCEPT !.pc = "cas"]
      <3>1. s \in RoState /\ s.tries < RotationTries
        BY <1>0 DEF RoState
      <3>2. ro' = [ro EXCEPT ![o] = s] /\ UNCHANGED answers
        BY <1>7, <2>3 DEF RotateResult
      <3> HIDE DEF s
      <3> QED BY <1>1, <2>1, <3>1, <3>2, RoOnlyType
    <2> QED BY <2>2, <2>3
  <1>8. CASE RotateCas(o)
    <2>1. RoOnly /\ UNCHANGED answers /\ dirty' \in SUBSET Procs
      BY <1>0, <1>8 DEF RotateCas, Unwatch
    <2>2. CASE RoRetry(o)
      BY <1>1, <2>1, <2>2, RoRetryType, RoOnlyType
    <2>3. CASE ro' = [ro EXCEPT ![o].pc = "get", ![o].live = {},
                        ![o].check = {a \in Addr : ro[o].snap[a] # NoDek}]
      <3> DEFINE C == {a \in Addr : ro[o].snap[a] # NoDek}
                 s == [ro[o] EXCEPT !.pc = "get", !.live = {}, !.check = C]
      <3>1. C \in SUBSET Addr /\ ro' = [ro EXCEPT ![o] = s]
        BY <2>3
      <3> HIDE DEF C
      <3>2. s \in RoState /\ s.tries < RotationTries
        BY <1>0, <3>1 DEF RoState
      <3> HIDE DEF s
      <3> QED BY <1>1, <2>1, <3>1, <3>2, RoOnlyType
    <2> QED BY <1>8, <2>2, <2>3 DEF RotateCas
  <1>9. ASSUME NEW a \in Addr, RotateGet(o, a)
        PROVE  TypeOK' /\ AttemptLeft'
    <2>1. RoOnly /\ UNCHANGED answers /\ dirty' \in SUBSET Procs
      BY <1>0, <1>9 DEF RotateGet, Unwatch
    <2>2. CASE RoRetry(o)
      BY <1>1, <2>1, <2>2, RoRetryType, RoOnlyType
    <2>3. CASE ro' = [ro EXCEPT ![o].check = @ \ {a}]
      <3> DEFINE s == [ro[o] EXCEPT !.check = @ \ {a}]
      <3>1. s \in RoState /\ s.tries < RotationTries
        BY <1>0 DEF RoState
      <3>2. ro' = [ro EXCEPT ![o] = s]
        BY <2>3
      <3> HIDE DEF s
      <3> QED BY <1>1, <2>1, <3>1, <3>2, RoOnlyType
    <2>4. CASE ro' = [ro EXCEPT ![o].pc = "pttl", ![o].cur = a,
                                ![o].check = @ \ {a}]
      <3> DEFINE s == [ro[o] EXCEPT !.pc = "pttl", !.cur = a, !.check = @ \ {a}]
      <3>1. s \in RoState /\ s.tries < RotationTries
        BY <1>0 DEF RoState
      <3>2. ro' = [ro EXCEPT ![o] = s]
        BY <2>4
      <3> HIDE DEF s
      <3> QED BY <1>1, <2>1, <3>1, <3>2, RoOnlyType
    <2> QED BY <1>9, <2>2, <2>3, <2>4 DEF RotateGet
  <1>10. CASE RotatePttl(o)
    <2>1. RoOnly /\ UNCHANGED answers /\ dirty' \in SUBSET Procs
      BY <1>0, <1>10 DEF RotatePttl, Unwatch
    <2>2. CASE RoDone(o, "noExpiry")
      BY <1>1, <2>1, <2>2, RoDoneType, RoOnlyType
    <2>3. CASE ro' = [ro EXCEPT ![o].pc = "get",
                                ![o].live = @ \cup {ro[o].cur}]
      <3> DEFINE s == [ro[o] EXCEPT !.pc = "get", !.live = @ \cup {ro[o].cur}]
      <3>1. s \in RoState /\ s.tries < RotationTries
        BY <1>0 DEF RoState
      <3>2. ro' = [ro EXCEPT ![o] = s]
        BY <2>3
      <3> HIDE DEF s
      <3> QED BY <1>1, <2>1, <3>1, <3>2, RoOnlyType
    <2> QED BY <1>10, <2>2, <2>3 DEF RotatePttl
  <1>11. CASE RotateExec(o)
    <2>1. CASE o \in dirty
      <3>1. RoOnly /\ UNCHANGED answers /\ dirty' \in SUBSET Procs /\ RoRetry(o)
        BY <1>0, <1>11, <2>1 DEF RotateExec, Unwatch, RoOnly
      <3> QED BY <1>1, <3>1, RoRetryType, RoOnlyType
    <2>2. CASE o \notin dirty
      <3> DEFINE n == Cardinality(ro[o].live)
      <3>1. n \in Nat
        BY LiveCount
      <3>2. /\ RoRetry(o) \/ RoDone(o, "rotated") \/ RoDone(o, "none")
            /\ \/ answers' = [answers EXCEPT ![ro[o].op] = @ \cup {n}]
               \/ answers' = answers
            /\ result' = [result EXCEPT ![ro[o].op] = n]
            /\ dek' = ro[o].ndek
            /\ UNCHANGED <<ttl, index, indexTtl, tz, fl>>
        BY <1>11, <2>2 DEF RotateExec, RoAnswer, RotatedTtl
      <3> HIDE DEF n
      <3>3. ro' \in [Rotator -> RoState] /\ AttemptLeft'
        <4>1. \E s \in RoState : /\ ro' = [ro EXCEPT ![o] = s]
                                 /\ s.tries < RotationTries
          BY <1>1, <3>2, RoRetryType, RoDoneType
        <4> QED BY <1>1, <3>2, <4>1, RoUpdate
      <3>4. dek' \in Dek \cup {NoDek}
        BY <1>0, <3>2 DEF RoState
      <3>5. cipher' \in [Addr -> Dek \cup {NoDek}]
        BY <1>0, <1>11, <2>2 DEF RotateExec, RotatedCipher, RoState
      <3>6. rev' \in Rev \cup {NoRev}
        BY <1>11, <2>2, FreshRevFacts DEF RotateExec
      <3>7. dirty' \in SUBSET Procs
        BY <1>0, <1>11, <2>2 DEF RotateExec, DekWatchers, Committing, Procs
      <3>8. /\ answers' \in [Op -> SUBSET (Nat \cup {NoResult})]
            /\ result' \in [Op -> Nat \cup {NoResult}]
        BY <1>0, <1>1, <3>1, <3>2 DEF TypeOK
      <3> QED BY <3>2, <3>3, <3>4, <3>5, <3>6, <3>7, <3>8 DEF TypeOK, Procs
    <2> QED BY <2>1, <2>2
  <1>12. CASE RotateAbort(o)
    <2>1. RoOnly /\ UNCHANGED answers /\ dirty' \in SUBSET Procs
      BY <1>0, <1>12 DEF RotateAbort, Unwatch
    <2> QED BY <1>1, <1>12, <2>1, RoDoneType, RoOnlyType DEF RotateAbort
  <1> QED
    BY <1>2, <1>3, <1>4, <1>5, <1>6, <1>7, <1>8, <1>9, <1>10, <1>11, <1>12
       DEF RotateStep

LEMMA EnvironmentType ==
  ASSUME TypeOK, AttemptLeft, Tick \/ \E r \in Req : UnlinkIndex(r)
  PROVE  TypeOK' /\ AttemptLeft'
  <1>1. CASE Tick
    <2>1. \A n \in 0..TTL : Aged(n) \in 0..TTL
      BY DEF Aged
    <2>2. ttl' \in [Addr -> 0..TTL] /\ indexTtl' \in [Req -> 0..TTL]
      BY <1>1, <2>1 DEF Tick, TypeOK
    <2>3. /\ cipher' \in [Addr -> Dek \cup {NoDek}]
          /\ index' \in [Req -> SUBSET Hash]
      BY <1>1 DEF Tick, TypeOK
    <2>4. dirty' \in SUBSET (Tokenizer \cup Rotator)
      BY <1>1 DEF Tick, TypeOK, TokenWatchers, Committing
    <2> QED BY <1>1, <2>2, <2>3, <2>4 DEF Tick, TypeOK, AttemptLeft
  <1>2. ASSUME NEW r \in Req, UnlinkIndex(r)
        PROVE  TypeOK' /\ AttemptLeft'
    BY <1>2 DEF UnlinkIndex, TypeOK, AttemptLeft
  <1> QED BY <1>1, <1>2

LEMMA NextType == TypeOK /\ AttemptLeft /\ [Next]_vars => TypeOK' /\ AttemptLeft'
  <1> SUFFICES ASSUME TypeOK, AttemptLeft, [Next]_vars
               PROVE  TypeOK' /\ AttemptLeft'
    OBVIOUS
  <1>1. CASE UNCHANGED vars
    BY <1>1 DEF vars, redis, TypeOK, AttemptLeft
  <1>2. CASE Next
    BY <1>2, TokenizeType, FlushType, RotateType, EnvironmentType DEF Next
  <1> QED BY <1>1, <1>2

\* The vault's variables keep their types: no attempt counter passes its bound,
\* no token or index set outlives the configured TTL.
THEOREM VaultTypeOK == Spec => []TypeOK
  <1>1. Init => TypeOK /\ AttemptLeft
    BY InitType, InitAttempt
  <1> QED BY <1>1, NextType, PTL DEF Spec

-----------------------------------------------------------------------------
(***************************************************************************)
(* Key consistency and agreement of answers.  The argument: a commit that  *)
(* is not disturbed sees the DEK and the revision of its snapshot; a store *)
(* changes the revision, so every live token is in the snapshot and was    *)
(* confirmed live; EXEC re-encrypts all of them together with the DEK.     *)
(* At the end, for sequential clients: every live token is in the index    *)
(* set of its request, so that a flush finds it.                           *)
(***************************************************************************)

LEMMA InitVaultInv == Init => VaultInv
  <1> SUFFICES ASSUME Init PROVE VaultInv
    OBVIOUS
  <1>1. TypeOK /\ AttemptLeft
    BY InitType, InitAttempt
  <1>2. \A a \in Addr : ~Live(a)
    BY DEF Init, Live
  <1>3. KeyConsistency
    BY <1>2 DEF KeyConsistency
  <1>4. AnswersAgree
    BY DEF Init, AnswersAgree
  <1>5. WriterInv
    BY IdleFacts DEF Init, WriterInv, WriterOk
  <1>6. SnapshotInv
    BY <1>2 DEF SnapshotInv, SnapshotOk
  <1>7. Committing = {}
    BY IdleFacts DEF Init, Committing
  <1> QED
    BY <1>1, <1>3, <1>4, <1>5, <1>6, <1>7 DEF VaultInv, CommitInv

\* What a step may do to the tokens without consequences for the rotations:
\* remove some, provided every commit that snapshotted one is disturbed.
OnlyRemoves ==
  /\ UNCHANGED <<dek, rev, result, ro, answers>>
  /\ \A a \in Addr : Live(a)' => Live(a) /\ cipher'[a] = cipher[a]
  /\ \A o \in Committing : o \notin dirty' =>
       /\ o \notin dirty
       /\ \A a \in Snapped(o) : Live(a) => Live(a)'

LEMMA RemovalInv ==
  ASSUME VaultInv, OnlyRemoves
  PROVE  KeyConsistency' /\ AnswersAgree' /\ SnapshotInv' /\ CommitInv'
  <1>1. KeyConsistency'
    BY DEF VaultInv, OnlyRemoves, KeyConsistency
  <1>2. AnswersAgree'
    BY DEF VaultInv, OnlyRemoves, AnswersAgree
  <1>3. SnapshotInv'
    BY DEF VaultInv, OnlyRemoves, SnapshotInv, SnapshotOk, SameVersion
  <1>4. Committing' = Committing
    BY DEF OnlyRemoves, Committing
  <1>5. ASSUME NEW o \in Committing
        PROVE  /\ CommitShape(o)'
               /\ o \notin dirty' => CommitUndisturbed(o)'
    <2>1. Snapped(o)' = Snapped(o)
      BY DEF Snapped, OnlyRemoves
    <2>2. CommitShape(o)'
      BY <2>1 DEF VaultInv, CommitInv, CommitShape, OnlyRemoves
    <2>3. ASSUME o \notin dirty'
          PROVE  CommitUndisturbed(o)'
      <3>1. CommitUndisturbed(o) /\ CommitShape(o)
        BY <2>3 DEF VaultInv, CommitInv, OnlyRemoves
      <3>2. \A a \in Snapped(o) : Live(a) => Live(a)'
        BY <2>3 DEF OnlyRemoves
      <3>3. \A a \in Snapped(o) : Live(a)' => Live(a)
        BY DEF OnlyRemoves, Snapped
      <3> QED
        BY <2>1, <3>1, <3>2, <3>3
           DEF CommitUndisturbed, CommitShape, SameVersion, OnlyRemoves
    <2> QED BY <2>2, <2>3
  <1> QED BY <1>1, <1>2, <1>3, <1>4, <1>5 DEF CommitInv

\* Writers are not concerned by a step that leaves them and the DEK alone.
LEMMA WriterFrame ==
  ASSUME VaultInv, UNCHANGED <<tz, dek>>,
         \A t \in Tokenizer : t \notin dirty' => t \notin dirty
  PROVE  WriterInv'
  BY DEF VaultInv, WriterInv, WriterOk

\* ... nor by the step of another writer.
LEMMA WriterStep ==
  ASSUME VaultInv, UNCHANGED dek, NEW t \in Tokenizer,
         \A u \in Tokenizer \ {t} : tz'[u] = tz[u] /\ (u \notin dirty' => u \notin dirty),
         WriterOk(t)'
  PROVE  WriterInv'
  BY DEF VaultInv, WriterInv, WriterOk

\* When every commit in progress is disturbed, nothing is left to show of it.
LEMMA AllDisturbed ==
  ASSUME VaultInv, UNCHANGED ro, Committing \subseteq dirty'
  PROVE  CommitInv'
  <1>1. Committing' = Committing
    BY DEF Committing
  <1>2. ASSUME NEW o \in Committing
        PROVE  CommitShape(o)'
    BY DEF VaultInv, CommitInv, CommitShape, Snapped
  <1> QED BY <1>1, <1>2 DEF CommitInv

\* What remains of the inductive invariant beside the types.
Consistent ==
  KeyConsistency /\ AnswersAgree /\ WriterInv /\ SnapshotInv /\ CommitInv

-----------------------------------------------------------------------------
(***************************************************************************)
(* Tokenize.                                                               *)
(***************************************************************************)
\* Steps of a tokenize call that change nothing but its own state.
LEMMA TzOnlyInv ==
  ASSUME VaultInv, TzOnly, NEW t \in Tokenizer,
         \A u \in Tokenizer \ {t} : tz'[u] = tz[u],
         dirty' \in {dirty, dirty \ {t}},
         WriterOk(t)'
  PROVE  Consistent'
  <1>1. \A o \in Committing : o # t
    BY ProcessAssumption DEF Committing
  <1>2. OnlyRemoves
    BY <1>1 DEF OnlyRemoves, TzOnly, redis, Live
  <1>3. WriterInv'
    BY WriterStep DEF TzOnly, redis
  <1> QED BY <1>2, <1>3, RemovalInv DEF Consistent

LEMMA TokenizeInv ==
  ASSUME VaultInv, NEW t \in Tokenizer,
         \/ \E r \in Req, S \in SUBSET Hash : TokenizeStart(t, r, S)
         \/ TokenizeStep(t)
         \/ TokenizeAbort(t)
  PROVE  Consistent'
  <1>0. /\ tz \in [Tokenizer -> TzState]
        /\ tz[t] \in TzState
        /\ WriterOk(t)
    BY DEF VaultInv, TypeOK, WriterInv
  <1>a. ASSUME NEW s, tz' = [tz EXCEPT ![t] = s]
        PROVE  tz'[t] = s /\ \A u \in Tokenizer \ {t} : tz'[u] = tz[u]
    BY <1>0, <1>a
  <1>b. TzDone(t) => /\ tz'[t].pc = "idle"
                     /\ \A u \in Tokenizer \ {t} : tz'[u] = tz[u]
    BY <1>0, IdleFacts DEF TzDone
  <1>1. ASSUME NEW r \in Req, NEW S \in SUBSET Hash, TokenizeStart(t, r, S)
        PROVE  Consistent'
    <2>1. tz'[t].pc = "getDek" /\ \A u \in Tokenizer \ {t} : tz'[u] = tz[u]
      BY <1>0, <1>1 DEF TokenizeStart, IdleTz
    <2>2. WriterOk(t)'
      BY <2>1 DEF WriterOk
    <2> QED BY <1>1, <2>1, <2>2, TzOnlyInv DEF TokenizeStart
  <1>2. CASE GetDek(t)
    <2>1. /\ \A u \in Tokenizer \ {t} : tz'[u] = tz[u]
          /\ \/ tz'[t].pc = "readDek"
             \/ tz'[t].pc = "dekWatch" /\ tz'[t].dek # NoDek
      <3>1. CASE dek # NoDek
        BY <1>0, <1>2, <3>1 DEF GetDek, TzGoto, TzState
      <3>2. CASE dek = NoDek
        <4>1. FreshDek # NoDek
          BY <1>2, <3>2, NoDekAssumption, FreshDekFacts DEF GetDek
        <4>2. tz' = [tz EXCEPT ![t].pc = "dekWatch", ![t].dek = FreshDek]
          BY <1>2, <3>2 DEF GetDek
        <4> QED BY <1>0, <4>1, <4>2 DEF TzState
      <3> QED BY <3>1, <3>2
    <2>2. WriterOk(t)'
      BY <2>1 DEF WriterOk
    <2> QED BY <1>2, <2>1, <2>2, TzOnlyInv DEF GetDek
  <1>3. CASE DekWatch(t)
    <2>1. /\ \A u \in Tokenizer \ {t} : tz'[u] = tz[u]
          /\ tz'[t].dek = tz[t].dek
          /\ \/ tz'[t].pc = "readDek"
             \/ tz'[t].pc = "dekExec" /\ dek = NoDek
      BY <1>0, <1>3 DEF DekWatch, TzGoto, TzState
    <2>2. WriterOk(t)'
      BY <1>0, <1>3, <2>1 DEF WriterOk, DekWatch, TzOnly, redis
    <2> QED BY <1>3, <2>1, <2>2, TzOnlyInv DEF DekWatch, Unwatch
  <1>4. CASE DekExec(t)
    <2>1. CASE t \notin dirty
      <3>1. /\ dek = NoDek
            /\ UNCHANGED <<cipher, ttl, rev, result, ro, answers>>
            /\ dirty' = (dirty \cup DekWatchers) \ {t}
            /\ tz'[t].pc = "readDek"
            /\ \A u \in Tokenizer \ {t} : tz'[u] = tz[u]
        BY <1>0, <1>4, <2>1 DEF DekExec, WriterOk, TzState
      <3>2. \A a \in Addr : ~Live(a) /\ ~Live(a)'
        BY <3>1 DEF VaultInv, KeyConsistency, Live
      <3>3. KeyConsistency' /\ SnapshotInv'
        BY <3>2 DEF KeyConsistency, SnapshotInv, SnapshotOk
      <3>4. AnswersAgree'
        BY <3>1 DEF VaultInv, AnswersAgree
      <3>5. WriterInv'
        BY <3>1 DEF VaultInv, WriterInv, WriterOk, DekWatchers
      <3>6. Committing \subseteq dirty'
        BY <3>1, ProcessAssumption DEF DekWatchers, Committing
      <3> QED BY <3>1, <3>3, <3>4, <3>5, <3>6, AllDisturbed DEF Consistent
    <2>2. CASE t \in dirty
      <3>1. TzOnly /\ dirty' \in {dirty, dirty \ {t}}
        BY <1>4, <2>2 DEF DekExec, TzOnly, redis, Unwatch
      <3>2. /\ \A u \in Tokenizer \ {t} : tz'[u] = tz[u]
            /\ \/ tz'[t].pc = "idle"
               \/ tz'[t].pc = "dekWatch" /\ tz'[t].dek = tz[t].dek
        BY <1>0, <1>b, <1>4, <2>2 DEF DekExec, TzState
      <3>3. WriterOk(t)'
        BY <1>0, <1>4, <3>2 DEF WriterOk, DekExec
      <3> QED BY <3>1, <3>2, <3>3, TzOnlyInv
    <2> QED BY <2>1, <2>2
  <1>5. CASE ReadDek(t)
    <2>1. /\ \A u \in Tokenizer \ {t} : tz'[u] = tz[u]
          /\ \/ tz'[t].pc = "idle"
             \/ tz'[t].pc = "storeWatch" /\ tz'[t].dek = dek /\ dek # NoDek
      BY <1>0, <1>b, <1>5 DEF ReadDek, TzState
    <2>2. WriterOk(t)'
      BY <2>1 DEF WriterOk
    <2> QED BY <1>5, <2>1, <2>2, TzOnlyInv DEF ReadDek
  <1>6. ASSUME NEW h \in Hash, StoreWatch(t, h)
        PROVE  Consistent'
    <2>1. /\ \A u \in Tokenizer \ {t} : tz'[u] = tz[u]
          /\ \/ tz'[t].pc = "reread"
             \/ /\ tz'[t].pc = "storeExec" /\ dek = tz[t].dek
                /\ tz'[t].dek = tz[t].dek
      BY <1>0, <1>6 DEF StoreWatch, TzState
    <2>2. WriterOk(t)'
      BY <1>0, <1>6, <2>1 DEF WriterOk, StoreWatch, TzOnly, redis
    <2> QED BY <1>6, <2>1, <2>2, TzOnlyInv DEF StoreWatch, Unwatch
  <1>7. CASE StoreExec(t)
    <2>1. CASE t \in dirty
      <3>1. /\ \A u \in Tokenizer \ {t} : tz'[u] = tz[u]
            /\ tz'[t].pc = "reread"
        BY <1>0, <1>7, <2>1 DEF StoreExec, TzState
      <3>2. WriterOk(t)'
        BY <3>1 DEF WriterOk
      <3>3. TzOnly /\ dirty' \in {dirty, dirty \ {t}}
        BY <1>7, <2>1 DEF StoreExec, TzOnly, Unwatch
      <3> QED BY <3>1, <3>2, <3>3, TzOnlyInv
    <2>2. CASE t \notin dirty
      <3> DEFINE a == <<tz[t].req, tz[t].hash>>
      <3>1. /\ tz[t].dek = dek /\ dek # NoDek
            /\ cipher' = [cipher EXCEPT ![a] = tz[t].dek]
            /\ ttl' = [ttl EXCEPT ![a] = TTL]
            /\ rev' = FreshRev /\ FreshRevs # {}
            /\ dirty' = dirty \cup RevWatchers \cup TokenWatchers({a})
            /\ UNCHANGED <<dek, result, ro, answers>>
            /\ tz'[t].pc = "register" /\ tz'[t].dek = tz[t].dek
            /\ \A u \in Tokenizer \ {t} : tz'[u] = tz[u]
        <4>1. tz[t].pc = "storeExec" /\ TzGoto(t, "register")
          BY <1>7, <2>2 DEF StoreExec
        <4>2. tz[t].dek = dek /\ dek # NoDek
          BY <1>0, <2>2, <4>1 DEF WriterOk
        <4>3. /\ tz'[t].pc = "register" /\ tz'[t].dek = tz[t].dek
              /\ \A u \in Tokenizer \ {t} : tz'[u] = tz[u]
          BY <1>0, <4>1 DEF TzGoto, TzState
        <4>4. /\ cipher' = [cipher EXCEPT ![a] = tz[t].dek]
              /\ ttl' = [ttl EXCEPT ![a] = TTL]
              /\ rev' = FreshRev /\ FreshRevs # {}
              /\ dirty' = dirty \cup RevWatchers \cup TokenWatchers({a})
              /\ UNCHANGED <<dek, result, ro, answers>>
          BY <1>7, <2>2 DEF StoreExec
        <4> QED BY <4>2, <4>3, <4>4
      <3> HIDE DEF a
      <3>2. /\ cipher \in [Addr -> Dek \cup {NoDek}] /\ ttl \in [Addr -> 0..TTL]
        BY DEF VaultInv, TypeOK
      <3>3. KeyConsistency'
        BY <3>1, <3>2 DEF VaultInv, KeyConsistency, Live
      <3>4. AnswersAgree'
        BY <3>1 DEF VaultInv, AnswersAgree
      <3>5. WriterOk(t)'
        BY <3>1 DEF WriterOk
      <3>6. WriterInv'
        BY <3>1, <3>5, WriterStep
      <3>7. SnapshotInv'
        BY <3>1, FreshRevFacts DEF SnapshotInv, SnapshotOk, SameVersion
      <3>8. CommitInv'
        BY <3>1, AllDisturbed DEF RevWatchers
      <3> QED BY <3>3, <3>4, <3>6, <3>7, <3>8 DEF Consistent
    <2> QED BY <2>1, <2>2
  <1>8. CASE Reread(t)
    <2>1. /\ \A u \in Tokenizer \ {t} : tz'[u] = tz[u]
          /\ \/ tz'[t].pc = "idle"
             \/ tz'[t].pc = "storeWatch" /\ tz'[t].dek = dek /\ dek # NoDek
      BY <1>0, <1>b, <1>8 DEF Reread, TzState
    <2>2. WriterOk(t)'
      BY <2>1 DEF WriterOk
    <2> QED BY <1>8, <2>1, <2>2, TzOnlyInv DEF Reread
  <1>9. CASE Register(t)
    <2>1. UNCHANGED <<dek, cipher, ttl, rev, result, ro, dirty, answers>>
      BY <1>9 DEF Register
    <2>2. /\ \A u \in Tokenizer \ {t} : tz'[u] = tz[u]
          /\ \/ tz'[t].pc = "idle"
             \/ tz'[t].pc = "storeWatch" /\ tz'[t].dek = tz[t].dek
      BY <1>0, <1>b, <1>9 DEF Register, TzState
    <2>3. WriterOk(t)'
      BY <1>0, <1>9, <2>2 DEF WriterOk, Register
    <2>4. OnlyRemoves
      BY <2>1 DEF OnlyRemoves, Live
    <2>5. WriterInv'
      BY <2>1, <2>2, <2>3, WriterStep
    <2> QED BY <2>4, <2>5, RemovalInv DEF Consistent
  <1>10. CASE TokenizeAbort(t)
    <2>1. WriterOk(t)'
      BY <1>b, <1>10 DEF WriterOk, TokenizeAbort
    <2> QED BY <1>b, <1>10, <2>1, TzOnlyInv DEF TokenizeAbort, Unwatch
  <1> QED
    BY <1>1, <1>2, <1>3, <1>4, <1>5, <1>6, <1>7, <1>8, <1>9, <1>10
       DEF TokenizeStep

-----------------------------------------------------------------------------
(***************************************************************************)
(* Flush, time and shutdown.                                               *)
(***************************************************************************)
LEMMA FlushInv ==
  ASSUME VaultInv, NEW f \in Flusher,
         \/ \E r \in Req : FlushMembers(f, r)
         \/ FlushStep(f)
         \/ FlushAbort(f)
  PROVE  Consistent'
  <1> USE DEF OnlyRemoves, Live
  <1>1. ASSUME NEW r \in Req, FlushMembers(f, r)
        PROVE  Consistent'
    BY <1>1, RemovalInv, WriterFrame DEF FlushMembers, redis, Consistent
  <1>2. CASE FlushUnlink(f)
    <2> DEFINE gone == {fl[f].req} \X fl[f].members
    <2>1. /\ ttl' = [a \in Addr |-> IF a \in gone THEN 0 ELSE ttl[a]]
          /\ cipher' = [a \in Addr |-> IF a \in gone THEN NoDek ELSE cipher[a]]
          /\ dirty' = dirty \cup TokenWatchers({a \in gone : Live(a)})
          /\ UNCHANGED <<dek, rev, result, tz, ro, answers>>
      BY <1>2 DEF FlushUnlink
    <2> HIDE DEF gone
    <2>2. OnlyRemoves
      BY <2>1 DEF TokenWatchers, Snapped
    <2> QED BY <2>1, <2>2, RemovalInv, WriterFrame DEF Consistent
  <1>3. CASE FlushDel(f)
    BY <1>3, RemovalInv, WriterFrame DEF FlushDel, Consistent
  <1>4. CASE FlushAbort(f)
    BY <1>4, RemovalInv, WriterFrame DEF FlushAbort, redis, Consistent
  <1> QED BY <1>1, <1>2, <1>3, <1>4 DEF FlushStep

LEMMA EnvironmentInv ==
  ASSUME VaultInv, Tick \/ \E r \in Req : UnlinkIndex(r)
  PROVE  Consistent'
  <1>0. ttl \in [Addr -> 0..TTL]
    BY DEF VaultInv, TypeOK
  <1>1. CASE Tick
    <2>1. /\ \A a \in Addr : Live(a)' <=> Live(a) /\ ttl[a] # 1
          /\ \A a \in Addr : Live(a)' => cipher'[a] = cipher[a]
          /\ UNCHANGED <<dek, rev, result, tz, ro, answers>>
      BY <1>0, <1>1 DEF Tick, Live, Aged
    <2>2. \A o \in Committing : \A a \in Snapped(o) : ttl[a] = 1 => o \in dirty'
      BY <1>1 DEF Tick, TokenWatchers, Snapped
    <2>3. dirty \subseteq dirty'
      BY <1>1 DEF Tick
    <2>4. OnlyRemoves
      BY <2>1, <2>2, <2>3 DEF OnlyRemoves, Snapped
    <2> QED BY <2>1, <2>3, <2>4, RemovalInv, WriterFrame DEF Consistent
  <1>2. ASSUME NEW r \in Req, UnlinkIndex(r)
        PROVE  Consistent'
    BY <1>2, RemovalInv, WriterFrame
       DEF UnlinkIndex, OnlyRemoves, Live, Consistent
  <1> QED BY <1>1, <1>2

-----------------------------------------------------------------------------
(***************************************************************************)
(* Rotate.                                                                 *)
(***************************************************************************)
\* What the invariant says of one rotation.
RotationOk(o) ==
  /\ SnapshotOk(o)
  /\ o \in Committing =>
       CommitShape(o) /\ (o \notin dirty => CommitUndisturbed(o))

\* Steps of a rotation that change nothing in Redis.
LEMMA RoOnlyInv ==
  ASSUME VaultInv, RoOnly, NEW o \in Rotator,
         \A p \in Rotator \ {o} : ro'[p] = ro[p],
         dirty' \in {dirty, dirty \ {o}},
         AnswersAgree', RotationOk(o)'
  PROVE  Consistent'
  <1>1. KeyConsistency'
    BY DEF VaultInv, RoOnly, redis, KeyConsistency, Live
  <1>2. WriterInv'
    <2>1. \A t \in Tokenizer : t # o
      BY ProcessAssumption
    <2> QED BY <2>1, WriterFrame DEF RoOnly, redis
  <1>3. ASSUME NEW p \in Rotator, p # o
        PROVE  RotationOk(p)'
    <2>1. /\ ro'[p] = ro[p] /\ (p \in dirty' <=> p \in dirty)
          /\ UNCHANGED <<dek, rev, result, cipher, ttl>>
      BY <1>3 DEF RoOnly, redis
    <2>2. RotationOk(p)
      BY DEF VaultInv, SnapshotInv, CommitInv, RotationOk
    <2> QED
      BY <2>1, <2>2
         DEF RotationOk, SnapshotOk, Committing, CommitShape,
             CommitUndisturbed, SameVersion, Snapped, Live
  <1>4. \A p \in Rotator : RotationOk(p)'
    BY <1>3
  <1>5. SnapshotInv' /\ CommitInv'
    BY <1>4 DEF SnapshotInv, CommitInv, RotationOk, Committing
  <1> QED BY <1>1, <1>2, <1>5 DEF Consistent

\* A rotation that ends, or that is about to take a snapshot.
LEMMA RoQuietInv ==
  ASSUME VaultInv, RoOnly, NEW o \in Rotator,
         \A p \in Rotator \ {o} : ro'[p] = ro[p],
         ro'[o].pc \in {"idle", "prior", "snapshot"},
         dirty' \in {dirty, dirty \ {o}},
         AnswersAgree'
  PROVE  Consistent'
  <1>1. RotationOk(o)'
    BY DEF RotationOk, SnapshotOk, Committing
  <1> QED BY <1>1, RoOnlyInv

\* Where the two ways to leave an attempt lead.
LEMMA RoLeave ==
  ASSUME TypeOK, NEW o \in Rotator,
         RoRetry(o) \/ \E out : RoDone(o, out)
  PROVE  /\ ro'[o].pc \in {"idle", "snapshot"}
         /\ \A p \in Rotator \ {o} : ro'[p] = ro[p]
  <1>1. ro \in [Rotator -> RoState] /\ IdleRo \in RoState /\ IdleRo.pc = "idle"
    BY IdleFacts DEF TypeOK
  <1>2. ASSUME NEW out, RoDone(o, out)
        PROVE  /\ ro'[o].pc = "idle"
               /\ \A p \in Rotator \ {o} : ro'[p] = ro[p]
    BY <1>1, <1>2 DEF RoDone, RoState
  <1>3. CASE RoRetry(o)
    <2>1. ASSUME ro' = [ro EXCEPT ![o] = [IdleRo EXCEPT !.pc = "snapshot", !.op = ro[o].op,
                                                      !.tries = ro[o].tries + 1]]
          PROVE  ro'[o].pc = "snapshot" /\ \A p \in Rotator \ {o} : ro'[p] = ro[p]
      <3>1. ro'[o] = [IdleRo EXCEPT !.pc = "snapshot", !.op = ro[o].op,
                                     !.tries = ro[o].tries + 1]
        BY <1>1, <2>1
      <3>2. ro'[o].pc = "snapshot"
        BY ONLY <3>1 DEF IdleRo
      <3> QED BY <1>1, <2>1, <3>2
    <2> QED BY <1>2, <1>3, <2>1 DEF RoRetry
  <1> QED BY <1>2, <1>3

\* An answer that is the recorded result agrees with the earlier ones.
LEMMA RecordedAnswer ==
  ASSUME VaultInv, NEW o \in Rotator, UNCHANGED result,
         result[ro[o].op] # NoResult, RoAnswer(o, result[ro[o].op])
  PROVE  AnswersAgree'
  <1>1. answers \in [Op -> SUBSET (Nat \cup {NoResult})] /\ ro[o].op \in Op
    BY DEF VaultInv, TypeOK, RoState
  <1> QED BY <1>1 DEF VaultInv, AnswersAgree, RoAnswer

\* The commit.  Undisturbed, it has confirmed all live tokens.
LEMMA RotateExecInv ==
  ASSUME VaultInv, NEW o \in Rotator, RotateExec(o), o \notin dirty
  PROVE  Consistent'
  <1>0. /\ ro \in [Rotator -> RoState] /\ ro[o] \in RoState
        /\ ro[o].live \in SUBSET Addr
        /\ cipher \in [Addr -> Dek \cup {NoDek}]
        /\ result \in [Op -> Nat \cup {NoResult}]
        /\ answers \in [Op -> SUBSET (Nat \cup {NoResult})]
        /\ ro[o].op \in Op
        /\ Cardinality(ro[o].live) \in Nat
    BY LiveCount DEF VaultInv, TypeOK, RoState
  <1>1. /\ ro[o].pc = "get" /\ ro[o].check = {}
        /\ FreshRevs # {} /\ rev' = FreshRev
        /\ cipher' = RotatedCipher(o)
        /\ dek' = ro[o].ndek
        /\ dirty' = (dirty \cup DekWatchers) \ {o}
        /\ UNCHANGED <<ttl, tz>>
    BY DEF RotateExec, RotatedTtl
  <1>2. o \in Committing /\ CommitShape(o) /\ CommitUndisturbed(o)
        /\ SnapshotOk(o)
    BY <1>1 DEF Committing, VaultInv, CommitInv, SnapshotInv
  <1>3. SameVersion(o) /\ result[ro[o].op] = NoResult
    BY <1>1, <1>2 DEF CommitUndisturbed
  <1>4. dek # NoDek /\ ro[o].ndek # NoDek /\ ro[o].scan = {}
    BY <1>2, <1>3 DEF CommitShape, SameVersion
  <1>5. \A a \in Addr : Live(a) => a \in Snapped(o)
    BY <1>1, <1>2, <1>3, <1>4 DEF SnapshotOk, Snapped
  <1>6. \A a \in Addr : Live(a) => a \in ro[o].live
    BY <1>1, <1>2, <1>5 DEF CommitUndisturbed
  <1>7. \A a \in Addr : Live(a)' = Live(a)
    BY <1>1 DEF Live
  <1>8. \A a \in Addr : Live(a) => cipher'[a] = ro[o].ndek
    BY <1>0, <1>1, <1>6 DEF RotatedCipher
  <1>9. KeyConsistency'
    BY <1>1, <1>4, <1>7, <1>8 DEF KeyConsistency
  <1> DEFINE n == Cardinality(ro[o].live)
  <1>10. /\ \/ answers' = [answers EXCEPT ![ro[o].op] = @ \cup {n}]
            \/ answers' = answers
         /\ result' = [result EXCEPT ![ro[o].op] = n]
         /\ RoRetry(o) \/ RoDone(o, "rotated") \/ RoDone(o, "none")
    BY DEF RotateExec, RoAnswer
  <1>11. n \in Nat
    BY <1>0
  <1> HIDE DEF n
  <1>12. answers[ro[o].op] = {}
    BY <1>0, <1>3 DEF VaultInv, AnswersAgree
  <1>13. AnswersAgree'
    <2>1. n # NoResult
      BY <1>11 DEF NoResult
    <2> QED BY <1>0, <1>10, <1>12, <2>1 DEF VaultInv, AnswersAgree
  <1>14. /\ ro'[o].pc \in {"idle", "snapshot"}
         /\ \A p \in Rotator \ {o} : ro'[p] = ro[p]
    BY <1>10, RoLeave DEF VaultInv
  <1>15. SnapshotInv'
    BY <1>1, <1>14, FreshRevFacts DEF SnapshotInv, SnapshotOk, SameVersion
  <1>16. ASSUME NEW p \in Committing'
         PROVE  CommitShape(p)' /\ p \in dirty'
    <2>1. p # o /\ ro'[p] = ro[p] /\ p \in Committing
      BY <1>14 DEF Committing
    <2>2. p \in dirty'
      BY <1>1, <2>1 DEF DekWatchers
    <2> QED
      BY <2>1, <2>2 DEF VaultInv, CommitInv, CommitShape, Snapped
  <1>17. CommitInv'
    BY <1>16 DEF CommitInv
  <1>18. WriterInv'
    <2>1. \A t \in Tokenizer : t # o
      BY ProcessAssumption
    <2> QED BY <1>1, <2>1 DEF VaultInv, WriterInv, WriterOk, DekWatchers
  <1> QED BY <1>9, <1>13, <1>15, <1>17, <1>18 DEF Consistent

LEMMA RotateInv ==
  ASSUME VaultInv, NEW o \in Rotator,
         \/ \E op \in Op : RotateStart(o, op)
         \/ RotateStep(o)
         \/ RotateAbort(o)
  PROVE  Consistent'
  <1>0. /\ TypeOK
        /\ ro \in [Rotator -> RoState] /\ ro[o] \in RoState
        /\ RotationOk(o)
        /\ KeyConsistency
    BY DEF VaultInv, TypeOK, RotationOk, SnapshotInv, CommitInv
  <1>a. RoOnly /\ UNCHANGED answers => AnswersAgree'
    BY DEF VaultInv, AnswersAgree, RoOnly, redis
  <1>1. ASSUME NEW op \in Op, RotateStart(o, op)
        PROVE  Consistent'
    <2>1. /\ ro'[o].pc = "prior"
          /\ \A p \in Rotator \ {o} : ro'[p] = ro[p]
      BY <1>0, <1>1 DEF RotateStart, IdleRo
    <2> QED BY <1>1, <1>a, <2>1, RoQuietInv DEF RotateStart
  <1>2. CASE RotatePrior(o)
    <2>1. CASE result[ro[o].op] # NoResult
      <3>1. RoOnly /\ UNCHANGED dirty /\ RoAnswer(o, result[ro[o].op])
        BY <1>2, <2>1 DEF RotatePrior
      <3>2. AnswersAgree'
        BY <2>1, <3>1, RecordedAnswer DEF RoOnly, redis
      <3> QED BY <1>0, <3>1, <3>2, RoLeave, RoQuietInv DEF RoAnswer
    <2>2. CASE result[ro[o].op] = NoResult
      <3>1. /\ ro'[o].pc = "snapshot"
            /\ \A p \in Rotator \ {o} : ro'[p] = ro[p]
            /\ RoOnly /\ UNCHANGED <<dirty, answers>>
        BY <1>0, <1>2, <2>2 DEF RotatePrior, RoState
      <3> QED BY <1>a, <3>1, RoQuietInv
    <2> QED BY <2>1, <2>2
  <1>3. CASE RotateSnapshot(o)
    <2>1. /\ ro'[o].pc = "scan" /\ ro'[o].scan = Addr
          /\ \A p \in Rotator \ {o} : ro'[p] = ro[p]
          /\ RoOnly /\ UNCHANGED <<dirty, answers>>
      BY <1>0, <1>3 DEF RotateSnapshot, RoState
    <2>2. RotationOk(o)'
      BY <2>1 DEF RotationOk, SnapshotOk, Committing
    <2> QED BY <1>a, <2>1, <2>2, RoOnlyInv
  <1>4. ASSUME NEW a \in Addr, RotateScan(o, a)
        PROVE  Consistent'
    <2> DEFINE c == IF Live(a) THEN cipher[a] ELSE NoDek
    <2>0. Live(a) => c = dek
      BY <1>0 DEF KeyConsistency
    <2>1. /\ ro[o].pc = "scan"
          /\ ro' = [ro EXCEPT ![o].scan = @ \ {a}, ![o].snap[a] = c]
          /\ RoOnly /\ UNCHANGED <<dirty, answers>>
      BY <1>4 DEF RotateScan
    <2> HIDE DEF c
    <2>2. /\ ro'[o].pc = "scan"
          /\ ro'[o].sdek = ro[o].sdek /\ ro'[o].srev = ro[o].srev
          /\ ro'[o].scan = ro[o].scan \ {a}
          /\ ro'[o].snap = [ro[o].snap EXCEPT ![a] = c]
          /\ \A p \in Rotator \ {o} : ro'[p] = ro[p]
      BY <1>0, <2>1 DEF RoState
    <2>3. ro[o].snap \in [Addr -> Dek \cup {NoDek}]
      BY <1>0 DEF RoState
    <2>4. SnapshotOk(o)'
      BY <1>0, <2>0, <2>1, <2>2, <2>3
         DEF RotationOk, SnapshotOk, SameVersion, RoOnly, redis, Live
    <2>5. RotationOk(o)'
      BY <2>2, <2>4 DEF RotationOk, Committing
    <2> QED BY <1>a, <2>1, <2>2, <2>5, RoOnlyInv
  <1>5. CASE RotateWatch(o)
    <2>1. /\ RoOnly /\ UNCHANGED answers /\ dirty' \in {dirty, dirty \ {o}}
          /\ ro[o].pc = "scan" /\ ro[o].scan = {}
      BY <1>5 DEF RotateWatch, Unwatch
    <2>2. CASE RoDone(o, "notFound") \/ RoDone(o, "decryptError")
      BY <1>0, <1>a, <2>1, <2>2, RoLeave, RoQuietInv
    <2>3. CASE /\ ro[o].sdek # NoDek
               /\ FreshDeks # {}
               /\ ro' = [ro EXCEPT ![o].pc = "result", ![o].ndek = FreshDek]
      <3>1. FreshDek # NoDek
        BY <2>3, NoDekAssumption, FreshDekFacts
      <3>2. /\ ro'[o].pc = "result" /\ ro'[o].ndek # NoDek
            /\ ro'[o].sdek = ro[o].sdek /\ ro'[o].srev = ro[o].srev
            /\ ro'[o].scan = {} /\ ro'[o].snap = ro[o].snap
            /\ \A p \in Rotator \ {o} : ro'[p] = ro[p]
        BY <1>0, <2>1, <2>3, <3>1 DEF RoState
      <3>3. SnapshotOk(o)'
        BY <1>0, <2>1, <3>2
           DEF RotationOk, SnapshotOk, SameVersion, RoOnly, redis, Live
      <3>4. CommitShape(o)' /\ CommitUndisturbed(o)'
        BY <2>3, <3>2 DEF CommitShape, CommitUndisturbed
      <3>5. RotationOk(o)'
        BY <3>3, <3>4 DEF RotationOk
      <3> QED BY <1>a, <2>1, <3>2, <3>5, RoOnlyInv
    <2> QED BY <1>5, <2>2, <2>3 DEF RotateWatch
  <1>6. CASE RotateResult(o)
    <2>1. CASE result[ro[o].op] # NoResult
      <3>1. /\ RoOnly /\ RoAnswer(o, result[ro[o].op])
            /\ dirty' \in {dirty, dirty \ {o}}
        BY <1>6, <2>1 DEF RotateResult, Unwatch
      <3>2. AnswersAgree'
        BY <2>1, <3>1, RecordedAnswer DEF RoOnly, redis
      <3> QED BY <1>0, <3>1, <3>2, RoLeave, RoQuietInv DEF RoAnswer
    <2>2. CASE result[ro[o].op] = NoResult
      <3>1. /\ RoOnly /\ UNCHANGED <<dirty, answers>> /\ ro[o].pc = "result"
            /\ ro' = [ro EXCEPT ![o].pc = "cas"]
        BY <1>6, <2>2 DEF RotateResult
      <3>2. /\ ro'[o] = [ro[o] EXCEPT !.pc = "cas"]
            /\ \A p \in Rotator \ {o} : ro'[p] = ro[p]
        BY <1>0, <3>1
      <3>3. /\ ro'[o].pc = "cas" /\ ro'[o].op = ro[o].op
            /\ ro'[o].sdek = ro[o].sdek /\ ro'[o].srev = ro[o].srev
            /\ ro'[o].scan = ro[o].scan /\ ro'[o].snap = ro[o].snap
            /\ ro'[o].ndek = ro[o].ndek
        BY <1>0, <3>2 DEF RoState
      <3>4. SnapshotOk(o)'
        BY <1>0, <3>1, <3>3
           DEF RotationOk, SnapshotOk, SameVersion, RoOnly, redis, Live
      <3>5. CommitShape(o)'
        BY <1>0, <3>1, <3>3 DEF RotationOk, Committing, CommitShape
      <3>6. CommitUndisturbed(o)'
        BY <2>2, <3>1, <3>3 DEF CommitUndisturbed, RoOnly, redis
      <3>7. RotationOk(o)'
        BY <3>4, <3>5, <3>6 DEF RotationOk
      <3> QED BY <1>a, <3>1, <3>2, <3>7, RoOnlyInv
    <2> QED BY <2>1, <2>2
  <1>7. CASE RotateCas(o)
    <2>1. RoOnly /\ UNCHANGED answers /\ dirty' \in {dirty, dirty \ {o}}
      BY <1>7 DEF RotateCas, Unwatch
    <2>2. CASE RoRetry(o)
      BY <1>0, <1>a, <2>1, <2>2, RoLeave, RoQuietInv
    <2>3. CASE /\ dek = ro[o].sdek /\ rev = ro[o].srev
               /\ ro' = [ro EXCEPT ![o].pc = "get", ![o].live = {},
                            ![o].check = {a \in Addr : ro[o].snap[a] # NoDek}]
               /\ UNCHANGED dirty
      <3>1. ro[o].pc = "cas"
        BY <1>7 DEF RotateCas
      <3>2. /\ ro'[o].pc = "get" /\ ro'[o].op = ro[o].op
            /\ ro'[o].sdek = ro[o].sdek /\ ro'[o].srev = ro[o].srev
            /\ ro'[o].scan = ro[o].scan /\ ro'[o].snap = ro[o].snap
            /\ ro'[o].ndek = ro[o].ndek
            /\ ro'[o].live = {} /\ ro'[o].check = Snapped(o)
            /\ \A p \in Rotator \ {o} : ro'[p] = ro[p]
        BY <1>0, <2>3 DEF RoState, Snapped
      <3>3. SnapshotOk(o)'
        BY <1>0, <2>1, <3>1, <3>2
           DEF RotationOk, SnapshotOk, SameVersion, RoOnly, redis, Live
      <3>4. CommitShape(o)'
        BY <1>0, <3>1, <3>2
           DEF RotationOk, Committing, CommitShape, Snapped
      <3>5. ASSUME o \notin dirty' PROVE CommitUndisturbed(o)'
        BY <1>0, <2>1, <2>3, <3>1, <3>2, <3>5
           DEF RotationOk, Committing, CommitUndisturbed, SameVersion, Snapped,
               RoOnly, redis
      <3>6. RotationOk(o)'
        BY <3>3, <3>4, <3>5 DEF RotationOk
      <3> QED BY <1>a, <2>1, <3>2, <3>6, RoOnlyInv
    <2> QED BY <1>7, <2>2, <2>3 DEF RotateCas
  <1>8. ASSUME NEW a \in Addr, RotateGet(o, a)
        PROVE  Consistent'
    <2>1. /\ RoOnly /\ UNCHANGED answers /\ dirty' \in {dirty, dirty \ {o}}
          /\ ro[o].pc = "get" /\ a \in ro[o].check
      BY <1>8 DEF RotateGet, Unwatch
    <2>2. CASE RoRetry(o)
      BY <1>0, <1>a, <2>1, <2>2, RoLeave, RoQuietInv
    <2>3. CASE /\ \/ ~Live(a) /\ ro' = [ro EXCEPT ![o].check = @ \ {a}]
                  \/ ro' = [ro EXCEPT ![o].pc = "pttl", ![o].cur = a,
                                      ![o].check = @ \ {a}]
               /\ UNCHANGED dirty
      <3>1. /\ ro'[o].op = ro[o].op
            /\ ro'[o].sdek = ro[o].sdek /\ ro'[o].srev = ro[o].srev
            /\ ro'[o].scan = ro[o].scan /\ ro'[o].snap = ro[o].snap
            /\ ro'[o].ndek = ro[o].ndek /\ ro'[o].live = ro[o].live
            /\ ro'[o].check = ro[o].check \ {a}
            /\ \/ ro'[o].pc = "get" /\ ~Live(a)
               \/ ro'[o].pc = "pttl" /\ ro'[o].cur = a
            /\ \A p \in Rotator \ {o} : ro'[p] = ro[p]
        BY <1>0, <2>1, <2>3 DEF RoState
      <3>2. SnapshotOk(o)'
        BY <1>0, <2>1, <3>1
           DEF RotationOk, SnapshotOk, SameVersion, RoOnly, redis, Live
      <3>3. CommitShape(o) /\ (o \notin dirty => CommitUndisturbed(o))
        BY <1>0, <2>1 DEF RotationOk, Committing
      <3>4. Snapped(o)' = Snapped(o) /\ \A b \in Addr : Live(b)' = Live(b)
        BY <2>1, <3>1 DEF Snapped, RoOnly, redis, Live
      <3>5. CommitShape(o)'
        BY <2>1, <3>1, <3>3, <3>4 DEF CommitShape
      <3>6. ASSUME o \notin dirty' PROVE CommitUndisturbed(o)'
        <4>1. CommitUndisturbed(o) /\ ro[o].live \subseteq Addr
          BY <1>0, <2>3, <3>3, <3>6 DEF RoState
        <4>2. UNCHANGED <<result, dek, rev>>
          BY <2>1 DEF RoOnly, redis
        <4>3. \A b \in Snapped(o) : b \in Addr
          BY DEF Snapped
        <4> QED
          BY <2>1, <3>1, <3>4, <4>1, <4>2, <4>3
             DEF CommitUndisturbed, SameVersion
      <3>7. RotationOk(o)'
        BY <3>2, <3>5, <3>6 DEF RotationOk
      <3> QED BY <1>a, <2>1, <3>1, <3>7, RoOnlyInv
    <2> QED BY <1>8, <2>2, <2>3 DEF RotateGet
  <1>9. CASE RotatePttl(o)
    <2>1. /\ RoOnly /\ UNCHANGED answers /\ dirty' \in {dirty, dirty \ {o}}
          /\ ro[o].pc = "pttl"
      BY <1>9 DEF RotatePttl, Unwatch
    <2>2. CASE RoDone(o, "noExpiry")
      BY <1>0, <1>a, <2>1, <2>2, RoLeave, RoQuietInv
    <2>3. CASE /\ Live(ro[o].cur)
               /\ ro' = [ro EXCEPT ![o].pc = "get",
                                   ![o].live = @ \cup {ro[o].cur}]
               /\ UNCHANGED dirty
      <3>1. /\ ro'[o].op = ro[o].op
            /\ ro'[o].sdek = ro[o].sdek /\ ro'[o].srev = ro[o].srev
            /\ ro'[o].scan = ro[o].scan /\ ro'[o].snap = ro[o].snap
            /\ ro'[o].ndek = ro[o].ndek
            /\ ro'[o].live = ro[o].live \cup {ro[o].cur}
            /\ ro'[o].check = ro[o].check
            /\ ro'[o].pc = "get"
            /\ \A p \in Rotator \ {o} : ro'[p] = ro[p]
        BY <1>0, <2>1, <2>3 DEF RoState
      <3>2. SnapshotOk(o)'
        BY <1>0, <2>1, <3>1
           DEF RotationOk, SnapshotOk, SameVersion, RoOnly, redis, Live
      <3>3. CommitShape(o) /\ (o \notin dirty => CommitUndisturbed(o))
        BY <1>0, <2>1 DEF RotationOk, Committing
      <3>4. Snapped(o)' = Snapped(o) /\ \A b \in Addr : Live(b)' = Live(b)
        BY <2>1, <3>1 DEF Snapped, RoOnly, redis, Live
      <3>5. CommitShape(o)'
        BY <2>1, <3>1, <3>3, <3>4 DEF CommitShape
      <3>6. ASSUME o \notin dirty' PROVE CommitUndisturbed(o)'
        <4>1. /\ CommitUndisturbed(o) /\ ro[o].live \subseteq Addr
              /\ ro[o].cur \in Addr
          BY <1>0, <2>3, <3>3, <3>6 DEF RoState
        <4>2. UNCHANGED <<result, dek, rev>>
          BY <2>1 DEF RoOnly, redis
        <4>3. \A b \in Snapped(o) : b \in Addr
          BY DEF Snapped
        <4> QED
          BY <2>1, <2>3, <3>1, <3>4, <4>1, <4>2, <4>3
             DEF CommitUndisturbed, SameVersion
      <3>7. RotationOk(o)'
        BY <3>2, <3>5, <3>6 DEF RotationOk
      <3> QED BY <1>a, <2>1, <3>1, <3>7, RoOnlyInv
    <2> QED BY <1>9, <2>2, <2>3 DEF RotatePttl
  <1>10. CASE RotateExec(o)
    <2>1. CASE o \in dirty
      <3>1. /\ RoOnly /\ UNCHANGED answers /\ RoRetry(o)
            /\ dirty' \in {dirty, dirty \ {o}}
        BY <1>10, <2>1 DEF RotateExec, Unwatch, RoOnly
      <3> QED BY <1>0, <1>a, <3>1, RoLeave, RoQuietInv
    <2>2. CASE o \notin dirty
      BY <1>10, <2>2, RotateExecInv
    <2> QED BY <2>1, <2>2
  <1>11. CASE RotateAbort(o)
    BY <1>0, <1>a, <1>11, RoLeave, RoQuietInv DEF RotateAbort, Unwatch
  <1> QED
    BY <1>1, <1>2, <1>3, <1>4, <1>5, <1>6, <1>7, <1>8, <1>9, <1>10, <1>11
       DEF RotateStep

-----------------------------------------------------------------------------
LEMMA NextVaultInv == VaultInv /\ [Next]_vars => VaultInv'
  <1> SUFFICES ASSUME VaultInv, [Next]_vars PROVE VaultInv'
    OBVIOUS
  <1>1. TypeOK' /\ AttemptLeft'
    BY NextType DEF VaultInv
  <1>2. CASE UNCHANGED vars
    <2>1. OnlyRemoves
      BY <1>2 DEF vars, redis, OnlyRemoves, Live
    <2>2. WriterInv'
      BY <1>2, WriterFrame DEF vars, redis
    <2> QED BY <1>1, <2>1, <2>2, RemovalInv DEF VaultInv
  <1>3. CASE Next
    <2>1. Consistent'
      BY <1>3, TokenizeInv, FlushInv, RotateInv, EnvironmentInv DEF Next
    <2> QED BY <1>1, <2>1 DEF VaultInv, Consistent
  <1> QED BY <1>2, <1>3

\* Whatever calls, expiries, shutdowns and crashes interleave, a live token
\* is under the stored DEK: rotation by commit_rotation never loses a value
\* that store wrote, and store never writes under a replaced DEK.
THEOREM VaultKeyConsistency == Spec => []KeyConsistency
  <1>1. VaultInv => KeyConsistency
    BY DEF VaultInv
  <1> QED BY <1>1, InitVaultInv, NextVaultInv, PTL DEF Spec

\* A rotation's operation id is idempotent: all its callers are told the one
\* count that its single commit recorded.
THEOREM VaultAnswersAgree == Spec => []AnswersAgree
  <1>1. VaultInv => AnswersAgree
    BY DEF VaultInv
  <1> QED BY <1>1, InitVaultInv, NextVaultInv, PTL DEF Spec

\* The invariant behind both, which a run checks: it also says that every
\* attempt is counted and that writers and commits in progress hold what their
\* WATCH protects.
THEOREM VaultInvariant == Spec => []VaultInv
  BY InitVaultInv, NextVaultInv, PTL DEF Spec

-----------------------------------------------------------------------------
(***************************************************************************)
(* The index sets, for clients that do not flush a request that is being   *)
(* tokenized.  The argument: a store adds its hash to the index set and    *)
(* renews that set together with the token; a flush is the only step that  *)
(* takes hashes out before they expire, and while it runs no store of its  *)
(* request does.                                                           *)
(***************************************************************************)
\* What remains of IndexInv beside the types.
Indexed == Sequential /\ FlushingOk /\ LiveTokenIndexed

LEMMA InitIndexInv == Init => IndexInv
  <1> SUFFICES ASSUME Init PROVE IndexInv
    OBVIOUS
  <1>1. TypeOK
    BY InitType
  <1>2. \A a \in Addr : ~Live(a)
    BY DEF Init, Live
  <1>3. LiveTokenIndexed
    BY <1>2 DEF LiveTokenIndexed, Addr
  <1>4. Sequential /\ FlushingOk
    BY IdleFacts DEF Init, Sequential, FlushingOk
  <1> QED BY <1>1, <1>3, <1>4 DEF IndexInv

\* Steps that leave the tokens, the index sets and the flushes alone.
LEMMA IndexFrame ==
  ASSUME IndexInv, UNCHANGED <<ttl, index, indexTtl, fl>>, Sequential'
  PROVE  Indexed'
  BY DEF Indexed, IndexInv, FlushingOk, LiveTokenIndexed, Live

\* A tokenize call that goes on works on its request; the others stay.
LEMMA TokenizeKeepsReq ==
  ASSUME TypeOK, NEW t \in Tokenizer, TokenizeStep(t) \/ TokenizeAbort(t)
  PROVE  /\ tz[t].pc # "idle"
         /\ \A u \in Tokenizer \ {t} : tz'[u] = tz[u]
         /\ tz'[t].pc = "idle" \/ tz'[t].req = tz[t].req
         /\ UNCHANGED fl
  <1>0. tz \in [Tokenizer -> TzState] /\ tz[t] \in TzState
    BY DEF TypeOK
  <1>a. TzDone(t) => /\ tz'[t].pc = "idle"
                     /\ \A u \in Tokenizer \ {t} : tz'[u] = tz[u]
    BY <1>0, IdleFacts DEF TzDone
  <1>1. CASE GetDek(t)
    BY <1>0, <1>1 DEF GetDek, TzGoto, TzOnly, TzState
  <1>2. CASE DekWatch(t)
    BY <1>0, <1>2 DEF DekWatch, TzGoto, TzOnly, TzState
  <1>3. CASE DekExec(t)
    BY <1>0, <1>a, <1>3 DEF DekExec, TzState
  <1>4. CASE ReadDek(t)
    BY <1>0, <1>a, <1>4 DEF ReadDek, TzOnly, TzState
  <1>5. ASSUME NEW h \in Hash, StoreWatch(t, h)
        PROVE  /\ tz[t].pc # "idle" /\ tz'[t].req = tz[t].req
               /\ \A u \in Tokenizer \ {t} : tz'[u] = tz[u]
               /\ UNCHANGED fl
    BY <1>0, <1>5 DEF StoreWatch, TzOnly, TzState
  <1>6. CASE StoreExec(t)
    BY <1>0, <1>6 DEF StoreExec, TzGoto, TzState
  <1>7. CASE Reread(t)
    BY <1>0, <1>a, <1>7 DEF Reread, TzOnly, TzState
  <1>8. CASE Register(t)
    <2>1. tz[t].pc = "register" /\ UNCHANGED fl
      BY <1>8 DEF Register
    <2>2. \/ TzDone(t)
          \/ tz' = [tz EXCEPT ![t].pc = "storeWatch",
                              ![t].todo = tz[t].todo \ {tz[t].hash},
                              ![t].tries = 0]
      BY <1>8 DEF Register
    <2> QED BY <1>0, <1>a, <2>1, <2>2 DEF TzState
  <1>9. CASE TokenizeAbort(t)
    BY <1>a, <1>9 DEF TokenizeAbort, TzOnly
  <1> QED
    BY <1>1, <1>2, <1>3, <1>4, <1>5, <1>6, <1>7, <1>8, <1>9 DEF TokenizeStep

LEMMA TokenizeIndexed ==
  ASSUME SequentialClients, IndexInv, NEW t \in Tokenizer,
         \/ \E r \in Req, S \in SUBSET Hash : TokenizeStart(t, r, S)
         \/ TokenizeStep(t)
         \/ TokenizeAbort(t)
  PROVE  Indexed'
  <1>0. /\ TypeOK /\ Sequential /\ FlushingOk /\ LiveTokenIndexed
        /\ tz \in [Tokenizer -> TzState] /\ tz[t] \in TzState
        /\ ttl \in [Addr -> 0..TTL] /\ index \in [Req -> SUBSET Hash]
        /\ indexTtl \in [Req -> 0..TTL]
        /\ \A f \in Flusher : fl[f].req \in Req
    BY DEF IndexInv, TypeOK, FlState
  <1>1. ASSUME NEW r \in Req, NEW S \in SUBSET Hash, TokenizeStart(t, r, S)
        PROVE  Indexed'
    <2>1. /\ tz'[t].req = r
          /\ \A u \in Tokenizer \ {t} : tz'[u] = tz[u]
          /\ UNCHANGED <<ttl, index, indexTtl, fl>>
      BY <1>0, <1>1, IdleFacts DEF TokenizeStart, TzOnly, redis, IdleTz
    <2>2. \A f \in Flusher : fl[f].pc = "idle" \/ fl[f].req # r
      BY <1>1 DEF TokenizeStart
    <2>3. Sequential'
      BY <1>0, <2>1, <2>2 DEF Sequential
    <2> QED BY <2>1, <2>3, IndexFrame
  <1>2. ASSUME TokenizeStep(t) \/ TokenizeAbort(t)
        PROVE  Indexed'
    <2>1. /\ tz[t].pc # "idle" /\ UNCHANGED fl
          /\ \A u \in Tokenizer \ {t} : tz'[u] = tz[u]
          /\ tz'[t].pc = "idle" \/ tz'[t].req = tz[t].req
      BY <1>0, <1>2, TokenizeKeepsReq
    <2>2. Sequential'
      BY <1>0, <2>1 DEF Sequential
    <2>3. CASE UNCHANGED <<ttl, index, indexTtl>>
      BY <2>1, <2>2, <2>3, IndexFrame
    <2> DEFINE r == tz[t].req
               h == tz[t].hash
    <2>4. r \in Req /\ h \in Hash /\ <<r, h>> \in Addr
      BY <1>0 DEF TzState, Addr
    <2>5. \A f \in Flusher : fl[f].pc # "idle" => fl[f].req # r
      BY <1>0, <2>1 DEF Sequential
    <2>6. CASE /\ ttl' = [ttl EXCEPT ![<<r, h>>] = TTL]
               /\ AddToIndex(r, h)
      <3> HIDE DEF r, h
      <3>1. /\ index' = [index EXCEPT ![r] = @ \cup {h}]
            /\ indexTtl' = [indexTtl EXCEPT ![r] = TTL]
        BY <2>6 DEF AddToIndex
      <3>2. ASSUME NEW q \in Req, NEW g \in Hash, Live(<<q, g>>)'
            PROVE  g \in index'[q] /\ ttl'[<<q, g>>] <= indexTtl'[q]
        <4>1. <<q, g>> \in Addr
          BY DEF Addr
        <4>2. CASE q = r /\ g = h
          BY <1>0, <2>4, <2>6, <3>1, <4>1, <4>2, TtlAssumption
        <4>3. CASE ~(q = r /\ g = h)
          <5>1. <<q, g>> # <<r, h>>
            BY <4>3
          <5>2. ttl'[<<q, g>>] = ttl[<<q, g>>] /\ Live(<<q, g>>)
            BY <1>0, <2>6, <3>2, <4>1, <5>1 DEF Live
          <5>3. g \in index[q] /\ ttl[<<q, g>>] <= indexTtl[q]
            BY <1>0, <5>2 DEF LiveTokenIndexed
          <5>4. ttl[<<q, g>>] \in 0..TTL /\ indexTtl[q] \in 0..TTL
            BY <1>0, <4>1
          <5>5. indexTtl[q] <= indexTtl'[q] /\ index[q] \subseteq index'[q]
            BY <1>0, <2>4, <3>1
          <5>6. indexTtl'[q] \in 0..TTL
            BY <1>0, <2>4, <3>1, TtlAssumption
          <5> QED BY <5>2, <5>3, <5>4, <5>5, <5>6
        <4> QED BY <4>2, <4>3
      <3>3. LiveTokenIndexed'
        BY <3>2 DEF LiveTokenIndexed
      <3>4. ASSUME NEW f \in Flusher, NEW g \in Hash, fl[f].pc # "idle",
                   Live(<<fl[f].req, g>>)'
            PROVE  Live(<<fl[f].req, g>>)
        <4>1. fl[f].req # r /\ <<fl[f].req, g>> # <<r, h>>
          BY <2>5, <3>4
        <4>2. <<fl[f].req, g>> \in Addr
          BY <1>0 DEF Addr
        <4>3. ttl'[<<fl[f].req, g>>] = ttl[<<fl[f].req, g>>]
          BY <1>0, <2>6, <4>1, <4>2
        <4> QED BY <2>1, <3>4, <4>3 DEF Live
      <3>5. FlushingOk'
        BY <1>0, <2>1, <3>4 DEF FlushingOk
      <3> QED BY <2>2, <3>3, <3>5 DEF Indexed
    <2>7. CASE UNCHANGED ttl /\ AddToIndex(r, h)
      <3> HIDE DEF r, h
      <3>1. /\ index' = [index EXCEPT ![r] = @ \cup {h}]
            /\ indexTtl' = [indexTtl EXCEPT ![r] = TTL]
        BY <2>7 DEF AddToIndex
      <3>2. \A q \in Req : indexTtl[q] <= indexTtl'[q] /\ index[q] \subseteq index'[q]
        BY <1>0, <2>4, <3>1
      <3>3. /\ \A q \in Req : indexTtl[q] \in Int /\ indexTtl'[q] \in Int
            /\ \A q \in Req, g \in Hash : ttl[<<q, g>>] \in Int
        BY <1>0, <2>4, <3>1, TtlAssumption DEF Addr
      <3>4. LiveTokenIndexed'
        BY <1>0, <2>7, <3>2, <3>3 DEF LiveTokenIndexed, Live
      <3>5. FlushingOk'
        BY <1>0, <2>1, <2>7 DEF FlushingOk, Live
      <3> QED BY <2>2, <3>4, <3>5 DEF Indexed
    <2>8. CASE StoreExec(t)
      BY <2>3, <2>6, <2>8 DEF StoreExec, redis
    <2>9. CASE Register(t)
      BY <2>7, <2>9 DEF Register
    <2>10. CASE DekExec(t)
      BY <2>3, <2>10 DEF DekExec
    <2>11. CASE TzOnly
      BY <2>3, <2>11 DEF TzOnly, redis
    <2> QED
      BY <1>2, <2>8, <2>9, <2>10, <2>11
         DEF TokenizeStep, TokenizeAbort, GetDek, DekWatch, ReadDek,
             StoreWatch, Reread
  <1> QED BY <1>1, <1>2

LEMMA FlushIndexed ==
  ASSUME SequentialClients, IndexInv, NEW f \in Flusher,
         \/ \E r \in Req : FlushMembers(f, r)
         \/ FlushStep(f)
         \/ FlushAbort(f)
  PROVE  Indexed'
  <1>0. /\ Sequential /\ FlushingOk /\ LiveTokenIndexed
        /\ fl \in [Flusher -> FlState] /\ fl[f] \in FlState
        /\ ttl \in [Addr -> 0..TTL] /\ index \in [Req -> SUBSET Hash]
        /\ indexTtl \in [Req -> 0..TTL]
        /\ \A g \in Flusher : fl[g].req \in Req
    BY DEF IndexInv, TypeOK, FlState
  <1>1. ASSUME NEW r \in Req, FlushMembers(f, r)
        PROVE  Indexed'
    <2>1. /\ fl'[f] = [pc |-> "unlink", req |-> r, members |-> index[r]]
          /\ \A g \in Flusher \ {f} : fl'[g] = fl[g]
          /\ UNCHANGED <<ttl, index, indexTtl, tz>>
          /\ \A t \in Tokenizer : tz[t].pc = "idle" \/ tz[t].req # r
      BY <1>0, <1>1 DEF FlushMembers, redis
    <2>2. Sequential'
      BY <1>0, <2>1 DEF Sequential
    <2>3. LiveTokenIndexed'
      BY <1>0, <2>1 DEF LiveTokenIndexed, Live
    <2>4. \A h \in Hash : Live(<<r, h>>) => h \in index[r]
      BY <1>0 DEF LiveTokenIndexed
    <2>5. FlushingOk'
      BY <1>0, <2>1, <2>4 DEF FlushingOk, Live
    <2> QED BY <2>2, <2>3, <2>5 DEF Indexed
  <1>2. CASE FlushUnlink(f)
    <2> DEFINE gone == {fl[f].req} \X fl[f].members
    <2>1. /\ fl[f].pc = "unlink"
          /\ ttl' = [a \in Addr |-> IF a \in gone THEN 0 ELSE ttl[a]]
          /\ fl' = [fl EXCEPT ![f].pc = "del"]
          /\ UNCHANGED <<index, indexTtl, tz>>
      BY <1>2 DEF FlushUnlink
    <2>2. /\ fl'[f].pc = "del" /\ fl'[f].req = fl[f].req
          /\ \A g \in Flusher \ {f} : fl'[g] = fl[g]
      BY <1>0, <2>1 DEF FlState
    <2>3. Sequential'
      BY <1>0, <2>1, <2>2 DEF Sequential
    <2>4. ASSUME NEW a \in Addr, Live(a)'
          PROVE  a \notin gone /\ Live(a) /\ ttl'[a] = ttl[a]
      BY <2>1, <2>4 DEF Live
    <2>5. \A q \in Req, h \in Hash : <<q, h>> \in Addr
      BY DEF Addr
    <2>6. LiveTokenIndexed'
      BY <1>0, <2>1, <2>4, <2>5 DEF LiveTokenIndexed
    <2>7. \A h \in Hash : ~Live(<<fl[f].req, h>>)'
      BY <1>0, <2>1, <2>4, <2>5 DEF FlushingOk
    <2> HIDE DEF gone
    <2>8. FlushingOk'
      BY <1>0, <2>2, <2>4, <2>5, <2>7 DEF FlushingOk
    <2> QED BY <2>3, <2>6, <2>8 DEF Indexed
  <1>3. CASE FlushDel(f)
    <2>1. /\ fl[f].pc = "del"
          /\ index' = [index EXCEPT ![fl[f].req] = {}]
          /\ indexTtl' = [indexTtl EXCEPT ![fl[f].req] = 0]
          /\ UNCHANGED <<ttl, tz>>
      BY <1>3 DEF FlushDel
    <2>2. /\ fl'[f].pc = "idle"
          /\ \A g \in Flusher \ {f} : fl'[g] = fl[g]
      BY <1>0, <1>3, IdleFacts DEF FlushDel
    <2>3. Sequential'
      BY <1>0, <2>1, <2>2 DEF Sequential
    <2>4. \A h \in Hash : ~Live(<<fl[f].req, h>>)
      BY <1>0, <2>1 DEF FlushingOk
    <2>5. LiveTokenIndexed'
      BY <1>0, <2>1, <2>4 DEF LiveTokenIndexed, Live
    <2>6. FlushingOk'
      BY <1>0, <2>1, <2>2 DEF FlushingOk, Live
    <2> QED BY <2>3, <2>5, <2>6 DEF Indexed
  <1>4. CASE FlushAbort(f)
    <2>1. /\ fl'[f].pc = "idle"
          /\ \A g \in Flusher \ {f} : fl'[g] = fl[g]
          /\ UNCHANGED <<ttl, index, indexTtl, tz>>
      BY <1>0, <1>4, IdleFacts DEF FlushAbort, redis
    <2> QED
      BY <1>0, <2>1
         DEF Sequential, FlushingOk, LiveTokenIndexed, Live, Indexed
  <1> QED BY <1>1, <1>2, <1>3, <1>4 DEF FlushStep

\* Rotations rewrite ciphertexts only; time shortens the lives of a token and
\* of its index set alike.
LEMMA OthersIndexed ==
  ASSUME ~Shutdowns, IndexInv,
         \/ \E o \in Rotator :
              \/ \E op \in Op : RotateStart(o, op)
              \/ RotateStep(o)
              \/ RotateAbort(o)
         \/ Tick
         \/ \E r \in Req : UnlinkIndex(r)
         \/ UNCHANGED vars
  PROVE  Indexed'
  <1>0. /\ Sequential /\ FlushingOk /\ LiveTokenIndexed
        /\ ttl \in [Addr -> 0..TTL] /\ indexTtl \in [Req -> 0..TTL]
        /\ \A f \in Flusher : fl[f].req \in Req
    BY DEF IndexInv, TypeOK, FlState
  <1>1. ASSUME NEW o \in Rotator,
               \/ \E op \in Op : RotateStart(o, op)
               \/ RotateStep(o)
               \/ RotateAbort(o)
        PROVE  UNCHANGED <<ttl, index, indexTtl, fl, tz>>
    <2>1. CASE RotateExec(o)
      BY <2>1 DEF RotateExec, RotatedTtl, redis
    <2>2. CASE RoOnly
      BY <2>2 DEF RoOnly, redis
    <2> QED
      BY <1>1, <2>1, <2>2
         DEF RotateStep, RotateStart, RotateAbort, RotatePrior, RotateSnapshot,
             RotateScan, RotateWatch, RotateResult, RotateCas, RotateGet,
             RotatePttl
  <1>2. CASE UNCHANGED <<ttl, index, indexTtl, fl, tz>>
    <2>1. Sequential'
      BY <1>0, <1>2 DEF Sequential
    <2> QED BY <1>2, <2>1, IndexFrame
  <1>3. CASE UNCHANGED vars
    BY <1>2, <1>3 DEF vars, redis
  <1>4. CASE Tick
    <2>1. /\ ttl' = [a \in Addr |-> Aged(ttl[a])]
          /\ index' = [r \in Req |-> IF indexTtl[r] > 1 THEN index[r] ELSE {}]
          /\ indexTtl' = [r \in Req |-> Aged(indexTtl[r])]
          /\ UNCHANGED <<tz, fl>>
      BY <1>4 DEF Tick
    <2>2. Sequential'
      BY <1>0, <2>1 DEF Sequential
    <2>3. ASSUME NEW r \in Req, NEW h \in Hash, Live(<<r, h>>)'
          PROVE  /\ Live(<<r, h>>)
                 /\ h \in index'[r] /\ ttl'[<<r, h>>] <= indexTtl'[r]
      <3>1. <<r, h>> \in Addr
        BY DEF Addr
      <3>2. /\ ttl[<<r, h>>] \in 0..TTL /\ indexTtl[r] \in 0..TTL
            /\ ttl[<<r, h>>] > 1 /\ ttl'[<<r, h>>] = ttl[<<r, h>>] - 1
        BY <1>0, <2>1, <2>3, <3>1 DEF Live, Aged
      <3>3. Live(<<r, h>>)
        BY <3>2 DEF Live
      <3>4. h \in index[r] /\ ttl[<<r, h>>] <= indexTtl[r]
        BY <1>0, <3>3 DEF LiveTokenIndexed
      <3>5. indexTtl[r] > 1 /\ indexTtl'[r] = indexTtl[r] - 1
        BY <2>1, <3>2, <3>4 DEF Aged
      <3> QED BY <2>1, <3>2, <3>3, <3>4, <3>5
    <2>4. LiveTokenIndexed'
      BY <2>3 DEF LiveTokenIndexed
    <2>5. FlushingOk'
      BY <1>0, <2>1, <2>3 DEF FlushingOk
    <2> QED BY <2>2, <2>4, <2>5 DEF Indexed
  <1> QED BY <1>1, <1>2, <1>3, <1>4 DEF UnlinkIndex

LEMMA NextIndexInv ==
  ASSUME SequentialClients, ~Shutdowns
  PROVE  IndexInv /\ AttemptLeft /\ [Next]_vars => IndexInv' /\ AttemptLeft'
  <1> SUFFICES ASSUME IndexInv, AttemptLeft, [Next]_vars
               PROVE  IndexInv' /\ AttemptLeft'
    OBVIOUS
  <1>1. TypeOK' /\ AttemptLeft'
    BY NextType DEF IndexInv
  <1>2. Indexed'
    BY TokenizeIndexed, FlushIndexed, OthersIndexed DEF Next
  <1> QED BY <1>1, <1>2 DEF IndexInv, Indexed

\* Between sequential clients, a token that lives can be flushed and counted:
\* store puts it in the index set of its request, rotation leaves that set
\* alone, and expiry takes the token first.
THEOREM VaultLiveTokenIndexed ==
  ASSUME SequentialClients, ~Shutdowns
  PROVE  Spec => []LiveTokenIndexed
  <1>1. Init => IndexInv /\ AttemptLeft
    BY InitIndexInv, InitAttempt
  <1>2. IndexInv /\ AttemptLeft /\ [Next]_vars => IndexInv' /\ AttemptLeft'
    BY NextIndexInv
  <1>3. IndexInv => LiveTokenIndexed
    BY DEF IndexInv
  <1> QED BY <1>1, <1>2, <1>3, PTL DEF Spec

\* A flush that completes between sequential clients has removed every live
\* token of its request, whatever other flushes, rotations and expiries do.
THEOREM VaultFlushLeavesNothing ==
  ASSUME SequentialClients, ~Shutdowns
  PROVE  Spec => FlushLeavesNothing
  <1>1. Init => IndexInv /\ AttemptLeft
    BY InitIndexInv, InitAttempt
  <1>2. IndexInv /\ AttemptLeft /\ [Next]_vars => IndexInv' /\ AttemptLeft'
    BY NextIndexInv
  <1>3. IndexInv => \A f \in Flusher : FlushDel(f) =>
                      \A h \in Hash : ~Live(<<fl[f].req, h>>)
    BY DEF IndexInv, FlushingOk, FlushDel
  <1> QED BY <1>1, <1>2, <1>3, PTL DEF Spec, FlushLeavesNothing

-----------------------------------------------------------------------------
(***************************************************************************)
(* Vault implements VaultService, and no step but a store prolongs a       *)
(* token.  By key consistency every live token is restorable, so what is   *)
(* readable is exactly the remaining life of the tokens; a commit changes  *)
(* no remaining life and counts all live tokens.                           *)
(***************************************************************************)

-----------------------------------------------------------------------------
(***************************************************************************)
(* What each use case does to the remaining lives and to the results.      *)
(***************************************************************************)
\* A tokenize call stores one token, or none.
LEMMA TokenizeLife ==
  ASSUME TypeOK, NEW t \in Tokenizer,
         \/ \E r \in Req, S \in SUBSET Hash : TokenizeStart(t, r, S)
         \/ TokenizeStep(t)
         \/ TokenizeAbort(t)
  PROVE  /\ UNCHANGED result
         /\ \/ UNCHANGED ttl
            \/ /\ tz[t].pc = "storeExec" /\ tz'[t].pc = "register"
               /\ \E a \in Addr : /\ a = <<tz[t].req, tz[t].hash>>
                                  /\ ttl' = [ttl EXCEPT ![a] = TTL]
  <1>0. tz \in [Tokenizer -> TzState] /\ tz[t] \in TzState
    BY DEF TypeOK
  <1>1. CASE StoreExec(t)
    <2>1. CASE t \in dirty
      BY <1>1, <2>1 DEF StoreExec, redis
    <2>2. CASE t \notin dirty
      <3> DEFINE a == <<tz[t].req, tz[t].hash>>
      <3>1. a \in Addr
        BY <1>0 DEF TzState, Addr
      <3>2. tz[t].pc = "storeExec" /\ tz'[t].pc = "register"
        BY <1>0, <1>1, <2>2 DEF StoreExec, TzGoto, TzState
      <3>3. ttl' = [ttl EXCEPT ![a] = TTL] /\ UNCHANGED result
        BY <1>1, <2>2 DEF StoreExec
      <3> QED BY <3>1, <3>2, <3>3
    <2> QED BY <2>1, <2>2
  <1>2. CASE \/ \E r \in Req, S \in SUBSET Hash : TokenizeStart(t, r, S)
             \/ TokenizeAbort(t) \/ GetDek(t) \/ DekWatch(t) \/ ReadDek(t)
             \/ \E h \in Hash : StoreWatch(t, h)
             \/ Reread(t)
    BY <1>2 DEF TokenizeStart, TokenizeAbort, GetDek, DekWatch, ReadDek,
                StoreWatch, Reread, TzOnly, redis
  <1>3. CASE DekExec(t) \/ Register(t)
    BY <1>3 DEF DekExec, Register
  <1> QED BY <1>1, <1>2, <1>3 DEF TokenizeStep

\* A flush ends the life of some tokens.
LEMMA FlushLife ==
  ASSUME NEW f \in Flusher,
         \/ \E r \in Req : FlushMembers(f, r)
         \/ FlushStep(f)
         \/ FlushAbort(f)
  PROVE  /\ UNCHANGED result
         /\ \/ UNCHANGED ttl
            \/ \E gone : ttl' = [a \in Addr |-> IF a \in gone THEN 0 ELSE ttl[a]]
  <1>1. CASE FlushUnlink(f)
    BY <1>1 DEF FlushUnlink
  <1>2. CASE \/ \E r \in Req : FlushMembers(f, r)
             \/ FlushDel(f) \/ FlushAbort(f)
    BY <1>2 DEF FlushMembers, FlushDel, FlushAbort, redis
  <1> QED BY <1>1, <1>2 DEF FlushStep

\* A rotation changes no life; when it records a result nobody had recorded
\* one, and the result is the number of live tokens.
LEMMA RotateLife ==
  ASSUME VaultInv, NEW o \in Rotator,
         \/ \E op \in Op : RotateStart(o, op)
         \/ RotateStep(o)
         \/ RotateAbort(o)
  PROVE  /\ UNCHANGED ttl
         /\ \/ UNCHANGED result
            \/ \E op \in Op :
                 /\ result[op] = NoResult
                 /\ result' = [result EXCEPT
                                 ![op] = Cardinality({a \in Addr : Live(a)})]
  <1>1. CASE RotateExec(o) /\ o \notin dirty
    <2>0. /\ ro[o].live \in SUBSET Addr /\ ro[o].op \in Op
      BY DEF VaultInv, TypeOK, RoState
    <2>1. ro[o].pc = "get" /\ ro[o].check = {}
      BY <1>1 DEF RotateExec
    <2>2. /\ o \in Committing /\ CommitShape(o) /\ CommitUndisturbed(o)
          /\ SnapshotOk(o)
      BY <1>1, <2>1 DEF Committing, VaultInv, CommitInv, SnapshotInv
    <2>3. SameVersion(o) /\ result[ro[o].op] = NoResult
      BY <2>1, <2>2 DEF CommitUndisturbed
    <2>4. dek # NoDek /\ ro[o].scan = {}
      BY <2>2, <2>3 DEF CommitShape, SameVersion
    <2>5. \A a \in Addr : Live(a) => a \in ro[o].live
      BY <2>1, <2>2, <2>3, <2>4 DEF SnapshotOk, Snapped, CommitUndisturbed
    <2>6. ro[o].live = {a \in Addr : Live(a)}
      BY <2>0, <2>1, <2>2, <2>5 DEF CommitUndisturbed
    <2>7. /\ UNCHANGED ttl
          /\ result' = [result EXCEPT ![ro[o].op] = Cardinality(ro[o].live)]
      BY <1>1 DEF RotateExec, RotatedTtl
    <2> QED BY <2>0, <2>3, <2>6, <2>7
  <1>2. CASE RotateExec(o) /\ o \in dirty
    BY <1>2 DEF RotateExec, redis
  <1>3. CASE \/ \E op \in Op : RotateStart(o, op)
             \/ RotateAbort(o) \/ RotatePrior(o) \/ RotateSnapshot(o)
             \/ \E a \in Addr : RotateScan(o, a)
             \/ RotateWatch(o) \/ RotateResult(o) \/ RotateCas(o)
             \/ \E a \in Addr : RotateGet(o, a)
             \/ RotatePttl(o)
    BY <1>3 DEF RotateStart, RotateAbort, RotatePrior, RotateSnapshot,
                RotateScan, RotateWatch, RotateResult, RotateCas, RotateGet,
                RotatePttl, RoOnly, redis
  <1> QED BY <1>1, <1>2, <1>3 DEF RotateStep

-----------------------------------------------------------------------------
\* Only a store makes a token live longer.
LEMMA StepLife == VaultInv /\ [Next]_vars => [LifeGrowsByStore]_vars
  <1> SUFFICES ASSUME VaultInv, Next, NEW a \in Addr, ttl'[a] > ttl[a]
               PROVE  \E t \in Tokenizer :
                        /\ tz[t].pc = "storeExec" /\ tz'[t].pc = "register"
                        /\ a = <<tz[t].req, tz[t].hash>>
    BY DEF LifeGrowsByStore
  <1>0. TypeOK /\ ttl \in [Addr -> 0..TTL]
    BY DEF VaultInv, TypeOK
  <1>1. ASSUME NEW t \in Tokenizer,
               \/ \E r \in Req, S \in SUBSET Hash : TokenizeStart(t, r, S)
               \/ TokenizeStep(t)
               \/ TokenizeAbort(t)
        PROVE  /\ tz[t].pc = "storeExec" /\ tz'[t].pc = "register"
               /\ a = <<tz[t].req, tz[t].hash>>
    <2>1. ttl' # ttl
      BY <1>0
    <2>2. /\ tz[t].pc = "storeExec" /\ tz'[t].pc = "register"
          /\ \E b \in Addr : /\ b = <<tz[t].req, tz[t].hash>>
                             /\ ttl' = [ttl EXCEPT ![b] = TTL]
      BY <1>0, <1>1, <2>1, TokenizeLife
    <2>3. PICK b \in Addr : /\ b = <<tz[t].req, tz[t].hash>>
                            /\ ttl' = [ttl EXCEPT ![b] = TTL]
      BY <2>2
    <2>4. a = b
      BY <1>0, <2>3
    <2> QED BY <2>2, <2>3, <2>4
  <1>2. ~ \E f \in Flusher : \/ \E r \in Req : FlushMembers(f, r)
                             \/ FlushStep(f)
                             \/ FlushAbort(f)
    BY <1>0, FlushLife
  <1>3. ~ \E o \in Rotator : \/ \E op \in Op : RotateStart(o, op)
                             \/ RotateStep(o)
                             \/ RotateAbort(o)
    BY <1>0, RotateLife
  <1>4. ~ Tick
    BY <1>0 DEF Tick, Aged
  <1>5. ~ \E r \in Req : UnlinkIndex(r)
    BY <1>0 DEF UnlinkIndex
  <1> QED BY <1>1, <1>2, <1>3, <1>4, <1>5 DEF Next

\* No rotation resurrects or prolongs a token that expired, or was flushed,
\* between its snapshot and its commit.
THEOREM VaultNeverResurrect == Spec => NeverResurrect
  BY InitVaultInv, NextVaultInv, StepLife, PTL DEF Spec, NeverResurrect

-----------------------------------------------------------------------------
\* What rehydrate can restore is what is live.
LEMMA ReadableIsLife == VaultInv => Readable = ttl
  <1> SUFFICES ASSUME VaultInv PROVE Readable = ttl
    OBVIOUS
  <1>1. ttl \in [Addr -> 0..TTL]
    BY DEF VaultInv, TypeOK
  <1>2. ASSUME NEW a \in Addr
        PROVE  Readable[a] = ttl[a]
    <2>1. PICK r \in Req, h \in Hash : a = <<r, h>>
      BY DEF Addr
    <2>2. a[1] = r /\ a[2] = h
      BY <2>1
    <2>3. Live(a) => a[2] \in Restored(a[1], Hash)
      BY <2>1, <2>2 DEF Restored, VaultInv, KeyConsistency
    <2>4. ~Live(a) => ttl[a] = 0
      BY <1>1 DEF Live
    <2> QED BY <2>3, <2>4, <1>1 DEF Readable
  <1>3. Readable = [a \in Addr |-> Readable[a]]
    BY DEF Readable
  <1> QED BY <1>1, <1>2, <1>3

LEMMA ReadableIsLifeNext == VaultInv' => (Readable = ttl)'
  BY ReadableIsLife, PTL

LEMMA InitImplements == Init => Service!SInit
  <1> SUFFICES ASSUME Init PROVE Service!SInit
    OBVIOUS
  <1>1. Readable = ttl
    BY InitVaultInv, ReadableIsLife
  <1> QED BY <1>1 DEF Init, Service!SInit

LEMMA StepImplements ==
  VaultInv /\ VaultInv' /\ [Next]_vars => [Service!SNext]_(Service!svars)
  <1> SUFFICES ASSUME VaultInv, VaultInv', [Next]_vars
               PROVE  Service!SNext \/ UNCHANGED <<Readable, result>>
    BY DEF Service!svars
  <1>0. TypeOK /\ ttl \in [Addr -> 0..TTL]
    BY DEF VaultInv, TypeOK
  <1>a. Readable = ttl /\ Readable' = ttl'
    BY ReadableIsLife, ReadableIsLifeNext
  <1>b. UNCHANGED ttl /\ UNCHANGED result => UNCHANGED <<Readable, result>>
    BY <1>a
  <1>1. CASE UNCHANGED vars
    BY <1>1, <1>b DEF vars, redis
  <1>2. ASSUME NEW t \in Tokenizer,
               \/ \E r \in Req, S \in SUBSET Hash : TokenizeStart(t, r, S)
               \/ TokenizeStep(t)
               \/ TokenizeAbort(t)
        PROVE  Service!SNext \/ UNCHANGED <<Readable, result>>
    <2>1. CASE \E a \in Addr : ttl' = [ttl EXCEPT ![a] = TTL]
      <3>1. PICK a \in Addr : ttl' = [ttl EXCEPT ![a] = TTL]
        BY <2>1
      <3>2. UNCHANGED result
        BY <1>0, <1>2, TokenizeLife
      <3>3. Service!Put(a)
        BY <1>a, <3>1, <3>2 DEF Service!Put
      <3> QED BY <3>3 DEF Service!SNext
    <2>2. CASE UNCHANGED ttl
      BY <1>0, <1>2, <1>b, <2>2, TokenizeLife
    <2> QED BY <1>0, <1>2, <2>1, <2>2, TokenizeLife
  <1>3. ASSUME NEW f \in Flusher,
               \/ \E r \in Req : FlushMembers(f, r)
               \/ FlushStep(f)
               \/ FlushAbort(f)
        PROVE  Service!SNext \/ UNCHANGED <<Readable, result>>
    <2>1. UNCHANGED result
      BY <1>3, FlushLife
    <2>2. CASE UNCHANGED ttl
      BY <1>b, <2>1, <2>2
    <2>3. ASSUME NEW gone,
                 ttl' = [a \in Addr |-> IF a \in gone THEN 0 ELSE ttl[a]]
          PROVE  Service!SNext
      <3> DEFINE S == gone \cap Addr
      <3>1. ttl' = [a \in Addr |-> IF a \in S THEN 0 ELSE ttl[a]]
        BY <2>3
      <3>2. S \in SUBSET Addr
        OBVIOUS
      <3> HIDE DEF S
      <3>3. Service!Delete(S)
        BY <1>a, <2>1, <3>1 DEF Service!Delete
      <3> QED BY <3>2, <3>3 DEF Service!SNext
    <2> QED BY <1>3, <2>2, <2>3, FlushLife
  <1>4. ASSUME NEW o \in Rotator,
               \/ \E op \in Op : RotateStart(o, op)
               \/ RotateStep(o)
               \/ RotateAbort(o)
        PROVE  Service!SNext \/ UNCHANGED <<Readable, result>>
    <2>1. UNCHANGED ttl
      BY <1>4, RotateLife
    <2>2. CASE UNCHANGED result
      BY <1>b, <2>1, <2>2
    <2>3. ASSUME NEW op \in Op, result[op] = NoResult,
                 result' = [result EXCEPT
                              ![op] = Cardinality({a \in Addr : Live(a)})]
          PROVE  Service!SNext
      <3>1. {a \in Addr : Live(a)} = {a \in Addr : Readable[a] > 0}
        BY <1>a DEF Live
      <3>2. Service!Rotation(op)
        BY <1>a, <2>1, <2>3, <3>1 DEF Service!Rotation, Service!Cardinality, Cardinality
      <3> QED BY <3>2 DEF Service!SNext
    <2> QED BY <1>4, <2>2, <2>3, RotateLife
  <1>5. CASE Tick
    <2>1. ttl' = [a \in Addr |-> IF ttl[a] > 0 THEN ttl[a] - 1 ELSE 0]
          /\ UNCHANGED result
      BY <1>5 DEF Tick, Aged
    <2>2. Service!Age
      BY <1>a, <2>1 DEF Service!Age
    <2> QED BY <2>2 DEF Service!SNext
  <1>6. ASSUME NEW r \in Req, UnlinkIndex(r)
        PROVE  UNCHANGED <<Readable, result>>
    BY <1>6, <1>b DEF UnlinkIndex
  <1> QED BY <1>1, <1>2, <1>3, <1>4, <1>5, <1>6 DEF Next

\* Readers cannot tell the interleaved vault from the atomic one.
THEOREM VaultImplementsService == Spec => ImplementsService
  <1>1. VaultInv /\ [Next]_vars => VaultInv'
    BY NextVaultInv
  <1> QED
    BY <1>1, InitVaultInv, InitImplements, StepImplements, PTL
       DEF Spec, ImplementsService, Service!SSpec
=============================================================================

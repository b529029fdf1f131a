------------------------------- MODULE Vault -------------------------------
(***************************************************************************)
(* The PII vault of one organisation: the Redis keys the service keeps     *)
(* (ciphertexts with a TTL, per-request index sets, the wrapped DEK, the   *)
(* vault revision, the recorded results of rotations) and the four use     *)
(* cases that work on them concurrently, one Redis round trip per step:    *)
(* tokenize (get_or_create_dek, store, register), rehydrate, flush and     *)
(* rotate.  Redis executes a command or a MULTI/EXEC block atomically; an  *)
(* EXEC fails when a WATCHed key was written or expired since its WATCH.   *)
(*                                                                         *)
(* Ciphertexts are abstracted to the DEK they are encrypted under, a token *)
(* to its address (request, hash).  DEKs and revisions are random values   *)
(* that never repeat: a fresh one is one that nobody still remembers, so a *)
(* finite pool is enough and no counter has to be capped.                  *)
(***************************************************************************)
EXTENDS Integers, FiniteSets

CONSTANTS
  Req,                \* request ids of the organisation
  Hash,               \* token hashes
  Dek,                \* data encryption keys (pool of fresh values)
  NoDek,              \* absent DEK, absent ciphertext
  Rev,                \* vault revisions (pool of fresh values)
  NoRev,              \* ps:revision key absent
  Op,                 \* operation ids of rotations
  Tokenizer, Flusher, Rotator,  \* concurrent executions of the use cases
  TTL,                \* token_ttl_seconds
  MaxTries,           \* attempts of store and of set_dek_if_absent
  RotationTries,      \* attempts of a rotation
  SequentialClients,  \* a request is flushed only when no tokenize runs on it
  Shutdowns           \* replicas may shut down and unlink the index sets

ASSUME TtlAssumption == TTL \in Nat \ {0}
ASSUME TriesAssumption == MaxTries \in Nat \ {0} /\ RotationTries \in Nat \ {0}
ASSUME NoDekAssumption == NoDek \notin Dek
ASSUME NoRevAssumption == NoRev \notin Rev
ASSUME ModeAssumption == SequentialClients \in BOOLEAN /\ Shutdowns \in BOOLEAN
ASSUME FiniteAssumption == IsFiniteSet(Req) /\ IsFiniteSet(Hash)
ASSUME NonEmptyAssumption == Req # {} /\ Hash # {} /\ Op # {}
ASSUME ProcessAssumption == Tokenizer \cap Rotator = {}

Addr == Req \X Hash
NoResult == -1

VARIABLES
  dek,       \* ps:dek:{org}
  cipher,    \* ps:{org}:{req}:{hash}: the DEK its ciphertext is under
  ttl,       \* remaining life of each token key, 0 when the key is absent
  index,     \* ps:req:{org}:{req}
  indexTtl,  \* remaining life of each index set
  rev,       \* ps:revision:{org}
  result,    \* ps:rotation:{org}:{sha256(op)}
  tz,        \* running tokenize calls
  fl,        \* running flush calls
  ro,        \* running rotations
  dirty,     \* connections whose WATCH was invalidated
  answers    \* history: the counts reported to callers for each operation id

redis == <<dek, cipher, ttl, index, indexTtl, rev, result>>
vars == <<redis, tz, fl, ro, dirty, answers>>

Live(a) == ttl[a] > 0

(***************************************************************************)
(* Local state of the use cases.                                           *)
(***************************************************************************)
TzState == [pc : {"idle", "getDek", "dekWatch", "dekExec", "readDek",
                  "storeWatch", "storeExec", "reread", "register"},
            req : Req, todo : SUBSET Hash, hash : Hash,
            dek : Dek \cup {NoDek}, tries : 0..MaxTries]

FlState == [pc : {"idle", "unlink", "del"}, req : Req, members : SUBSET Hash]

RoState == [pc : {"idle", "prior", "snapshot", "scan", "result", "cas",
                  "get", "pttl"},
            op : Op, tries : 0..RotationTries,
            sdek : Dek \cup {NoDek}, srev : Rev \cup {NoRev},
            scan : SUBSET Addr, snap : [Addr -> Dek \cup {NoDek}],
            ndek : Dek \cup {NoDek}, check : SUBSET Addr, cur : Addr,
            live : SUBSET Addr,
            out : {"none", "rotated", "notFound", "decryptError", "noExpiry",
                   "contention"}]

\* A call that is not running remembers nothing; a finished rotation only its
\* outcome.
IdleTz == [pc |-> "idle", req |-> CHOOSE r \in Req : TRUE, todo |-> {},
           hash |-> CHOOSE h \in Hash : TRUE, dek |-> NoDek, tries |-> 0]

IdleFl == [pc |-> "idle", req |-> CHOOSE r \in Req : TRUE, members |-> {}]

IdleRo == [pc |-> "idle", op |-> CHOOSE op \in Op : TRUE, tries |-> 0,
           sdek |-> NoDek, srev |-> NoRev, scan |-> {},
           snap |-> [a \in Addr |-> NoDek], ndek |-> NoDek, check |-> {},
           cur |-> CHOOSE a \in Addr : TRUE, live |-> {}, out |-> "none"]

TypeOK ==
  /\ dek \in Dek \cup {NoDek}
  /\ cipher \in [Addr -> Dek \cup {NoDek}]
  /\ ttl \in [Addr -> 0..TTL]
  /\ index \in [Req -> SUBSET Hash]
  /\ indexTtl \in [Req -> 0..TTL]
  /\ rev \in Rev \cup {NoRev}
  /\ result \in [Op -> Nat \cup {NoResult}]
  /\ tz \in [Tokenizer -> TzState]
  /\ fl \in [Flusher -> FlState]
  /\ ro \in [Rotator -> RoState]
  /\ dirty \in SUBSET (Tokenizer \cup Rotator)
  /\ answers \in [Op -> SUBSET (Nat \cup {NoResult})]

(***************************************************************************)
(* Fresh random values: os.urandom(32) and uuid4() differ from every value *)
(* that Redis or a running call still holds.                               *)
(***************************************************************************)
DeksInUse ==
  {dek} \cup {cipher[a] : a \in Addr} \cup {tz[t].dek : t \in Tokenizer}
    \cup {ro[o].sdek : o \in Rotator} \cup {ro[o].ndek : o \in Rotator}
    \cup UNION {{ro[o].snap[a] : a \in Addr} : o \in Rotator}

RevsInUse == {rev} \cup {ro[o].srev : o \in Rotator}

FreshDeks == Dek \ DeksInUse
FreshRevs == Rev \ RevsInUse
FreshDek == CHOOSE d \in FreshDeks : TRUE
FreshRev == CHOOSE v \in FreshRevs : TRUE

(***************************************************************************)
(* WATCH.  commit_rotation watches the DEK, the revision, its result key   *)
(* and the token keys of its snapshot; store and set_dek_if_absent watch   *)
(* the DEK.                                                                *)
(***************************************************************************)
Committing == {o \in Rotator : ro[o].pc \in {"result", "cas", "get", "pttl"}}

DekWatchers ==
  Committing \cup {t \in Tokenizer : tz[t].pc \in {"dekExec", "storeExec"}}

\* Mutant: commit_rotation does not watch the revision.
RevWatchersNone == {}

RevWatchers == Committing

\* Mutant: commit_rotation does not watch the token keys.
TokenWatchersNone(S) == {}

TokenWatchers(S) == {o \in Committing : \E a \in S : ro[o].snap[a] # NoDek}

\* A connection starts to watch, or leaves its transaction.
Unwatch(p) == dirty' = dirty \ {p}

\* SADD + EXPIRE of the index set.  Mutant: EXPIRE only on a new set.
AddToIndexOnce(r, h) ==
  /\ index' = [index EXCEPT ![r] = @ \cup {h}]
  /\ indexTtl' = [indexTtl EXCEPT ![r] = IF @ = 0 THEN TTL ELSE @]

AddToIndex(r, h) ==
  /\ index' = [index EXCEPT ![r] = @ \cup {h}]
  /\ indexTtl' = [indexTtl EXCEPT ![r] = TTL]

(***************************************************************************)
(* Tokenize.                                                               *)
(***************************************************************************)
TzGoto(t, pc) == tz' = [tz EXCEPT ![t].pc = pc]

TzDone(t) == tz' = [tz EXCEPT ![t] = IdleTz]

TzOnly == UNCHANGED <<redis, fl, ro, answers>>

\* execute() after its two quota checks: the distinct values of the text are
\* the token hashes S to be stored, none when nothing is detected.
TokenizeStart(t, r, S) ==
  /\ tz[t].pc = "idle"
  /\ SequentialClients => \A f \in Flusher : fl[f].pc = "idle" \/ fl[f].req # r
  /\ tz' = [tz EXCEPT ![t] = [IdleTz EXCEPT !.pc = "getDek", !.req = r,
                                             !.todo = S]]
  /\ UNCHANGED dirty
  /\ TzOnly

\* get_or_create_dek: read the DEK; when absent prepare a candidate.
GetDek(t) ==
  /\ tz[t].pc = "getDek"
  /\ \/ dek # NoDek /\ TzGoto(t, "readDek")
     \/ /\ dek = NoDek
        /\ FreshDeks # {}
        /\ tz' = [tz EXCEPT ![t].pc = "dekWatch", ![t].dek = FreshDek]
  /\ UNCHANGED dirty
  /\ TzOnly

\* set_dek_if_absent: WATCH and GET; an existing DEK is the winner.
DekWatch(t) ==
  /\ tz[t].pc = "dekWatch"
  /\ \/ dek # NoDek /\ TzGoto(t, "readDek")
     \/ dek = NoDek /\ TzGoto(t, "dekExec")
  /\ Unwatch(t)
  /\ TzOnly

\* set_dek_if_absent: EXEC, at most MaxTries times.
DekExec(t) ==
  /\ tz[t].pc = "dekExec"
  /\ \/ /\ t \notin dirty
        /\ dek' = tz[t].dek
        /\ tz' = [tz EXCEPT ![t].pc = "readDek", ![t].tries = 0]
        /\ dirty' = (dirty \cup DekWatchers) \ {t}
     \/ /\ t \in dirty
        /\ IF tz[t].tries + 1 < MaxTries
             THEN tz' = [tz EXCEPT ![t].pc = "dekWatch", ![t].tries = @ + 1]
             ELSE TzDone(t)
        /\ Unwatch(t)
        /\ UNCHANGED dek
  /\ UNCHANGED <<cipher, ttl, index, indexTtl, rev, result, fl, ro, answers>>

\* execute(): the DEK is read again; the first span, if any, is encrypted
\* under it.
ReadDek(t) ==
  /\ tz[t].pc = "readDek"
  /\ IF dek = NoDek \/ tz[t].todo = {}
       THEN TzDone(t)
       ELSE tz' = [tz EXCEPT ![t].pc = "storeWatch", ![t].dek = dek,
                             ![t].tries = 0]
  /\ UNCHANGED dirty
  /\ TzOnly

\* store(): WATCH the DEK and compare it with the one the value is under.
StoreWatch(t, h) ==
  /\ tz[t].pc = "storeWatch"
  /\ h \in tz[t].todo
  /\ tz[t].tries > 0 => h = tz[t].hash
  /\ \/ /\ dek # tz[t].dek
        /\ tz' = [tz EXCEPT ![t].pc = "reread", ![t].tries = @ + 1,
                            ![t].hash = h]
     \/ /\ dek = tz[t].dek
        /\ tz' = [tz EXCEPT ![t].pc = "storeExec", ![t].hash = h]
  /\ Unwatch(t)
  /\ TzOnly

\* store(): SET token, SET revision, SADD, EXPIRE in one transaction.
StoreExec(t) ==
  LET r == tz[t].req
      a == <<r, tz[t].hash>>
  IN
  /\ tz[t].pc = "storeExec"
  /\ \/ /\ t \in dirty
        /\ tz' = [tz EXCEPT ![t].pc = "reread", ![t].tries = @ + 1]
        /\ Unwatch(t)
        /\ UNCHANGED redis
     \/ /\ t \notin dirty
        /\ FreshRevs # {}
        /\ cipher' = [cipher EXCEPT ![a] = tz[t].dek]
        /\ ttl' = [ttl EXCEPT ![a] = TTL]
        /\ rev' = FreshRev
        /\ AddToIndex(r, tz[t].hash)
        /\ dirty' = dirty \cup RevWatchers \cup TokenWatchers({a})
        /\ TzGoto(t, "register")
        /\ UNCHANGED <<dek, result>>
  /\ UNCHANGED <<fl, ro, answers>>

\* execute(): after a refused store the DEK is read again, even when no
\* attempt is left; the value is encrypted under it, its hash stays.
Reread(t) ==
  /\ tz[t].pc = "reread"
  /\ IF dek = NoDek \/ tz[t].tries = MaxTries
       THEN TzDone(t)
       ELSE tz' = [tz EXCEPT ![t].pc = "storeWatch", ![t].dek = dek]
  /\ UNCHANGED dirty
  /\ TzOnly

\* register_request_token: SADD + EXPIRE once more, then the next value.
Register(t) ==
  LET r == tz[t].req
      rest == tz[t].todo \ {tz[t].hash}
  IN
  /\ tz[t].pc = "register"
  /\ AddToIndex(r, tz[t].hash)
  /\ IF rest = {}
       THEN TzDone(t)
       ELSE tz' = [tz EXCEPT ![t].pc = "storeWatch", ![t].todo = rest,
                             ![t].tries = 0]
  /\ UNCHANGED <<dek, cipher, ttl, rev, result, fl, ro, dirty, answers>>

\* The route cancels a text after its timeout, or the process dies.
TokenizeAbort(t) ==
  /\ tz[t].pc # "idle"
  /\ TzDone(t)
  /\ Unwatch(t)
  /\ TzOnly

(***************************************************************************)
(* Rehydrate: one MGET of the DEK and the asked ciphertexts; those that    *)
(* decrypt are restored, the other tokens stay in the text.                *)
(***************************************************************************)
Restored(r, S) == {h \in S : Live(<<r, h>>) /\ cipher[<<r, h>>] = dek}

(***************************************************************************)
(* Flush: SMEMBERS, UNLINK of the token keys, DEL of the index set.        *)
(***************************************************************************)
FlushMembers(f, r) ==
  /\ fl[f].pc = "idle"
  /\ SequentialClients => \A t \in Tokenizer : tz[t].pc = "idle" \/ tz[t].req # r
  /\ index[r] # {}
  /\ fl' = [fl EXCEPT ![f] = [pc |-> "unlink", req |-> r, members |-> index[r]]]
  /\ UNCHANGED <<redis, tz, ro, dirty, answers>>

FlushUnlink(f) ==
  LET gone == {fl[f].req} \X fl[f].members
  IN
  /\ fl[f].pc = "unlink"
  /\ ttl' = [a \in Addr |-> IF a \in gone THEN 0 ELSE ttl[a]]
  /\ cipher' = [a \in Addr |-> IF a \in gone THEN NoDek ELSE cipher[a]]
  /\ dirty' = dirty \cup TokenWatchers({a \in gone : Live(a)})
  /\ fl' = [fl EXCEPT ![f].pc = "del"]
  /\ UNCHANGED <<dek, index, indexTtl, rev, result, tz, ro, answers>>

FlushDel(f) ==
  /\ fl[f].pc = "del"
  /\ index' = [index EXCEPT ![fl[f].req] = {}]
  /\ indexTtl' = [indexTtl EXCEPT ![fl[f].req] = 0]
  /\ fl' = [fl EXCEPT ![f] = IdleFl]
  /\ UNCHANGED <<dek, cipher, ttl, rev, result, tz, ro, dirty, answers>>

FlushAbort(f) ==
  /\ fl[f].pc # "idle"
  /\ fl' = [fl EXCEPT ![f] = IdleFl]
  /\ UNCHANGED <<redis, tz, ro, dirty, answers>>

(***************************************************************************)
(* Rotate.                                                                 *)
(***************************************************************************)
RoOnly == UNCHANGED <<redis, tz, fl>>

RoDone(o, out) == ro' = [ro EXCEPT ![o] = [IdleRo EXCEPT !.out = out]]

\* A call that finds or records a result reports it to its caller.
RoAnswer(o, count) ==
  /\ RoDone(o, "rotated")
  /\ answers' = [answers EXCEPT ![ro[o].op] = @ \cup {count}]

\* commit_rotation returned None: the next attempt takes a new snapshot.
\* Mutant: attempts are not counted.
RoRetryForever(o) ==
  ro' = [ro EXCEPT ![o] = [IdleRo EXCEPT !.pc = "snapshot", !.op = ro[o].op]]

RoRetry(o) ==
  IF ro[o].tries + 1 < RotationTries
  THEN ro' = [ro EXCEPT ![o] = [IdleRo EXCEPT !.pc = "snapshot",
                           !.op = ro[o].op, !.tries = ro[o].tries + 1]]
  ELSE RoDone(o, "contention")

RotateStart(o, op) ==
  /\ ro[o].pc = "idle"
  /\ ro' = [ro EXCEPT ![o] = [IdleRo EXCEPT !.pc = "prior", !.op = op]]
  /\ UNCHANGED <<dirty, answers>>
  /\ RoOnly

\* rotation_result before the first attempt.
RotatePrior(o) ==
  /\ ro[o].pc = "prior"
  /\ \/ /\ result[ro[o].op] # NoResult
        /\ RoAnswer(o, result[ro[o].op])
     \/ /\ result[ro[o].op] = NoResult
        /\ ro' = [ro EXCEPT ![o].pc = "snapshot"]
        /\ UNCHANGED answers
  /\ UNCHANGED dirty
  /\ RoOnly

\* snapshot_rotation: DEK and revision first, in one MGET ...
RotateSnapshot(o) ==
  /\ ro[o].pc = "snapshot"
  /\ ro' = [ro EXCEPT ![o].pc = "scan", ![o].sdek = dek, ![o].srev = rev,
                      ![o].scan = Addr, ![o].snap = [a \in Addr |-> NoDek]]
  /\ UNCHANGED <<dirty, answers>>
  /\ RoOnly

\* ... then SCAN and GET, one token key at a time.
RotateScan(o, a) ==
  /\ ro[o].pc = "scan"
  /\ a \in ro[o].scan
  /\ ro' = [ro EXCEPT ![o].scan = @ \ {a},
                      ![o].snap[a] = IF Live(a) THEN cipher[a] ELSE NoDek]
  /\ UNCHANGED <<dirty, answers>>
  /\ RoOnly

Foreign(o) == {a \in Addr : ro[o].snap[a] \notin {NoDek, ro[o].sdek}}

\* Preparation in memory (decrypt under the old DEK, encrypt under a new one)
\* and the WATCH of commit_rotation.
RotateWatch(o) ==
  /\ ro[o].pc = "scan"
  /\ ro[o].scan = {}
  /\ \/ /\ ro[o].sdek = NoDek
        /\ RoDone(o, "notFound")
        /\ UNCHANGED dirty
     \/ /\ ro[o].sdek # NoDek
        /\ Foreign(o) # {}
        /\ RoDone(o, "decryptError")
        /\ UNCHANGED dirty
     \/ /\ ro[o].sdek # NoDek
        /\ Foreign(o) = {}
        /\ FreshDeks # {}
        /\ ro' = [ro EXCEPT ![o].pc = "result", ![o].ndek = FreshDek]
        /\ Unwatch(o)
  /\ UNCHANGED answers
  /\ RoOnly

\* commit_rotation: a result recorded meanwhile is returned as it is.
\* Mutant: it is not looked up again.
RotateResultUnchecked(o) ==
  /\ ro[o].pc = "result"
  /\ ro' = [ro EXCEPT ![o].pc = "cas"]
  /\ UNCHANGED <<dirty, answers>>
  /\ RoOnly

RotateResult(o) ==
  /\ ro[o].pc = "result"
  /\ \/ /\ result[ro[o].op] # NoResult
        /\ RoAnswer(o, result[ro[o].op])
        /\ Unwatch(o)
     \/ /\ result[ro[o].op] = NoResult
        /\ ro' = [ro EXCEPT ![o].pc = "cas"]
        /\ UNCHANGED <<dirty, answers>>
  /\ RoOnly

\* commit_rotation: MGET of DEK and revision against the snapshot.
RotateCas(o) ==
  /\ ro[o].pc = "cas"
  /\ \/ /\ dek # ro[o].sdek \/ rev # ro[o].srev
        /\ RoRetry(o)
        /\ Unwatch(o)
     \/ /\ dek = ro[o].sdek /\ rev = ro[o].srev
        /\ ro' = [ro EXCEPT ![o].pc = "get", ![o].live = {},
                    ![o].check = {a \in Addr : ro[o].snap[a] # NoDek}]
        /\ UNCHANGED dirty
  /\ UNCHANGED answers
  /\ RoOnly

\* commit_rotation: GET of one snapshot key.
RotateGet(o, a) ==
  /\ ro[o].pc = "get"
  /\ a \in ro[o].check
  /\ \/ /\ ~Live(a)
        /\ ro' = [ro EXCEPT ![o].check = @ \ {a}]
        /\ UNCHANGED dirty
     \/ /\ Live(a)
        /\ cipher[a] # ro[o].snap[a]
        /\ RoRetry(o)
        /\ Unwatch(o)
     \/ /\ Live(a)
        /\ cipher[a] = ro[o].snap[a]
        /\ ro' = [ro EXCEPT ![o].pc = "pttl", ![o].cur = a,
                            ![o].check = @ \ {a}]
        /\ UNCHANGED dirty
  /\ UNCHANGED answers
  /\ RoOnly

\* commit_rotation: PTTL of the key just read; negative when it is gone.
RotatePttl(o) ==
  /\ ro[o].pc = "pttl"
  /\ \/ /\ ~Live(ro[o].cur)
        /\ RoDone(o, "noExpiry")
        /\ Unwatch(o)
     \/ /\ Live(ro[o].cur)
        /\ ro' = [ro EXCEPT ![o].pc = "get", ![o].live = @ \cup {ro[o].cur}]
        /\ UNCHANGED dirty
  /\ UNCHANGED answers
  /\ RoOnly

\* SET XX KEEPTTL: absent keys stay absent and expiries stay as they are.
\* Mutant: SET XX with a new expiry.
RotatedTtlReset(o) ==
  [a \in Addr |-> IF a \in ro[o].live /\ Live(a) THEN TTL ELSE ttl[a]]

RotatedTtl(o) == ttl

RotatedCipher(o) ==
  [a \in Addr |-> IF a \in ro[o].live /\ Live(a) THEN ro[o].ndek ELSE cipher[a]]

\* commit_rotation: EXEC.  Its reply may be lost.  The client library reports a
\* connection lost under WATCH as a WatchError, and the call tries again, or as
\* the error it is, and the call ends; nobody has been told the result.
RotateExec(o) ==
  /\ ro[o].pc = "get"
  /\ ro[o].check = {}
  /\ \/ /\ o \in dirty
        /\ RoRetry(o)
        /\ Unwatch(o)
        /\ UNCHANGED <<redis, answers>>
     \/ /\ o \notin dirty
        /\ FreshRevs # {}
        /\ cipher' = RotatedCipher(o)
        /\ ttl' = RotatedTtl(o)
        /\ dek' = ro[o].ndek
        /\ rev' = FreshRev
        /\ result' = [result EXCEPT ![ro[o].op] = Cardinality(ro[o].live)]
        /\ dirty' = (dirty \cup DekWatchers) \ {o}
        /\ UNCHANGED <<index, indexTtl>>
        /\ \/ RoAnswer(o, Cardinality(ro[o].live))
           \/ /\ RoRetry(o) \/ RoDone(o, "none")
              /\ UNCHANGED answers
  /\ UNCHANGED <<tz, fl>>

\* The process dies, or the reply is lost: the caller got no answer.
RotateAbort(o) ==
  /\ ro[o].pc # "idle"
  /\ RoDone(o, "none")
  /\ Unwatch(o)
  /\ UNCHANGED answers
  /\ RoOnly

(***************************************************************************)
(* The environment.                                                        *)
(***************************************************************************)
Aged(n) == IF n > 0 THEN n - 1 ELSE 0

\* One unit of time: expired keys vanish, which also breaks their WATCHes.
Tick ==
  LET expiring == {a \in Addr : ttl[a] = 1}
  IN
  /\ ttl' = [a \in Addr |-> Aged(ttl[a])]
  /\ cipher' = [a \in Addr |-> IF a \in expiring THEN NoDek ELSE cipher[a]]
  /\ index' = [r \in Req |-> IF indexTtl[r] > 1 THEN index[r] ELSE {}]
  /\ indexTtl' = [r \in Req |-> Aged(indexTtl[r])]
  /\ dirty' = dirty \cup TokenWatchers(expiring)
  /\ UNCHANGED <<dek, rev, result, tz, fl, ro, answers>>

\* _flush_orphaned_request_sets of a replica that shuts down.
UnlinkIndex(r) ==
  /\ Shutdowns
  /\ index' = [index EXCEPT ![r] = {}]
  /\ indexTtl' = [indexTtl EXCEPT ![r] = 0]
  /\ UNCHANGED <<dek, cipher, ttl, rev, result, tz, fl, ro, dirty, answers>>

-----------------------------------------------------------------------------
Init ==
  /\ dek = NoDek
  /\ cipher = [a \in Addr |-> NoDek]
  /\ ttl = [a \in Addr |-> 0]
  /\ index = [r \in Req |-> {}]
  /\ indexTtl = [r \in Req |-> 0]
  /\ rev = NoRev
  /\ result = [op \in Op |-> NoResult]
  /\ tz = [t \in Tokenizer |-> IdleTz]
  /\ fl = [f \in Flusher |-> IdleFl]
  /\ ro = [o \in Rotator |-> IdleRo]
  /\ dirty = {}
  /\ answers = [op \in Op |-> {}]

TokenizeStep(t) ==
  \/ GetDek(t)
  \/ DekWatch(t)
  \/ DekExec(t)
  \/ ReadDek(t)
  \/ \E h \in Hash : StoreWatch(t, h)
  \/ StoreExec(t)
  \/ Reread(t)
  \/ Register(t)

FlushStep(f) == FlushUnlink(f) \/ FlushDel(f)

RotateStep(o) ==
  \/ RotatePrior(o)
  \/ RotateSnapshot(o)
  \/ \E a \in Addr : RotateScan(o, a)
  \/ RotateWatch(o)
  \/ RotateResult(o)
  \/ RotateCas(o)
  \/ \E a \in Addr : RotateGet(o, a)
  \/ RotatePttl(o)
  \/ RotateExec(o)

Next ==
  \/ \E t \in Tokenizer :
       \/ \E r \in Req, S \in SUBSET Hash : TokenizeStart(t, r, S)
       \/ TokenizeStep(t)
       \/ TokenizeAbort(t)
  \/ \E f \in Flusher :
       \/ \E r \in Req : FlushMembers(f, r)
       \/ FlushStep(f)
       \/ FlushAbort(f)
  \/ \E o \in Rotator :
       \/ \E op \in Op : RotateStart(o, op)
       \/ RotateStep(o)
       \/ RotateAbort(o)
  \/ Tick
  \/ \E r \in Req : UnlinkIndex(r)

Spec == Init /\ [][Next]_vars

\* A running call keeps executing (asyncio schedules every ready task); calls,
\* cancellations, time and shutdowns come from outside.
FairSpec ==
  /\ Spec
  /\ \A t \in Tokenizer : WF_vars(TokenizeStep(t))
  /\ \A f \in Flusher : WF_vars(FlushStep(f))
  /\ \A o \in Rotator : WF_vars(RotateStep(o))

-----------------------------------------------------------------------------
\* Every live ciphertext decrypts under the stored DEK, whatever rotations,
\* stores, flushes and expiries interleave: "Contention never mixes keys".
KeyConsistency == \A a \in Addr : Live(a) => dek # NoDek /\ cipher[a] = dek

\* An operation id has one answer: every caller that was told a count was told
\* the recorded one, lost replies, retries and concurrent duplicates included.
AnswersAgree == \A op \in Op : answers[op] \subseteq {result[op]} \ {NoResult}

\* A live token can still be flushed and counted: its hash is in the index set
\* of its request, and that set does not expire before the token.
LiveTokenIndexed ==
  \A r \in Req, h \in Hash :
    Live(<<r, h>>) => h \in index[r] /\ ttl[<<r, h>>] <= indexTtl[r]

\* A flush that completes leaves no live token of its request behind.
FlushLeavesNothing ==
  [][\A f \in Flusher : FlushDel(f) =>
       \A h \in Hash : ~Live(<<fl[f].req, h>>)]_vars

\* A token comes to life, or has its life extended, by a store of its own
\* value only: a rotation never resurrects a token that expired or was
\* flushed after its snapshot, and never extends one.
LifeGrowsByStore ==
  \A a \in Addr : ttl'[a] > ttl[a] =>
    \E t \in Tokenizer : tz[t].pc = "storeExec" /\ tz'[t].pc = "register"
                         /\ a = <<tz[t].req, tz[t].hash>>

NeverResurrect == [][LifeGrowsByStore]_vars

\* Every started call ends, by success or by error, however much the others
\* contend with it: attempts are bounded and nobody waits for anybody.
CallsTerminate ==
  /\ \A t \in Tokenizer : tz[t].pc # "idle" ~> tz[t].pc = "idle"
  /\ \A f \in Flusher : fl[f].pc # "idle" ~> fl[f].pc = "idle"
  /\ \A o \in Rotator : ro[o].pc # "idle" ~> ro[o].pc = "idle"

\* Distinct or duplicate rotations that run concurrently fail by contention
\* only: a preparation never meets a ciphertext it cannot decrypt.
RotationsFailByContentionOnly ==
  \A o \in Rotator : ro[o].out # "decryptError"

\* The rotation's "no expiry" error is raised for a token without expiry only;
\* the vault never holds one.
NoExpiryErrorIsReal == \A o \in Rotator : ro[o].out # "noExpiry"

-----------------------------------------------------------------------------
(***************************************************************************)
(* The inductive invariant behind KeyConsistency and AnswersAgree.         *)
(***************************************************************************)
\* Attempts are counted when they fail: one is left wherever one is made.
AttemptLeft ==
  /\ \A t \in Tokenizer : tz[t].pc # "reread" => tz[t].tries < MaxTries
  /\ \A o \in Rotator : ro[o].tries < RotationTries

\* A store that was not disturbed since its WATCH writes under the stored DEK,
\* and a creation that was not disturbed finds no DEK.
WriterOk(t) ==
  /\ tz[t].pc \in {"dekWatch", "dekExec", "storeWatch", "storeExec", "register"}
       => tz[t].dek # NoDek
  /\ tz[t].pc = "storeExec" /\ t \notin dirty => tz[t].dek = dek
  /\ tz[t].pc = "dekExec" /\ t \notin dirty => dek = NoDek

WriterInv == \A t \in Tokenizer : WriterOk(t)

Snapped(o) == {a \in Addr : ro[o].snap[a] # NoDek}

SameVersion(o) == ro[o].sdek = dek /\ ro[o].srev = rev

\* While the vault still has the DEK and the revision of a snapshot, every
\* live token is in the snapshot or still to be scanned.
SnapshotOk(o) ==
  ro[o].pc \in {"scan", "result", "cas", "get", "pttl"} /\ SameVersion(o) =>
    \A a \in Addr : Live(a) => a \in ro[o].scan \/ ro[o].snap[a] = dek

SnapshotInv == \A o \in Rotator : SnapshotOk(o)

\* A commit in progress has both DEKs and a complete scan, and looks only at
\* keys of its snapshot.
CommitShape(o) ==
  /\ ro[o].sdek # NoDek /\ ro[o].ndek # NoDek /\ ro[o].scan = {}
  /\ ro[o].pc \in {"get", "pttl"} =>
       ro[o].live \subseteq Snapped(o) /\ ro[o].check \subseteq Snapped(o)
  /\ ro[o].pc = "pttl" => ro[o].cur \in Snapped(o)

\* An undisturbed commit has no recorded result, still sees the version of its
\* snapshot, and has confirmed exactly the live tokens of the snapshot that it
\* does not have to look at any more.
CommitUndisturbed(o) ==
  /\ ro[o].pc # "result" => result[ro[o].op] = NoResult
  /\ ro[o].pc \in {"get", "pttl"} =>
       /\ SameVersion(o)
       /\ \A a \in ro[o].live : Live(a)
       /\ \A a \in Snapped(o) : Live(a) =>
            \/ a \in ro[o].live \cup ro[o].check
            \/ ro[o].pc = "pttl" /\ a = ro[o].cur

CommitInv ==
  \A o \in Committing :
    CommitShape(o) /\ (o \notin dirty => CommitUndisturbed(o))

VaultInv ==
  /\ TypeOK
  /\ AttemptLeft
  /\ KeyConsistency
  /\ AnswersAgree
  /\ WriterInv
  /\ SnapshotInv
  /\ CommitInv

-----------------------------------------------------------------------------
(***************************************************************************)
(* The inductive invariant behind LiveTokenIndexed and FlushLeavesNothing, *)
(* for sequential clients and no shutdowns.                                *)
(***************************************************************************)
\* A request that is being flushed is not being tokenized.
Sequential ==
  \A f \in Flusher, t \in Tokenizer :
    fl[f].pc # "idle" /\ tz[t].pc # "idle" => fl[f].req # tz[t].req

\* A flush in progress knows every live token of its request until it unlinks
\* them, and none is left afterwards.
FlushingOk ==
  \A f \in Flusher, h \in Hash :
    /\ fl[f].pc = "unlink" /\ Live(<<fl[f].req, h>>) => h \in fl[f].members
    /\ fl[f].pc = "del" => ~Live(<<fl[f].req, h>>)

IndexInv ==
  /\ TypeOK
  /\ Sequential
  /\ FlushingOk
  /\ LiveTokenIndexed
=============================================================================

---------------------------- MODULE TokenNaming ----------------------------
(***************************************************************************)
(* How PII values get their tokens.  A tokenize call processes its texts   *)
(* one after the other.  For each text the collision tracker is seeded     *)
(* with the tokens known so far (the client's carry-over and those of the  *)
(* earlier texts); every new value gets the first free name of the values  *)
(* with its keyed hash, and is stored under that name in the vault of the  *)
(* request.  A token that the client holds must never come to stand for    *)
(* another value.                                                          *)
(*                                                                         *)
(* Encryption and the guards against rotation are the subject of Vault;    *)
(* here the vault maps names to values.                                    *)
(***************************************************************************)
EXTENDS Integers, FiniteSets

CONSTANTS
  Value,       \* PII values
  None,        \* no value, no token
  Type,        \* PII types
  Hash,        \* truncated keyed hashes
  Dek,         \* DEKs (bounds the rotations)
  MaxAttempts, \* _MAX_COLLISION_ATTEMPTS
  MaxTexts,    \* bound: texts of a call
  Call,        \* concurrent tokenize calls
  Request,     \* request ids
  Worlds       \* the hashes and the clients that are looked at

ASSUME NoneAssumption == None \notin Value
ASSUME RequestAssumption == Request # {}
ASSUME BoundAssumption == MaxAttempts \in Nat \ {0} /\ MaxTexts \in Nat \ {0}

\* base: the hash of a value under a DEK (hmac_token_hash); texts: how many a
\* call may have; ids: the request ids in use; types: what a value may be
\* detected as; carryOver: whether clients may send, or leave out, what they
\* know; overlap: calls may run at once; freshIds: an id is used once;
\* rotations: the DEK may be rotated.
ASSUME WorldsAssumption ==
  Worlds \subseteq [base : [Dek \X Value -> Hash], texts : 1..MaxTexts, ids : SUBSET Request,
                    types : SUBSET Type, carryOver : SUBSET BOOLEAN, overlap : BOOLEAN,
                    freshIds : BOOLEAN, rotations : BOOLEAN]

\* A hash with its collision suffix.
Name == Hash \X (1..MaxAttempts)
Token == [type : Type, name : Name]

ASSUME NoTokenAssumption == None \notin Token

Known == [Value -> Token \cup {None}]
Entry == [value : Value, token : Token]

VARIABLES
  world,    \* the hashes and the clients of this behaviour
  dek,      \* the organisation's DEK
  retired,  \* DEKs that were rotated away
  vault,    \* per request: what a name stands for
  call,     \* running tokenize calls
  known,    \* the tokens the client has for each value
  issued    \* history: tokens handed out, with request and value

vars == <<world, dek, retired, vault, call, known, issued>>

Nothing == [v \in Value |-> None]

CallState == [pc : {"idle", "texts", "spans"}, req : Request, left : 0..MaxTexts,
              existing : Known, dek : Dek, seen : [Name -> Value \cup {None}],
              entries : Known, todo : SUBSET (Value \X Type), answer : SUBSET Entry]

IdleCall == [pc |-> "idle", req |-> CHOOSE r \in Request : TRUE, left |-> 0,
             existing |-> Nothing, dek |-> CHOOSE d \in Dek : TRUE,
             seen |-> [n \in Name |-> None], entries |-> Nothing, todo |-> {},
             answer |-> {}]

TypeOK ==
  /\ world \in Worlds
  /\ dek \in Dek
  /\ retired \subseteq Dek
  /\ vault \in [Request -> [Name -> Value \cup {None}]]
  /\ call \in [Call -> CallState]
  /\ known \in Known
  /\ issued \subseteq [req : Request, value : Value, token : Token]

-----------------------------------------------------------------------------
\* Mutant: only the names of this text are tracked.
SeedsForgotten(e) == {[n \in Name |-> None]}

\* _CollisionTracker.seed: when several values carry one name, the last of the
\* dictionary wins.
Seeds(e) ==
  LET bearers(n) == {v \in Value : e[v] # None /\ e[v].name = n}
  IN {f \in [Name -> Value \cup {None}] :
        \A n \in Name : IF bearers(n) = {} THEN f[n] = None ELSE f[n] \in bearers(n)}

\* Mutant: the base hash is taken without looking who has it.
OpenAttemptsAll(seen, h, v) == 1..MaxAttempts

\* find_or_allocate: the attempts at which the value may stop.
OpenAttempts(seen, h, v) == {i \in 1..MaxAttempts : seen[<<h, i>>] \in {None, v}}

FirstOf(S) == CHOOSE i \in S : \A j \in S : i <= j

\* Later tokens replace earlier ones.
Merge(old, new) == [v \in Value |-> IF new[v] # None THEN new[v] ELSE old[v]]

EntriesOf(k) == {e \in Entry : k[e.value] = e.token}

-----------------------------------------------------------------------------
Begin(c, r, n, carry) ==
  /\ call[c].pc = "idle"
  /\ world.overlap \/ \A d \in Call : call[d].pc = "idle"
  /\ world.freshIds => /\ \A i \in issued : i.req # r
                 /\ \A d \in Call : call[d].pc # "idle" => call[d].req # r
  /\ call' = [call EXCEPT ![c] = [IdleCall EXCEPT !.pc = "texts", !.req = r, !.left = n,
                                    !.existing = IF carry THEN known ELSE Nothing]]
  /\ UNCHANGED <<world, dek, retired, vault, known, issued>>

\* execute starts on a text in which the spans S were detected.
TextStart(c, S) ==
  /\ call[c].pc = "texts" /\ call[c].left > 0
  /\ \E seen \in Seeds(call[c].existing) :
       call' = [call EXCEPT ![c].pc = "spans", ![c].left = @ - 1, ![c].dek = dek,
                            ![c].seen = seen, ![c].entries = Nothing, ![c].todo = S]
  /\ UNCHANGED <<world, dek, retired, vault, known, issued>>

\* A value that already has a token in this text.
SpanAgain(c, s) ==
  /\ call[c].pc = "spans" /\ s \in call[c].todo
  /\ call[c].entries[s[1]] # None
  /\ call' = [call EXCEPT ![c].todo = @ \ {s}]
  /\ UNCHANGED <<world, dek, retired, vault, known, issued>>

\* A new value: named under the call's DEK and stored; a store that meets a
\* newer DEK goes on with it.
SpanStore(c, s) ==
  LET v == s[1]
      h == world.base[call[c].dek, v]
      open == OpenAttempts(call[c].seen, h, v)
      name == <<h, FirstOf(open)>>
  IN
  /\ call[c].pc = "spans" /\ s \in call[c].todo
  /\ call[c].entries[v] = None
  /\ open # {}
  /\ vault' = [vault EXCEPT ![call[c].req][name] = v]
  /\ call' = [call EXCEPT ![c].todo = @ \ {s}, ![c].dek = dek, ![c].seen[name] = v,
                          ![c].entries[v] = [type |-> s[2], name |-> name]]
  /\ UNCHANGED <<world, dek, retired, known, issued>>

\* Mutant: each text starts from the client's carry-over.
TextEndForgetting(c) ==
  /\ call[c].pc = "spans" /\ call[c].todo = {}
  /\ call' = [call EXCEPT ![c].pc = "texts",
                          ![c].answer = @ \cup EntriesOf(call[c].entries)]
  /\ UNCHANGED <<world, dek, retired, vault, known, issued>>

\* The route keeps the text's tokens for the next text.
TextEnd(c) ==
  /\ call[c].pc = "spans" /\ call[c].todo = {}
  /\ call' = [call EXCEPT ![c].pc = "texts",
                          ![c].existing = Merge(@, call[c].entries),
                          ![c].answer = @ \cup EntriesOf(call[c].entries)]
  /\ UNCHANGED <<world, dek, retired, vault, known, issued>>

\* The response: the client holds the tokens of all texts.
Respond(c) ==
  /\ call[c].pc = "texts" /\ call[c].left = 0
  /\ issued' = issued \cup {[req |-> call[c].req, value |-> e.value, token |-> e.token] :
                              e \in call[c].answer}
  /\ known' = Merge(known, call[c].existing)
  /\ call' = [call EXCEPT ![c] = IdleCall]
  /\ UNCHANGED <<world, dek, retired, vault>>

\* An error, an exhausted tracker or a timeout: the client gets no tokens.
Fail(c) ==
  /\ call[c].pc = "spans"
  /\ call' = [call EXCEPT ![c] = IdleCall]
  /\ UNCHANGED <<world, dek, retired, vault, known, issued>>

Rotate(d) ==
  /\ world.rotations
  /\ d \notin retired \cup {dek}
  /\ dek' = d
  /\ retired' = retired \cup {dek}
  /\ UNCHANGED <<world, vault, call, known, issued>>

\* A token expires or is flushed.
Expire(r, n) ==
  /\ vault[r][n] # None
  /\ vault' = [vault EXCEPT ![r][n] = None]
  /\ UNCHANGED <<world, dek, retired, call, known, issued>>

Init ==
  /\ world \in Worlds
  /\ dek \in Dek
  /\ retired = {}
  /\ vault = [r \in Request |-> [n \in Name |-> None]]
  /\ call = [c \in Call |-> IdleCall]
  /\ known = Nothing
  /\ issued = {}

Next ==
  \/ \E c \in Call :
       \/ \E r \in world.ids, n \in 1..world.texts, carry \in world.carryOver : Begin(c, r, n, carry)
       \/ \E S \in SUBSET (Value \X world.types) : TextStart(c, S)
       \/ \E s \in call[c].todo : SpanAgain(c, s) \/ SpanStore(c, s)
       \/ TextEnd(c)
       \/ Respond(c)
       \/ Fail(c)
  \/ \E d \in Dek : Rotate(d)
  \/ \E r \in Request, n \in Name : Expire(r, n)

Spec == Init /\ [][Next]_vars

-----------------------------------------------------------------------------
\* Rehydrating a token that a client holds gives back the value it was made
\* for, or, once it has expired or was flushed, nothing; never another value.
TokenMeansValue ==
  \A i \in issued : vault[i.req][i.token.name] \in {i.value, None}

\* Within one call a value has one token, however many texts it occurs in.
OneTokenPerValue ==
  \A c \in Call : \A x, y \in call[c].answer : x.value = y.value => x.token = y.token

\* Within one call a value has one vault entry, also where it is detected with
\* different types.
OneNamePerValue ==
  \A c \in Call : \A x, y \in call[c].answer :
    x.value = y.value => x.token.name = y.token.name

\* Within one call two values have two names, expired or not.
NamesApart ==
  \A c \in Call : \A x, y \in call[c].answer :
    x.token.name = y.token.name => x.value = y.value

-----------------------------------------------------------------------------
\* What makes the three inductive, for the clients they hold for.
\* Every text has a call and a request id of its own.
SingleText(w) == w.texts = 1 /\ w.freshIds

\* One call after the other, each carrying along all tokens, under one DEK.
OneConversation(w) == ~ w.rotations /\ ~ w.overlap /\ w.carryOver \subseteq {TRUE}

Running(c) == call[c].pc # "idle"

\* Single texts: nobody else uses the request id, and the tracker and the vault
\* know the tokens of the text.
OwnRequest(c) ==
  /\ \A d \in Call : Running(d) /\ call[d].req = call[c].req => d = c
  /\ \A i \in issued : i.req # call[c].req

EntriesStored(c) ==
  \A v \in Value : call[c].entries[v] # None =>
    LET name == call[c].entries[v].name
    IN call[c].seen[name] = v /\ vault[call[c].req][name] \in {v, None}

AnswerIsText(c) ==
  /\ call[c].left \in {0, 1}
  /\ call[c].pc = "spans" => call[c].left = 0
  /\ call[c].left = 1 \/ call[c].pc = "spans" => call[c].answer = {}
  /\ \A x \in call[c].answer : call[c].entries[x.value] = x.token

SingleInv ==
  \A c \in Call : Running(c) => OwnRequest(c) /\ EntriesStored(c) /\ AnswerIsText(c)

\* Conversations: k gives every value the first name that no other value had.
Extends(e, k) == \A v \in Value : k[v] # None => e[v] # None /\ e[v].name = k[v].name

Distinct(k) ==
  \A v, w \in Value : k[v] # None /\ k[w] # None /\ k[v].name = k[w].name => v = w

FirstNames(k, base, d) ==
  \A v \in Value : k[v] # None =>
    LET h == base[d, v]
    IN /\ k[v].name[1] = h
       /\ \A j \in 1..(k[v].name[2] - 1) :
            \E w \in Value \ {v} : k[w] # None /\ k[w].name = <<h, j>>

Fit(k) == Distinct(k) /\ FirstNames(k, world.base, dek)

\* The tokens of the call so far, those of the present text included.
Sofar(c) == Merge(call[c].existing, call[c].entries)

Tracked(c) ==
  /\ call[c].dek = dek
  /\ Fit(Sofar(c)) /\ Extends(Sofar(c), call[c].existing)
  /\ \A n \in Name, v \in Value :
       call[c].seen[n] = v <=> Sofar(c)[v] # None /\ Sofar(c)[v].name = n

AnswerKept(c) ==
  \A x \in call[c].answer :
    call[c].existing[x.value] # None /\ x.token.name = call[c].existing[x.value].name

AnswerStored(c) ==
  \A x \in call[c].answer \cup EntriesOf(call[c].entries) :
    vault[call[c].req][x.token.name] \in {x.value, None}

ConversationInv ==
  /\ \A c, d \in Call : Running(c) /\ Running(d) => c = d
  /\ Fit(known)
  /\ \A i \in issued : known[i.value] # None /\ i.token.name = known[i.value].name
  /\ \A c \in Call : Running(c) =>
       /\ Extends(call[c].existing, known)
       /\ Fit(call[c].existing)
       /\ AnswerKept(c) /\ AnswerStored(c)
       /\ call[c].pc = "spans" => Tracked(c)

NamingInv ==
  /\ SingleText(world) => SingleInv
  /\ OneConversation(world) => ConversationInv
  /\ SingleText(world) \/ OneConversation(world) => TokenMeansValue
=============================================================================

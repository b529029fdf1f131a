------------------------- MODULE TokenNamingProofs -------------------------
(***************************************************************************)
(* Proofs about the naming of values: a token that a client holds means    *)
(* its value, a value has one name and two values have two, for any hashes *)
(* and any number of values, for clients that send single texts under      *)
(* request ids of their own and for conversations under one DEK.           *)
(***************************************************************************)
EXTENDS TokenNaming, WellFoundedInduction, TLAPS

\* The first of some attempts.
LEMMA FirstOfLeast ==
  ASSUME NEW S \in SUBSET Nat, S # {}
  PROVE  FirstOf(S) \in S /\ \A j \in S : FirstOf(S) <= j
<1> DEFINE R == OpToRel(<, Nat)
<1>1. IsWellFoundedOn(R, Nat)
  BY NatLessThanWellFounded
<1>2. \A a, b \in Nat : a < b => <<a, b>> \in R
  BY DEF OpToRel
<1> HIDE DEF R
<1>3. PICK i \in S : \A j \in S : ~ (<<j, i>> \in R)
  BY <1>1, WFMin
<1>4. \A j \in S : ~ (j < i)
  BY <1>2, <1>3
<1>5. \A j \in S : i <= j
  BY <1>4
<1> QED BY <1>5 DEF FirstOf

\* The fields of a call.
LEMMA CallFields ==
  ASSUME NEW calls \in [Call -> CallState], NEW c \in Call
  PROVE  /\ calls[c].pc \in {"idle", "texts", "spans"}
         /\ calls[c].req \in Request
         /\ calls[c].left \in 0..MaxTexts
         /\ calls[c].existing \in Known
         /\ calls[c].dek \in Dek
         /\ calls[c].seen \in [Name -> Value \cup {None}]
         /\ calls[c].entries \in Known
         /\ calls[c].todo \in SUBSET (Value \X Type)
         /\ calls[c].answer \in SUBSET Entry
BY DEF CallState

LEMMA WorldFields ==
  ASSUME world \in Worlds
  PROVE  /\ world.base \in [Dek \X Value -> Hash]
         /\ world.texts \in 1..MaxTexts
         /\ world.ids \in SUBSET Request
         /\ world.types \in SUBSET Type
BY WorldsAssumption

\* What a value's token is when it is stored.
Open(c, s) ==
  OpenAttempts(call[c].seen, world.base[call[c].dek, s[1]], s[1])

NewName(c, s) == <<world.base[call[c].dek, s[1]], FirstOf(Open(c, s))>>

LEMMA NewNameType ==
  ASSUME TypeOK, NEW c \in Call, NEW s \in Value \X Type, Open(c, s) # {}
  PROVE  /\ NewName(c, s) \in Name
         /\ FirstOf(Open(c, s)) \in Open(c, s)
         /\ \A j \in Open(c, s) : FirstOf(Open(c, s)) <= j
<1>1. Open(c, s) \subseteq 1..MaxAttempts
  BY DEF Open, OpenAttempts
<1>2. /\ FirstOf(Open(c, s)) \in Open(c, s)
      /\ \A j \in Open(c, s) : FirstOf(Open(c, s)) <= j
  BY <1>1, BoundAssumption, FirstOfLeast
<1>3. world.base[call[c].dek, s[1]] \in Hash
  BY CallFields, WorldFields DEF TypeOK
<1> QED BY <1>1, <1>2, <1>3 DEF NewName, Name

LEMMA NothingKnown == Nothing \in Known
BY DEF Nothing, Known

LEMMA IdleType == ASSUME Dek # {} PROVE IdleCall \in CallState
BY NothingKnown, RequestAssumption, BoundAssumption DEF IdleCall, CallState

LEMMA MergeKnown == ASSUME NEW k \in Known, NEW e \in Known PROVE Merge(k, e) \in Known
BY DEF Merge, Known

LEMMA NamingTypes == Spec => []TypeOK
<1>1. Init => TypeOK
  BY NothingKnown, IdleType DEF Init, TypeOK
<1>2. TypeOK /\ [Next]_vars => TypeOK'
  <2> SUFFICES ASSUME TypeOK, [Next]_vars PROVE TypeOK'
    OBVIOUS
  <2> USE DEF TypeOK
  <2>1. CASE UNCHANGED vars
    BY <2>1 DEF vars
  <2>2. ASSUME NEW c \in Call, NEW r \in world.ids, NEW n \in 1..world.texts,
               NEW carry \in world.carryOver, Begin(c, r, n, carry)
        PROVE  TypeOK'
    <3>1. r \in Request /\ n \in 0..MaxTexts
      BY WorldFields, BoundAssumption
    <3>2. IdleCall \in CallState
      BY IdleType
    <3>3. (IF carry THEN known ELSE Nothing) \in Known
      BY NothingKnown
    <3>4. [IdleCall EXCEPT !.pc = "texts", !.req = r, !.left = n,
                           !.existing = IF carry THEN known ELSE Nothing] \in CallState
      BY ONLY <3>1, <3>2, <3>3 DEF CallState
    <3> QED BY <2>2, <3>4 DEF Begin
  <2>3. ASSUME NEW c \in Call, NEW S \in SUBSET (Value \X world.types), TextStart(c, S)
        PROVE  TypeOK'
    <3>1. S \in SUBSET (Value \X Type) /\ call[c].left - 1 \in 0..MaxTexts
      BY <2>3, WorldFields, CallFields, BoundAssumption DEF TextStart
    <3>2. PICK seen \in Seeds(call[c].existing) :
             call' = [call EXCEPT ![c] = [call[c] EXCEPT !.pc = "spans", !.left = @ - 1,
                        !.dek = dek, !.seen = seen, !.entries = Nothing, !.todo = S]]
      <4>1. PICK seen \in Seeds(call[c].existing) :
               call' = [call EXCEPT ![c].pc = "spans", ![c].left = @ - 1, ![c].dek = dek,
                                    ![c].seen = seen, ![c].entries = Nothing, ![c].todo = S]
        BY <2>3 DEF TextStart
      <4> QED BY <4>1
    <3>3. seen \in [Name -> Value \cup {None}]
      BY DEF Seeds
    <3>4. [call[c] EXCEPT !.pc = "spans", !.left = @ - 1, !.dek = dek, !.seen = seen,
                          !.entries = Nothing, !.todo = S] \in CallState
      <4>1. call[c] \in CallState /\ dek \in Dek
        OBVIOUS
      <4> QED BY ONLY <3>1, <3>3, <4>1, NothingKnown DEF CallState
    <3> QED BY <2>3, <3>2, <3>4 DEF TextStart
  <2>4. ASSUME NEW c \in Call, NEW s \in call[c].todo, SpanAgain(c, s) PROVE TypeOK'
    <3>1. [call[c] EXCEPT !.todo = @ \ {s}] \in CallState
      <4>1. call[c] \in CallState
        OBVIOUS
      <4> QED BY ONLY <4>1 DEF CallState
    <3> QED BY <2>4, <3>1 DEF SpanAgain
  <2>5. ASSUME NEW c \in Call, NEW s \in call[c].todo, SpanStore(c, s) PROVE TypeOK'
    <3> DEFINE name == NewName(c, s)
               new == [type |-> s[2], name |-> name]
    <3>1. s \in Value \X Type /\ call[c].req \in Request
      BY CallFields
    <3>2. name \in Name /\ new \in Token
      BY <2>5, <3>1, NewNameType DEF SpanStore, Open, Token
    <3>3. call[c].seen \in [Name -> Value \cup {None}] /\ call[c].entries \in Known
      BY CallFields
    <3>4. /\ call' = [call EXCEPT ![c] = [call[c] EXCEPT !.todo = @ \ {s}, !.dek = dek,
                        !.seen[name] = s[1], !.entries[s[1]] = new]]
          /\ vault' = [vault EXCEPT ![call[c].req][name] = s[1]]
      BY ONLY <2>5, ZenonT(60) DEF SpanStore, NewName, Open
    <3> HIDE DEF name, new
    <3>5. [call[c].seen EXCEPT ![name] = s[1]] \in [Name -> Value \cup {None}]
      BY <3>1, <3>3
    <3>6. [call[c].entries EXCEPT ![s[1]] = new] \in Known
      BY <3>1, <3>2, <3>3 DEF Known
    <3>7. [call[c] EXCEPT !.todo = @ \ {s}, !.dek = dek,
                          !.seen[name] = s[1], !.entries[s[1]] = new] \in CallState
      <4>1. call[c] \in CallState /\ dek \in Dek
        OBVIOUS
      <4> QED BY ONLY <3>5, <3>6, <4>1 DEF CallState
    <3>8. vault' \in [Request -> [Name -> Value \cup {None}]]
      BY <3>1, <3>4
    <3>9. call' \in [Call -> CallState]
      BY <3>4, <3>7
    <3>10. UNCHANGED <<world, dek, retired, known, issued>>
      BY <2>5 DEF SpanStore
    <3> QED BY ONLY TypeOK, <3>8, <3>9, <3>10 DEF TypeOK
  <2>6. ASSUME NEW c \in Call, TextEnd(c) PROVE TypeOK'
    <3>1. /\ Merge(call[c].existing, call[c].entries) \in Known
          /\ call[c].answer \cup EntriesOf(call[c].entries) \in SUBSET Entry
      BY CallFields, MergeKnown DEF EntriesOf
    <3>2. [call[c] EXCEPT !.pc = "texts", !.existing = Merge(@, call[c].entries),
                          !.answer = @ \cup EntriesOf(call[c].entries)] \in CallState
      <4>1. call[c] \in CallState
        OBVIOUS
      <4> QED BY ONLY <3>1, <4>1 DEF CallState
    <3> QED BY <2>6, <3>2 DEF TextEnd
  <2>7. ASSUME NEW c \in Call, Respond(c) PROVE TypeOK'
    <3>1. known' \in Known
      BY <2>7, CallFields, MergeKnown DEF Respond
    <3>2. issued' \subseteq [req : Request, value : Value, token : Token]
      <4>1. call[c].req \in Request /\ call[c].answer \subseteq Entry
        BY CallFields
      <4> QED BY <2>7, <4>1 DEF Respond, Entry
    <3> QED BY <2>7, <3>1, <3>2, IdleType DEF Respond
  <2>8. ASSUME NEW c \in Call, Fail(c) PROVE TypeOK'
    BY <2>8, IdleType DEF Fail
  <2>9. ASSUME NEW d \in Dek, Rotate(d) PROVE TypeOK'
    BY <2>9 DEF Rotate
  <2>10. ASSUME NEW r \in Request, NEW n \in Name, Expire(r, n) PROVE TypeOK'
    BY <2>10 DEF Expire
  <2> QED BY <2>1, <2>2, <2>3, <2>4, <2>5, <2>6, <2>7, <2>8, <2>9, <2>10 DEF Next
<1> QED BY <1>1, <1>2, PTL DEF Spec

-----------------------------------------------------------------------------
\* What the steps of a call make of its record; the others stay as they are.
OnlyCall(c) == \A d \in Call \ {c} : call'[d] = call[d]

SameRequest(c) == call'[c].req = call[c].req

SameTokens(c) ==
  /\ call'[c].dek = call[c].dek /\ call'[c].seen = call[c].seen
  /\ call'[c].entries = call[c].entries

LEMMA BeginStep ==
  ASSUME TypeOK, NEW c \in Call, NEW r, NEW n, NEW carry, Begin(c, r, n, carry)
  PROVE  /\ OnlyCall(c) /\ call[c].pc = "idle" /\ call'[c].pc = "texts"
         /\ call'[c].req = r /\ call'[c].left = n
         /\ call'[c].existing = IF carry THEN known ELSE Nothing
         /\ call'[c].entries = Nothing /\ call'[c].answer = {}
<1> DEFINE k == IF carry THEN known ELSE Nothing
<1>1. /\ call' = [call EXCEPT ![c] = [IdleCall EXCEPT !.pc = "texts", !.req = r, !.left = n,
                                        !.existing = k]]
      /\ call[c].pc = "idle"
  BY DEF Begin
<1>2. call \in [Call -> CallState]
  BY DEF TypeOK
<1>3. IdleCall \in CallState
  BY IdleType DEF TypeOK
<1>4. IdleCall.entries = Nothing /\ IdleCall.answer = {}
  BY DEF IdleCall
<1> DEFINE idle == IdleCall
<1> HIDE DEF k, idle
<1>5. /\ OnlyCall(c)
      /\ call'[c] = [idle EXCEPT !.pc = "texts", !.req = r, !.left = n, !.existing = k]
  BY ONLY <1>1, <1>2, c \in Call DEF OnlyCall, idle
<1>6. idle \in CallState
  BY <1>3 DEF idle
<1>7. /\ call'[c].pc = "texts" /\ call'[c].req = r /\ call'[c].left = n
      /\ call'[c].existing = k /\ call'[c].entries = idle.entries
      /\ call'[c].answer = idle.answer
  BY ONLY <1>5, <1>6 DEF CallState
<1> QED BY <1>1, <1>4, <1>5, <1>7 DEF k, idle

LEMMA TextStartStep ==
  ASSUME TypeOK, NEW c \in Call, NEW S, TextStart(c, S)
  PROVE  /\ OnlyCall(c) /\ SameRequest(c)
         /\ call[c].pc = "texts" /\ call'[c].pc = "spans"
         /\ call[c].left > 0 /\ call'[c].left = call[c].left - 1
         /\ call'[c].dek = dek /\ call'[c].entries = Nothing
         /\ call'[c].seen \in Seeds(call[c].existing)
         /\ call'[c].existing = call[c].existing /\ call'[c].answer = call[c].answer
<1>1. /\ call[c].pc = "texts" /\ call[c].left > 0
      /\ call \in [Call -> CallState] /\ call[c] \in CallState
  BY DEF TextStart, TypeOK
<1>2. PICK seen \in Seeds(call[c].existing) :
         call' = [call EXCEPT ![c].pc = "spans", ![c].left = @ - 1, ![c].dek = dek,
                              ![c].seen = seen, ![c].entries = Nothing, ![c].todo = S]
  BY DEF TextStart
<1>3. call' = [call EXCEPT ![c] = [call[c] EXCEPT !.pc = "spans", !.left = @ - 1,
                 !.dek = dek, !.seen = seen, !.entries = Nothing, !.todo = S]]
  BY <1>2
<1>4. /\ OnlyCall(c)
      /\ call'[c] = [call[c] EXCEPT !.pc = "spans", !.left = @ - 1,
                       !.dek = dek, !.seen = seen, !.entries = Nothing, !.todo = S]
  BY ONLY <1>1, <1>3, c \in Call DEF OnlyCall
<1>5. /\ call'[c].pc = "spans" /\ call'[c].left = call[c].left - 1 /\ call'[c].dek = dek
      /\ call'[c].seen = seen /\ call'[c].entries = Nothing /\ SameRequest(c)
      /\ call'[c].existing = call[c].existing /\ call'[c].answer = call[c].answer
  BY ONLY <1>1, <1>4 DEF CallState, SameRequest
<1> QED BY ONLY <1>1, <1>2, <1>4, <1>5

LEMMA SpanAgainStep ==
  ASSUME TypeOK, NEW c \in Call, NEW s, SpanAgain(c, s)
  PROVE  /\ OnlyCall(c) /\ SameRequest(c) /\ SameTokens(c)
         /\ call[c].pc = "spans" /\ call'[c].pc = "spans"
         /\ call'[c].left = call[c].left
         /\ call'[c].existing = call[c].existing /\ call'[c].answer = call[c].answer
<1>1. /\ call[c].pc = "spans" /\ call \in [Call -> CallState] /\ call[c] \in CallState
      /\ call' = [call EXCEPT ![c].todo = @ \ {s}]
  BY DEF SpanAgain, TypeOK
<1>2. OnlyCall(c) /\ call'[c] = [call[c] EXCEPT !.todo = @ \ {s}]
  BY ONLY <1>1, c \in Call DEF OnlyCall
<1> QED BY ONLY <1>1, <1>2 DEF CallState, SameRequest, SameTokens

LEMMA SpanStoreStep ==
  ASSUME TypeOK, NEW c \in Call, NEW s \in call[c].todo, SpanStore(c, s)
  PROVE  /\ OnlyCall(c) /\ SameRequest(c)
         /\ s \in Value \X Type /\ Open(c, s) # {} /\ call[c].entries[s[1]] = None
         /\ call[c].pc = "spans" /\ call'[c].pc = "spans" /\ call'[c].left = call[c].left
         /\ call'[c].dek = dek
         /\ call'[c].seen = [call[c].seen EXCEPT ![NewName(c, s)] = s[1]]
         /\ call'[c].entries = [call[c].entries EXCEPT ![s[1]] =
                                  [type |-> s[2], name |-> NewName(c, s)]]
         /\ call'[c].existing = call[c].existing /\ call'[c].answer = call[c].answer
         /\ vault' = [vault EXCEPT ![call[c].req][NewName(c, s)] = s[1]]
         /\ UNCHANGED <<world, dek, known, issued>>
<1> DEFINE name == NewName(c, s)
           new == [type |-> s[2], name |-> name]
<1>1. /\ call' = [call EXCEPT ![c] = [call[c] EXCEPT !.todo = @ \ {s}, !.dek = dek,
                     !.seen[name] = s[1], !.entries[s[1]] = new]]
      /\ vault' = [vault EXCEPT ![call[c].req][name] = s[1]]
  BY ONLY SpanStore(c, s), ZenonT(60) DEF SpanStore, NewName, Open
<1>2. /\ call[c].pc = "spans" /\ call[c].entries[s[1]] = None /\ Open(c, s) # {}
      /\ UNCHANGED <<world, dek, known, issued>>
  BY DEF SpanStore, Open
<1>3. call \in [Call -> CallState] /\ call[c] \in CallState /\ s \in Value \X Type
  BY CallFields DEF TypeOK
<1> HIDE DEF name, new
<1>4. /\ OnlyCall(c)
      /\ call'[c] = [call[c] EXCEPT !.todo = @ \ {s}, !.dek = dek,
                       !.seen[name] = s[1], !.entries[s[1]] = new]
  BY ONLY <1>1, <1>3, c \in Call DEF OnlyCall
<1>5. /\ SameRequest(c) /\ call'[c].pc = "spans" /\ call'[c].left = call[c].left
      /\ call'[c].dek = dek
      /\ call'[c].seen = [call[c].seen EXCEPT ![name] = s[1]]
      /\ call'[c].entries = [call[c].entries EXCEPT ![s[1]] = new]
      /\ call'[c].existing = call[c].existing /\ call'[c].answer = call[c].answer
  BY ONLY <1>2, <1>3, <1>4 DEF CallState, SameRequest
<1> QED BY ONLY <1>1, <1>2, <1>3, <1>4, <1>5 DEF name, new

LEMMA TextEndStep ==
  ASSUME TypeOK, NEW c \in Call, TextEnd(c)
  PROVE  /\ OnlyCall(c) /\ SameRequest(c) /\ SameTokens(c)
         /\ call[c].pc = "spans" /\ call'[c].pc = "texts" /\ call'[c].left = call[c].left
         /\ call'[c].existing = Sofar(c)
         /\ call'[c].answer = call[c].answer \cup EntriesOf(call[c].entries)
<1>1. /\ call[c].pc = "spans" /\ call \in [Call -> CallState] /\ call[c] \in CallState
      /\ call' = [call EXCEPT ![c].pc = "texts",
                              ![c].existing = Merge(@, call[c].entries),
                              ![c].answer = @ \cup EntriesOf(call[c].entries)]
  BY DEF TextEnd, TypeOK
<1>2. /\ OnlyCall(c)
      /\ call'[c] = [call[c] EXCEPT !.pc = "texts", !.existing = Merge(@, call[c].entries),
                       !.answer = @ \cup EntriesOf(call[c].entries)]
  BY ONLY <1>1, c \in Call DEF OnlyCall
<1> QED BY ONLY <1>1, <1>2 DEF CallState, SameRequest, SameTokens, Sofar

LEMMA CallEndStep ==
  ASSUME TypeOK, NEW c \in Call, Respond(c) \/ Fail(c)
  PROVE  OnlyCall(c) /\ call'[c].pc = "idle" /\ call'[c].answer = {}
<1>1. call \in [Call -> CallState] /\ call' = [call EXCEPT ![c] = IdleCall]
  BY DEF TypeOK, Respond, Fail
<1>2. IdleCall.pc = "idle" /\ IdleCall.answer = {}
  BY DEF IdleCall
<1> QED BY <1>1, <1>2 DEF OnlyCall

-----------------------------------------------------------------------------
\* Single texts.  What a call has to say of itself.
CallSingle(c) == OwnRequest(c) /\ EntriesStored(c) /\ AnswerIsText(c)

\* The calls that do not step are not disturbed by one that begins or ends.
LEMMA OthersSingle ==
  ASSUME SingleInv, NEW c \in Call, OnlyCall(c), NEW d \in Call \ {c}, Running(d),
         Running(c)' => call'[c].req # call[d].req,
         \A i \in issued' : i.req # call[d].req,
         UNCHANGED vault
  PROVE  CallSingle(d)'
<1>1. /\ call'[d] = call[d] /\ OwnRequest(d) /\ EntriesStored(d) /\ AnswerIsText(d)
  BY DEF OnlyCall, SingleInv
<1>2. OwnRequest(d)'
  BY <1>1 DEF OwnRequest, Running, OnlyCall
<1>3. EntriesStored(d)'
  BY <1>1 DEF EntriesStored
<1>4. AnswerIsText(d)'
  BY <1>1 DEF AnswerIsText
<1> QED BY <1>2, <1>3, <1>4 DEF CallSingle

\* A call that goes on under its request, with nothing issued and nothing
\* changed in the vaults of the others.
LEMMA GoesOnSingle ==
  ASSUME TypeOK, SingleInv, TokenMeansValue, NEW c \in Call, OnlyCall(c), Running(c),
         SameRequest(c), UNCHANGED issued,
         \A r \in Request, n \in Name : r # call[c].req => vault'[r][n] = vault[r][n],
         EntriesStored(c)', AnswerIsText(c)'
  PROVE  SingleInv' /\ TokenMeansValue'
<1>1. OwnRequest(c) /\ call \in [Call -> CallState]
  BY DEF SingleInv, TypeOK
<1>2. OwnRequest(c)'
  BY <1>1 DEF OwnRequest, Running, OnlyCall, SameRequest
<1>3. ASSUME NEW d \in Call \ {c}, Running(d) PROVE CallSingle(d)'
  <2>1. call[d].req # call[c].req /\ call'[d] = call[d] /\ OwnRequest(d)
        /\ EntriesStored(d) /\ AnswerIsText(d) /\ call[d].req \in Request
        /\ call[d].entries \in Known
    BY <1>1, <1>3, CallFields DEF OwnRequest, OnlyCall, SingleInv
  <2>2. OwnRequest(d)'
    BY <1>1, <2>1 DEF OwnRequest, Running, OnlyCall, SameRequest
  <2>3. EntriesStored(d)'
    <3> SUFFICES ASSUME NEW v \in Value, call[d].entries[v] # None
                 PROVE  /\ call[d].seen[call[d].entries[v].name] = v
                        /\ vault'[call[d].req][call[d].entries[v].name] \in {v, None}
      BY <2>1 DEF EntriesStored
    <3>1. call[d].entries[v].name \in Name
      BY <2>1 DEF Known, Token
    <3> QED BY <2>1, <3>1 DEF EntriesStored
  <2>4. AnswerIsText(d)'
    BY <2>1 DEF AnswerIsText
  <2> QED BY <2>2, <2>3, <2>4 DEF CallSingle
<1>4. SingleInv'
  BY <1>2, <1>3 DEF SingleInv, CallSingle, Running, OnlyCall
<1>5. TokenMeansValue'
  <2> SUFFICES ASSUME NEW i \in issued
               PROVE  vault'[i.req][i.token.name] \in {i.value, None}
    BY DEF TokenMeansValue
  <2>1. i.req # call[c].req
    BY <1>1 DEF OwnRequest
  <2>2. i.req \in Request /\ i.token.name \in Name
    BY DEF TypeOK, Token
  <2> QED BY <2>1, <2>2 DEF TokenMeansValue
<1> QED BY <1>4, <1>5

LEMMA BeginSingle ==
  ASSUME TypeOK, SingleText(world), SingleInv, TokenMeansValue, NEW c \in Call,
         NEW r \in world.ids, NEW n \in 1..world.texts, NEW carry \in world.carryOver,
         Begin(c, r, n, carry)
  PROVE  SingleInv' /\ TokenMeansValue'
<1>1. /\ OnlyCall(c) /\ call[c].pc = "idle" /\ call'[c].pc = "texts"
      /\ call'[c].req = r /\ call'[c].left = n
      /\ call'[c].entries = Nothing /\ call'[c].answer = {}
  BY BeginStep
<1>2. /\ UNCHANGED <<vault, issued>>
      /\ \A i \in issued : i.req # r
      /\ \A d \in Call : Running(d) => call[d].req # r
  BY DEF Begin, SingleText, Running
<1>3. n = 1
  BY DEF SingleText
<1>4. OwnRequest(c)'
  BY <1>1, <1>2 DEF OwnRequest, Running, OnlyCall
<1>5. EntriesStored(c)'
  BY <1>1 DEF EntriesStored, Nothing
<1>6. AnswerIsText(c)'
  BY <1>1, <1>3 DEF AnswerIsText
<1>7. ASSUME NEW d \in Call \ {c}, Running(d) PROVE CallSingle(d)'
  <2>1. call'[c].req # call[d].req /\ OwnRequest(d)
    BY <1>1, <1>2, <1>7 DEF SingleInv
  <2> QED BY <1>1, <1>2, <1>7, <2>1, OthersSingle DEF OwnRequest
<1>8. SingleInv'
  BY <1>1, <1>4, <1>5, <1>6, <1>7 DEF SingleInv, CallSingle, Running, OnlyCall
<1> QED BY <1>2, <1>8 DEF TokenMeansValue

LEMMA TextSingle ==
  ASSUME TypeOK, SingleInv, TokenMeansValue, NEW c \in Call,
         \/ \E S \in SUBSET (Value \X world.types) : TextStart(c, S)
         \/ \E s \in call[c].todo : SpanAgain(c, s)
         \/ TextEnd(c)
  PROVE  SingleInv' /\ TokenMeansValue'
<1> call \in [Call -> CallState]
  BY DEF TypeOK
<1>1. UNCHANGED <<vault, issued>>
  BY DEF TextStart, SpanAgain, TextEnd
<1>2. OnlyCall(c) /\ SameRequest(c) /\ Running(c)
  BY TextStartStep, SpanAgainStep, TextEndStep DEF Running
<1>3. EntriesStored(c) /\ AnswerIsText(c)
  BY <1>2 DEF SingleInv
<1>4. EntriesStored(c)' /\ AnswerIsText(c)'
  <2>1. ASSUME NEW S \in SUBSET (Value \X world.types), TextStart(c, S)
        PROVE  EntriesStored(c)' /\ AnswerIsText(c)'
    <3>1. /\ call'[c].entries = Nothing /\ call[c].left > 0
          /\ call'[c].left = call[c].left - 1 /\ call'[c].answer = call[c].answer
          /\ call'[c].pc = "spans"
      BY <2>1, TextStartStep
    <3>2. call[c].left = 1 /\ call[c].answer = {}
      BY <1>3, <3>1 DEF AnswerIsText
    <3> QED BY <3>1, <3>2 DEF EntriesStored, AnswerIsText, Nothing
  <2>2. ASSUME NEW s \in call[c].todo, SpanAgain(c, s)
        PROVE  EntriesStored(c)' /\ AnswerIsText(c)'
    BY <1>1, <1>3, <2>2, SpanAgainStep
       DEF EntriesStored, AnswerIsText, SameRequest, SameTokens
  <2>3. ASSUME TextEnd(c) PROVE EntriesStored(c)' /\ AnswerIsText(c)'
    <3>1. /\ SameRequest(c) /\ SameTokens(c)
          /\ call[c].pc = "spans" /\ call'[c].pc = "texts" /\ call'[c].left = call[c].left
          /\ call'[c].answer = call[c].answer \cup EntriesOf(call[c].entries)
      BY <2>3, TextEndStep
    <3>2. call[c].left = 0 /\ call[c].answer = {}
      BY <1>3, <3>1 DEF AnswerIsText
    <3>3. EntriesStored(c)'
      BY <1>1, <1>3, <3>1 DEF EntriesStored, SameRequest, SameTokens
    <3>4. AnswerIsText(c)'
      BY <3>1, <3>2 DEF AnswerIsText, SameTokens, EntriesOf
    <3> QED BY <3>3, <3>4
  <2> QED BY <2>1, <2>2, <2>3
<1> QED BY <1>1, <1>2, <1>4, GoesOnSingle

\* A new value: its name has no other bearer in the text.
LEMMA StoreSingle ==
  ASSUME TypeOK, SingleInv, TokenMeansValue, NEW c \in Call, NEW s \in call[c].todo,
         SpanStore(c, s)
  PROVE  SingleInv' /\ TokenMeansValue'
<1> DEFINE name == NewName(c, s)
           v == s[1]
<1>1. /\ OnlyCall(c) /\ SameRequest(c) /\ s \in Value \X Type /\ Open(c, s) # {}
      /\ call[c].entries[v] = None
      /\ call[c].pc = "spans" /\ call'[c].pc = "spans" /\ call'[c].left = call[c].left
      /\ call'[c].seen = [call[c].seen EXCEPT ![name] = v]
      /\ call'[c].entries = [call[c].entries EXCEPT ![v] = [type |-> s[2], name |-> name]]
      /\ call'[c].answer = call[c].answer
      /\ vault' = [vault EXCEPT ![call[c].req][name] = v]
      /\ UNCHANGED issued
  BY SpanStoreStep
<1>2. /\ call[c].req \in Request /\ call[c].seen \in [Name -> Value \cup {None}]
      /\ call[c].entries \in Known /\ vault \in [Request -> [Name -> Value \cup {None}]]
  BY CallFields DEF TypeOK
<1>3. /\ name \in Name /\ call[c].seen[name] \in {None, v}
  <2>1. name \in Name /\ FirstOf(Open(c, s)) \in Open(c, s)
    BY <1>1, NewNameType
  <2> QED BY <2>1 DEF Open, OpenAttempts, NewName
<1>4. Running(c) /\ EntriesStored(c) /\ AnswerIsText(c) /\ v \in Value
  BY <1>1 DEF Running, SingleInv
<1> HIDE DEF name, v
<1>5. EntriesStored(c)'
  <2> SUFFICES ASSUME NEW w \in Value, call'[c].entries[w] # None
               PROVE  LET m == call'[c].entries[w].name
                      IN call'[c].seen[m] = w /\ vault'[call[c].req][m] \in {w, None}
    BY <1>1 DEF EntriesStored, SameRequest
  <2>1. CASE w = v
    <3>1. call'[c].entries[w].name = name
      BY <1>1, <1>2, <1>4, <2>1 DEF Known
    <3>2. call'[c].seen[name] = v /\ vault'[call[c].req][name] = v
      BY <1>1, <1>2, <1>3
    <3> QED BY <2>1, <3>1, <3>2
  <2>2. CASE w # v
    <3> DEFINE m == call[c].entries[w].name
    <3>1. call'[c].entries[w] = call[c].entries[w]
      BY <1>1, <1>2, <2>2 DEF Known
    <3>2. call[c].seen[m] = w /\ vault[call[c].req][m] \in {w, None} /\ m \in Name
      BY <1>2, <1>4, <3>1 DEF EntriesStored, Known, Token
    <3>3. m # name
      BY <1>3, <2>2, <3>2, NoneAssumption
    <3>4. call'[c].seen[m] = call[c].seen[m] /\ vault'[call[c].req][m] = vault[call[c].req][m]
      BY <1>1, <1>2, <3>2, <3>3
    <3> QED BY <3>1, <3>2, <3>4
  <2> QED BY <2>1, <2>2
<1>6. AnswerIsText(c)'
  BY <1>1, <1>4 DEF AnswerIsText
<1>7. \A r \in Request, n \in Name : r # call[c].req => vault'[r][n] = vault[r][n]
  BY <1>1, <1>2
<1> QED BY <1>1, <1>4, <1>5, <1>6, <1>7, GoesOnSingle

LEMMA EndSingle ==
  ASSUME TypeOK, SingleInv, TokenMeansValue, NEW c \in Call, Respond(c) \/ Fail(c)
  PROVE  SingleInv' /\ TokenMeansValue'
<1>1. OnlyCall(c) /\ call'[c].pc = "idle" /\ ~ Running(c)' /\ UNCHANGED vault /\ Running(c)
  BY CallEndStep DEF Running, Respond, Fail
<1>2. OwnRequest(c) /\ EntriesStored(c) /\ AnswerIsText(c)
  BY <1>1 DEF SingleInv
<1>3. \A i \in issued' : i \in issued \/ i.req = call[c].req
  BY DEF Respond, Fail
<1>4. ASSUME NEW d \in Call \ {c}, Running(d) PROVE CallSingle(d)'
  <2>1. OwnRequest(d)
    BY <1>4 DEF SingleInv
  <2>2. call[d].req # call[c].req
    BY <1>2, <1>4 DEF OwnRequest
  <2>3. \A i \in issued' : i.req # call[d].req
    BY <1>3, <2>1, <2>2 DEF OwnRequest
  <2> QED BY <1>1, <1>4, <2>3, OthersSingle
<1>5. SingleInv'
  BY <1>1, <1>4 DEF SingleInv, CallSingle, Running, OnlyCall
<1>6. CASE Fail(c)
  BY <1>5, <1>6 DEF Fail, TokenMeansValue
<1>7. CASE Respond(c)
  <2> SUFFICES ASSUME NEW i \in issued'
               PROVE  vault[i.req][i.token.name] \in {i.value, None}
    BY <1>1, <1>5 DEF TokenMeansValue
  <2>1. CASE i \in issued
    BY <2>1 DEF TokenMeansValue
  <2>2. CASE i \notin issued
    <3>1. PICK e \in call[c].answer :
             i = [req |-> call[c].req, value |-> e.value, token |-> e.token]
      BY <1>7, <2>2 DEF Respond
    <3>2. e.value \in Value /\ e.token \in Token
      BY CallFields DEF TypeOK, Entry
    <3>3. call[c].entries[e.value] = e.token
      BY <1>2 DEF AnswerIsText
    <3>4. vault[call[c].req][e.token.name] \in {e.value, None}
      BY <1>2, <3>2, <3>3, NoTokenAssumption DEF EntriesStored
    <3> QED BY <3>1, <3>4
  <2> QED BY <2>1, <2>2
<1> QED BY <1>6, <1>7

\* What a client holds is worth no more when a token goes away.
LEMMA ExpireMeans ==
  ASSUME TypeOK, TokenMeansValue, NEW r \in Request, NEW n \in Name, Expire(r, n)
  PROVE  /\ TokenMeansValue'
         /\ \A q \in Request, m \in Name : vault'[q][m] \in {vault[q][m], None}
<1>1. \A q \in Request, m \in Name : vault'[q][m] \in {vault[q][m], None}
  BY DEF TypeOK, Expire
<1>2. \A i \in issued : i.req \in Request /\ i.token.name \in Name /\ issued' = issued
  BY DEF TypeOK, Token, Expire
<1>3. TokenMeansValue'
  BY <1>1, <1>2 DEF TokenMeansValue, Expire
<1> QED BY <1>1, <1>3

LEMMA ExpireSingle ==
  ASSUME TypeOK, SingleInv, TokenMeansValue, NEW r \in Request, NEW n \in Name, Expire(r, n)
  PROVE  SingleInv' /\ TokenMeansValue'
<1>1. TokenMeansValue' /\ \A q \in Request, m \in Name : vault'[q][m] \in {vault[q][m], None}
  BY ExpireMeans
<1>2. UNCHANGED <<call, issued>>
  BY DEF Expire
<1>3. ASSUME NEW c \in Call, Running(c) PROVE CallSingle(c)'
  <2>1. /\ OwnRequest(c) /\ EntriesStored(c) /\ AnswerIsText(c)
        /\ call[c].req \in Request /\ call[c].entries \in Known
    BY <1>3, CallFields DEF SingleInv, TypeOK
  <2>2. EntriesStored(c)'
    <3> SUFFICES ASSUME NEW v \in Value, call[c].entries[v] # None
                 PROVE  /\ call[c].seen[call[c].entries[v].name] = v
                        /\ vault'[call[c].req][call[c].entries[v].name] \in {v, None}
      BY <1>2 DEF EntriesStored
    <3>1. call[c].entries[v].name \in Name
      BY <2>1 DEF Known, Token
    <3> QED BY <1>1, <2>1, <3>1 DEF EntriesStored
  <2> QED BY <1>2, <2>1, <2>2 DEF CallSingle, OwnRequest, AnswerIsText, Running
<1> QED BY <1>1, <1>2, <1>3 DEF SingleInv, CallSingle, Running

LEMMA SingleStep ==
  ASSUME TypeOK, SingleText(world), SingleInv, TokenMeansValue, [Next]_vars
  PROVE  SingleInv' /\ TokenMeansValue'
<1>1. ASSUME UNCHANGED <<vault, call, issued>> PROVE SingleInv' /\ TokenMeansValue'
  BY <1>1 DEF SingleInv, TokenMeansValue, OwnRequest, EntriesStored, AnswerIsText, Running
<1>2. CASE UNCHANGED vars
  BY <1>1, <1>2 DEF vars
<1>3. ASSUME NEW d \in Dek, Rotate(d) PROVE SingleInv' /\ TokenMeansValue'
  BY <1>1, <1>3 DEF Rotate
<1> QED BY <1>2, <1>3, BeginSingle, TextSingle, StoreSingle, EndSingle, ExpireSingle DEF Next

-----------------------------------------------------------------------------
LEMMA NamePair ==
  ASSUME NEW n \in Name
  PROVE  n = <<n[1], n[2]>> /\ n[1] \in Hash /\ n[2] \in 1..MaxAttempts
BY DEF Name

LEMMA PairParts ==
  ASSUME NEW n, NEW a, NEW b, n = <<a, b>> PROVE n[1] = a /\ n[2] = b
OBVIOUS

\* Conversations.  A value that gets the first name that no other value has
\* keeps the name it has; two values keep two.
LEMMA NewFits ==
  ASSUME NEW base \in [Dek \X Value -> Hash], NEW d \in Dek, NEW k \in Known,
         NEW v \in Value, NEW i \in 1..MaxAttempts, NEW t \in Token,
         t.name = <<base[d, v], i>>,
         Distinct(k), FirstNames(k, base, d),
         \A w \in Value \ {v} : k[w] # None => k[w].name # t.name,
         \A j \in 1..(i - 1) : \E w \in Value \ {v} :
           k[w] # None /\ k[w].name = <<base[d, v], j>>
  PROVE  LET new == [k EXCEPT ![v] = t]
         IN Extends(new, k) /\ Distinct(new) /\ FirstNames(new, base, d)
<1> DEFINE new == [k EXCEPT ![v] = t]
<1>1. new[v] = t /\ \A w \in Value \ {v} : new[w] = k[w]
  BY DEF Known
<1>2. t # None
  BY NoTokenAssumption
<1>3. k[v] # None => k[v].name = t.name
  <2> SUFFICES ASSUME k[v] # None PROVE k[v].name = t.name
    OBVIOUS
  <2>1. k[v].name \in Name
    BY DEF Known, Token
  <2>2. PICK m \in 1..MaxAttempts :
          /\ k[v].name = <<base[d, v], m>>
          /\ \A j \in 1..(m - 1) : \E w \in Value \ {v} :
               k[w] # None /\ k[w].name = <<base[d, v], j>>
    <3>1. /\ k[v].name[1] = base[d, v]
          /\ \A j \in 1..(k[v].name[2] - 1) : \E w \in Value \ {v} :
               k[w] # None /\ k[w].name = <<base[d, v], j>>
      BY DEF FirstNames
    <3>2. k[v].name = <<k[v].name[1], k[v].name[2]>> /\ k[v].name[2] \in 1..MaxAttempts
      BY <2>1, NamePair
    <3> QED BY <3>1, <3>2
  <2>3. ASSUME m < i PROVE FALSE
    <3>1. m \in 1..(i - 1)
      BY ONLY <2>3, BoundAssumption, i \in 1..MaxAttempts, m \in 1..MaxAttempts
    <3>2. PICK w \in Value \ {v} : k[w] # None /\ k[w].name = <<base[d, v], m>>
      BY <3>1
    <3> QED BY <2>2, <3>2 DEF Distinct
  <2>4. ASSUME i < m PROVE FALSE
    <3>1. i \in 1..(m - 1)
      BY ONLY <2>4, BoundAssumption, i \in 1..MaxAttempts, m \in 1..MaxAttempts
    <3>2. PICK w \in Value \ {v} : k[w] # None /\ k[w].name = <<base[d, v], i>>
      BY <2>2, <3>1
    <3> QED BY <3>2
  <2>5. i = m
    BY ONLY <2>3, <2>4, BoundAssumption, i \in 1..MaxAttempts, m \in 1..MaxAttempts
  <2> QED BY <2>2, <2>5
<1> HIDE DEF new
<1>4. Extends(new, k)
  BY <1>1, <1>2, <1>3 DEF Extends
<1>5. Distinct(new)
  BY <1>1, ZenonT(60) DEF Distinct
<1>6. FirstNames(new, base, d)
  <2> SUFFICES ASSUME NEW w \in Value, new[w] # None
               PROVE  /\ new[w].name[1] = base[d, w]
                      /\ \A j \in 1..(new[w].name[2] - 1) : \E x \in Value \ {w} :
                           new[x] # None /\ new[x].name = <<base[d, w], j>>
    BY DEF FirstNames
  <2>1. CASE w = v
    <3>1. new[w].name = <<base[d, w], i>>
      BY <1>1, <2>1
    <3>2. \A j \in 1..(i - 1) : \E x \in Value \ {w} :
            new[x] # None /\ new[x].name = <<base[d, w], j>>
      BY <1>1, <2>1
    <3>3. new[w].name[1] = base[d, w] /\ new[w].name[2] = i
      BY ONLY <3>1, PairParts
    <3> QED BY ONLY <3>2, <3>3
  <2>2. CASE w # v
    <3>1. /\ new[w].name[1] = base[d, w]
          /\ \A j \in 1..(new[w].name[2] - 1) : \E x \in Value \ {w} :
               k[x] # None /\ k[x].name = <<base[d, w], j>>
      BY <1>1, <2>2 DEF FirstNames
    <3> QED BY <3>1, <1>4 DEF Extends
  <2> QED BY <2>1, <2>2
<1> QED BY <1>4, <1>5, <1>6 DEF new

LEMMA NothingFits ==
  ASSUME NEW base, NEW d PROVE Distinct(Nothing) /\ FirstNames(Nothing, base, d)
BY DEF Nothing, Distinct, FirstNames

LEMMA MergeNothing == ASSUME NEW k \in Known PROVE Merge(k, Nothing) = k
BY DEF Merge, Nothing, Known

LEMMA ExtendsItself == ASSUME NEW k \in Known PROVE Extends(k, k)
BY DEF Extends

LEMMA NoEntries == EntriesOf(Nothing) = {}
BY NoTokenAssumption DEF EntriesOf, Nothing, Entry

\* What a running call has to say of itself.
CallConversation(c) ==
  /\ Extends(call[c].existing, known)
  /\ Fit(call[c].existing)
  /\ AnswerKept(c) /\ AnswerStored(c)
  /\ call[c].pc = "spans" => Tracked(c)

\* The call of the conversation goes on: what it says is all there is to show.
LEMMA GoesOnConversation ==
  ASSUME ConversationInv, NEW c \in Call, OnlyCall(c), Running(c),
         UNCHANGED <<world, dek, known, issued>>, CallConversation(c)'
  PROVE  ConversationInv'
<1>1. \A d \in Call : Running(d)' => d = c
  BY DEF ConversationInv, OnlyCall, Running
<1>2. \A i \in issued' : known'[i.value] # None /\ i.token.name = known'[i.value].name
  BY DEF ConversationInv
<1>3. Fit(known)'
  BY DEF ConversationInv, Fit
<1> QED BY <1>1, <1>2, <1>3 DEF ConversationInv, CallConversation

LEMMA BeginConversation ==
  ASSUME TypeOK, OneConversation(world), ConversationInv, NEW c \in Call,
         NEW r \in world.ids, NEW n \in 1..world.texts, NEW carry \in world.carryOver,
         Begin(c, r, n, carry)
  PROVE  ConversationInv'
<1>1. /\ OnlyCall(c) /\ call'[c].pc = "texts" /\ call'[c].existing = known
      /\ call'[c].answer = {} /\ call'[c].entries = Nothing
  <2>1. /\ OnlyCall(c) /\ call'[c].pc = "texts" /\ call'[c].answer = {}
        /\ call'[c].existing = IF carry THEN known ELSE Nothing
        /\ call'[c].entries = Nothing
    BY BeginStep
  <2>2. carry = TRUE
    BY DEF OneConversation
  <2> QED BY <2>1, <2>2
<1>2. UNCHANGED <<world, dek, known, issued>> /\ \A d \in Call : ~ Running(d)
  BY DEF Begin, OneConversation, Running
<1>3. \A d \in Call : Running(d)' => d = c
  BY <1>1, <1>2 DEF Running, OnlyCall
<1>4. Fit(known)' /\ Fit(call[c].existing)'
  BY <1>1, <1>2 DEF ConversationInv, Fit
<1>5. Extends(call[c].existing, known)'
  BY <1>1, <1>2, ExtendsItself DEF TypeOK
<1>6. AnswerKept(c)' /\ AnswerStored(c)' /\ call'[c].pc # "spans"
  BY <1>1, NoEntries DEF AnswerKept, AnswerStored
<1>7. \A i \in issued' : known'[i.value] # None /\ i.token.name = known'[i.value].name
  BY <1>2 DEF ConversationInv
<1> QED BY <1>3, <1>4, <1>5, <1>6, <1>7 DEF ConversationInv

\* The tracker of a text knows the tokens of the texts before it.
LEMMA TextStartConversation ==
  ASSUME TypeOK, TypeOK', ConversationInv, NEW c \in Call, NEW S, TextStart(c, S)
  PROVE  ConversationInv'
<1> DEFINE k == call[c].existing
<1>1. /\ OnlyCall(c) /\ SameRequest(c) /\ call[c].pc = "texts" /\ call'[c].dek = dek
      /\ call'[c].entries = Nothing /\ call'[c].seen \in Seeds(k)
      /\ call'[c].existing = k /\ call'[c].answer = call[c].answer
  BY TextStartStep
<1>2. UNCHANGED <<world, dek, vault, known, issued>> /\ Running(c)
  BY <1>1 DEF TextStart, Running
<1>3. Extends(k, known) /\ Fit(k) /\ AnswerKept(c) /\ AnswerStored(c) /\ k \in Known
  BY <1>2, CallFields DEF ConversationInv, TypeOK
<1>4. Sofar(c)' = k
  BY <1>1, <1>3, MergeNothing DEF Sofar
<1>5. \A n \in Name, v \in Value : call'[c].seen[n] = v <=> k[v] # None /\ k[v].name = n
  <2> SUFFICES ASSUME NEW n \in Name, NEW v \in Value
               PROVE  call'[c].seen[n] = v <=> k[v] # None /\ k[v].name = n
    OBVIOUS
  <2> DEFINE bearers == {w \in Value : k[w] # None /\ k[w].name = n}
  <2>1. IF bearers = {} THEN call'[c].seen[n] = None ELSE call'[c].seen[n] \in bearers
    BY <1>1 DEF Seeds
  <2>2. \A w \in bearers : v \in bearers => w = v
    BY <1>3 DEF Fit, Distinct
  <2> QED BY <2>1, <2>2, NoneAssumption
<1>6. Tracked(c)'
  <2>1. call'[c].dek = dek' /\ Fit(Sofar(c))' /\ Extends(Sofar(c), call[c].existing)'
    BY <1>1, <1>2, <1>3, <1>4, ExtendsItself DEF Fit
  <2> QED BY <1>4, <1>5, <2>1 DEF Tracked
<1>7. CallConversation(c)'
  <2>1. Extends(call[c].existing, known)' /\ Fit(call[c].existing)' /\ AnswerKept(c)'
    BY <1>1, <1>2, <1>3 DEF Fit, AnswerKept
  <2>2. AnswerStored(c)'
    BY <1>1, <1>2, <1>3, NoEntries DEF AnswerStored, SameRequest
  <2> QED BY <1>6, <2>1, <2>2 DEF CallConversation
<1> QED BY <1>1, <1>2, <1>7, GoesOnConversation

LEMMA SpanAgainConversation ==
  ASSUME TypeOK, ConversationInv, NEW c \in Call, NEW s, SpanAgain(c, s)
  PROVE  ConversationInv'
<1>1. /\ OnlyCall(c) /\ SameRequest(c) /\ SameTokens(c) /\ call[c].pc = "spans"
      /\ call'[c].existing = call[c].existing /\ call'[c].answer = call[c].answer
      /\ UNCHANGED <<world, dek, vault, known, issued>> /\ Running(c)
  BY SpanAgainStep DEF SpanAgain, Running
<1>2. /\ Extends(call[c].existing, known) /\ Fit(call[c].existing)
      /\ AnswerKept(c) /\ AnswerStored(c) /\ Tracked(c)
  BY <1>1 DEF ConversationInv
<1>3. Sofar(c)' = Sofar(c)
  BY <1>1 DEF Sofar, SameTokens
<1>4. Tracked(c)'
  BY <1>1, <1>2, <1>3 DEF Tracked, SameTokens, Fit
<1>5. AnswerStored(c)'
  BY <1>1, <1>2 DEF AnswerStored, SameRequest, SameTokens
<1>6. CallConversation(c)'
  BY <1>1, <1>2, <1>4, <1>5 DEF CallConversation, Fit, AnswerKept
<1> QED BY <1>1, <1>6, GoesOnConversation

\* The vault of the conversation's request comes to hold the value under the
\* name that the client has, or will get, for it.
LEMMA StoreConversation ==
  ASSUME TypeOK, TypeOK', ConversationInv, TokenMeansValue, NEW c \in Call,
         NEW s \in call[c].todo, SpanStore(c, s)
  PROVE  ConversationInv' /\ TokenMeansValue'
<1> DEFINE name == NewName(c, s)
           v == s[1]
           k == Sofar(c)
           t == [type |-> s[2], name |-> name]
           i == FirstOf(Open(c, s))
<1>1. /\ OnlyCall(c) /\ SameRequest(c) /\ s \in Value \X Type /\ Open(c, s) # {}
      /\ call[c].pc = "spans" /\ call'[c].pc = "spans" /\ call'[c].dek = dek
      /\ call'[c].seen = [call[c].seen EXCEPT ![name] = v]
      /\ call'[c].entries = [call[c].entries EXCEPT ![v] = t]
      /\ call'[c].existing = call[c].existing /\ call'[c].answer = call[c].answer
      /\ vault' = [vault EXCEPT ![call[c].req][name] = v]
      /\ UNCHANGED <<world, dek, known, issued>>
  BY SpanStoreStep
<1>2. Running(c) /\ v \in Value /\ s[2] \in Type
  BY <1>1 DEF Running
<1>3. /\ Extends(call[c].existing, known) /\ Fit(call[c].existing)
      /\ AnswerKept(c) /\ AnswerStored(c) /\ Tracked(c)
  BY <1>1, <1>2 DEF ConversationInv
<1>4. /\ call[c].req \in Request /\ call[c].seen \in [Name -> Value \cup {None}]
      /\ call[c].entries \in Known /\ call[c].existing \in Known /\ k \in Known
      /\ vault \in [Request -> [Name -> Value \cup {None}]]
      /\ world.base \in [Dek \X Value -> Hash] /\ dek \in Dek
  BY CallFields, WorldFields, MergeKnown DEF TypeOK, Sofar
<1>5. /\ name \in Name /\ name = <<world.base[dek, v], i>> /\ i \in 1..MaxAttempts
      /\ call[c].seen[name] \in {None, v}
      /\ \A j \in 1..MaxAttempts : j < i =>
           call[c].seen[<<world.base[dek, v], j>>] \notin {None, v}
  <2>1. /\ name \in Name /\ i \in Open(c, s) /\ \A j \in Open(c, s) : i <= j
    BY <1>1, NewNameType
  <2>2. call[c].dek = dek
    BY <1>3 DEF Tracked
  <2>3. Open(c, s) = {j \in 1..MaxAttempts :
                        call[c].seen[<<world.base[dek, v], j>>] \in {None, v}}
    BY <2>2 DEF Open, OpenAttempts
  <2>4. name = <<world.base[dek, v], i>>
    BY <2>2 DEF NewName
  <2> HIDE DEF i, name
  <2>5. i \in 1..MaxAttempts /\ call[c].seen[<<world.base[dek, v], i>>] \in {None, v}
    BY ONLY <2>1, <2>3
  <2>6. ASSUME NEW j \in 1..MaxAttempts, j < i
        PROVE  call[c].seen[<<world.base[dek, v], j>>] \notin {None, v}
    <3>1. i \in 1..MaxAttempts
      BY <2>5
    <3>2. ~ (i <= j)
      BY ONLY <2>6, <3>1, BoundAssumption
    <3> QED BY ONLY <2>1, <2>3, <3>2, j \in 1..MaxAttempts
  <2> QED BY <2>1, <2>4, <2>5, <2>6
<1>6. t \in Token /\ t.name = name
  BY <1>2, <1>5 DEF Token
<1> DEFINE base == world.base[dek, v]
<1>7. \A w \in Value \ {v} : k[w] # None => k[w].name # t.name
  <2> SUFFICES ASSUME NEW w \in Value \ {v}, k[w] # None, k[w].name = name PROVE FALSE
    BY <1>6
  <2>1. call[c].seen[name] = w
    BY <1>3, <1>5, ZenonT(60) DEF Tracked
  <2> HIDE DEF name, v, k
  <2> QED BY <1>5, <2>1, NoneAssumption
<1>8. \A j \in 1..(i - 1) : \E w \in Value \ {v} :
        k[w] # None /\ k[w].name = <<base, j>>
  <2> SUFFICES ASSUME NEW j \in 1..(i - 1)
               PROVE  \E w \in Value \ {v} : k[w] # None /\ k[w].name = <<base, j>>
    OBVIOUS
  <2> HIDE DEF i
  <2>1. j \in 1..MaxAttempts /\ j < i
    <3>1. i \in 1..MaxAttempts
      BY <1>5
    <3> QED BY ONLY <3>1, BoundAssumption, j \in 1..(i - 1)
  <2>2. <<base, j>> \in Name
    BY <1>2, <1>4, <2>1 DEF Name
  <2>3. call[c].seen[<<base, j>>] \in Value \ {v}
    BY <1>4, <1>5, <2>1, <2>2
  <2> QED BY <1>3, <2>2, <2>3, ZenonT(60) DEF Tracked
<1> DEFINE new == [k EXCEPT ![v] = t]
<1>9. Extends(new, k) /\ Distinct(new) /\ FirstNames(new, world.base, dek)
  <2>1. Distinct(k) /\ FirstNames(k, world.base, dek)
    BY <1>3 DEF Tracked, Fit
  <2> HIDE DEF i, k, t, name, v
  <2> QED BY <1>2, <1>4, <1>5, <1>6, <1>7, <1>8, <2>1, NewFits
<1>10. Sofar(c)' = new
  <2>1. k = Merge(call[c].existing, call[c].entries)
    BY DEF Sofar
  <2>2. Sofar(c)' = Merge(call[c].existing, call'[c].entries)
    BY <1>1 DEF Sofar
  <2> HIDE DEF k, t, v
  <2> QED BY <1>1, <1>2, <1>4, <1>6, <2>1, <2>2, NoTokenAssumption DEF Merge, Known
<1> HIDE DEF name, v, k, t, i, base, new
<1>11. new[v] = t /\ \A w \in Value \ {v} : new[w] = k[w]
  BY <1>2, <1>4 DEF new, Known
<1>12. \A n \in Name, w \in Value : call'[c].seen[n] = w <=> new[w] # None /\ new[w].name = n
  <2> SUFFICES ASSUME NEW n \in Name, NEW w \in Value
               PROVE  call'[c].seen[n] = w <=> new[w] # None /\ new[w].name = n
    OBVIOUS
  <2>1. call[c].seen[n] = w <=> k[w] # None /\ k[w].name = n
    BY <1>3 DEF Tracked, k
  <2>2. CASE n = name
    <3>1. call'[c].seen[n] = v
      BY <1>1, <1>4, <1>5, <2>2
    <3>2. w # v => ~ (k[w] # None /\ k[w].name = n)
      BY <1>6, <1>7, <2>2
    <3> QED BY <1>2, <1>6, <1>11, <2>2, <3>1, <3>2, NoTokenAssumption
  <2>3. CASE n # name
    <3>1. call'[c].seen[n] = call[c].seen[n]
      BY <1>1, <1>4, <2>3
    <3>2. w = v => ~ (k[w] # None /\ k[w].name = n)
      BY <1>2, <1>6, <1>9, <1>11, <2>3 DEF Extends
    <3> QED BY <1>6, <1>11, <2>1, <2>3, <3>1, <3>2
  <2> QED BY <2>2, <2>3
<1>13. Extends(new, call[c].existing)
  BY <1>3, <1>9 DEF Extends, Tracked, k
<1>14. Tracked(c)'
  BY <1>1, <1>9, <1>10, <1>12, <1>13 DEF Tracked, Fit
<1>15. AnswerStored(c)'
  <2> SUFFICES ASSUME NEW x \in call[c].answer \cup EntriesOf(call'[c].entries)
               PROVE  vault'[call[c].req][x.token.name] \in {x.value, None}
    BY <1>1 DEF AnswerStored, SameRequest
  <2>1. x.value \in Value /\ x.token \in Token /\ x.token.name \in Name
    BY CallFields DEF TypeOK, EntriesOf, Entry, Token
  <2>2. new[x.value] # None /\ new[x.value].name = x.token.name
    <3>1. CASE x \in call[c].answer
      BY <1>3, <1>13, <2>1, <3>1 DEF AnswerKept, Extends
    <3>2. CASE x \in EntriesOf(call'[c].entries)
      <4>1. call'[c].entries[x.value] = x.token
        BY <3>2 DEF EntriesOf
      <4>2. call'[c].entries \in Known
        BY CallFields DEF TypeOK
      <4>3. Sofar(c)'[x.value] = x.token
        BY <2>1, <4>1, NoTokenAssumption DEF Sofar, Merge
      <4> QED BY <1>10, <2>1, <4>3, NoTokenAssumption
    <3> QED BY <3>1, <3>2
  <2>3. CASE x.token.name = name
    <3>1. x.value = v
      BY <1>2, <1>6, <1>9, <1>11, <2>1, <2>2, <2>3, NoTokenAssumption DEF Distinct
    <3>2. vault'[call[c].req][name] = v
      BY <1>1, <1>4, <1>5
    <3> QED BY <2>3, <3>1, <3>2
  <2>4. CASE x.token.name # name
    <3>1. x.value # v
      BY <1>6, <1>11, <2>2, <2>4
    <3>2. x \in call[c].answer \cup EntriesOf(call[c].entries)
      BY <1>1, <1>4, <2>1, <3>1 DEF EntriesOf, Known
    <3>3. vault'[call[c].req][x.token.name] = vault[call[c].req][x.token.name]
      BY <1>1, <1>4, <2>1, <2>4
    <3> QED BY <1>3, <3>2, <3>3 DEF AnswerStored
  <2> QED BY <2>3, <2>4
<1>16. CallConversation(c)'
  BY <1>1, <1>3, <1>14, <1>15 DEF CallConversation, Fit, AnswerKept
<1>17. ConversationInv'
  BY <1>1, <1>2, <1>16, GoesOnConversation
<1>18. TokenMeansValue'
  <2> SUFFICES ASSUME NEW x \in issued
               PROVE  vault'[x.req][x.token.name] \in {x.value, None}
    BY <1>1 DEF TokenMeansValue
  <2>1. x.req \in Request /\ x.value \in Value /\ x.token.name \in Name
    BY DEF TypeOK, Token
  <2>2. vault[x.req][x.token.name] \in {x.value, None}
    BY DEF TokenMeansValue
  <2>3. CASE x.req = call[c].req /\ x.token.name = name
    <3>1. known[x.value] # None /\ known[x.value].name = name
      BY <2>3 DEF ConversationInv
    <3>2. new[x.value] # None /\ new[x.value].name = name
      BY <1>3, <1>13, <2>1, <3>1 DEF Extends
    <3>3. x.value = v
      BY <1>2, <1>6, <1>9, <1>11, <2>1, <3>2, NoTokenAssumption DEF Distinct
    <3>4. vault'[call[c].req][name] = v
      BY <1>1, <1>4, <1>5
    <3> QED BY <2>3, <3>3, <3>4
  <2>4. CASE ~ (x.req = call[c].req /\ x.token.name = name)
    BY <1>1, <1>4, <2>1, <2>2, <2>4
  <2> QED BY <2>3, <2>4
<1> QED BY <1>17, <1>18

LEMMA TextEndConversation ==
  ASSUME TypeOK, TypeOK', ConversationInv, NEW c \in Call, TextEnd(c)
  PROVE  ConversationInv'
<1>1. /\ OnlyCall(c) /\ SameRequest(c) /\ SameTokens(c)
      /\ call[c].pc = "spans" /\ call'[c].pc = "texts"
      /\ call'[c].existing = Sofar(c)
      /\ call'[c].answer = call[c].answer \cup EntriesOf(call[c].entries)
      /\ UNCHANGED <<world, dek, vault, known, issued>> /\ Running(c)
  BY TextEndStep DEF TextEnd, Running
<1>2. /\ Extends(call[c].existing, known) /\ Fit(call[c].existing)
      /\ AnswerKept(c) /\ AnswerStored(c) /\ Tracked(c)
  BY <1>1 DEF ConversationInv
<1>3. known \in Known /\ call[c].entries \in Known /\ call[c].answer \subseteq Entry
  BY CallFields DEF TypeOK
<1>4. Extends(Sofar(c), known) /\ Fit(Sofar(c))
  BY <1>2 DEF Extends, Tracked
<1>5. AnswerKept(c)'
  <2> SUFFICES ASSUME NEW x \in call[c].answer \cup EntriesOf(call[c].entries)
               PROVE  Sofar(c)[x.value] # None /\ x.token.name = Sofar(c)[x.value].name
    BY <1>1 DEF AnswerKept
  <2>1. x.value \in Value /\ x.token \in Token
    BY <1>3 DEF EntriesOf, Entry
  <2>2. CASE x \in call[c].answer
    BY <1>2, <2>1, <2>2 DEF AnswerKept, Tracked, Extends
  <2>3. CASE x \in EntriesOf(call[c].entries)
    <3>1. call[c].entries[x.value] = x.token
      BY <2>3 DEF EntriesOf
    <3> QED BY <2>1, <3>1, NoTokenAssumption DEF Sofar, Merge
  <2> QED BY <2>2, <2>3
<1>6. AnswerStored(c)'
  BY <1>1, <1>2 DEF AnswerStored, SameRequest, SameTokens
<1>7. CallConversation(c)'
  BY <1>1, <1>4, <1>5, <1>6 DEF CallConversation, Fit
<1> QED BY <1>1, <1>7, GoesOnConversation

\* The client takes over the tokens of the call.
LEMMA EndConversation ==
  ASSUME TypeOK, ConversationInv, TokenMeansValue, NEW c \in Call, Respond(c) \/ Fail(c)
  PROVE  ConversationInv' /\ TokenMeansValue'
<1>1. OnlyCall(c) /\ call'[c].pc = "idle" /\ UNCHANGED <<world, dek, vault>> /\ Running(c)
  BY CallEndStep DEF Running, Respond, Fail
<1>2. \A d \in Call : ~ Running(d)'
  BY <1>1 DEF ConversationInv, Running, OnlyCall
<1>3. /\ Extends(call[c].existing, known) /\ Fit(call[c].existing)
      /\ AnswerKept(c) /\ AnswerStored(c)
      /\ known \in Known /\ call[c].existing \in Known
      /\ call[c].req \in Request /\ call[c].answer \subseteq Entry
  BY <1>1, CallFields DEF ConversationInv, TypeOK
<1>4. CASE Fail(c)
  <2>1. UNCHANGED <<known, issued>>
    BY <1>4 DEF Fail
  <2> QED BY <1>1, <1>2, <2>1 DEF ConversationInv, TokenMeansValue, Fit
<1>5. CASE Respond(c)
  <2>1. known' = call[c].existing
    <3>1. known' = Merge(known, call[c].existing)
      BY <1>5 DEF Respond
    <3>2. \A v \in Value : call[c].existing[v] = None => known[v] = None
      BY <1>3 DEF Extends
    <3> QED BY <1>3, <3>1, <3>2 DEF Merge, Known
  <2>2. ASSUME NEW i \in issued'
        PROVE  /\ known'[i.value] # None /\ i.token.name = known'[i.value].name
               /\ vault[i.req][i.token.name] \in {i.value, None}
    <3>1. CASE i \in issued
      <4>1. i.value \in Value
        BY <3>1 DEF TypeOK
      <4> QED BY <1>3, <2>1, <3>1, <4>1 DEF ConversationInv, TokenMeansValue, Extends
    <3>2. CASE i \notin issued
      <4>1. PICK e \in call[c].answer :
               i = [req |-> call[c].req, value |-> e.value, token |-> e.token]
        BY <1>5, <3>2 DEF Respond
      <4>2. i.req = call[c].req /\ i.value = e.value /\ i.token = e.token
        BY <4>1
      <4> QED BY <1>3, <2>1, <4>2 DEF AnswerKept, AnswerStored
    <3> QED BY <3>1, <3>2
  <2>3. Fit(known)'
    BY <1>1, <1>3, <2>1 DEF Fit
  <2> QED BY <1>1, <1>2, <2>2, <2>3 DEF ConversationInv, TokenMeansValue
<1> QED BY <1>4, <1>5

LEMMA ExpireConversation ==
  ASSUME TypeOK, ConversationInv, TokenMeansValue, NEW r \in Request, NEW n \in Name,
         Expire(r, n)
  PROVE  ConversationInv' /\ TokenMeansValue'
<1>1. TokenMeansValue' /\ \A q \in Request, m \in Name : vault'[q][m] \in {vault[q][m], None}
  BY ExpireMeans
<1>2. UNCHANGED <<world, dek, call, known, issued>>
  BY DEF Expire
<1>3. ASSUME NEW c \in Call, Running(c) PROVE CallConversation(c)'
  <2>1. /\ CallConversation(c) /\ call[c].req \in Request
        /\ call[c].answer \subseteq Entry
    BY <1>3, CallFields DEF ConversationInv, CallConversation, TypeOK
  <2>2. AnswerStored(c)'
    <3> SUFFICES ASSUME NEW x \in call[c].answer \cup EntriesOf(call[c].entries)
                 PROVE  vault'[call[c].req][x.token.name] \in {x.value, None}
      BY <1>2 DEF AnswerStored
    <3>1. x.token.name \in Name
      BY <2>1 DEF EntriesOf, Entry, Token
    <3>2. vault[call[c].req][x.token.name] \in {x.value, None}
      BY <2>1 DEF CallConversation, AnswerStored
    <3> QED BY <1>1, <2>1, <3>1, <3>2
  <2>3. (call[c].pc = "spans" => Tracked(c))'
    BY <1>2, <2>1 DEF CallConversation, Tracked, Fit, Sofar
  <2> QED BY <1>2, <2>1, <2>2, <2>3 DEF CallConversation, Fit, AnswerKept
<1>4. ConversationInv'
  BY <1>2, <1>3 DEF ConversationInv, CallConversation, Fit, Running
<1> QED BY <1>1, <1>4

LEMMA ConversationStep ==
  ASSUME TypeOK, TypeOK', OneConversation(world), ConversationInv, TokenMeansValue,
         [Next]_vars
  PROVE  ConversationInv' /\ TokenMeansValue'
<1>1. ASSUME UNCHANGED <<vault, issued>>, ConversationInv' PROVE TokenMeansValue'
  BY <1>1 DEF TokenMeansValue
<1>2. CASE UNCHANGED vars
  BY <1>2 DEF vars, ConversationInv, TokenMeansValue, Fit, Running, AnswerKept,
              AnswerStored, Tracked, Sofar
<1>3. ASSUME NEW d \in Dek, Rotate(d) PROVE FALSE
  BY <1>3 DEF Rotate, OneConversation
<1>4. ASSUME NEW c \in Call, NEW r \in world.ids, NEW n \in 1..world.texts,
             NEW carry \in world.carryOver, Begin(c, r, n, carry)
      PROVE  ConversationInv' /\ TokenMeansValue'
  BY <1>1, <1>4, BeginConversation DEF Begin
<1>5. ASSUME NEW c \in Call, NEW S, TextStart(c, S)
      PROVE  ConversationInv' /\ TokenMeansValue'
  BY <1>1, <1>5, TextStartConversation DEF TextStart
<1>6. ASSUME NEW c \in Call, NEW s, SpanAgain(c, s)
      PROVE  ConversationInv' /\ TokenMeansValue'
  BY <1>1, <1>6, SpanAgainConversation DEF SpanAgain
<1>7. ASSUME NEW c \in Call, TextEnd(c) PROVE ConversationInv' /\ TokenMeansValue'
  BY <1>1, <1>7, TextEndConversation DEF TextEnd
<1> QED BY <1>2, <1>3, <1>4, <1>5, <1>6, <1>7, StoreConversation, EndConversation,
           ExpireConversation DEF Next

-----------------------------------------------------------------------------
\* A call that does not run has no answer.
IdleAnswers == \A c \in Call : Running(c) \/ call[c].answer = {}

LEMMA IdleStep ==
  ASSUME TypeOK, IdleAnswers, [Next]_vars PROVE IdleAnswers'
<1>1. ASSUME UNCHANGED call PROVE IdleAnswers'
  BY <1>1 DEF IdleAnswers, Running
<1>2. ASSUME NEW c \in Call, OnlyCall(c), call'[c].pc # "idle" \/ call'[c].answer = {}
      PROVE  IdleAnswers'
  BY <1>2 DEF IdleAnswers, Running, OnlyCall
<1>3. ASSUME NEW c \in Call, NEW r, NEW n, NEW carry, Begin(c, r, n, carry)
      PROVE  IdleAnswers'
  BY <1>2, <1>3, BeginStep
<1>4. ASSUME NEW c \in Call, NEW S, TextStart(c, S) PROVE IdleAnswers'
  BY <1>2, <1>4, TextStartStep
<1>5. ASSUME NEW c \in Call, NEW s \in call[c].todo, SpanAgain(c, s) \/ SpanStore(c, s)
      PROVE  IdleAnswers'
  BY <1>2, <1>5, SpanAgainStep, SpanStoreStep
<1>6. ASSUME NEW c \in Call, TextEnd(c) PROVE IdleAnswers'
  BY <1>2, <1>6, TextEndStep
<1>7. ASSUME NEW c \in Call, Respond(c) \/ Fail(c) PROVE IdleAnswers'
  BY <1>2, <1>7, CallEndStep
<1>8. CASE UNCHANGED vars
  BY <1>1, <1>8 DEF vars
<1>9. ASSUME NEW d \in Dek, Rotate(d) PROVE IdleAnswers'
  BY <1>1, <1>9 DEF Rotate
<1>10. ASSUME NEW r \in Request, NEW n \in Name, Expire(r, n) PROVE IdleAnswers'
  BY <1>1, <1>10 DEF Expire
<1> QED BY <1>3, <1>4, <1>5, <1>6, <1>7, <1>8, <1>9, <1>10 DEF Next

LEMMA NamingInvInit == Init => IdleAnswers /\ NamingInv
<1> SUFFICES ASSUME Init PROVE IdleAnswers /\ NamingInv
  OBVIOUS
<1>1. \A c \in Call : ~ Running(c) /\ call[c].answer = {}
  BY DEF Init, Running, IdleCall
<1>2. SingleInv
  BY <1>1 DEF SingleInv
<1>3. ConversationInv
  <2>1. Fit(known)
    BY NothingFits DEF Init, Fit
  <2> QED BY <1>1, <2>1 DEF Init, ConversationInv
<1> QED BY <1>1, <1>2, <1>3 DEF Init, IdleAnswers, NamingInv, TokenMeansValue

LEMMA WorldStays == ASSUME [Next]_vars PROVE UNCHANGED world
<1>1. ASSUME NEW c \in Call, NEW r, NEW n, NEW carry, Begin(c, r, n, carry)
      PROVE  UNCHANGED world
  BY <1>1 DEF Begin
<1>2. ASSUME NEW c \in Call, NEW S, TextStart(c, S) PROVE UNCHANGED world
  BY <1>2 DEF TextStart
<1>3. ASSUME NEW c \in Call, NEW s, SpanAgain(c, s) \/ SpanStore(c, s) PROVE UNCHANGED world
  BY <1>3 DEF SpanAgain, SpanStore
<1>4. ASSUME NEW c \in Call, TextEnd(c) \/ Respond(c) \/ Fail(c) PROVE UNCHANGED world
  BY <1>4 DEF TextEnd, Respond, Fail
<1>5. ASSUME NEW d, Rotate(d) PROVE UNCHANGED world
  BY <1>5 DEF Rotate
<1>6. ASSUME NEW r, NEW n, Expire(r, n) PROVE UNCHANGED world
  BY <1>6 DEF Expire
<1>7. CASE UNCHANGED vars
  BY <1>7 DEF vars
<1> QED BY <1>1, <1>2, <1>3, <1>4, <1>5, <1>6, <1>7 DEF Next

LEMMA NamingInvStep ==
  ASSUME TypeOK, TypeOK', NamingInv, [Next]_vars PROVE NamingInv'
<1>1. UNCHANGED world
  BY WorldStays
<1>2. (SingleText(world)' <=> SingleText(world)) /\ (OneConversation(world)' <=> OneConversation(world))
  BY <1>1 DEF SingleText, OneConversation
<1>3. CASE SingleText(world) /\ OneConversation(world)
  BY <1>3, SingleStep, ConversationStep DEF NamingInv
<1>4. CASE SingleText(world) /\ ~ OneConversation(world)
  BY <1>2, <1>4, SingleStep DEF NamingInv
<1>5. CASE ~ SingleText(world) /\ OneConversation(world)
  BY <1>2, <1>5, ConversationStep DEF NamingInv
<1>6. CASE ~ SingleText(world) /\ ~ OneConversation(world)
  BY <1>2, <1>6 DEF NamingInv
<1> QED BY <1>3, <1>4, <1>5, <1>6

LEMMA NamingInvariants == Spec => [](TypeOK /\ IdleAnswers /\ NamingInv)
<1>1. Init => IdleAnswers /\ NamingInv
  BY NamingInvInit
<1>2. TypeOK /\ TypeOK' /\ IdleAnswers /\ NamingInv /\ [Next]_vars => IdleAnswers' /\ NamingInv'
  BY IdleStep, NamingInvStep
<1>3. Spec => []TypeOK
  BY NamingTypes
<1> QED BY <1>1, <1>2, <1>3, PTL DEF Spec

\* The clients that the three properties are claimed for: single texts under
\* request ids of their own, or a conversation under one DEK.
Careful == \A w \in Worlds : SingleText(w) \/ OneConversation(w)

\* What the tokens of an answer are for such clients.
LEMMA AnswerNames ==
  ASSUME Careful, TypeOK, IdleAnswers, NamingInv, NEW c \in Call,
         NEW x \in call[c].answer, NEW y \in call[c].answer
  PROVE  /\ x.value = y.value => x.token.name = y.token.name
         /\ x.token.name = y.token.name => x.value = y.value
<1>1. Running(c) /\ world \in Worlds
  BY DEF IdleAnswers, TypeOK
<1>2. /\ x.value \in Value /\ x.token \in Token
      /\ y.value \in Value /\ y.token \in Token
  BY CallFields DEF TypeOK, Entry
<1>3. CASE SingleText(world)
  <2>1. EntriesStored(c) /\ AnswerIsText(c)
    BY <1>1, <1>3 DEF NamingInv, SingleInv
  <2>2. call[c].entries[x.value] = x.token /\ call[c].entries[y.value] = y.token
    BY <2>1 DEF AnswerIsText
  <2>3. call[c].seen[x.token.name] = x.value /\ call[c].seen[y.token.name] = y.value
    BY <1>2, <2>1, <2>2, NoTokenAssumption DEF EntriesStored
  <2> QED BY <2>2, <2>3
<1>4. CASE OneConversation(world)
  <2>1. Fit(call[c].existing) /\ AnswerKept(c)
    BY <1>1, <1>4 DEF NamingInv, ConversationInv
  <2> QED BY <1>2, <2>1 DEF AnswerKept, Fit, Distinct
<1> QED BY <1>1, <1>3, <1>4 DEF Careful

\* A token that such a client holds stands for the value it was made for, or,
\* expired or flushed, for nothing: whatever the hashes, collisions included,
\* and however the calls interleave, fail and reuse the names of expired tokens.
THEOREM NamingTokenMeansValue ==
  ASSUME Careful PROVE Spec => []TokenMeansValue
<1>1. TypeOK /\ NamingInv => TokenMeansValue
  BY DEF Careful, TypeOK, NamingInv
<1> QED BY <1>1, NamingInvariants, PTL

\* Within a call of such a client a value has one name.
THEOREM NamingOneNamePerValue ==
  ASSUME Careful PROVE Spec => []OneNamePerValue
<1>1. TypeOK /\ IdleAnswers /\ NamingInv => OneNamePerValue
  BY AnswerNames DEF OneNamePerValue
<1> QED BY <1>1, NamingInvariants, PTL

\* Within a call of such a client two values have two names.
THEOREM NamingNamesApart ==
  ASSUME Careful PROVE Spec => []NamesApart
<1>1. TypeOK /\ IdleAnswers /\ NamingInv => NamesApart
  BY AnswerNames DEF NamesApart
<1> QED BY <1>1, NamingInvariants, PTL
=============================================================================

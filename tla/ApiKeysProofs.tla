--------------------------- MODULE ApiKeysProofs ---------------------------
(***************************************************************************)
(* Type correctness of ApiKeys and that revocation is final, for every     *)
(* number of keys, administrators and clients, with and without an         *)
(* authority, whatever fails; the limit on keys and the absence of ghost   *)
(* keys, under the failures they survive.                                  *)
(***************************************************************************)
EXTENDS ApiKeys, FiniteSetTheorems, TLAPS

USE NoKeyAssumption, PlanAssumption, OpsAssumption, FlagAssumption

Pcs == {"idle", "members", "gets", "setPlan", "getPlan", "eval", "register",
        "undoMeta", "undoIndex", "cache", "revoke", "forget"}

\* A new key is nobody's yet.
LEMMA NewKeyFacts ==
  ASSUME Unused # {}
  PROVE  NewKey \in Key /\ NewKey \notin made
  BY DEF NewKey, Unused

LEMMA IdleFacts == IdleAdmin \in AdminState /\ IdleClient \in ClientState
  BY DEF IdleAdmin, IdleClient, AdminState, ClientState

LEMMA InitInv == Init => KeysInv
  <1> SUFFICES ASSUME Init PROVE KeysInv OBVIOUS
  <1>1. TypeOK
    BY IdleFacts DEF Init, TypeOK, Status
  <1>2. \A a \in Admin : ~Making(a)
    BY DEF Init, IdleAdmin, Making
  <1>3. \A c \in Client : cli[c].pc = "idle" /\ cli[c].reply = "none"
    BY DEF Init, IdleClient
  <1>4. MakersApart /\ LateBarred /\ ColdStandalone /\ RevocationIsFinal
    BY <1>2, <1>3 DEF MakersApart, LateBarred, ColdStandalone, RevocationIsFinal, Init
  <1> QED BY <1>1, <1>4 DEF KeysInv

-----------------------------------------------------------------------------
(***************************************************************************)
(* The record of an admin request after the three kinds of change.         *)
(***************************************************************************)
LEMMA AdminUpdate ==
  ASSUME TypeOK, NEW a \in Admin, NEW s \in AdminState, adm' = [adm EXCEPT ![a] = s]
  PROVE  /\ adm' \in [Admin -> AdminState]
         /\ adm'[a] = s
         /\ \A b \in Admin : b # a => adm'[b] = adm[b]
  BY DEF TypeOK

LEMMA GotoFacts ==
  ASSUME TypeOK, NEW a \in Admin, NEW pc \in Pcs, Goto(a, pc)
  PROVE  /\ adm' \in [Admin -> AdminState]
         /\ adm'[a].pc = pc
         /\ adm'[a].key = adm[a].key /\ adm'[a].fallback = adm[a].fallback
         /\ \A b \in Admin : b # a => adm'[b] = adm[b]
  <1> DEFINE s == [adm[a] EXCEPT !.pc = pc]
  <1>1. adm[a] \in AdminState
    BY DEF TypeOK
  <1>2. /\ s \in AdminState
        /\ s.pc = pc /\ s.key = adm[a].key /\ s.fallback = adm[a].fallback
    BY <1>1 DEF AdminState, Pcs
  <1>3. adm' = [adm EXCEPT ![a] = s]
    BY DEF Goto
  <1> QED BY <1>2, <1>3, AdminUpdate

LEMMA ReplyFacts ==
  ASSUME TypeOK, NEW a \in Admin,
         NEW r \in {"none", "done", "created", "existing", "limit", "failed"}, Reply(a, r)
  PROVE  /\ adm' \in [Admin -> AdminState]
         /\ adm'[a].pc = "idle"
         /\ \A b \in Admin : b # a => adm'[b] = adm[b]
  <1> DEFINE s == [IdleAdmin EXCEPT !.op = adm[a].op, !.key = adm[a].key, !.reply = r]
  <1>1. adm[a] \in AdminState
    BY DEF TypeOK
  <1>2. s \in AdminState /\ s.pc = "idle"
    <2>1. IdleAdmin \in AdminState
      BY IdleFacts
    <2>2. IdleAdmin.pc = "idle"
      BY DEF IdleAdmin
    <2> QED BY ONLY <1>1, <2>1, <2>2, r \in {"none", "done", "created", "existing", "limit", "failed"}
            DEF AdminState
  <1>3. adm' = [adm EXCEPT ![a] = s]
    BY DEF Reply
  <1> QED BY <1>2, <1>3, AdminUpdate

-----------------------------------------------------------------------------
(***************************************************************************)
(* What a step of an admin request may do to the rest.                     *)
(***************************************************************************)
AdminFrame(a) ==
  /\ UNCHANGED <<cli, warm, authority>>
  /\ \A b \in Admin : b # a => adm'[b] = adm[b]
  /\ made \subseteq made'
  /\ told \subseteq told'
  /\ \A k \in told' : k \in told \/ (Making(a) /\ k = adm[a].key /\ ~Making(a)')
  /\ \A k \in Usable' : k \in Usable \/ (Making(a) /\ k = adm[a].key)
  /\ Making(a)' => \/ Making(a) /\ adm'[a].key = adm[a].key
                   \/ adm'[a].key \in made' \ made

LEMMA FrameKeepsInv ==
  ASSUME KeysInv, TypeOK', NEW a \in Admin, AdminFrame(a)
  PROVE  KeysInv'
  <1>1. \A b \in Admin : b # a => (Making(b)' <=> Making(b)) /\ adm'[b] = adm[b]
    BY DEF AdminFrame, Making
  <1>2. \A b \in Admin : Making(b) => adm[b].key \in made \ told
    BY DEF KeysInv, MakersApart
  <1>3. told \subseteq made
    BY DEF KeysInv, TypeOK
  <1>4. \A b \in Admin : Making(b)' => adm'[b].key \in made' \ told'
    <2> SUFFICES ASSUME NEW b \in Admin, Making(b)' PROVE adm'[b].key \in made' \ told'
      OBVIOUS
    <2>1. CASE b # a
      <3>1. Making(b) /\ adm'[b].key = adm[b].key
        BY <1>1, <2>1
      <3>2. Making(a) => adm[a].key # adm[b].key
        BY <2>1, <3>1 DEF KeysInv, MakersApart
      <3> QED BY <1>2, <3>1, <3>2 DEF AdminFrame
    <2>2. CASE b = a
      BY <1>2, <1>3, <2>2 DEF AdminFrame
    <2> QED BY <2>1, <2>2
  <1>5. ASSUME NEW b \in Admin, NEW d \in Admin, b # d, Making(b)', Making(d)'
        PROVE  adm'[b].key # adm'[d].key
    <2>1. CASE b # a /\ d # a
      BY <1>1, <1>5, <2>1 DEF KeysInv, MakersApart
    <2>2. CASE b = a
      BY <1>1, <1>2, <1>5, <2>2 DEF KeysInv, MakersApart, AdminFrame
    <2>3. CASE d = a
      BY <1>1, <1>2, <1>5, <2>3 DEF KeysInv, MakersApart, AdminFrame
    <2> QED BY <2>1, <2>2, <2>3
  <1>6. MakersApart'
    BY <1>4, <1>5 DEF MakersApart
  <1>7. LateBarred'
    <2> SUFFICES ASSUME NEW c \in Client, cli[c].pc = "ask"
                 PROVE  /\ cli[c].key \in told'
                        /\ cli[c].late => cli[c].key \notin Usable'
      BY DEF LateBarred, AdminFrame
    <2>1. cli[c].key \in told /\ (cli[c].late => cli[c].key \notin Usable)
      BY DEF KeysInv, LateBarred
    <2> QED BY <1>2, <2>1 DEF AdminFrame
  <1>8. ColdStandalone' /\ RevocationIsFinal'
    BY DEF KeysInv, AdminFrame, ColdStandalone, RevocationIsFinal
  <1> QED BY <1>6, <1>7, <1>8 DEF KeysInv

\* A step that leaves keys and their copies alone, and does not start to make
\* a key, is within the frame.
LEMMA QuietFrame ==
  ASSUME UNCHANGED <<row, meta, made, told, cli, warm, authority>>, NEW a \in Admin,
         \A b \in Admin : b # a => adm'[b] = adm[b],
         Making(a)' => Making(a) /\ adm'[a].key = adm[a].key
  PROVE  AdminFrame(a)
  BY DEF AdminFrame, Usable

-----------------------------------------------------------------------------
(***************************************************************************)
(* The actions of an admin request.                                        *)
(***************************************************************************)
\* Starting, listing and deciding.
LEMMA ListingSteps ==
  ASSUME TypeOK, NEW a \in Admin,
         \/ CreateStart(a)
         \/ \E op \in {"provision", "plan"}, p \in Plan : ListStart(a, op, p)
         \/ \E k \in Key : RevokeStart(a, k)
         \/ ListMembers(a)
         \/ \E k \in Key : ListGet(a, k)
         \/ ProvisionDecide(a)
         \/ PlanDecide(a)
         \/ SetPlan(a)
         \/ AdminCrash(a)
  PROVE  TypeOK' /\ AdminFrame(a)
  <1>0. adm[a] \in AdminState /\ IdleAdmin \in AdminState
    BY IdleFacts DEF TypeOK
  <1>1. CASE CreateStart(a)
    <2> DEFINE s == [IdleAdmin EXCEPT !.pc = "getPlan"]
    <2>1. s \in AdminState /\ s.pc = "getPlan"
      BY <1>0 DEF AdminState, IdleAdmin
    <2>2. /\ adm' \in [Admin -> AdminState] /\ adm'[a] = s
          /\ \A b \in Admin : b # a => adm'[b] = adm[b]
      BY <1>1, <2>1, AdminUpdate DEF CreateStart
    <2>3. ~Making(a)'
      BY <2>1, <2>2 DEF Making
    <2> QED BY <1>1, <2>2, <2>3, QuietFrame DEF CreateStart, Elsewhere, Starts, TypeOK
  <1>2. ASSUME NEW op \in {"provision", "plan"}, NEW p \in Plan, ListStart(a, op, p)
        PROVE  TypeOK' /\ AdminFrame(a)
    <2> DEFINE s == [IdleAdmin EXCEPT !.pc = "members", !.op = op, !.target = p]
    <2>1. s \in AdminState /\ ~s.fallback /\ s.pc = "members"
      <3>0. op \in {"create", "provision", "revoke", "plan"}
        OBVIOUS
      <3>1. s \in AdminState /\ s.pc = "members"
        <4>1. ASSUME NEW i \in AdminState, NEW q \in {"create", "provision", "revoke", "plan"}
              PROVE  /\ [i EXCEPT !.pc = "members", !.op = q, !.target = p] \in AdminState
                     /\ [i EXCEPT !.pc = "members", !.op = q, !.target = p].pc = "members"
          BY ONLY <4>1, p \in Plan DEF AdminState
        <4> QED BY ONLY <1>0, <3>0, <4>1
      <3>2. s.fallback = FALSE
        BY ONLY DEF IdleAdmin
      <3> QED BY ONLY <3>1, <3>2
    <2>2. /\ adm' \in [Admin -> AdminState] /\ adm'[a] = s
          /\ \A b \in Admin : b # a => adm'[b] = adm[b]
      BY <1>2, <2>1, AdminUpdate DEF ListStart
    <2>3. ~Making(a)'
      BY <2>1, <2>2 DEF Making
    <2> QED BY <1>2, <2>2, <2>3, QuietFrame DEF ListStart, Elsewhere, Starts, TypeOK
  <1>3. ASSUME NEW k \in Key, RevokeStart(a, k)
        PROVE  TypeOK' /\ AdminFrame(a)
    <2> DEFINE s == [IdleAdmin EXCEPT !.pc = "revoke", !.op = "revoke", !.key = k]
    <2>1. s \in AdminState /\ s.pc = "revoke"
      BY ONLY <1>0, k \in Key DEF AdminState
    <2>2. /\ adm' \in [Admin -> AdminState] /\ adm'[a] = s
          /\ \A b \in Admin : b # a => adm'[b] = adm[b]
      BY <1>3, <2>1, AdminUpdate DEF RevokeStart
    <2>3. ~Making(a)'
      BY <2>1, <2>2 DEF Making
    <2> QED BY <1>3, <2>2, <2>3, QuietFrame DEF RevokeStart, Elsewhere, Starts, TypeOK
  <1>4. CASE ListMembers(a)
    <2> DEFINE s == [adm[a] EXCEPT !.pc = "gets", !.todo = index, !.found = {}]
    <2>1. /\ s \in AdminState
          /\ s.pc = "gets" /\ s.fallback = adm[a].fallback /\ s.key = adm[a].key
      BY <1>0 DEF AdminState, TypeOK
    <2>2. adm' = [adm EXCEPT ![a] = s]
      BY <1>4 DEF ListMembers
    <2>3. /\ adm' \in [Admin -> AdminState] /\ adm'[a] = s
          /\ \A b \in Admin : b # a => adm'[b] = adm[b]
      BY <2>1, <2>2, AdminUpdate
    <2>4. Making(a)' => Making(a) /\ adm'[a].key = adm[a].key
      BY <1>4, <2>1, <2>3 DEF Making, ListMembers
    <2> QED BY <1>4, <2>3, <2>4, QuietFrame DEF ListMembers, Quiet, Elsewhere, history, TypeOK
  <1>5. ASSUME NEW k \in Key, ListGet(a, k)
        PROVE  TypeOK' /\ AdminFrame(a)
    <2> DEFINE f == IF meta[k] = "active" THEN adm[a].found \cup {k} ELSE adm[a].found
               s == [adm[a] EXCEPT !.todo = adm[a].todo \ {k}, !.found = f]
    <2>0. f \in SUBSET Key /\ adm[a].todo \ {k} \in SUBSET Key
      BY <1>0 DEF AdminState
    <2> HIDE DEF f
    <2>1. s \in AdminState
      BY <1>0, <2>0 DEF AdminState
    <2>5. s.pc = adm[a].pc /\ s.fallback = adm[a].fallback /\ s.key = adm[a].key
      BY <1>0 DEF AdminState
    <2>2. adm' = [adm EXCEPT ![a] = s]
      BY <1>5 DEF ListGet, f
    <2>3. /\ adm' \in [Admin -> AdminState] /\ adm'[a] = s
          /\ \A b \in Admin : b # a => adm'[b] = adm[b]
      BY <2>1, <2>2, AdminUpdate
    <2>4. Making(a)' => Making(a) /\ adm'[a].key = adm[a].key
      BY <2>5, <2>3 DEF Making
    <2> QED BY <1>5, <2>3, <2>4, QuietFrame DEF ListGet, Quiet, Elsewhere, history, TypeOK
  <1>6. CASE ProvisionDecide(a)
    <2>1. CASE \E k \in adm[a].found :
                 adm' = [adm EXCEPT ![a] = [IdleAdmin EXCEPT !.op = "provision",
                                              !.key = k, !.reply = "existing"]]
      <3>1. PICK k \in adm[a].found :
                 adm' = [adm EXCEPT ![a] = [IdleAdmin EXCEPT !.op = "provision",
                                              !.key = k, !.reply = "existing"]]
        BY <2>1
      <3>2. k \in Key
        BY <1>0 DEF AdminState
      <3> DEFINE s == [IdleAdmin EXCEPT !.op = "provision", !.key = k, !.reply = "existing"]
      <3>3. s \in AdminState /\ s.pc = "idle"
        <4>1. IdleAdmin.pc = "idle"
          BY DEF IdleAdmin
        <4> QED BY ONLY <1>0, <3>2, <4>1 DEF AdminState
      <3>4. /\ adm' \in [Admin -> AdminState] /\ adm'[a] = s
            /\ \A b \in Admin : b # a => adm'[b] = adm[b]
        BY <3>1, <3>3, AdminUpdate
      <3>5. ~Making(a)'
        BY <3>3, <3>4 DEF Making
      <3> QED BY <1>6, <3>4, <3>5, QuietFrame DEF ProvisionDecide, Quiet, Elsewhere, history, TypeOK
    <2>2. CASE Goto(a, "setPlan")
      <3>1. "setPlan" \in Pcs
        BY DEF Pcs
      <3>2. /\ adm' \in [Admin -> AdminState]
            /\ adm'[a].pc = "setPlan"
            /\ \A b \in Admin : b # a => adm'[b] = adm[b]
        BY <1>0, <2>2, <3>1, GotoFacts
      <3>3. ~Making(a)'
        BY <3>2 DEF Making
      <3> QED BY <1>6, <3>2, <3>3, QuietFrame DEF ProvisionDecide, Quiet, Elsewhere, history, TypeOK
    <2> QED BY <1>6, <2>1, <2>2 DEF ProvisionDecide
  <1>7. CASE PlanDecide(a) \/ SetPlan(a) \/ AdminCrash(a)
    <2>1. \/ Goto(a, "setPlan") \/ Goto(a, "getPlan")
          \/ Reply(a, "limit") \/ Reply(a, "done") \/ Reply(a, "failed")
      BY <1>7 DEF PlanDecide, SetPlan, AdminCrash
    <2>2. "setPlan" \in Pcs /\ "getPlan" \in Pcs
      BY DEF Pcs
    <2>3. /\ adm' \in [Admin -> AdminState]
          /\ adm'[a].pc \in {"setPlan", "getPlan", "idle"}
          /\ \A b \in Admin : b # a => adm'[b] = adm[b]
      <3>1. CASE Goto(a, "setPlan")
        BY <1>0, <2>2, <3>1, GotoFacts
      <3>2. CASE Goto(a, "getPlan")
        BY <1>0, <2>2, <3>2, GotoFacts
      <3>3. CASE Reply(a, "limit") \/ Reply(a, "done") \/ Reply(a, "failed")
        BY <3>3, ReplyFacts
      <3> QED BY <2>1, <3>1, <3>2, <3>3
    <2>4. ~Making(a)'
      BY <2>3 DEF Making
    <2>5. plan' \in Plan
      BY <1>0, <1>7 DEF PlanDecide, SetPlan, AdminCrash, TypeOK, AdminState
    <2> QED
      BY <1>7, <2>3, <2>4, <2>5, QuietFrame
      DEF PlanDecide, SetPlan, AdminCrash, Quiet, Elsewhere, history, TypeOK
  <1> QED BY <1>1, <1>2, <1>3, <1>4, <1>5, <1>6, <1>7

\* A request either goes on to the next command or ends.
LEMMA GoOrEnd ==
  ASSUME TypeOK, NEW a \in Admin,
         \/ \E pc \in Pcs : Goto(a, pc)
         \/ \E r \in {"limit", "done", "failed"} : Reply(a, r)
         \/ HandOver(a)
  PROVE  /\ adm' \in [Admin -> AdminState]
         /\ \A b \in Admin : b # a => adm'[b] = adm[b]
         /\ \/ adm'[a].pc = "idle"
            \/ adm'[a].key = adm[a].key /\ adm'[a].fallback = adm[a].fallback
  <1>1. CASE \E pc \in Pcs : Goto(a, pc)
    BY <1>1, GotoFacts
  <1>2. CASE \E r \in {"limit", "done", "failed"} : Reply(a, r)
    BY <1>2, ReplyFacts
  <1>3. CASE HandOver(a)
    BY <1>3, ReplyFacts DEF HandOver
  <1> QED BY <1>1, <1>2, <1>3

\* A new key: the only step that starts to make one.
LEMMA GetPlanStep ==
  ASSUME KeysInv, NEW a \in Admin, GetPlan(a)
  PROVE  TypeOK' /\ AdminFrame(a)
  <1>0. TypeOK /\ adm[a] \in AdminState /\ NewKey \in Key /\ NewKey \notin made
    BY NewKeyFacts DEF KeysInv, TypeOK, GetPlan
  <1>1. MaxKeys[plan] \in Nat
    BY <1>0 DEF TypeOK
  <1> DEFINE s == [adm[a] EXCEPT !.pc = "eval", !.limit = MaxKeys[plan], !.key = NewKey]
  <1>2. s \in AdminState /\ s.key = NewKey
    BY <1>0, <1>1 DEF AdminState
  <1>3. adm' = [adm EXCEPT ![a] = s]
    BY DEF GetPlan
  <1>4. /\ adm' \in [Admin -> AdminState] /\ adm'[a] = s
        /\ \A b \in Admin : b # a => adm'[b] = adm[b]
    BY <1>0, <1>2, <1>3, AdminUpdate
  <1>5. TypeOK'
    BY <1>0, <1>4 DEF TypeOK, GetPlan, Quiet, Elsewhere, history
  <1>6. adm'[a].key \in made' \ made
    BY <1>0, <1>2, <1>4 DEF GetPlan
  <1>7. UNCHANGED <<cli, warm, told, Usable, authority>> /\ made \subseteq made'
    BY DEF GetPlan, Quiet, Elsewhere, Usable
  <1> QED BY <1>4, <1>5, <1>6, <1>7 DEF AdminFrame

\* The key that is being made is a key, made and not told.
LEMMA MakerFacts ==
  ASSUME KeysInv, NEW a \in Admin, Making(a)
  PROVE  adm[a].key \in Key /\ adm[a].key \in made /\ adm[a].key \notin told
  BY DEF KeysInv, MakersApart, TypeOK

\* The steps that store, register, cache or undo the new key.
LEMMA MakingSteps ==
  ASSUME KeysInv, NEW a \in Admin,
         \/ StoreIfUnderLimit(a)
         \/ FallbackDecide(a)
         \/ Register(a)
         \/ RegisterFails(a)
         \/ UndoMeta(a)
         \/ UndoIndex(a)
         \/ CacheNew(a)
  PROVE  TypeOK' /\ AdminFrame(a)
  <1>0. TypeOK /\ adm[a] \in AdminState
    BY DEF KeysInv, TypeOK
  <1>1. Making(a)
    BY DEF Making, StoreIfUnderLimit, FallbackDecide, Register, RegisterFails,
           UndoMeta, UndoIndex, CacheNew
  <1>2. adm[a].key \in Key /\ adm[a].key \in made /\ adm[a].key \notin told
    BY <1>1, MakerFacts
  <1>3. /\ \/ \E pc \in Pcs : Goto(a, pc)
           \/ \E r \in {"limit", "done", "failed"} : Reply(a, r)
           \/ HandOver(a)
        /\ UNCHANGED told \/ HandOver(a)
    BY DEF Pcs, StoreIfUnderLimit, FallbackDecide, Register, RegisterFails,
           UndoMeta, UndoIndex, CacheNew, HandOver
  <1>4. /\ adm' \in [Admin -> AdminState]
        /\ \A b \in Admin : b # a => adm'[b] = adm[b]
        /\ \/ adm'[a].pc = "idle"
           \/ adm'[a].key = adm[a].key /\ adm'[a].fallback = adm[a].fallback
    BY <1>0, <1>3, GoOrEnd
  <1>5. HandOver(a) => adm'[a].pc = "idle"
    BY <1>0, ReplyFacts DEF HandOver
  <1>6. Making(a)' => adm'[a].key = adm[a].key /\ UNCHANGED told
    BY <1>3, <1>4, <1>5 DEF Making
  <1>7. \A k \in told' : k \in told \/ (k = adm[a].key /\ ~Making(a)')
    BY <1>3, <1>6 DEF HandOver
  <1>8. told \subseteq told' /\ told' \subseteq made
    BY <1>0, <1>2, <1>3 DEF HandOver, TypeOK
  <1>9. UNCHANGED <<made, plan, cli, warm, authority, alone, recent>>
    BY DEF StoreIfUnderLimit, FallbackDecide, Register, RegisterFails,
           UndoMeta, UndoIndex, CacheNew, Quiet, Elsewhere, history
  <1>10. /\ row' \in [Key -> Status] /\ meta' \in [Key -> Status]
         /\ index' \subseteq Key
    BY <1>0, <1>2
    DEF TypeOK, Status, StoreIfUnderLimit, ScriptEffect, FallbackDecide, Register,
        RegisterFails, UndoMeta, UndoIndex, CacheNew
  <1>11. \A k \in Key : k # adm[a].key => row'[k] = row[k] /\ meta'[k] = meta[k]
    BY <1>0, <1>2
    DEF TypeOK, StoreIfUnderLimit, ScriptEffect, FallbackDecide, Register,
        RegisterFails, UndoMeta, UndoIndex, CacheNew
  <1>12. \A k \in Usable' : k \in Usable \/ k = adm[a].key
    BY <1>9, <1>11 DEF Usable
  <1>13. TypeOK'
    BY <1>0, <1>4, <1>8, <1>9, <1>10 DEF TypeOK
  <1> QED BY <1>1, <1>4, <1>6, <1>7, <1>8, <1>9, <1>12, <1>13 DEF AdminFrame

\* The script that gets no answer.
LEMMA StoreUnansweredStep ==
  ASSUME KeysInv, NEW a \in Admin, StoreUnanswered(a)
  PROVE  TypeOK' /\ AdminFrame(a)
  <1>0. TypeOK /\ adm[a] \in AdminState
    BY DEF KeysInv, TypeOK
  <1>1. Making(a)
    BY DEF Making, StoreUnanswered
  <1>2. adm[a].key \in Key
    BY <1>1, MakerFacts
  <1> DEFINE s == IF adm[a].sent = 1 THEN [adm[a] EXCEPT !.sent = 2]
                  ELSE [adm[a] EXCEPT !.pc = "members", !.fallback = TRUE]
  <1>3. s \in AdminState /\ s.key = adm[a].key
    BY <1>0 DEF AdminState
  <1>4. adm' = [adm EXCEPT ![a] = s]
    BY DEF StoreUnanswered
  <1>5. /\ adm' \in [Admin -> AdminState] /\ adm'[a] = s
        /\ \A b \in Admin : b # a => adm'[b] = adm[b]
    BY <1>0, <1>3, <1>4, AdminUpdate
  <1>6. UNCHANGED <<row, plan, made, told, cli, warm, authority, alone, recent>>
    BY DEF StoreUnanswered, Quiet, Elsewhere, history
  <1>7. meta' \in [Key -> Status] /\ index' \subseteq Key
    BY <1>0, <1>2 DEF TypeOK, Status, StoreUnanswered, ScriptEffect
  <1>8. \A k \in Key : k # adm[a].key => meta'[k] = meta[k]
    BY <1>0, <1>2 DEF TypeOK, StoreUnanswered, ScriptEffect
  <1>9. \A k \in Usable' : k \in Usable \/ k = adm[a].key
    BY <1>6, <1>8 DEF Usable
  <1>10. TypeOK'
    BY <1>0, <1>5, <1>6, <1>7 DEF TypeOK
  <1> QED BY <1>1, <1>3, <1>5, <1>6, <1>9, <1>10 DEF AdminFrame

\* Revocation makes no key usable.
LEMMA RevokeSteps ==
  ASSUME TypeOK, NEW a \in Admin, RevokeRow(a) \/ RevokeGet(a) \/ RevokeForget(a)
  PROVE  TypeOK' /\ AdminFrame(a)
  <1>1. \/ Goto(a, "forget")
        \/ \E r \in {"limit", "done", "failed"} : Reply(a, r)
    BY DEF RevokeRow, RevokeGet, RevokeForget
  <1>2. "forget" \in Pcs
    BY DEF Pcs
  <1>3. /\ adm' \in [Admin -> AdminState]
        /\ \A b \in Admin : b # a => adm'[b] = adm[b]
        /\ adm'[a].pc \in {"forget", "idle"}
    BY <1>1, <1>2, GotoFacts, ReplyFacts
  <1>4. ~Making(a)'
    BY <1>3 DEF Making
  <1>5. UNCHANGED <<index, plan, made, told, cli, warm, authority, alone, recent>>
    BY DEF RevokeRow, RevokeGet, RevokeForget, Quiet, Elsewhere, history
  <1>6. row' \in [Key -> Status] /\ meta' \in [Key -> Status]
    BY DEF TypeOK, Status, RevokeRow, RevokeGet, RevokeForget
  <1>7. \A k \in Usable' : k \in Usable
    BY <1>5 DEF Usable, TypeOK, RevokeRow, RevokeGet, RevokeForget
  <1>8. TypeOK'
    BY <1>3, <1>5, <1>6 DEF TypeOK
  <1> QED BY <1>3, <1>4, <1>5, <1>7, <1>8 DEF AdminFrame

-----------------------------------------------------------------------------
(***************************************************************************)
(* Clients, replicas, the dashboard and Redis.                             *)
(***************************************************************************)
\* A record of a client is replaced.
LEMMA ClientUpdate ==
  ASSUME KeysInv,
         UNCHANGED <<row, index, plan, adm, warm, made, told, authority, history>>,
         meta' \in [Key -> Status], \A k \in Usable' : k \in Usable,
         NEW c \in Client, NEW s \in ClientState, cli' = [cli EXCEPT ![c] = s],
         s.pc = "ask" => s.key \in told /\ (s.late => s.key \notin Usable),
         s.late => s.reply # "granted"
  PROVE  KeysInv'
  <1>1. cli' \in [Client -> ClientState] /\ \A d \in Client : cli'[d] = IF d = c THEN s ELSE cli[d]
    BY DEF KeysInv, TypeOK
  <1>2. TypeOK'
    BY <1>1 DEF KeysInv, TypeOK, history
  <1>3. MakersApart' /\ ColdStandalone'
    BY DEF KeysInv, MakersApart, Making, ColdStandalone
  <1>4. LateBarred' /\ RevocationIsFinal'
    BY <1>1 DEF KeysInv, LateBarred, RevocationIsFinal
  <1> QED BY <1>2, <1>3, <1>4 DEF KeysInv

LEMMA ClientSteps ==
  ASSUME KeysInv, NEW c \in Client,
         \/ \E k \in Key : AuthStart(c, k)
         \/ Validate(c)
         \/ ValidateDrop(c)
  PROVE  KeysInv'
  <1>0. /\ TypeOK /\ cli[c] \in ClientState
        /\ cli[c].pc = "ask" =>
             cli[c].key \in told /\ (cli[c].late => cli[c].key \notin Usable)
        /\ cli[c].late => cli[c].reply # "granted"
    BY DEF KeysInv, TypeOK, LateBarred, RevocationIsFinal
  <1>1. ASSUME NEW k \in Key, AuthStart(c, k)
        PROVE  KeysInv'
    <2> DEFINE s == [pc |-> "ask", key |-> k, reply |-> "none", late |-> Revoked(k)]
    <2>1. Revoked(k) \in BOOLEAN /\ (Revoked(k) => k \notin Usable)
      BY DEF Revoked, Usable
    <2>2. s \in ClientState
      BY <2>1 DEF ClientState
    <2>3. \A d \in Usable' : d \in Usable
      BY <1>1 DEF AuthStart, Usable
    <2>4. cli' = [cli EXCEPT ![c] = s] /\ k \in told
      BY <1>1 DEF AuthStart
    <2> QED BY <1>0, <1>1, <2>1, <2>2, <2>3, <2>4, ClientUpdate DEF AuthStart, TypeOK
  <1>2. CASE Validate(c)
    <2>0. UNCHANGED <<row, meta, index, plan, adm, warm, made, told, authority, history>>
      BY <1>2 DEF Validate
    <2>1. \A d \in Usable' : d \in Usable
      BY <2>0 DEF Usable
    <2>2. CASE /\ cli[c].key \in Usable /\ cli[c].pc = "ask"
               /\ cli' = [cli EXCEPT ![c].pc = "idle", ![c].reply = "granted"]
      <3> DEFINE s == [cli[c] EXCEPT !.pc = "idle", !.reply = "granted"]
      <3>1. s \in ClientState /\ s.pc = "idle" /\ s.late = cli[c].late
        BY <1>0 DEF ClientState
      <3>2. cli' = [cli EXCEPT ![c] = s]
        BY <2>2
      <3>3. ~s.late
        BY <1>0, <2>2, <3>1 DEF ClientState
      <3> QED BY <1>0, <2>0, <2>1, <3>1, <3>2, <3>3, ClientUpdate DEF TypeOK
    <2>3. CASE cli' = [cli EXCEPT ![c].pc = "drop"]
      <3> DEFINE s == [cli[c] EXCEPT !.pc = "drop"]
      <3>1. s \in ClientState /\ s.pc = "drop" /\ s.late = cli[c].late /\ s.reply = cli[c].reply
        BY <1>0 DEF ClientState
      <3>2. cli' = [cli EXCEPT ![c] = s]
        BY <2>3
      <3> QED BY <1>0, <2>0, <2>1, <3>1, <3>2, ClientUpdate DEF TypeOK
    <2>4. CASE cli' = [cli EXCEPT ![c].pc = "idle", ![c].reply = "denied"]
      <3> DEFINE s == [cli[c] EXCEPT !.pc = "idle", !.reply = "denied"]
      <3>1. s \in ClientState /\ s.pc = "idle" /\ s.reply = "denied"
        BY <1>0 DEF ClientState
      <3>2. cli' = [cli EXCEPT ![c] = s]
        BY <2>4
      <3> QED BY <1>0, <2>0, <2>1, <3>1, <3>2, ClientUpdate DEF TypeOK
    <2> QED BY <1>2, <2>2, <2>3, <2>4 DEF Validate
  <1>3. CASE ValidateDrop(c)
    <2> DEFINE s == [cli[c] EXCEPT !.pc = "idle", !.reply = "denied"]
    <2>1. s \in ClientState /\ s.pc = "idle" /\ s.reply = "denied"
      BY <1>0 DEF ClientState
    <2>2. cli' = [cli EXCEPT ![c] = s]
      BY <1>3 DEF ValidateDrop
    <2>3. meta' \in [Key -> Status] /\ \A d \in Usable' : d \in Usable
      BY <1>0, <1>3 DEF ValidateDrop, Usable, TypeOK, Status
    <2> QED BY <1>0, <1>3, <2>1, <2>2, <2>3, ClientUpdate DEF ValidateDrop
  <1> QED BY <1>1, <1>2, <1>3

\* Steps behind the requests' backs make no key usable either: warming Redis up
\* matters only without an authority, and there it does not happen.
LEMMA OutsideSteps ==
  ASSUME KeysInv,
         \/ WarmLoad
         \/ \E k \in Key : WarmCache(k) \/ DashboardRevoke(k)
         \/ RedisRestart
  PROVE  KeysInv'
  <1>0. TypeOK /\ ColdStandalone
    BY DEF KeysInv
  <1>1. UNCHANGED <<adm, cli, made, told, authority>>
    BY DEF WarmLoad, WarmCache, DashboardRevoke, RedisRestart
  <1>2. TypeOK'
    BY <1>0
    DEF TypeOK, Status, WarmLoad, WarmCache, DashboardRevoke, RedisRestart, history
  <1>3. \A k \in Usable' : k \in Usable
    <2>1. CASE WarmLoad
      BY <2>1 DEF WarmLoad, Usable
    <2>2. ASSUME NEW k \in Key, WarmCache(k) PROVE \A d \in Usable' : d \in Usable
      BY <1>0, <2>2 DEF WarmCache, Usable, ColdStandalone
    <2>3. ASSUME NEW k \in Key, DashboardRevoke(k) PROVE \A d \in Usable' : d \in Usable
      BY <1>0, <2>3 DEF DashboardRevoke, Usable, TypeOK
    <2>4. CASE RedisRestart
      BY <2>4 DEF RedisRestart, Usable
    <2> QED BY <2>1, <2>2, <2>3, <2>4
  <1>4. ColdStandalone'
    BY <1>0 DEF ColdStandalone, WarmLoad, WarmCache, DashboardRevoke, RedisRestart
  <1>5. MakersApart' /\ LateBarred' /\ RevocationIsFinal'
    BY <1>1, <1>3 DEF KeysInv, MakersApart, Making, LateBarred, RevocationIsFinal
  <1> QED BY <1>2, <1>4, <1>5 DEF KeysInv

-----------------------------------------------------------------------------
LEMMA StepInv == KeysInv /\ [Next]_vars => KeysInv'
  <1> SUFFICES ASSUME KeysInv, [Next]_vars PROVE KeysInv' OBVIOUS
  <1>0. TypeOK
    BY DEF KeysInv
  <1>1. ASSUME NEW a \in Admin, TypeOK' /\ AdminFrame(a)
        PROVE  KeysInv'
    BY <1>1, FrameKeepsInv
  <1>2. ASSUME NEW a \in Admin,
               \/ CreateStart(a)
               \/ \E op \in {"provision", "plan"}, p \in Plan : ListStart(a, op, p)
               \/ \E k \in Key : RevokeStart(a, k)
               \/ ListMembers(a)
               \/ \E k \in Key : ListGet(a, k)
               \/ ProvisionDecide(a)
               \/ PlanDecide(a)
               \/ SetPlan(a)
               \/ AdminCrash(a)
        PROVE  KeysInv'
    BY <1>0, <1>1, <1>2, ListingSteps
  <1>3. ASSUME NEW a \in Admin, GetPlan(a) \/ StoreUnanswered(a)
        PROVE  KeysInv'
    BY <1>1, <1>3, GetPlanStep, StoreUnansweredStep
  <1>4. ASSUME NEW a \in Admin,
               \/ StoreIfUnderLimit(a) \/ FallbackDecide(a) \/ Register(a)
               \/ RegisterFails(a) \/ UndoMeta(a) \/ UndoIndex(a) \/ CacheNew(a)
        PROVE  KeysInv'
    BY <1>1, <1>4, MakingSteps
  <1>5. ASSUME NEW a \in Admin, RevokeRow(a) \/ RevokeGet(a) \/ RevokeForget(a)
        PROVE  KeysInv'
    BY <1>0, <1>1, <1>5, RevokeSteps
  <1>6. ASSUME NEW a \in Admin, AdminStep(a)
        PROVE  KeysInv'
    BY <1>2, <1>3, <1>4, <1>5, <1>6 DEF AdminStep
  <1>7. ASSUME NEW c \in Client,
               \/ \E k \in Key : AuthStart(c, k)
               \/ Validate(c)
               \/ ValidateDrop(c)
        PROVE  KeysInv'
    BY <1>7, ClientSteps
  <1>8. CASE UNCHANGED vars
    BY <1>8
    DEF vars, history, KeysInv, TypeOK, MakersApart, Making, LateBarred, Usable,
        ColdStandalone, RevocationIsFinal
  <1> QED BY <1>2, <1>6, <1>7, <1>8, OutsideSteps DEF Next

\* The variables and the state of every request have their types, for every
\* number of keys, plans, administrators and clients.
THEOREM ApiKeysTypeOK == Spec => []TypeOK
  <1>1. KeysInv => TypeOK
    BY DEF KeysInv
  <1> QED BY InitInv, StepInv, <1>1, PTL DEF Spec

\* An authentication that starts after its key was revoked is never granted:
\* validate_key asks the authority on every call, and no creation, fallback,
\* warm-up or restart makes a told key usable again.
THEOREM ApiKeysRevocationIsFinal == Spec => []RevocationIsFinal
  <1>1. KeysInv => RevocationIsFinal
    BY DEF KeysInv
  <1> QED BY InitInv, StepInv, <1>1, PTL DEF Spec

\* The invariant behind both, which a run checks: a key that is being made is
\* known to nobody and to no other request.
THEOREM ApiKeysInvariant == Spec => []KeysInv
  BY InitInv, StepInv, PTL DEF Spec

-----------------------------------------------------------------------------
(***************************************************************************)
(* The limit on keys.                                                      *)
(***************************************************************************)
\* Every step of a request is within the frame.
LEMMA AdminStepFrame ==
  ASSUME KeysInv, NEW a \in Admin, AdminStep(a)
  PROVE  TypeOK' /\ AdminFrame(a)
  BY ListingSteps, GetPlanStep, MakingSteps, StoreUnansweredStep, RevokeSteps
  DEF AdminStep, KeysInv

\* A set with at most one element more is at most one larger, and a part of it
\* is no larger.
LEMMA CountFacts ==
  ASSUME NEW S, IsFiniteSet(S), NEW x, NEW T, T \subseteq S \cup {x}
  PROVE  /\ IsFiniteSet(T)
         /\ Cardinality(T) <= Cardinality(S) + 1
         /\ T \subseteq S => Cardinality(T) <= Cardinality(S)
         /\ Cardinality(S) \in Nat /\ Cardinality(T) \in Nat
  <1>1. /\ IsFiniteSet(S \cup {x})
        /\ Cardinality(S \cup {x}) <= Cardinality(S) + 1
    <2>1. /\ IsFiniteSet(S \cup {x})
          /\ Cardinality(S \cup {x}) = IF x \in S THEN Cardinality(S)
                                       ELSE Cardinality(S) + 1
      BY FS_AddElement
    <2>2. Cardinality(S) \in Nat
      BY FS_CardinalityType
    <2> QED BY <2>1, <2>2
  <1>2. /\ IsFiniteSet(T)
        /\ Cardinality(T) <= Cardinality(S \cup {x})
    BY <1>1, FS_Subset
  <1>3. T \subseteq S => Cardinality(T) <= Cardinality(S)
    BY FS_Subset
  <1>4. /\ Cardinality(S) \in Nat /\ Cardinality(T) \in Nat
        /\ Cardinality(S \cup {x}) \in Nat
    BY <1>1, <1>2, FS_CardinalityType
  <1> QED BY <1>1, <1>2, <1>3, <1>4

LEMMA CountedFinite == ASSUME IsFiniteSet(index)
                       PROVE  IsFiniteSet(Counted) /\ Cardinality(Counted) \in Nat
  BY FS_Subset, FS_CardinalityType DEF Counted

LEMMA InitLimit ==
  ASSUME NEW L \in Nat, Init
  PROVE  LimitInv(L)
  <1>1. \A a \in Admin : RequestOk(L, a)
    BY DEF Init, IdleAdmin, RequestOk
  <1>2. \A c \in Client : DropOk(c)
    BY DEF Init, IdleClient, DropOk
  <1>3. Counted = {} /\ told = {} /\ index = {} /\ warm = {}
    BY DEF Init, Counted
  <1> QED BY <1>1, <1>2, <1>3, FS_EmptySet DEF LimitInv

\* The step of a request that touches no key but its own keeps the invariant
\* when the request and the set of counted keys are all right afterwards.
LEMMA LimitFrame ==
  ASSUME NEW L \in Nat, KeysInv, LimitInv(L), NEW a \in Admin, AdminFrame(a),
         \/ UNCHANGED <<meta, index>>
         \/ /\ Making(a) \/ adm[a].key \in told
            /\ \A k \in Key \ {adm[a].key} :
                 meta'[k] = meta[k] /\ (k \in index' <=> k \in index),
         RequestOk(L, a)',
         IsFiniteSet(index'),
         (Usable \cap told \subseteq Counted)',
         (Cardinality(Counted) <= L)'
  PROVE  LimitInv(L)'
  <1>0. TypeOK /\ MakersApart
    BY DEF KeysInv
  <1>1. \A k \in Usable' \cap told : k \in Usable
    BY DEF AdminFrame, KeysInv, MakersApart
  <1>2. ASSUME NEW b \in Admin PROVE RequestOk(L, b)'
    <2>1. CASE b = a
      BY <2>1
    <2>2. CASE b # a
      <3>1. adm'[b] = adm[b] /\ RequestOk(L, b)
        BY <2>2 DEF AdminFrame, LimitInv
      <3>2. adm[b].pc = "register" => adm[b].key \in Counted'
        <4> SUFFICES ASSUME adm[b].pc = "register" PROVE adm[b].key \in Counted'
          OBVIOUS
        <4>1. Making(b) /\ adm[b].key \in Counted
          BY <3>1 DEF Making, RequestOk
        <4>2. adm[b].key \in Key /\ adm[b].key \notin told
          BY <1>0, <4>1 DEF MakersApart, TypeOK
        <4>3. CASE UNCHANGED <<meta, index>>
          BY <4>1, <4>3 DEF Counted
        <4>4. CASE Making(a) \/ adm[a].key \in told
          <5>1. adm[b].key # adm[a].key
            BY <1>0, <2>2, <4>1, <4>2, <4>4 DEF MakersApart
          <5> QED BY <4>1, <4>2, <5>1 DEF Counted
        <4> QED BY <4>3, <4>4
      <3>3. adm[b].pc \in {"revoke", "forget"} => adm[b].key \in told'
        BY <3>1 DEF RequestOk, AdminFrame
      <3>4. adm[b].pc = "forget" /\ authority => adm[b].key \notin Usable'
        BY <1>1, <3>1 DEF RequestOk
      <3> QED BY <3>1, <3>2, <3>3, <3>4 DEF RequestOk, AdminFrame
    <2> QED BY <2>1, <2>2
  <1>3. ASSUME NEW c \in Client PROVE DropOk(c)'
    BY <1>1 DEF DropOk, LimitInv, AdminFrame
  <1> QED BY <1>2, <1>3 DEF LimitInv, AdminFrame

\* ... in particular when it leaves the keys and their copies alone.
LEMMA LimitQuiet ==
  ASSUME NEW L \in Nat, KeysInv, LimitInv(L), NEW a \in Admin, AdminFrame(a),
         UNCHANGED <<row, meta, index, told, authority>>, RequestOk(L, a)'
  PROVE  LimitInv(L)'
  <1>1. Counted' = Counted /\ Usable' = Usable
    BY DEF Counted, Usable
  <1> QED BY <1>1, LimitFrame DEF LimitInv

\* A request that neither counts nor revokes has nothing to answer for.
LEMMA RequestFree ==
  ASSUME NEW L \in Nat, NEW a \in Admin, ~adm[a].fallback,
         adm[a].pc \in {"idle", "members", "gets", "setPlan", "getPlan",
                        "undoMeta", "undoIndex"}
  PROVE  RequestOk(L, a)
  BY DEF RequestOk

\* Requests end without a trace in their own record.
LEMMA ReplyFree ==
  ASSUME TypeOK, NEW a \in Admin,
         NEW r \in {"none", "done", "created", "existing", "limit", "failed"}, Reply(a, r)
  PROVE  adm'[a].pc = "idle" /\ ~adm'[a].fallback
  BY DEF Reply, TypeOK, IdleAdmin

LEMMA LimitListing ==
  ASSUME NEW L \in Nat, KeysInv, LimitInv(L), NEW a \in Admin,
         \/ CreateStart(a)
         \/ \E op \in {"provision", "plan"}, p \in Plan : ListStart(a, op, p)
         \/ \E k \in Key : RevokeStart(a, k)
         \/ ListMembers(a)
         \/ \E k \in Key : ListGet(a, k)
         \/ ProvisionDecide(a)
         \/ PlanDecide(a)
         \/ SetPlan(a)
         \/ AdminCrash(a)
  PROVE  LimitInv(L)'
  <1>0. /\ TypeOK /\ adm \in [Admin -> AdminState] /\ adm[a] \in AdminState
        /\ RequestOk(L, a)
    BY DEF KeysInv, TypeOK, LimitInv
  <1>1. AdminFrame(a) /\ TypeOK'
    BY <1>0, ListingSteps
  <1>2. UNCHANGED <<row, meta, index, told, authority>>
    BY DEF CreateStart, ListStart, RevokeStart, ListMembers, ListGet,
           ProvisionDecide, PlanDecide, SetPlan, AdminCrash, Quiet, Elsewhere, Starts
  <1>3. ASSUME NEW k \in Key, RevokeStart(a, k)
        PROVE  RequestOk(L, a)'
    <2>1. /\ adm'[a].pc = "revoke" /\ adm'[a].key = k /\ ~adm'[a].fallback
          /\ k \in told'
      BY <1>0, <1>2, <1>3 DEF RevokeStart, IdleAdmin
    <2> QED BY <2>1 DEF RequestOk
  <1>4. ASSUME \/ CreateStart(a)
               \/ \E op \in {"provision", "plan"}, p \in Plan : ListStart(a, op, p)
               \/ ListMembers(a)
               \/ \E k \in Key : ListGet(a, k)
        PROVE  RequestOk(L, a)'
    <2>1. /\ adm'[a].pc \in {"getPlan", "members", "gets"}
          /\ ~adm'[a].fallback
      <3>0. CASE CreateStart(a)
        <4>1. adm'[a] = [IdleAdmin EXCEPT !.pc = "getPlan"]
          BY <1>0, <3>0 DEF CreateStart
        <4> QED BY <4>1 DEF IdleAdmin
      <3>1. CASE ListMembers(a)
        BY <1>0, <3>1 DEF ListMembers, RequestOk, AdminState
      <3>2. ASSUME NEW op \in {"provision", "plan"}, NEW p \in Plan, ListStart(a, op, p)
            PROVE  adm'[a].pc = "members" /\ ~adm'[a].fallback
        <4>1. adm'[a] = [IdleAdmin EXCEPT !.pc = "members", !.op = op, !.target = p]
          BY <1>0, <3>2 DEF ListStart
        <4> QED BY <4>1 DEF IdleAdmin
      <3>3. ASSUME NEW k \in Key, ListGet(a, k)
            PROVE  adm'[a].pc = "gets" /\ ~adm'[a].fallback
        BY <1>0, <3>3 DEF ListGet, RequestOk, AdminState
      <3> QED BY <1>4, <3>0, <3>1, <3>2, <3>3
    <2> QED BY <2>1 DEF RequestOk
  <1>5. ASSUME ProvisionDecide(a) \/ PlanDecide(a) \/ SetPlan(a) \/ AdminCrash(a)
        PROVE  RequestOk(L, a)'
    <2>1. CASE Goto(a, "setPlan") \/ Goto(a, "getPlan")
      <3>1. adm'[a].pc \in {"setPlan", "getPlan"} /\ ~adm'[a].fallback
        BY <1>0, <2>1 DEF Goto, RequestOk, AdminState
      <3> QED BY <3>1 DEF RequestOk
    <2>2. CASE \E r \in {"limit", "done", "failed"} : Reply(a, r)
      <3>1. adm'[a].pc = "idle" /\ ~adm'[a].fallback
        BY <1>0, <2>2, ReplyFree
      <3> QED BY <3>1 DEF RequestOk
    <2>3. CASE \E k \in adm[a].found :
                 adm' = [adm EXCEPT ![a] = [IdleAdmin EXCEPT !.op = "provision",
                                              !.key = k, !.reply = "existing"]]
      <3>1. adm'[a].pc = "idle" /\ ~adm'[a].fallback
        BY <1>0, <2>3 DEF IdleAdmin
      <3> QED BY <3>1 DEF RequestOk
    <2> QED
      BY <1>5, <2>1, <2>2, <2>3
         DEF ProvisionDecide, PlanDecide, SetPlan, AdminCrash
  <1>6. RequestOk(L, a)'
    BY <1>3, <1>4, <1>5
  <1> QED BY <1>0, <1>1, <1>2, <1>6, LimitQuiet

\* The steps that make a key.
LEMMA LimitMaking ==
  ASSUME NEW L \in Nat, MaxKeys[plan] <= L, ~LostEvals,
         KeysInv, LimitInv(L), NEW a \in Admin,
         \/ GetPlan(a)
         \/ StoreIfUnderLimit(a)
         \/ StoreUnanswered(a)
         \/ FallbackDecide(a)
         \/ Register(a)
         \/ RegisterFails(a)
         \/ UndoMeta(a)
         \/ UndoIndex(a)
         \/ CacheNew(a)
  PROVE  LimitInv(L)'
  <1>0. /\ TypeOK /\ adm \in [Admin -> AdminState] /\ adm[a] \in AdminState
        /\ meta \in [Key -> Status] /\ row \in [Key -> Status]
        /\ RequestOk(L, a)
        /\ IsFiniteSet(index) /\ IsFiniteSet(Counted)
        /\ Cardinality(Counted) \in Nat /\ Cardinality(Counted) <= L
        /\ Usable \cap told \subseteq Counted
    BY CountedFinite DEF KeysInv, TypeOK, LimitInv
  <1>1. AdminFrame(a)
    BY GetPlanStep, MakingSteps, StoreUnansweredStep
  <1> DEFINE k == adm[a].key
  <1>2. CASE GetPlan(a)
    <2>1. /\ adm'[a].pc = "eval" /\ adm'[a].limit = MaxKeys[plan]
          /\ ~adm'[a].fallback
      BY <1>0, <1>2 DEF GetPlan, RequestOk, AdminState
    <2>2. RequestOk(L, a)'
      BY <1>0, <2>1 DEF RequestOk, TypeOK
    <2> QED BY <1>1, <1>2, <2>2, LimitQuiet DEF GetPlan, Quiet, Elsewhere
  <1>3. CASE StoreIfUnderLimit(a)
    <2>0. Making(a) /\ k \in Key /\ adm[a].limit <= L /\ adm[a].limit \in Nat
      BY <1>0, <1>3, MakerFacts
         DEF StoreIfUnderLimit, Making, RequestOk, AdminState
    <2>1. CASE ~Room(adm[a].limit)
      <3>1. UNCHANGED <<row, meta, index, told, authority>> /\ Reply(a, "limit")
        BY <1>3, <2>1 DEF StoreIfUnderLimit, ScriptEffect, Quiet, Elsewhere
      <3>2. adm'[a].pc = "idle" /\ ~adm'[a].fallback
        BY <1>0, <3>1, ReplyFree
      <3>3. RequestOk(L, a)'
        BY <3>2 DEF RequestOk
      <3> QED BY <1>1, <3>1, <3>3, LimitQuiet
    <2>2. CASE Room(adm[a].limit)
      <3>1. /\ meta' = [meta EXCEPT ![k] = "active"]
            /\ index' = index \cup {k}
            /\ UNCHANGED <<row, authority>>
            /\ \/ Goto(a, "register") /\ UNCHANGED told /\ authority
               \/ Reply(a, "created") /\ told' = told \cup {k} /\ ~authority
        BY <1>3, <2>2 DEF StoreIfUnderLimit, ScriptEffect, Quiet, Elsewhere, HandOver
      <3>2. \A d \in Key \ {k} : meta'[d] = meta[d] /\ (d \in index' <=> d \in index)
        BY <1>0, <3>1
      <3>3. Counted' = Counted \cup {k}
        BY <1>0, <2>0, <3>1 DEF Counted, TypeOK
      <3>4. IsFiniteSet(index') /\ Cardinality(Counted') <= L
        <4>1. Cardinality(Counted) < adm[a].limit
          BY <2>2 DEF Room
        <4>2. Cardinality(Counted') <= Cardinality(Counted) + 1
              /\ Cardinality(Counted') \in Nat
          BY <1>0, <3>3, CountFacts
        <4>3. IsFiniteSet(index')
          BY <1>0, <3>1, FS_AddElement
        <4> QED BY <1>0, <2>0, <4>1, <4>2, <4>3
      <3>5. (Usable \cap told)' \subseteq Counted'
        BY <1>0, <1>1, <3>1, <3>3 DEF AdminFrame
      <3>6. RequestOk(L, a)'
        <4>1. CASE Goto(a, "register")
          <5>1. /\ adm'[a].pc = "register" /\ adm'[a].key = k
                /\ ~adm'[a].fallback
            BY <1>0, <4>1 DEF Goto, RequestOk, AdminState
          <5> QED BY <3>3, <5>1 DEF RequestOk
        <4>2. CASE Reply(a, "created")
          <5>1. adm'[a].pc = "idle" /\ ~adm'[a].fallback
            BY <1>0, <4>2, ReplyFree
          <5> QED BY <5>1 DEF RequestOk
        <4> QED BY <3>1, <4>1, <4>2
      <3> QED BY <1>1, <2>0, <3>2, <3>4, <3>5, <3>6, LimitFrame
    <2> QED BY <2>1, <2>2
  <1>4. CASE StoreUnanswered(a) \/ FallbackDecide(a) \/ CacheNew(a)
    BY <1>0, <1>4 DEF StoreUnanswered, FallbackDecide, CacheNew, RequestOk
  <1>5. CASE Register(a)
    <2>1. /\ k \in Counted
          /\ Reply(a, "created") /\ told' = told \cup {k}
          /\ UNCHANGED <<meta, index>>
      BY <1>0, <1>5 DEF Register, RequestOk, HandOver
    <2>2. Counted' = Counted
      BY <2>1 DEF Counted
    <2>3. (Usable \cap told)' \subseteq Counted'
      BY <1>0, <1>1, <2>1, <2>2 DEF AdminFrame
    <2>4. adm'[a].pc = "idle" /\ ~adm'[a].fallback
      BY <1>0, <2>1, ReplyFree
    <2>5. RequestOk(L, a)'
      BY <2>4 DEF RequestOk
    <2> QED BY <1>0, <1>1, <2>1, <2>2, <2>3, <2>5, LimitFrame
  <1>6. CASE RegisterFails(a)
    <2>0. k \notin told
      BY <1>6, MakerFacts DEF RegisterFails, Making
    <2>1. Goto(a, "undoMeta") /\ UNCHANGED <<meta, index, told>>
      BY <1>0, <1>6 DEF RegisterFails, RequestOk
    <2>2. Counted' = Counted
      BY <2>1 DEF Counted
    <2>3. (Usable \cap told)' \subseteq Counted'
      BY <1>0, <1>1, <2>0, <2>1, <2>2 DEF AdminFrame
    <2>4. adm'[a].pc = "undoMeta" /\ ~adm'[a].fallback
      BY <1>0, <2>1 DEF Goto, RequestOk, AdminState
    <2>5. RequestOk(L, a)'
      BY <2>4 DEF RequestOk
    <2> QED BY <1>0, <1>1, <2>1, <2>2, <2>3, <2>5, LimitFrame
  <1>7. CASE UndoMeta(a) \/ UndoIndex(a)
    <2>0. Making(a) /\ k \in Key /\ k \notin told
      BY <1>7, MakerFacts DEF UndoMeta, UndoIndex, Making
    <2>1. /\ \/ meta' = [meta EXCEPT ![k] = "absent"] /\ index' = index
             \/ meta' = meta /\ index' = index \ {k}
          /\ Goto(a, "undoIndex") \/ Reply(a, "failed")
          /\ UNCHANGED <<told, row>>
      BY <1>7 DEF UndoMeta, UndoIndex
    <2>2. \A d \in Key \ {k} : meta'[d] = meta[d] /\ (d \in index' <=> d \in index)
      BY <1>0, <2>1
    <2>3. index' \subseteq index /\ Counted' \subseteq Counted
      BY <1>0, <2>1 DEF Counted, TypeOK
    <2>4. IsFiniteSet(index') /\ Cardinality(Counted') <= L
      <3>1. IsFiniteSet(index')
        BY <1>0, <2>3, FS_Subset
      <3>2. /\ Cardinality(Counted') <= Cardinality(Counted)
            /\ Cardinality(Counted') \in Nat
        BY <1>0, <2>3, CountFacts
      <3> QED BY <1>0, <3>1, <3>2
    <2>5. (Usable \cap told)' \subseteq Counted'
      <3> SUFFICES ASSUME NEW d \in Usable', d \in told' PROVE d \in Counted'
        OBVIOUS
      <3>1. d \in told /\ d # k /\ d \in Counted /\ d \in Key
        BY <1>0, <1>1, <2>0, <2>1 DEF AdminFrame, Usable
      <3> QED BY <2>2, <3>1 DEF Counted
    <2>6. RequestOk(L, a)'
      <3>1. adm'[a].pc \in {"idle", "undoIndex"} /\ ~adm'[a].fallback
        <4>1. CASE Goto(a, "undoIndex")
          BY <1>0, <4>1 DEF Goto, RequestOk, AdminState
        <4>2. CASE Reply(a, "failed")
          BY <1>0, <4>2, ReplyFree
        <4> QED BY <2>1, <4>1, <4>2
      <3> QED BY <3>1 DEF RequestOk
    <2> QED BY <1>1, <2>0, <2>2, <2>4, <2>5, <2>6, LimitFrame
  <1> QED BY <1>2, <1>3, <1>4, <1>5, <1>6, <1>7

LEMMA LimitRevoking ==
  ASSUME NEW L \in Nat, KeysInv, LimitInv(L), NEW a \in Admin,
         RevokeRow(a) \/ RevokeGet(a) \/ RevokeForget(a)
  PROVE  LimitInv(L)'
  <1>0. /\ TypeOK /\ adm \in [Admin -> AdminState] /\ adm[a] \in AdminState
        /\ meta \in [Key -> Status] /\ row \in [Key -> Status]
        /\ RequestOk(L, a)
        /\ IsFiniteSet(index) /\ IsFiniteSet(Counted)
        /\ Cardinality(Counted) \in Nat /\ Cardinality(Counted) <= L
        /\ Usable \cap told \subseteq Counted
    BY CountedFinite DEF KeysInv, TypeOK, LimitInv
  <1>1. AdminFrame(a)
    BY <1>0, RevokeSteps
  <1> DEFINE k == adm[a].key
  <1>2. k \in told /\ k \in Key
    BY <1>0 DEF RevokeRow, RevokeGet, RevokeForget, RequestOk, TypeOK
  <1>3. UNCHANGED <<index, told, authority>>
    BY DEF RevokeRow, RevokeGet, RevokeForget, Quiet, Elsewhere
  <1>4. Goto(a, "forget") => /\ adm'[a].pc = "forget" /\ adm'[a].key = k
                             /\ ~adm'[a].fallback
    BY <1>0 DEF Goto, RequestOk, AdminState
  <1>5. \A r \in {"limit", "done", "failed"} : Reply(a, r) => RequestOk(L, a)'
    BY <1>0, ReplyFree DEF RequestOk
  <1>6. CASE RevokeRow(a)
    <2>1. UNCHANGED meta /\ Counted' = Counted
      BY <1>3, <1>6 DEF RevokeRow, Counted
    <2>2. Usable' \subseteq Usable
      BY <1>0, <1>6 DEF RevokeRow, Usable, Quiet, Elsewhere
    <2>3. Goto(a, "forget") => k \notin Usable'
      <3> SUFFICES ASSUME Goto(a, "forget") PROVE k \notin Usable'
        OBVIOUS
      <3>1. ~Reply(a, "failed")
        BY <1>0, <1>4, ReplyFree
      <3>2. row' = [row EXCEPT ![k] = "revoked"] /\ authority /\ authority'
        BY <1>6, <3>1 DEF RevokeRow, Quiet, Elsewhere
      <3> QED BY <1>0, <1>2, <3>2 DEF Usable
    <2>4. RequestOk(L, a)'
      BY <1>2, <1>3, <1>4, <1>5, <1>6, <2>3 DEF RevokeRow, RequestOk
    <2> QED BY <1>0, <1>1, <1>3, <2>1, <2>2, <2>4, LimitFrame
  <1>7. CASE RevokeGet(a)
    <2>1. UNCHANGED <<row, meta>> /\ ~authority'
      BY <1>7 DEF RevokeGet, Quiet, Elsewhere
    <2>2. RequestOk(L, a)'
      BY <1>2, <1>3, <1>4, <1>5, <1>7, <2>1 DEF RevokeGet, RequestOk
    <2> QED BY <1>1, <1>3, <2>1, <2>2, LimitQuiet
  <1>8. CASE RevokeForget(a)
    <2> DEFINE v == IF authority THEN "absent" ELSE "revoked"
    <2>1. meta' = [meta EXCEPT ![k] = v] /\ UNCHANGED row /\ v # "active"
      BY <1>8 DEF RevokeForget
    <2> HIDE DEF v
    <2>2. \A d \in Key \ {k} : meta'[d] = meta[d] /\ (d \in index' <=> d \in index)
      BY <1>0, <1>3, <2>1
    <2>3. k \notin Usable' /\ Usable' \subseteq Usable
      BY <1>0, <1>2, <1>3, <1>8, <2>1 DEF Usable, RevokeForget, RequestOk
    <2>4. Counted' \subseteq Counted
      BY <1>0, <1>3, <2>1 DEF Counted, TypeOK
    <2>5. Cardinality(Counted') <= L
      <3>1. /\ Cardinality(Counted') <= Cardinality(Counted)
            /\ Cardinality(Counted') \in Nat
        BY <1>0, <2>4, CountFacts
      <3> QED BY <1>0, <3>1
    <2>6. (Usable \cap told)' \subseteq Counted'
      <3> SUFFICES ASSUME NEW d \in Usable', d \in told' PROVE d \in Counted'
        OBVIOUS
      <3>1. d \in told /\ d # k /\ d \in Counted /\ d \in Key
        BY <1>0, <1>3, <2>3 DEF Usable
      <3> QED BY <2>2, <3>1 DEF Counted
    <2>7. RequestOk(L, a)'
      BY <1>5, <1>8 DEF RevokeForget
    <2> QED BY <1>0, <1>1, <1>2, <1>3, <2>2, <2>5, <2>6, <2>7, LimitFrame
  <1> QED BY <1>6, <1>7, <1>8

\* Clients and the dashboard only take keys out of use, or drop copies of keys
\* that are out of use.
LEMMA LimitOutside ==
  ASSUME NEW L \in Nat, "reads" \notin Outages, ~Restarts, KeysInv, LimitInv(L),
         \/ \E c \in Client :
              \/ \E k \in Key : AuthStart(c, k)
              \/ Validate(c)
              \/ ValidateDrop(c)
         \/ WarmLoad
         \/ \E k \in Key : WarmCache(k) \/ DashboardRevoke(k)
         \/ RedisRestart
         \/ UNCHANGED vars
  PROVE  LimitInv(L)'
  <1>0. /\ TypeOK /\ cli \in [Client -> ClientState]
        /\ meta \in [Key -> Status] /\ row \in [Key -> Status]
        /\ IsFiniteSet(index) /\ IsFiniteSet(Counted)
        /\ Cardinality(Counted) \in Nat /\ Cardinality(Counted) <= L
        /\ Usable \cap told \subseteq Counted
        /\ LateBarred /\ MakersApart /\ told \subseteq Key
    BY CountedFinite DEF KeysInv, TypeOK, LimitInv
  <1>1. ASSUME UNCHANGED <<meta, index, adm, warm, told, authority>>,
               Usable' \subseteq Usable, \A c \in Client : DropOk(c)'
        PROVE  LimitInv(L)'
    <2>1. Counted' = Counted
      BY <1>1 DEF Counted
    <2>2. \A a \in Admin : RequestOk(L, a)'
      BY <1>1, <2>1 DEF LimitInv, RequestOk
    <2> QED BY <1>1, <2>1, <2>2 DEF LimitInv
  <1>2. ASSUME NEW c \in Client, NEW k \in Key, AuthStart(c, k)
        PROVE  LimitInv(L)'
    <2>1. /\ UNCHANGED <<row, meta, index, adm, warm, told, authority>>
          /\ cli'[c].pc = "ask"
          /\ \A d \in Client \ {c} : cli'[d] = cli[d]
      BY <1>0, <1>2 DEF AuthStart
    <2>2. Usable' = Usable
      BY <2>1 DEF Usable
    <2>3. \A d \in Client : DropOk(d)'
      BY <2>1, <2>2 DEF LimitInv, DropOk
    <2> QED BY <1>1, <2>1, <2>2, <2>3
  <1>3. ASSUME NEW c \in Client, Validate(c)
        PROVE  LimitInv(L)'
    <2>1. UNCHANGED <<row, meta, index, adm, warm, told, authority>>
      BY <1>3 DEF Validate
    <2>2. Usable' = Usable
      BY <2>1 DEF Usable
    <2>3. /\ cli[c].pc = "ask" /\ cli[c] \in ClientState
          /\ \A d \in Client \ {c} : cli'[d] = cli[d]
          /\ \/ cli'[c].pc = "idle"
             \/ cli'[c].pc = "drop" /\ cli'[c].key = cli[c].key
                /\ cli[c].key \notin Usable
      BY <1>0, <1>3 DEF Validate, ClientState
    <2>4. cli[c].key \in told
      BY <1>0, <2>3 DEF LateBarred
    <2>5. \A d \in Client : DropOk(d)'
      BY <2>1, <2>2, <2>3, <2>4 DEF LimitInv, DropOk
    <2> QED BY <1>1, <2>1, <2>2, <2>5
  <1>4. ASSUME NEW c \in Client, ValidateDrop(c)
        PROVE  LimitInv(L)'
    <2> DEFINE k == cli[c].key
    <2>1. /\ UNCHANGED <<row, index, adm, warm, told, authority>>
          /\ meta' = [meta EXCEPT ![k] = "absent"]
          /\ cli'[c].pc = "idle"
          /\ \A d \in Client \ {c} : cli'[d] = cli[d]
          /\ k \in told \ Usable
      BY <1>0, <1>4 DEF ValidateDrop, LimitInv, DropOk, ClientState
    <2>2. \A d \in Key \ {k} : meta'[d] = meta[d]
      BY <1>0, <2>1
    <2>3. Usable' \subseteq Usable
      BY <1>0, <2>1 DEF Usable
    <2>4. Counted' \subseteq Counted /\ \A d \in Counted : d = k \/ d \in Counted'
      BY <1>0, <2>1 DEF Counted, TypeOK
    <2>5. Cardinality(Counted') <= L
      <3>1. /\ Cardinality(Counted') <= Cardinality(Counted)
            /\ Cardinality(Counted') \in Nat
        BY <1>0, <2>4, CountFacts
      <3> QED BY <1>0, <3>1
    <2>6. \A a \in Admin : RequestOk(L, a)'
      <3> SUFFICES ASSUME NEW a \in Admin PROVE RequestOk(L, a)'
        OBVIOUS
      <3>1. RequestOk(L, a) /\ adm' = adm
        BY <2>1 DEF LimitInv
      <3>2. adm[a].pc = "register" => adm[a].key # k
        BY <1>0, <2>1 DEF MakersApart, Making
      <3> HIDE DEF k
      <3> QED BY <2>1, <2>3, <2>4, <3>1, <3>2 DEF RequestOk
    <2>7. \A d \in Client : DropOk(d)'
      BY <2>1, <2>3 DEF LimitInv, DropOk
    <2>8. Usable' \cap told' \subseteq Counted'
      BY <1>0, <2>1, <2>3, <2>4
    <2> QED BY <1>0, <2>1, <2>5, <2>6, <2>7, <2>8 DEF LimitInv
  <1>5. ASSUME NEW k \in Key, DashboardRevoke(k)
        PROVE  LimitInv(L)'
    <2>1. UNCHANGED <<meta, index, adm, cli, warm, told, authority>>
      BY <1>5 DEF DashboardRevoke
    <2>2. Usable' \subseteq Usable
      BY <1>0, <1>5 DEF DashboardRevoke, Usable
    <2>3. \A c \in Client : DropOk(c)'
      BY <2>1, <2>2 DEF LimitInv, DropOk
    <2> QED BY <1>1, <2>1, <2>2, <2>3
  <1>6. CASE UNCHANGED vars
    <2>1. Usable' = Usable
      BY <1>6 DEF vars, history, Usable
    <2>2. \A c \in Client : DropOk(c)'
      BY <1>6, <2>1 DEF vars, history, LimitInv, DropOk
    <2> QED BY <1>1, <1>6, <2>1, <2>2 DEF vars, history
  <1>7. CASE WarmLoad \/ RedisRestart \/ \E k \in Key : WarmCache(k)
    BY <1>7 DEF WarmLoad, RedisRestart, WarmCache, LimitInv
  <1> QED BY <1>2, <1>3, <1>4, <1>5, <1>6, <1>7

LEMMA StepLimit ==
  ASSUME NEW L \in Nat, MaxKeys[plan] <= L,
         ~LostEvals, ~Restarts, "reads" \notin Outages,
         KeysInv, LimitInv(L), [Next]_vars
  PROVE  LimitInv(L)'
  <1>1. ASSUME NEW a \in Admin, AdminStep(a)
        PROVE  LimitInv(L)'
    BY <1>1, LimitListing, LimitMaking, LimitRevoking DEF AdminStep
  <1> QED BY <1>1, LimitListing, LimitOutside DEF Next

LEMMA UsableWithinLimit ==
  ASSUME NEW L \in Nat, LimitInv(L)
  PROVE  Cardinality(Usable \cap told) <= L
  <1>1. IsFiniteSet(Counted) /\ Cardinality(Counted) \in Nat
    BY CountedFinite DEF LimitInv
  <1>2. /\ Cardinality(Usable \cap told) <= Cardinality(Counted)
        /\ Cardinality(Usable \cap told) \in Nat
    BY <1>1, CountFacts DEF LimitInv
  <1> QED BY <1>1, <1>2 DEF LimitInv

\* Never are more keys in use than the largest plan allows, however many
\* creations, provisionings, plan changes and revocations run at once, whatever
\* registrations fail and whichever requests die: store_key_if_under_limit
\* counts and stores in one script, and a counted key stays counted until
\* revoke_key has taken it out of use.
THEOREM ApiKeysLargestPlan ==
  ASSUME NEW L \in Nat, \A p \in Plan : MaxKeys[p] <= L,
         ~LostEvals, ~Restarts, "reads" \notin Outages
  PROVE  Spec => [](Cardinality(Usable \cap told) <= L)
  <1>1. Init => KeysInv /\ LimitInv(L)
    BY InitInv, InitLimit
  <1>2. KeysInv /\ LimitInv(L) /\ [Next]_vars => KeysInv' /\ LimitInv(L)'
    BY StepInv, StepLimit DEF KeysInv, TypeOK
  <1>3. LimitInv(L) => Cardinality(Usable \cap told) <= L
    BY UsableWithinLimit
  <1> QED BY <1>1, <1>2, <1>3, PTL DEF Spec

-----------------------------------------------------------------------------
(***************************************************************************)
(* The plan of the moment.                                                 *)
(***************************************************************************)
\* What a step leaves within a limit is within a larger one.
LEMMA LimitGrows ==
  ASSUME NEW L \in Nat, NEW M \in Nat, L <= M, TypeOK', LimitInv(L)'
  PROVE  LimitInv(M)'
  <1>1. ASSUME NEW a \in Admin PROVE RequestOk(M, a)'
    <2>1. RequestOk(L, a)' /\ adm'[a].limit \in Nat
      BY DEF LimitInv, TypeOK, AdminState
    <2> QED BY <2>1 DEF RequestOk
  <1>2. Cardinality(Counted') <= M
    <2>1. IsFiniteSet(Counted')
      BY FS_Subset DEF LimitInv, Counted
    <2>2. Cardinality(Counted') \in Nat
      BY <2>1, FS_CardinalityType
    <2> QED BY <2>2 DEF LimitInv
  <1> QED BY <1>1, <1>2 DEF LimitInv

\* When it leaves no request about to store, the counted keys are the limit.
LEMMA LimitShrinks ==
  ASSUME NEW L \in Nat, NEW M \in Nat, LimitInv(L)', Cardinality(Counted') <= M,
         \A a \in Admin : adm'[a].pc # "eval"
  PROVE  LimitInv(M)'
  <1>1. ASSUME NEW a \in Admin PROVE RequestOk(M, a)'
    BY DEF LimitInv, RequestOk
  <1> QED BY <1>1 DEF LimitInv

LEMMA InitPlan == Init => PlanInv
  <1> SUFFICES ASSUME Init PROVE PlanInv OBVIOUS
  <1>1. MaxKeys[FreePlan] \in Nat /\ recent = {FreePlan} /\ plan = FreePlan /\ alone = {}
    BY DEF Init
  <1>2. LimitInv(MaxKeys[FreePlan])
    BY <1>1, InitLimit
  <1> QED BY <1>1, <1>2 DEF PlanInv

\* A request that changes the plan alone goes on: when it has listed the keys
\* and goes on to set the plan, those that are counted fit it.
LEMMA ListingGoesOn ==
  ASSUME NEW L \in Nat, ~LostEvals, KeysInv, LimitInv(L), NEW a \in Admin,
         ListingOk(a), AdminStep(a) \/ AdminCrash(a), ~SetPlan(a)
  PROVE  ListingOk(a)'
  <1>0. /\ TypeOK /\ adm \in [Admin -> AdminState] /\ adm[a] \in AdminState
        /\ RequestOk(L, a) /\ IsFiniteSet(index)
    BY DEF KeysInv, TypeOK, LimitInv
  <1>1. \A b \in Admin \ {a} : adm'[b].pc = "idle"
    <2>1. AdminFrame(a)
      BY <1>0, AdminStepFrame, ListingSteps
    <2> QED BY <2>1 DEF AdminFrame, ListingOk
  <1>2. CASE ListMembers(a)
    <2>1. /\ adm'[a].pc = "gets" /\ adm'[a].todo = index /\ adm'[a].found = {}
          /\ index' = index /\ meta' = meta
      BY <1>0, <1>2 DEF ListMembers, AdminState
    <2>2. Counted' \subseteq index
      BY <2>1 DEF Counted
    <2> QED BY <1>1, <2>1, <2>2 DEF ListingOk
  <1>3. ASSUME NEW k \in Key, ListGet(a, k)
        PROVE  ListingOk(a)'
    <2>1. /\ adm[a].pc = "gets" /\ adm'[a].pc = "gets" /\ k \in adm[a].todo
          /\ adm'[a].todo = adm[a].todo \ {k}
          /\ adm'[a].found = IF meta[k] = "active" THEN adm[a].found \cup {k}
                             ELSE adm[a].found
          /\ index' = index /\ meta' = meta
      BY <1>0, <1>3 DEF ListGet, AdminState
    <2>2. /\ Counted \subseteq adm[a].found \cup adm[a].todo
          /\ adm[a].found \cup adm[a].todo \subseteq index
      BY <2>1 DEF ListingOk
    <2>3. Counted' = Counted /\ (k \in Counted => meta[k] = "active")
      BY <2>1 DEF Counted
    <2>4. Counted' \subseteq adm'[a].found \cup adm'[a].todo
      BY <2>1, <2>2, <2>3
    <2>5. adm'[a].found \cup adm'[a].todo \subseteq index'
      BY <2>1, <2>2
    <2> QED BY <1>1, <2>1, <2>4, <2>5 DEF ListingOk
  <1>4. CASE ProvisionDecide(a) \/ PlanDecide(a)
    <2>1. /\ adm[a].pc = "gets" /\ adm[a].todo = {} /\ index' = index /\ meta' = meta
          /\ \/ Goto(a, "setPlan") /\ adm[a].found = {}
             \/ Goto(a, "setPlan")
                  /\ ~(Cardinality(adm[a].found) > MaxKeys[adm[a].target])
             \/ adm'[a].pc = "idle"
      <3>1. CASE ProvisionDecide(a)
        <4>1. ASSUME NEW k \in Key,
                     adm' = [adm EXCEPT ![a] = [IdleAdmin EXCEPT !.op = "provision",
                                                  !.key = k, !.reply = "existing"]]
              PROVE  adm'[a].pc = "idle"
          BY <1>0, <4>1 DEF IdleAdmin
        <4>2. adm[a].found \subseteq Key
          BY <1>0 DEF AdminState
        <4> QED BY <3>1, <4>1, <4>2 DEF ProvisionDecide
      <3>2. CASE PlanDecide(a)
        BY <1>0, <3>2, ReplyFree DEF PlanDecide
      <3> QED BY <1>4, <3>1, <3>2
    <2>2. Counted' = Counted /\ Counted \subseteq adm[a].found
          /\ adm[a].found \subseteq index
      BY <2>1 DEF Counted, ListingOk
    <2>3. /\ IsFiniteSet(adm[a].found) /\ Cardinality(adm[a].found) \in Nat
          /\ IsFiniteSet(Counted) /\ Cardinality(Counted) \in Nat
          /\ Cardinality(Counted) <= Cardinality(adm[a].found)
      BY <1>0, <2>2, FS_Subset, FS_CardinalityType
    <2>4. adm[a].target \in Plan /\ MaxKeys[adm[a].target] \in Nat
      BY <1>0 DEF AdminState
    <2>5. CASE Goto(a, "setPlan")
      <3>1. adm'[a].pc = "setPlan" /\ adm'[a].target = adm[a].target
        BY <1>0, <2>5 DEF Goto, AdminState
      <3>2. ~(adm'[a].pc = "idle")
        BY <3>1
      <3>3. Cardinality(Counted) <= MaxKeys[adm[a].target]
        <4>1. CASE adm[a].found = {}
          <5>1. Counted = {}
            BY <2>2, <4>1
          <5>2. Cardinality(Counted) = 0
            BY <5>1, FS_EmptySet
          <5> QED BY <2>4, <5>2
        <4>2. CASE ~(Cardinality(adm[a].found) > MaxKeys[adm[a].target])
          BY <2>3, <2>4, <4>2
        <4> QED BY <2>1, <3>2, <4>1, <4>2
      <3> QED BY <1>1, <2>2, <3>1, <3>3 DEF ListingOk
    <2>6. CASE adm'[a].pc = "idle"
      BY <1>1, <2>6 DEF ListingOk
    <2> QED BY <2>1, <2>5, <2>6
  <1>5. CASE \/ GetPlan(a) \/ StoreIfUnderLimit(a) \/ Register(a) \/ RegisterFails(a)
             \/ UndoMeta(a) \/ UndoIndex(a) \/ CacheNew(a)
             \/ RevokeRow(a) \/ RevokeGet(a) \/ RevokeForget(a) \/ AdminCrash(a)
    <2>1. \/ \E pc \in {"register", "cache", "undoMeta", "undoIndex", "forget"} :
               Goto(a, pc)
          \/ \E r \in {"limit", "created", "failed", "done"} : Reply(a, r)
          \/ GetPlan(a)
      BY <1>5 DEF StoreIfUnderLimit, Register, RegisterFails, UndoMeta, UndoIndex,
                  CacheNew, RevokeRow, RevokeGet, RevokeForget, AdminCrash, HandOver
    <2>2. ASSUME NEW pc \in {"register", "cache", "undoMeta", "undoIndex", "forget"},
                 Goto(a, pc)
          PROVE  adm'[a].pc = pc
      BY <1>0, <2>2 DEF Goto, AdminState
    <2>3. GetPlan(a) => adm'[a].pc = "eval"
      BY <1>0 DEF GetPlan, AdminState
    <2>4. adm'[a].pc \notin {"gets", "setPlan"}
      BY <1>0, <2>1, <2>2, <2>3, ReplyFree
    <2> QED BY <1>1, <2>4 DEF ListingOk
  <1>6. ~StoreUnanswered(a) /\ ~FallbackDecide(a)
    BY <1>0 DEF StoreUnanswered, FallbackDecide, RequestOk
  <1> QED BY <1>2, <1>3, <1>4, <1>5, <1>6 DEF AdminStep

\* Nobody else touches the keys that are counted, but to drop some.
LEMMA ListingUndisturbed ==
  ASSUME ~Restarts, KeysInv, NEW L \in Nat, LimitInv(L), NEW a \in Admin, ListingOk(a),
         \/ \E c \in Client :
              \/ \E k \in Key : AuthStart(c, k)
              \/ Validate(c)
              \/ ValidateDrop(c)
         \/ WarmLoad
         \/ \E k \in Key : WarmCache(k) \/ DashboardRevoke(k)
         \/ RedisRestart
         \/ UNCHANGED vars
  PROVE  ListingOk(a)' /\ UNCHANGED <<plan, alone, recent>>
  <1>0. /\ TypeOK /\ meta \in [Key -> Status] /\ index \subseteq Key
        /\ IsFiniteSet(Counted) /\ Cardinality(Counted) \in Nat
    BY CountedFinite DEF KeysInv, TypeOK, LimitInv
  <1>1. /\ UNCHANGED <<plan, alone, recent, adm, index>>
        /\ UNCHANGED meta \/ \E c \in Client : meta' = [meta EXCEPT ![cli[c].key] = "absent"]
    BY DEF AuthStart, Validate, ValidateDrop, WarmLoad, WarmCache, DashboardRevoke,
           RedisRestart, LimitInv, vars, history
  <1>2. Counted' \subseteq Counted
    BY <1>0, <1>1 DEF Counted
  <1>3. Cardinality(Counted') \in Nat /\ Cardinality(Counted') <= Cardinality(Counted)
    BY <1>0, <1>2, FS_Subset, FS_CardinalityType
  <1>4. adm[a].pc = "setPlan" => Cardinality(Counted') <= MaxKeys[adm[a].target]
    <2>1. MaxKeys[adm[a].target] \in Nat
      BY <1>0 DEF TypeOK, AdminState
    <2> QED BY <1>0, <1>3, <2>1 DEF ListingOk
  <1> QED BY <1>1, <1>2, <1>4 DEF ListingOk

LEMMA NextPlan ==
  ASSUME ~LostEvals, ~Restarts, "reads" \notin Outages, KeysInv, PlanInv, [Next]_vars
  PROVE  PlanInv'
  <1>1. PICK p \in recent : /\ \A q \in recent : MaxKeys[q] <= MaxKeys[p]
                            /\ LimitInv(MaxKeys[p])
    BY DEF PlanInv
  <1> DEFINE L == MaxKeys[p]
  <1>2. /\ TypeOK /\ adm \in [Admin -> AdminState] /\ recent \subseteq Plan /\ p \in Plan
        /\ L \in Nat /\ plan \in recent /\ MaxKeys[plan] <= L
    BY <1>1 DEF KeysInv, TypeOK, PlanInv
  <1>3. LimitInv(L) /\ LimitInv(L)'
    <2> HIDE DEF L
    <2>1. LimitInv(L)
      BY <1>1 DEF L
    <2> QED BY <1>2, <2>1, StepLimit
  <1>4. TypeOK'
    BY StepInv DEF KeysInv
  <1> HIDE DEF L
  <1>5. ASSUME UNCHANGED <<plan, recent>>, \A a \in alone' : ListingOk(a)'
        PROVE  PlanInv'
    BY <1>1, <1>2, <1>3, <1>5 DEF PlanInv, L
  <1>6. ASSUME NEW a \in Admin, SetPlan(a)
        PROVE  PlanInv'
    <2>0. PICK t \in Plan : t = adm[a].target
      BY <1>2 DEF AdminState
    <2> DEFINE M == MaxKeys[t]
    <2>1. /\ adm[a].pc = "setPlan" /\ plan' = t /\ alone' = {}
          /\ recent' = (IF a \in alone THEN {} ELSE recent) \cup {t}
          /\ index' = index /\ meta' = meta
      BY <1>6, <2>0 DEF SetPlan
    <2>2. M \in Nat
      OBVIOUS
    <2>3. CASE a \in alone
      <3>1. ListingOk(a)
        BY <2>3 DEF PlanInv
      <3>2. \A b \in Admin : adm'[b].pc # "eval"
        <4>1. AdminFrame(a)
          BY <1>2, <1>6, ListingSteps
        <4>2. adm'[a].pc \in {"idle", "getPlan"}
          BY <1>2, <1>6, ReplyFree DEF SetPlan, Goto, AdminState
        <4> QED BY <3>1, <4>1, <4>2 DEF AdminFrame, ListingOk
      <3>3. Cardinality(Counted') <= M
        BY <2>0, <2>1, <3>1 DEF ListingOk, Counted
      <3> HIDE DEF M
      <3>4. LimitInv(M)'
        <4>1. LimitInv(L)' /\ L \in Nat
          BY <1>2, <1>3
        <4> QED BY <2>2, <3>2, <3>3, <4>1, LimitShrinks
      <3>5. recent' = {t}
        BY <2>1, <2>3
      <3> QED BY <2>1, <2>2, <3>4, <3>5 DEF PlanInv, M
    <2>4. CASE a \notin alone
      <3>1. recent' = recent \cup {t}
        BY <2>1, <2>4
      <3>2. CASE M <= L
        BY <1>1, <1>3, <2>1, <3>1, <3>2 DEF PlanInv, L
      <3>3. CASE ~(M <= L)
        <4>1. L <= M /\ \A q \in recent' : MaxKeys[q] <= M
          <5>1. \A q \in recent : MaxKeys[q] \in Nat /\ MaxKeys[q] <= L
            BY <1>1, <1>2 DEF L
          <5> QED BY <1>2, <2>2, <3>1, <3>3, <5>1
        <4> HIDE DEF M
        <4>2. LimitInv(M)'
          BY <1>2, <1>3, <1>4, <2>2, <4>1, LimitGrows
        <4> QED BY <2>1, <3>1, <4>1, <4>2 DEF PlanInv, M
      <3> QED BY <3>2, <3>3
    <2> QED BY <2>3, <2>4
  <1>7. ASSUME NEW a \in Admin,
               \/ CreateStart(a)
               \/ \E op \in {"provision", "plan"}, q \in Plan : ListStart(a, op, q)
               \/ \E k \in Key : RevokeStart(a, k)
        PROVE  PlanInv'
    <2>1. UNCHANGED <<plan, recent>>
      BY <1>7 DEF CreateStart, ListStart, RevokeStart, Starts
    <2>2. ASSUME NEW b \in alone' PROVE ListingOk(b)'
      <3>1. PICK op \in {"provision", "plan"}, q \in Plan : ListStart(a, op, q)
        BY <1>7, <2>2 DEF CreateStart, RevokeStart, Starts
      <3>2. b = a /\ \A d \in Admin \ {a} : adm[d].pc = "idle"
        BY <2>2, <3>1 DEF ListStart, Starts
      <3>3. adm' = [adm EXCEPT ![a] = [IdleAdmin EXCEPT !.pc = "members", !.op = op,
                                         !.target = q]]
        BY <3>1 DEF ListStart
      <3>4. adm'[a].pc = "members"
        BY <1>2, <3>3 DEF IdleAdmin
      <3>5. \A d \in Admin \ {a} : adm'[d] = adm[d]
        BY <1>2, <3>3
      <3> QED BY <3>2, <3>4, <3>5 DEF ListingOk
    <2> QED BY <1>5, <2>1, <2>2
  <1>8. ASSUME NEW a \in Admin, AdminStep(a) \/ AdminCrash(a), ~SetPlan(a)
        PROVE  PlanInv'
    <2>1. UNCHANGED <<plan, alone, recent>> /\ adm[a].pc # "idle"
      BY <1>8 DEF AdminStep, AdminCrash, ListMembers, ListGet, ProvisionDecide,
         PlanDecide, GetPlan, StoreIfUnderLimit, StoreUnanswered, FallbackDecide,
         Register, RegisterFails, UndoMeta, UndoIndex, CacheNew, RevokeRow,
         RevokeGet, RevokeForget, Quiet, history
    <2>2. ASSUME NEW b \in alone PROVE ListingOk(b)'
      <3>1. ListingOk(b) /\ b \in Admin
        BY <1>2 DEF PlanInv, TypeOK
      <3>2. b = a
        BY <2>1, <3>1 DEF ListingOk
      <3> QED BY <1>2, <1>3, <1>8, <3>1, <3>2, ListingGoesOn
    <2> QED BY <1>5, <2>1, <2>2
  <1>9. ASSUME \/ \E c \in Client :
                    \/ \E k \in Key : AuthStart(c, k)
                    \/ Validate(c)
                    \/ ValidateDrop(c)
               \/ WarmLoad
               \/ \E k \in Key : WarmCache(k) \/ DashboardRevoke(k)
               \/ UNCHANGED vars
        PROVE  PlanInv'
    <2>1. UNCHANGED <<plan, alone, recent>>
      BY <1>9 DEF AuthStart, Validate, ValidateDrop, WarmLoad, WarmCache,
         DashboardRevoke, vars, history
    <2>2. ASSUME NEW a \in alone PROVE ListingOk(a)'
      <3>1. ListingOk(a) /\ a \in Admin
        BY <1>2 DEF PlanInv, TypeOK
      <3> QED BY <1>2, <1>3, <1>9, <3>1, ListingUndisturbed
    <2> QED BY <1>5, <2>1, <2>2
  <1>10. ~RedisRestart
    BY DEF RedisRestart
  <1> QED BY <1>6, <1>7, <1>8, <1>9, <1>10 DEF Next, AdminStep

\* Whatever the plans allow: the keys in use fit the plan of the organisation,
\* or one that it had since its last change of plan that no other request
\* overlapped.  set_org_plan lists the keys before it sets the plan, so that
\* only a change of plan that runs alone can vouch for them; creations, which
\* store_key_if_under_limit decides in one script, may run at any time.
THEOREM ApiKeysFitPlan ==
  ASSUME ~LostEvals, ~Restarts, "reads" \notin Outages
  PROVE  Spec => []KeysFitPlan
  <1>1. KeysInv /\ PlanInv => KeysFitPlan
    <2> SUFFICES ASSUME KeysInv, PlanInv PROVE KeysFitPlan OBVIOUS
    <2>1. PICK p \in recent : LimitInv(MaxKeys[p])
      BY DEF PlanInv
    <2>2. MaxKeys[p] \in Nat
      BY DEF KeysInv, TypeOK
    <2> QED BY <2>1, <2>2, UsableWithinLimit DEF KeysFitPlan
  <1>2. KeysInv /\ PlanInv /\ [Next]_vars => KeysInv' /\ PlanInv'
    BY StepInv, NextPlan
  <1> QED BY <1>1, <1>2, InitInv, InitPlan, PTL DEF Spec

\* In particular the plan of the moment is the limit after a change of plan
\* that ran alone, a downgrade too, until the next change; and for as long as
\* every change since then was an upgrade.
THEOREM ApiKeysKeyLimit ==
  ASSUME ~LostEvals, ~Restarts, "reads" \notin Outages
  PROVE  Spec => []((\A p \in recent : MaxKeys[p] <= MaxKeys[plan]) => KeyLimit)
  <1> DEFINE Largest == \A p \in recent : MaxKeys[p] <= MaxKeys[plan]
  <1>1. KeysInv /\ PlanInv => (Largest => KeyLimit)
    <2> SUFFICES ASSUME KeysInv, PlanInv, Largest PROVE KeyLimit OBVIOUS
    <2>1. PICK p \in recent : LimitInv(MaxKeys[p])
      BY DEF PlanInv
    <2>2. MaxKeys[p] \in Nat /\ MaxKeys[plan] \in Nat /\ MaxKeys[p] <= MaxKeys[plan]
      BY DEF KeysInv, TypeOK
    <2>3. Cardinality(Usable \cap told) <= MaxKeys[p]
      BY <2>1, <2>2, UsableWithinLimit
    <2>4. Cardinality(Usable \cap told) \in Nat
      BY <2>1, CountedFinite, CountFacts DEF LimitInv
    <2> QED BY <2>2, <2>3, <2>4 DEF KeyLimit
  <1>2. KeysInv /\ PlanInv /\ [Next]_vars => KeysInv' /\ PlanInv'
    BY StepInv, NextPlan
  <1> QED BY <1>1, <1>2, InitInv, InitPlan, PTL DEF Spec

-----------------------------------------------------------------------------
(***************************************************************************)
(* No ghost keys.                                                          *)
(***************************************************************************)
\* The request answers for a key that is counted and told to nobody.
Answers(a, k) == adm[a].pc \in {"register", "undoMeta"} /\ adm[a].key = k

\* The part of GhostOk that is about one request.
RequestClean(a) ==
  /\ ~adm[a].fallback /\ adm[a].pc # "cache"
  /\ adm[a].pc = "undoIndex" => meta[adm[a].key] # "active"

LEMMA InitGhost == Init => GhostOk
  BY DEF Init, IdleAdmin, GhostOk, Counted

\* The step of a request keeps the invariant when it leaves no counted key
\* without somebody who answers for it.
LEMMA GhostFrame ==
  ASSUME GhostOk, NEW a \in Admin, AdminFrame(a), RequestClean(a)',
         \A b \in Admin \ {a} :
           adm[b].pc = "undoIndex" => meta'[adm[b].key] # "active",
         \A k \in Counted' : \/ k \in Counted /\ ~Answers(a, k)
                             \/ k \in told'
                             \/ Answers(a, k)'
  PROVE  GhostOk'
  <1>1. warm' = {}
    BY DEF GhostOk, AdminFrame
  <1>2. ASSUME NEW b \in Admin PROVE RequestClean(b)'
    BY DEF GhostOk, AdminFrame, RequestClean
  <1>3. ASSUME NEW k \in Counted'
        PROVE  k \in told' \/ \E b \in Admin : Answers(b, k)'
    <2>1. CASE k \in Counted /\ ~Answers(a, k)
      <3>1. k \in told \/ \E b \in Admin \ {a} : Answers(b, k)
        BY <2>1 DEF GhostOk, Answers
      <3>2. \A b \in Admin \ {a} : Answers(b, k) => Answers(b, k)'
        BY DEF AdminFrame, Answers
      <3> QED BY <3>1, <3>2 DEF AdminFrame
    <2> QED BY <1>3, <2>1
  <1> QED BY <1>1, <1>2, <1>3 DEF GhostOk, RequestClean, Answers

\* ... in particular when it answers for nothing and leaves the copies alone.
LEMMA GhostQuiet ==
  ASSUME GhostOk, NEW a \in Admin, AdminFrame(a), UNCHANGED <<meta, index>>,
         adm[a].pc \notin {"register", "undoMeta"},
         ~adm'[a].fallback, adm'[a].pc \notin {"cache", "undoIndex"}
  PROVE  GhostOk'
  <1>1. Counted' = Counted
    BY DEF Counted
  <1>2. RequestClean(a)'
    BY DEF RequestClean
  <1>3. \A b \in Admin \ {a} :
          adm[b].pc = "undoIndex" => meta'[adm[b].key] # "active"
    BY DEF GhostOk
  <1> QED BY <1>1, <1>2, <1>3, GhostFrame DEF Answers

LEMMA GhostAdmin ==
  ASSUME ~LostEvals, ~Crashes, KeysInv, GhostOk, NEW a \in Admin,
         \/ CreateStart(a)
         \/ \E op \in {"provision", "plan"}, p \in Plan : ListStart(a, op, p)
         \/ \E k \in Key : RevokeStart(a, k)
         \/ AdminStep(a)
         \/ AdminCrash(a)
  PROVE  GhostOk'
  <1>0. /\ TypeOK /\ adm \in [Admin -> AdminState] /\ adm[a] \in AdminState
        /\ meta \in [Key -> Status] /\ index \subseteq Key
        /\ ~adm[a].fallback /\ MakersApart
    BY DEF KeysInv, TypeOK, GhostOk
  <1>1. AdminFrame(a)
    BY <1>0, AdminStepFrame, ListingSteps
  <1> DEFINE k == adm[a].key
  <1>a. /\ \A pc \in Pcs : Goto(a, pc) =>
             adm'[a].pc = pc /\ adm'[a].key = k /\ ~adm'[a].fallback
        /\ \A r \in {"limit", "done", "failed", "created"} : Reply(a, r) =>
             adm'[a].pc = "idle" /\ ~adm'[a].fallback
    BY <1>0, GotoFacts, ReplyFree
  <1>b. Making(a) => \A b \in Admin \ {a} : adm[b].pc = "undoIndex" =>
                       adm[b].key \in Key \ {k} /\ meta[adm[b].key] # "active"
    BY <1>0 DEF MakersApart, Making, GhostOk, TypeOK
  <1>2. CASE \/ CreateStart(a)
             \/ \E op \in {"provision", "plan"}, p \in Plan : ListStart(a, op, p)
             \/ \E d \in Key : RevokeStart(a, d)
             \/ ProvisionDecide(a)
    <2>1. \/ Goto(a, "setPlan")
          \/ \E s \in AdminState : /\ s.pc \in {"idle", "getPlan", "members", "revoke"}
                                   /\ ~s.fallback
                                   /\ adm' = [adm EXCEPT ![a] = s]
      <3>1. CASE CreateStart(a)
        <4> DEFINE s == [IdleAdmin EXCEPT !.pc = "getPlan"]
        <4>1. s \in AdminState /\ s.pc = "getPlan" /\ ~s.fallback
          BY IdleFacts DEF AdminState, IdleAdmin
        <4> QED BY <3>1, <4>1 DEF CreateStart
      <3>2. ASSUME NEW op \in {"provision", "plan"}, NEW p \in Plan, ListStart(a, op, p)
            PROVE  \E s \in AdminState : /\ s.pc = "members" /\ ~s.fallback
                                         /\ adm' = [adm EXCEPT ![a] = s]
        <4> DEFINE s == [IdleAdmin EXCEPT !.pc = "members", !.op = op, !.target = p]
        <4>1. s \in AdminState /\ s.pc = "members" /\ ~s.fallback
          BY IdleFacts DEF AdminState, IdleAdmin
        <4> QED BY <3>2, <4>1 DEF ListStart
      <3>3. ASSUME NEW d \in Key, RevokeStart(a, d)
            PROVE  \E s \in AdminState : /\ s.pc = "revoke" /\ ~s.fallback
                                         /\ adm' = [adm EXCEPT ![a] = s]
        <4> DEFINE s == [IdleAdmin EXCEPT !.pc = "revoke", !.op = "revoke", !.key = d]
        <4>1. s \in AdminState /\ s.pc = "revoke" /\ ~s.fallback
          BY IdleFacts DEF AdminState, IdleAdmin
        <4> QED BY <3>3, <4>1 DEF RevokeStart
      <3>4. ASSUME NEW d \in adm[a].found,
                   adm' = [adm EXCEPT ![a] = [IdleAdmin EXCEPT !.op = "provision",
                                                !.key = d, !.reply = "existing"]]
            PROVE  \E s \in AdminState : /\ s.pc = "idle" /\ ~s.fallback
                                         /\ adm' = [adm EXCEPT ![a] = s]
        <4> DEFINE s == [IdleAdmin EXCEPT !.op = "provision", !.key = d,
                                          !.reply = "existing"]
        <4>1. d \in Key
          BY <1>0 DEF AdminState
        <4>2. s \in AdminState /\ s.pc = "idle" /\ ~s.fallback
          BY <4>1, IdleFacts DEF AdminState, IdleAdmin
        <4> QED BY <3>4, <4>2
      <3> QED BY <1>2, <3>1, <3>2, <3>3, <3>4 DEF ProvisionDecide
    <2>2. ~adm'[a].fallback /\ adm'[a].pc \notin {"cache", "undoIndex"}
      <3>1. CASE Goto(a, "setPlan")
        BY <1>a, <3>1 DEF Pcs
      <3>2. CASE \E s \in AdminState :
                   /\ s.pc \in {"idle", "getPlan", "members", "revoke"}
                   /\ ~s.fallback
                   /\ adm' = [adm EXCEPT ![a] = s]
        BY <1>0, <3>2
      <3> QED BY <2>1, <3>1, <3>2
    <2>3. UNCHANGED <<meta, index>> /\ adm[a].pc \notin {"register", "undoMeta"}
      BY <1>2 DEF CreateStart, ListStart, RevokeStart, ProvisionDecide
    <2> QED BY <1>1, <2>2, <2>3, GhostQuiet
  <1>3. CASE \/ ListMembers(a) \/ (\E d \in Key : ListGet(a, d))
             \/ PlanDecide(a) \/ SetPlan(a) \/ GetPlan(a) \/ RevokeRow(a)
             \/ RevokeGet(a)
    <2>1. ~adm'[a].fallback /\ adm'[a].pc \notin {"cache", "undoIndex"}
      <3>1. CASE ListMembers(a)
        BY <1>0, <3>1 DEF ListMembers, AdminState
      <3>2. ASSUME NEW d \in Key, ListGet(a, d)
            PROVE  ~adm'[a].fallback /\ adm'[a].pc = "gets"
        BY <1>0, <3>2 DEF ListGet, AdminState
      <3>3. CASE GetPlan(a)
        BY <1>0, <3>3 DEF GetPlan, AdminState
      <3>4. CASE PlanDecide(a) \/ SetPlan(a) \/ RevokeRow(a) \/ RevokeGet(a)
        <4>1. \/ \E pc \in {"setPlan", "getPlan", "forget"} : Goto(a, pc)
              \/ \E r \in {"limit", "done", "failed"} : Reply(a, r)
          BY <3>4 DEF PlanDecide, SetPlan, RevokeRow, RevokeGet
        <4> QED BY <1>a, <4>1 DEF Pcs
      <3> QED BY <1>3, <3>1, <3>2, <3>3, <3>4
    <2>2. UNCHANGED <<meta, index>> /\ adm[a].pc \notin {"register", "undoMeta"}
      BY <1>3
         DEF ListMembers, ListGet, PlanDecide, SetPlan, GetPlan, RevokeRow, RevokeGet
    <2> QED BY <1>1, <2>1, <2>2, GhostQuiet
  <1>4. CASE StoreIfUnderLimit(a)
    <2>0. Making(a) /\ k \in Key /\ adm[a].pc = "eval"
      BY <1>4, MakerFacts DEF StoreIfUnderLimit, Making
    <2>1. CASE ~Room(adm[a].limit)
      <3>1. UNCHANGED <<meta, index>> /\ Reply(a, "limit")
        BY <1>4, <2>1 DEF StoreIfUnderLimit, ScriptEffect
      <3> QED BY <1>1, <1>a, <2>0, <3>1, GhostQuiet
    <2>2. CASE Room(adm[a].limit)
      <3>1. /\ meta' = [meta EXCEPT ![k] = "active"]
            /\ index' = index \cup {k}
            /\ \/ Goto(a, "register")
               \/ Reply(a, "created") /\ told' = told \cup {k}
        BY <1>4, <2>2 DEF StoreIfUnderLimit, ScriptEffect, HandOver
      <3>2. /\ ~adm'[a].fallback /\ adm'[a].pc \in {"register", "idle"}
            /\ \/ adm'[a].pc = "register" /\ adm'[a].key = k
               \/ k \in told'
        BY <1>a, <3>1 DEF Pcs
      <3>3. RequestClean(a)'
        BY <3>2 DEF RequestClean
      <3>4. \A b \in Admin \ {a} :
              adm[b].pc = "undoIndex" => meta'[adm[b].key] # "active"
        BY <1>0, <1>b, <2>0, <3>1
      <3>5. \A d \in Counted' : d = k \/ (d \in Counted /\ ~Answers(a, d))
        BY <1>0, <2>0, <3>1 DEF Counted, Answers
      <3>6. \A d \in Counted' : \/ d \in Counted /\ ~Answers(a, d)
                                \/ d \in told'
                                \/ Answers(a, d)'
        BY <3>2, <3>5 DEF Answers
      <3> QED BY <1>1, <3>3, <3>4, <3>6, GhostFrame
    <2> QED BY <2>1, <2>2
  <1>5. CASE StoreUnanswered(a) \/ FallbackDecide(a) \/ CacheNew(a) \/ AdminCrash(a)
    BY <1>0, <1>5 DEF StoreUnanswered, FallbackDecide, CacheNew, AdminCrash, GhostOk
  <1>6. CASE Register(a)
    <2>1. /\ Reply(a, "created") /\ told' = told \cup {k}
          /\ UNCHANGED <<meta, index>>
      BY <1>0, <1>6 DEF Register, HandOver
    <2>2. RequestClean(a)'
      BY <1>a, <2>1 DEF RequestClean
    <2>3. \A b \in Admin \ {a} :
            adm[b].pc = "undoIndex" => meta'[adm[b].key] # "active"
      BY <2>1 DEF GhostOk
    <2>4. \A d \in Counted' : d \in told' \/ (d \in Counted /\ ~Answers(a, d))
      BY <2>1 DEF Counted, Answers
    <2> QED BY <1>1, <2>2, <2>3, <2>4, GhostFrame
  <1>7. CASE RegisterFails(a)
    <2>1. Goto(a, "undoMeta") /\ UNCHANGED <<meta, index>>
      BY <1>0, <1>7 DEF RegisterFails
    <2>2. adm'[a].pc = "undoMeta" /\ adm'[a].key = k /\ ~adm'[a].fallback
      BY <1>a, <2>1 DEF Pcs
    <2>3. RequestClean(a)'
      BY <2>2 DEF RequestClean
    <2>4. \A b \in Admin \ {a} :
            adm[b].pc = "undoIndex" => meta'[adm[b].key] # "active"
      BY <2>1 DEF GhostOk
    <2>5. \A d \in Counted' : Answers(a, d)' \/ (d \in Counted /\ ~Answers(a, d))
      BY <2>1, <2>2 DEF Counted, Answers
    <2> QED BY <1>1, <2>3, <2>4, <2>5, GhostFrame
  <1>8. CASE UndoMeta(a)
    <2>0. k \in Key /\ Making(a)
      BY <1>8, MakerFacts DEF UndoMeta, Making
    <2>1. /\ meta' = [meta EXCEPT ![k] = "absent"] /\ UNCHANGED index
          /\ Goto(a, "undoIndex")
      BY <1>8 DEF UndoMeta
    <2>2. adm'[a].pc = "undoIndex" /\ adm'[a].key = k /\ ~adm'[a].fallback
      BY <1>a, <2>1 DEF Pcs
    <2>3. RequestClean(a)'
      BY <1>0, <2>0, <2>1, <2>2 DEF RequestClean
    <2>4. \A b \in Admin \ {a} :
            adm[b].pc = "undoIndex" => meta'[adm[b].key] # "active"
      BY <1>0, <1>b, <2>0, <2>1
    <2>5. \A d \in Counted' : d \in Counted /\ ~Answers(a, d)
      BY <1>0, <2>0, <2>1 DEF Counted, Answers
    <2> QED BY <1>1, <2>3, <2>4, <2>5, GhostFrame
  <1>9. CASE UndoIndex(a)
    <2>1. /\ UNCHANGED meta /\ index' = index \ {k} /\ Reply(a, "failed")
          /\ adm[a].pc = "undoIndex"
      BY <1>9 DEF UndoIndex
    <2>2. RequestClean(a)'
      BY <1>a, <2>1 DEF RequestClean
    <2>3. \A b \in Admin \ {a} :
            adm[b].pc = "undoIndex" => meta'[adm[b].key] # "active"
      BY <2>1 DEF GhostOk
    <2>4. \A d \in Counted' : d \in Counted /\ ~Answers(a, d)
      BY <2>1 DEF Counted, Answers
    <2> QED BY <1>1, <2>2, <2>3, <2>4, GhostFrame
  <1>10. CASE RevokeForget(a)
    <2> DEFINE v == IF authority THEN "absent" ELSE "revoked"
    <2>1. /\ meta' = [meta EXCEPT ![k] = v] /\ v # "active" /\ UNCHANGED index
          /\ Reply(a, "done") /\ adm[a].pc = "forget"
      BY <1>10 DEF RevokeForget
    <2> HIDE DEF v
    <2>2. RequestClean(a)'
      BY <1>a, <2>1 DEF RequestClean
    <2>3. \A b \in Admin \ {a} :
            adm[b].pc = "undoIndex" => meta'[adm[b].key] # "active"
      <3> SUFFICES ASSUME NEW b \in Admin \ {a}, adm[b].pc = "undoIndex"
                   PROVE  meta'[adm[b].key] # "active"
        OBVIOUS
      <3>1. adm[b].key \in Key /\ meta[adm[b].key] # "active"
        BY <1>0 DEF MakersApart, Making, TypeOK, GhostOk
      <3> QED BY <1>0, <2>1, <3>1
    <2>4. \A d \in Counted' : d \in Counted /\ ~Answers(a, d)
      BY <1>0, <2>1 DEF Counted, Answers
    <2> QED BY <1>1, <2>2, <2>3, <2>4, GhostFrame
  <1> QED
    BY <1>2, <1>3, <1>4, <1>5, <1>6, <1>7, <1>8, <1>9, <1>10 DEF AdminStep

LEMMA GhostOutside ==
  ASSUME ~Restarts, KeysInv, GhostOk,
         \/ \E c \in Client :
              \/ \E k \in Key : AuthStart(c, k)
              \/ Validate(c)
              \/ ValidateDrop(c)
         \/ WarmLoad
         \/ \E k \in Key : WarmCache(k) \/ DashboardRevoke(k)
         \/ RedisRestart
         \/ UNCHANGED vars
  PROVE  GhostOk'
  <1>0. meta \in [Key -> Status] /\ index \subseteq Key /\ warm = {}
    BY DEF KeysInv, TypeOK, GhostOk
  <1>1. UNCHANGED <<index, adm, warm, told>>
    BY <1>0 DEF AuthStart, Validate, ValidateDrop, WarmLoad, WarmCache,
                DashboardRevoke, RedisRestart, vars, history
  <1>2. \A k : meta'[k] = "active" => meta[k] = "active" \/ k \notin Key
    <2>1. CASE UNCHANGED meta
      BY <2>1
    <2>2. ASSUME NEW c \in Client, ValidateDrop(c)
          PROVE  \A k \in Key : meta'[k] = "active" => meta[k] = "active"
      BY <1>0, <2>2 DEF ValidateDrop
    <2> QED
      BY <1>0, <2>1, <2>2
         DEF AuthStart, Validate, WarmLoad, WarmCache, DashboardRevoke,
             RedisRestart, vars, history
  <1>3. Counted' \subseteq Counted
    BY <1>0, <1>1, <1>2 DEF Counted
  <1>4. \A a \in Admin : adm[a].pc = "undoIndex" => meta'[adm[a].key] # "active"
    <2> SUFFICES ASSUME NEW a \in Admin, adm[a].pc = "undoIndex"
                 PROVE  meta'[adm[a].key] # "active"
      OBVIOUS
    <2>1. adm[a].key \in Key
      BY MakerFacts DEF Making
    <2> QED BY <1>2, <2>1 DEF GhostOk
  <1> QED BY <1>1, <1>3, <1>4 DEF GhostOk

\* While the script answers, requests live and Redis keeps its data, a key that
\* takes up room under the limit is in somebody's hands or on its way there:
\* the registration that fails takes its key out of Redis again.
THEOREM ApiKeysNoGhostKeys ==
  ASSUME ~LostEvals, ~Crashes, ~Restarts
  PROVE  Spec => []NoGhostKeys
  <1>1. Init => KeysInv /\ GhostOk
    BY InitInv, InitGhost
  <1>2. KeysInv /\ GhostOk /\ [Next]_vars => KeysInv' /\ GhostOk'
    <2> SUFFICES ASSUME KeysInv, GhostOk, [Next]_vars PROVE GhostOk'
      BY StepInv
    <2> QED BY GhostAdmin, GhostOutside DEF Next
  <1>3. GhostOk => NoGhostKeys
    BY DEF GhostOk, NoGhostKeys
  <1> QED BY <1>1, <1>2, <1>3, PTL DEF Spec
=============================================================================

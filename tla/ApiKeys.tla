------------------------------ MODULE ApiKeys ------------------------------
(***************************************************************************)
(* The API keys of one organisation.  Redis holds the metadata of a key    *)
(* (ps:apikey:{hash}), the index of all hashes (ps:apikeys) and the plan   *)
(* of the organisation; Supabase, when it is configured, holds the rows    *)
(* that decide who is authorised.  Administrators create, provision and    *)
(* revoke keys and change the plan, clients authenticate, replicas start   *)
(* and warm Redis up, the dashboard revokes rows behind the runtime's      *)
(* back.  One step is one Redis command, Lua script or Supabase request.   *)
(*                                                                         *)
(* A key is a model value (its hash); keys are random and never repeat.    *)
(* All keys are of one environment.                                        *)
(***************************************************************************)
EXTENDS Integers, FiniteSets

CONSTANTS
  Key,        \* hashes of the keys that may be created (bounds the creations)
  NoKey,
  Plan,       \* plan ids
  FreePlan,   \* plan of an organisation without assignment
  MaxKeys,    \* max_keys of each plan
  Admin,      \* concurrent admin requests
  Client,     \* concurrent authentications
  AdminOps,   \* which of create, provision, revoke, plan the admins use
  Authorities, \* with Supabase, without it, or both
  Outages,    \* which Supabase requests, reads or writes, may fail
  LostEvals,  \* a Lua evaluation may fail, before or after it took effect
  Crashes,    \* an admin request may die half-way
  Restarts,   \* Redis may restart empty
  Dashboard   \* the dashboard may revoke rows

ASSUME NoKeyAssumption == NoKey \notin Key
ASSUME PlanAssumption == FreePlan \in Plan /\ MaxKeys \in [Plan -> Nat]
ASSUME OpsAssumption == AdminOps \subseteq {"create", "provision", "revoke", "plan"}
ASSUME FlagAssumption ==
  /\ Authorities \subseteq BOOLEAN
  /\ Outages \subseteq {"reads", "writes"}
  /\ {LostEvals, Crashes, Restarts, Dashboard} \subseteq BOOLEAN

Status == {"absent", "active", "revoked"}

VARIABLES
  authority, \* Supabase is configured, which the start of the service decides
  row,      \* ps_api_keys in Supabase
  meta,     \* ps:apikey:{hash}
  index,    \* ps:apikeys
  plan,     \* ps:org_plan:{org}
  adm,      \* running admin requests
  cli,      \* running authentications
  warm,     \* keys that a starting replica has loaded and still has to cache
  made,     \* history: keys ever generated
  told,     \* history: keys whose raw form reached the administrator
  alone,    \* history: the change of plan that no other request overlaps
  recent    \* history: plans set since the last change that ran alone

history == <<alone, recent>>
vars == <<authority, row, meta, index, plan, adm, cli, warm, made, told, history>>

AdminState ==
  [pc : {"idle", "members", "gets", "setPlan", "getPlan", "eval", "register",
         "undoMeta", "undoIndex", "cache", "revoke", "forget"},
   op : {"create", "provision", "revoke", "plan"}, target : Plan, key : Key \cup {NoKey},
   limit : Nat, sent : {1, 2}, fallback : BOOLEAN,
   todo : SUBSET Key, found : SUBSET Key,
   reply : {"none", "done", "created", "existing", "limit", "failed"}]

ClientState == [pc : {"idle", "ask", "drop"}, key : Key \cup {NoKey}, late : BOOLEAN,
                reply : {"none", "granted", "denied"}]

IdleAdmin == [pc |-> "idle", op |-> "create", target |-> FreePlan, key |-> NoKey,
              limit |-> 0, sent |-> 1, fallback |-> FALSE, todo |-> {},
              found |-> {}, reply |-> "none"]

IdleClient == [pc |-> "idle", key |-> NoKey, late |-> FALSE, reply |-> "none"]

TypeOK ==
  /\ authority \in BOOLEAN
  /\ row \in [Key -> Status]
  /\ meta \in [Key -> Status]
  /\ index \subseteq Key
  /\ plan \in Plan
  /\ adm \in [Admin -> AdminState]
  /\ cli \in [Client -> ClientState]
  /\ warm \subseteq Key
  /\ made \subseteq Key
  /\ told \subseteq made
  /\ alone \subseteq Admin
  /\ recent \subseteq Plan

\* The keys an authentication accepts.
Usable == {k \in Key : IF authority THEN row[k] = "active" ELSE meta[k] = "active"}

Revoked(k) == IF authority THEN row[k] = "revoked" ELSE meta[k] = "revoked"

\* The keys that the runtime counts and lists.
Counted == {k \in index : meta[k] = "active"}

Unused == Key \ made
NewKey == CHOOSE k \in Unused : TRUE

-----------------------------------------------------------------------------
(***************************************************************************)
(* Admin requests.                                                         *)
(***************************************************************************)
Goto(a, pc) == adm' = [adm EXCEPT ![a].pc = pc]

\* The request ends.
Reply(a, r) == adm' = [adm EXCEPT ![a] = [IdleAdmin EXCEPT !.op = adm[a].op,
                                            !.key = adm[a].key, !.reply = r]]

\* The raw key is returned to the administrator, once.
HandOver(a) == Reply(a, "created") /\ told' = told \cup {adm[a].key}

Elsewhere == UNCHANGED <<cli, warm, authority>>
Quiet == Elsewhere /\ UNCHANGED history

\* A request starts, and none that changes the plan runs alone any more,
\* unless it is one itself while no other request runs.
Starts(changers) ==
  /\ alone' = {a \in changers : \A b \in Admin \ {a} : adm[b].pc = "idle"}
  /\ UNCHANGED recent /\ Elsewhere

CreateStart(a) ==
  /\ adm[a].pc = "idle" /\ "create" \in AdminOps
  /\ adm' = [adm EXCEPT ![a] = [IdleAdmin EXCEPT !.pc = "getPlan"]]
  /\ UNCHANGED <<row, meta, index, plan, made, told>> /\ Starts({})

\* Provisioning and changing the plan list the keys first.
ListStart(a, op, p) ==
  /\ adm[a].pc = "idle" /\ op \in AdminOps \cap {"provision", "plan"}
  /\ adm' = [adm EXCEPT ![a] = [IdleAdmin EXCEPT !.pc = "members", !.op = op,
                                  !.target = p]]
  /\ UNCHANGED <<row, meta, index, plan, made, told>> /\ Starts({a})

\* list_keys and count_active_keys: SMEMBERS of the index ...
ListMembers(a) ==
  /\ adm[a].pc = "members"
  /\ adm' = [adm EXCEPT ![a].pc = "gets", ![a].todo = index, ![a].found = {}]
  /\ UNCHANGED <<row, meta, index, plan, made, told>> /\ Quiet

\* ... then one GET per hash; only the active ones matter to the callers.
ListGet(a, k) ==
  /\ adm[a].pc = "gets" /\ k \in adm[a].todo
  /\ adm' = [adm EXCEPT ![a].todo = @ \ {k},
               ![a].found = IF meta[k] = "active" THEN @ \cup {k} ELSE @]
  /\ UNCHANGED <<row, meta, index, plan, made, told>> /\ Quiet

\* Provision: an active key of the environment is returned, no other is made.
ProvisionDecide(a) ==
  /\ adm[a].pc = "gets" /\ adm[a].todo = {} /\ adm[a].op = "provision"
  /\ ~adm[a].fallback
  /\ \/ /\ adm[a].found # {}
        /\ \E k \in adm[a].found :
             adm' = [adm EXCEPT ![a] = [IdleAdmin EXCEPT !.op = "provision",
                                          !.key = k, !.reply = "existing"]]
     \/ adm[a].found = {} /\ Goto(a, "setPlan")
  /\ UNCHANGED <<row, meta, index, plan, made, told>> /\ Quiet

\* Mutant: the listed keys are compared with the limit of the old plan.
PlanDecideOld(a) ==
  /\ adm[a].pc = "gets" /\ adm[a].todo = {} /\ adm[a].op = "plan"
  /\ IF Cardinality(adm[a].found) > MaxKeys[plan]
       THEN Reply(a, "limit")
       ELSE Goto(a, "setPlan")
  /\ UNCHANGED <<row, meta, index, plan, made, told>> /\ Quiet

\* set_org_plan refuses a plan that the listed keys do not fit.
PlanDecide(a) ==
  /\ adm[a].pc = "gets" /\ adm[a].todo = {} /\ adm[a].op = "plan"
  /\ IF Cardinality(adm[a].found) > MaxKeys[adm[a].target]
       THEN Reply(a, "limit")
       ELSE Goto(a, "setPlan")
  /\ UNCHANGED <<row, meta, index, plan, made, told>> /\ Quiet

SetPlan(a) ==
  /\ adm[a].pc = "setPlan"
  /\ plan' = adm[a].target
  /\ recent' = (IF a \in alone THEN {} ELSE recent) \cup {adm[a].target}
  /\ IF adm[a].op = "provision" THEN Goto(a, "getPlan") ELSE Reply(a, "done")
  /\ alone' = {}
  /\ UNCHANGED <<row, meta, index, made, told>> /\ Elsewhere

\* CreateApiKeyUseCase: the plan's limit, and a new random key.
GetPlan(a) ==
  /\ adm[a].pc = "getPlan"
  /\ Unused # {}
  /\ adm' = [adm EXCEPT ![a].pc = "eval", ![a].limit = MaxKeys[plan],
                        ![a].key = NewKey]
  /\ made' = made \cup {NewKey}
  /\ UNCHANGED <<row, meta, index, plan, told>> /\ Quiet

\* Mutant: off by one.
RoomInclusive(limit) == Cardinality(Counted) <= limit

\* The Lua script counts and stores in one step.
Room(limit) == Cardinality(Counted) < limit

ScriptEffect(a) ==
  IF Room(adm[a].limit)
  THEN /\ meta' = [meta EXCEPT ![adm[a].key] = "active"]
       /\ index' = index \cup {adm[a].key}
  ELSE UNCHANGED <<meta, index>>

StoreIfUnderLimit(a) ==
  /\ adm[a].pc = "eval"
  /\ ScriptEffect(a)
  /\ IF ~Room(adm[a].limit) THEN Reply(a, "limit") /\ UNCHANGED told
     ELSE IF authority THEN Goto(a, "register") /\ UNCHANGED told
     ELSE HandOver(a)
  /\ UNCHANGED <<row, plan, made>> /\ Quiet

\* The reply of the script is lost, or the script does not run: the client
\* sends it a second time, then store_key_if_under_limit falls back to
\* counting and storing in separate commands.
StoreUnanswered(a) ==
  /\ LostEvals
  /\ adm[a].pc = "eval"
  /\ ScriptEffect(a) \/ UNCHANGED <<meta, index>>
  /\ adm' = [adm EXCEPT
       ![a] = IF @.sent = 1 THEN [@ EXCEPT !.sent = 2]
              ELSE [@ EXCEPT !.pc = "members", !.fallback = TRUE]]
  /\ UNCHANGED <<row, plan, made, told>> /\ Quiet

FallbackDecide(a) ==
  /\ adm[a].pc = "gets" /\ adm[a].todo = {} /\ adm[a].fallback
  /\ IF Cardinality(adm[a].found) >= adm[a].limit THEN Reply(a, "limit")
     ELSE Goto(a, IF authority THEN "register" ELSE "cache")
  /\ UNCHANGED <<row, meta, index, plan, made, told>> /\ Quiet

\* register_key inserts the row; a failed insert may have happened or not.
Register(a) ==
  /\ adm[a].pc = "register"
  /\ row' = [row EXCEPT ![adm[a].key] = "active"]
  /\ IF adm[a].fallback THEN Goto(a, "cache") /\ UNCHANGED told
     ELSE HandOver(a)
  /\ UNCHANGED <<meta, index, plan, made>> /\ Quiet

\* Mutant: a failed registration is not compensated in Redis.
RegisterFailsLeaving(a) ==
  /\ "writes" \in Outages
  /\ adm[a].pc = "register"
  /\ Reply(a, "failed")
  /\ UNCHANGED <<row, meta, index, plan, made, told>> /\ Quiet

RegisterFails(a) ==
  /\ "writes" \in Outages
  /\ adm[a].pc = "register"
  /\ UNCHANGED row \/ row' = [row EXCEPT ![adm[a].key] = "active"]
  /\ IF adm[a].fallback THEN Reply(a, "failed") ELSE Goto(a, "undoMeta")
  /\ UNCHANGED <<meta, index, plan, made, told>> /\ Quiet

UndoMeta(a) ==
  /\ adm[a].pc = "undoMeta"
  /\ meta' = [meta EXCEPT ![adm[a].key] = "absent"]
  /\ Goto(a, "undoIndex")
  /\ UNCHANGED <<row, index, plan, made, told>> /\ Quiet

UndoIndex(a) ==
  /\ adm[a].pc = "undoIndex"
  /\ index' = index \ {adm[a].key}
  /\ Reply(a, "failed")
  /\ UNCHANGED <<row, meta, plan, made, told>> /\ Quiet

\* store_key of the fallback: cache_key, SET before SADD in one pipeline.
CacheNew(a) ==
  /\ adm[a].pc = "cache"
  /\ meta' = [meta EXCEPT ![adm[a].key] = "active"]
  /\ index' = index \cup {adm[a].key}
  /\ HandOver(a)
  /\ UNCHANGED <<row, plan, made>> /\ Quiet

RevokeStart(a, k) ==
  /\ adm[a].pc = "idle" /\ "revoke" \in AdminOps
  /\ k \in told
  /\ adm' = [adm EXCEPT ![a] = [IdleAdmin EXCEPT !.pc = "revoke", !.op = "revoke",
                                  !.key = k]]
  /\ UNCHANGED <<row, meta, index, plan, made, told>> /\ Starts({})

\* revoke_key with an authority: the row first ...
RevokeRow(a) ==
  /\ authority
  /\ adm[a].pc = "revoke"
  /\ \/ /\ row' = [row EXCEPT ![adm[a].key] = "revoked"]
        /\ Goto(a, "forget") \/ ("writes" \in Outages /\ Reply(a, "failed"))
     \/ "writes" \in Outages /\ Reply(a, "failed") /\ UNCHANGED row
  /\ UNCHANGED <<meta, index, plan, made, told>> /\ Quiet

\* ... standalone: GET of the metadata.
RevokeGet(a) ==
  /\ ~authority
  /\ adm[a].pc = "revoke"
  /\ IF meta[adm[a].key] = "absent" THEN Reply(a, "failed") ELSE Goto(a, "forget")
  /\ UNCHANGED <<row, meta, index, plan, made, told>> /\ Quiet

\* Then the Redis copy: deleted with an authority, rewritten standalone.
RevokeForget(a) ==
  /\ adm[a].pc = "forget"
  /\ meta' = [meta EXCEPT ![adm[a].key] = IF authority THEN "absent" ELSE "revoked"]
  /\ Reply(a, "done")
  /\ UNCHANGED <<row, index, plan, made, told>> /\ Quiet

AdminCrash(a) ==
  /\ Crashes
  /\ adm[a].pc # "idle"
  /\ Reply(a, "failed")
  /\ UNCHANGED <<row, meta, index, plan, made, told>> /\ Quiet

-----------------------------------------------------------------------------
(***************************************************************************)
(* Clients.                                                                *)
(***************************************************************************)
\* An authentication starts; late: its key was revoked before.
AuthStart(c, k) ==
  /\ cli[c].pc = "idle"
  /\ k \in told
  /\ cli' = [cli EXCEPT ![c] = [pc |-> "ask", key |-> k, reply |-> "none",
                                  late |-> Revoked(k)]]
  /\ UNCHANGED <<row, meta, index, plan, adm, warm, made, told, authority, history>>

\* Mutant: a warm Redis copy is a positive answer.
ValidateCached(c) ==
  LET k == cli[c].key
  IN
  /\ cli[c].pc = "ask"
  /\ cli' = [cli EXCEPT ![c].reply = IF meta[k] = "active" \/ row[k] = "active"
                                     THEN "granted" ELSE "denied",
                        ![c].pc = "idle"]
  /\ UNCHANGED <<row, meta, index, plan, adm, warm, made, told, authority, history>>

\* validate_key: the authority decides on every call; when it does not know
\* the key, or does not answer, the Redis copy is deleted.
Validate(c) ==
  LET k == cli[c].key
      granted == [cli EXCEPT ![c].pc = "idle", ![c].reply = "granted"]
  IN
  /\ cli[c].pc = "ask"
  /\ \/ k \in Usable /\ cli' = granted
     \/ /\ authority /\ (k \notin Usable \/ "reads" \in Outages)
        /\ cli' = [cli EXCEPT ![c].pc = "drop"]
     \/ /\ ~authority /\ k \notin Usable
        /\ cli' = [cli EXCEPT ![c].pc = "idle", ![c].reply = "denied"]
  /\ UNCHANGED <<row, meta, index, plan, adm, warm, made, told, authority, history>>

ValidateDrop(c) ==
  /\ cli[c].pc = "drop"
  /\ meta' = [meta EXCEPT ![cli[c].key] = "absent"]
  /\ cli' = [cli EXCEPT ![c].pc = "idle", ![c].reply = "denied"]
  /\ UNCHANGED <<row, index, plan, adm, warm, made, told, authority, history>>

-----------------------------------------------------------------------------
(***************************************************************************)
(* Replicas, dashboard, Redis.                                             *)
(***************************************************************************)
\* A starting replica loads the active rows ...
WarmLoad ==
  /\ authority /\ Restarts
  /\ warm = {}
  /\ warm' = {k \in Key : row[k] = "active"}
  /\ warm' # {}
  /\ UNCHANGED <<row, meta, index, plan, adm, cli, made, told, authority, history>>

\* ... and caches them one by one.
WarmCache(k) ==
  /\ k \in warm
  /\ warm' = warm \ {k}
  /\ meta' = [meta EXCEPT ![k] = "active"]
  /\ index' = index \cup {k}
  /\ UNCHANGED <<row, plan, adm, cli, made, told, authority, history>>

RedisRestart ==
  /\ Restarts
  /\ meta' = [k \in Key |-> "absent"]
  /\ index' = {}
  /\ plan' = FreePlan
  /\ recent' = recent \cup {FreePlan}
  /\ UNCHANGED <<row, adm, cli, warm, made, told, authority, alone>>

DashboardRevoke(k) ==
  /\ Dashboard /\ authority
  /\ row[k] = "active"
  /\ row' = [row EXCEPT ![k] = "revoked"]
  /\ UNCHANGED <<meta, index, plan, adm, cli, warm, made, told, authority, history>>

-----------------------------------------------------------------------------
Init ==
  /\ authority \in Authorities
  /\ row = [k \in Key |-> "absent"]
  /\ meta = [k \in Key |-> "absent"]
  /\ index = {}
  /\ plan = FreePlan
  /\ adm = [a \in Admin |-> IdleAdmin]
  /\ cli = [c \in Client |-> IdleClient]
  /\ warm = {}
  /\ made = {}
  /\ told = {}
  /\ alone = {}
  /\ recent = {FreePlan}

AdminStep(a) ==
  \/ ListMembers(a)
  \/ \E k \in Key : ListGet(a, k)
  \/ ProvisionDecide(a)
  \/ PlanDecide(a)
  \/ SetPlan(a)
  \/ GetPlan(a)
  \/ StoreIfUnderLimit(a)
  \/ StoreUnanswered(a)
  \/ FallbackDecide(a)
  \/ Register(a)
  \/ RegisterFails(a)
  \/ UndoMeta(a)
  \/ UndoIndex(a)
  \/ CacheNew(a)
  \/ RevokeRow(a)
  \/ RevokeGet(a)
  \/ RevokeForget(a)

Next ==
  \/ \E a \in Admin :
       \/ CreateStart(a)
       \/ \E op \in {"provision", "plan"}, p \in Plan : ListStart(a, op, p)
       \/ \E k \in Key : RevokeStart(a, k)
       \/ AdminStep(a)
       \/ AdminCrash(a)
  \/ \E c \in Client :
       \/ \E k \in Key : AuthStart(c, k)
       \/ Validate(c)
       \/ ValidateDrop(c)
  \/ WarmLoad
  \/ \E k \in Key : WarmCache(k) \/ DashboardRevoke(k)
  \/ RedisRestart

Spec == Init /\ [][Next]_vars

-----------------------------------------------------------------------------
\* The keys in use fit the plan of the organisation, or one that it had since
\* its last change of plan that no other request overlapped: creations that run
\* at once never pass the limit together, and a change of plan that runs alone
\* leaves no more keys than the new plan allows.
KeysFitPlan == \E p \in recent : Cardinality(Usable \cap told) <= MaxKeys[p]

\* Never are more keys in use than the plan of the moment allows.
KeyLimit == Cardinality(Usable \cap told) <= MaxKeys[plan]

\* An authentication that starts after its key was revoked is never granted,
\* whatever copy of the key Redis holds and whatever warms it up again.
RevocationIsFinal ==
  \A c \in Client : cli[c].late => cli[c].reply # "granted"

\* A key that takes up room under the limit was handed over to somebody, or a
\* request is still making it: a registration that fails leaves none behind.
NoGhostKeys ==
  \A k \in Counted :
    k \in told \/ \E a \in Admin : adm[a].pc # "idle" /\ adm[a].key = k

\* Provisioning is idempotent: an organisation that has a usable key gets no
\* second one from provisioning.
ProvisionOnce ==
  \A a, b \in Admin :
    /\ a # b
    /\ adm[a].op = "provision" /\ adm[a].reply = "created"
    /\ adm[b].op = "provision" /\ adm[b].reply = "created"
    => adm[a].key \notin Usable \/ adm[b].key \notin Usable

\* A provisioning that finds no active key leaves the plan alone and makes no
\* key while the organisation has a usable one that it was told about.
ProvisionKeepsExisting ==
  [][\A a \in Admin :
       adm[a].pc = "gets" /\ adm'[a].pc = "setPlan" /\ adm[a].op = "provision"
         => told \cap Usable = {}]_vars

\* A revoked key never takes up room under the limit nor is listed as active
\* again, unless its revocation is still on the way to the Redis copy.
RevokedStaysOut ==
  \A k \in Counted :
    Revoked(k) => \E a \in Admin : adm[a].pc = "forget" /\ adm[a].key = k

\* After a revocation the key's metadata is still in Redis, marked inactive.
RevokedKeysAreKept ==
  \A a \in Admin :
    adm[a].op = "revoke" /\ adm[a].reply = "done" => meta[adm[a].key] = "revoked"

-----------------------------------------------------------------------------
(***************************************************************************)
(* Why RevocationIsFinal holds: keys become usable while they are made,    *)
(* and a key that is still being made is known to nobody.                  *)
(***************************************************************************)
Making(a) ==
  \/ adm[a].pc \in {"eval", "register", "undoMeta", "undoIndex", "cache"}
  \/ adm[a].pc \in {"members", "gets"} /\ adm[a].fallback

MakersApart ==
  /\ \A a \in Admin : Making(a) => adm[a].key \in made \ told
  /\ \A a, b \in Admin :
       a # b /\ Making(a) /\ Making(b) => adm[a].key # adm[b].key

LateBarred ==
  \A c \in Client :
    cli[c].pc = "ask" =>
      /\ cli[c].key \in told
      /\ cli[c].late => cli[c].key \notin Usable

ColdStandalone == authority \/ warm = {}

\* The inductive invariant: a told key that is not usable stays unusable, since
\* every request that can make a key usable still has it to itself.
KeysInv ==
  /\ TypeOK
  /\ MakersApart
  /\ LateBarred
  /\ ColdStandalone
  /\ RevocationIsFinal

-----------------------------------------------------------------------------
(***************************************************************************)
(* Why KeysFitPlan holds while the script answers, Redis keeps its data    *)
(* and the authority can be read: what a request has counted stays counted *)
(* until the key can no longer be used.                                    *)
(***************************************************************************)
\* No request counts and stores in separate commands; one that registers has
\* its key under the limit, one that forgets has taken the key out of use.
RequestOk(L, a) ==
  /\ ~adm[a].fallback /\ adm[a].pc # "cache"
  /\ adm[a].pc = "eval" => adm[a].limit <= L
  /\ adm[a].pc = "register" => adm[a].key \in Counted
  /\ adm[a].pc \in {"revoke", "forget"} => adm[a].key \in told
  /\ adm[a].pc = "forget" /\ authority => adm[a].key \notin Usable

\* A copy is dropped because its key is not usable.
DropOk(c) == cli[c].pc = "drop" => cli[c].key \in told \ Usable

LimitInv(L) ==
  /\ \A a \in Admin : RequestOk(L, a)
  /\ \A c \in Client : DropOk(c)
  /\ warm = {}
  /\ IsFiniteSet(index)
  /\ Usable \cap told \subseteq Counted
  /\ Cardinality(Counted) <= L

\* A change of plan that runs alone has listed every key that is counted.
ListingOk(a) ==
  /\ \A b \in Admin \ {a} : adm[b].pc = "idle"
  /\ adm[a].pc = "gets" => /\ Counted \subseteq adm[a].found \cup adm[a].todo
                           /\ adm[a].found \cup adm[a].todo \subseteq index
  /\ adm[a].pc = "setPlan" => Cardinality(Counted) <= MaxKeys[adm[a].target]

\* Some recent plan is the largest of them, and its limit is the one to keep.
PlanInv ==
  /\ plan \in recent
  /\ \E p \in recent : /\ \A q \in recent : MaxKeys[q] <= MaxKeys[p]
                       /\ LimitInv(MaxKeys[p])
  /\ \A a \in alone : ListingOk(a)

(***************************************************************************)
(* Why NoGhostKeys holds when requests do not die either: a key is counted *)
(* from its script to its registration or the first half of its removal.   *)
(***************************************************************************)
GhostOk ==
  /\ warm = {}
  /\ \A a \in Admin :
       /\ ~adm[a].fallback /\ adm[a].pc # "cache"
       /\ adm[a].pc = "undoIndex" => meta[adm[a].key] # "active"
  /\ \A k \in Counted :
       k \in told \/ \E a \in Admin : adm[a].pc \in {"register", "undoMeta"}
                                      /\ adm[a].key = k
=============================================================================

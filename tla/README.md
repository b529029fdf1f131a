# Privacy Shield: specifications, model checks and proofs

Privacy Shield replaces personal data in texts by tokens, keeps the encrypted
originals in a vault in Redis and puts them back on request. This directory
holds TLA+ specifications of the service (`src/app`) and of the programs that make
and measure its neural model (`src/dataset`, `src/inference`, `src/eval`), the TLC
configurations that check them on small instances, and proofs, checked by TLAPS,
for instances of any size. `PROJECT.json` maps every definition to the source lines
it translates.

1. The system
2. The modules
3. What is checked
4. Fairness
5. What is proved
6. Where the code and its documentation part
7. What is not modelled
8. Plan

## 1. The system

### Components, their state and operations

| Component | Source (below `src/`) | State | Operations |
| --- | --- | --- | --- |
| Token vault | `app/infrastructure/adapters/redis_vault.py` | `ps:{org}:{req}:{hash}` ciphertexts with a TTL, `ps:req:{org}:{req}` index sets, `ps:dek:{org}`, `ps:revision:{org}`, `ps:rotation:{org}:..` recorded answers | store, retrieve batch with DEK, register, flush, set DEK if absent, snapshot and commit of a rotation, count |
| Encryption | `.../aes_crypto.py` | none (the wrapped DEK is in the vault) | get or create DEK, encrypt, decrypt, keyed hash |
| Use cases | `app/application/*.py` | locals of the running call | tokenize, rehydrate, flush, rotate, create / revoke key, provision |
| Token naming | `_CollisionTracker` in `tokenize_text.py`, `routes.py` | names known to a call, tokens the client carries along | seed, find or allocate, merge between texts |
| Detection and fusion | `regex_detection.py`, `ner_detection.py`, `composite_detection.py`, `span_fusion.py` | none | detect, sort, resolve overlaps, merge neighbours |
| API keys | `redis_api_key.py`, `supabase_api_key_loader.py`, `create_api_key.py`, `revoke_api_key.py` | `ps:apikey:{hash}`, `ps:apikeys`, rows `ps_api_keys` in Supabase | store if under limit, fallback, register, list, validate, revoke, warm up |
| Plans and provisioning | `redis_org_plan.py`, `provision_org.py`, `plans.py` | `ps:org_plan:{org}` | get / set plan, provision |
| Quotas | `tokenize_text.py`, `redis_api_key.py` | monthly counter; the vault itself | reserve, roll back, count |
| Rate limit | `auth.py`, `redis_api_key.py` | a counter per key and calendar minute | check |
| Lifecycle | `main.py`, `container.py` | shutdown flag, count of running requests, connection pool | start, guard, drain with its deadline, sweep of index sets, close |
| Metrics | `metrics.py`, `telemetry.py` | labelled counters, a ring of the last 10,000 latencies, overall and per label | count, observe, snapshot, exposition |
| Dashboard | `platform/web` | rows in Supabase, Stripe customers and subscriptions | keys, organisations, checkout, billing webhook |
| SDKs | `sdks/js`, `sdks/java` | none | HTTP calls |
| Dataset pipeline | `dataset` | JSONL files and Arrow datasets in directories | download, convert, generate, validate, clean, format, split, label |
| Stand-alone inference | `inference` | none | decode labels, trim, merge with the regex spans |
| Evaluation | `eval` | a report | match exactly and partially, confusion, compare configurations |
| Training, export | `training`, `export` | model files | batch programs around libraries |

### Interactions

Requests enter through FastAPI (`routes.py`). `auth.py` validates the key
against Supabase (the authority, when it is configured) and Redis, and counts
the request. A tokenize call handles its texts one after the other: it reads the
vault's fill level, fetches or creates the DEK, detects and fuses spans, reserves
the month's quota, names every value, encrypts it and stores it, each store a
WATCH / MULTI / EXEC on the DEK key and the revision; then the token is
registered in the index set of the request. Rehydrate reads DEK and ciphertexts
in one MGET. Flush reads the index set and unlinks. A rotation takes a snapshot,
re-encrypts it under a new DEK and commits it in one EXEC guarded by WATCHes on
the revision, the DEK, the recorded answer and all tokens. Several replicas share
Redis and Supabase; nothing but Redis orders them. The dashboard writes the same
Supabase rows behind the service's back.

When a process stops it raises a flag that the guard in front of every route
reads, waits for the running requests or for ten seconds, unlinks the index sets
it finds, and closes Redis. Requests run on, in the same event loop, meanwhile.

The neural detector is made elsewhere: the programs of `dataset` turn rows of public
datasets and generated examples into texts with character offsets, then into BIO
labels of the model's tokens. Three programs read such labels back, each with rules
of its own: the service (`ner_detection.py`), window by window; the stand-alone engine
(`inference.py`); and the scoring, which compares what the latter finds with the
offsets of the beginning. The files between the programs are their only
connection, and the programs are run by hand.

### What is hard here

- Every call is a sequence of Redis round trips; asyncio, several replicas and
  several clients interleave at each of them.
- Keys expire between any two commands.
- The client library resends commands whose answer timed out
  (`container.py`, `retry_on_timeout=True`), callers retry rotations, scripts are
  replaced by fallbacks of separate commands.
- A call is cancelled at its deadline, a process dies, Redis restarts empty (the
  deployment keeps nothing on disk), Supabase does not answer.
- Values read early (DEK, key listing, plan, fill level, warm-up) are used late.
- Fusion and naming are sequential, but their result depends on the order and the
  combination of what was found, and on what earlier texts and turns did.
- A shutdown counts requests that arrive, hang and fail while it waits for them.
- A name on the border of two windows is read in two parts, each with labels of its
  own; of the tokens of a word only the first has a label that was taught.
- Offsets are rebuilt from words, words from tokens, entities from labels, by
  programs that must agree on every border.
- The programs of the pipeline are run again, in another order, and interrupted,
  over files that are already there.

### What makes each component correct

- Vault: a live ciphertext is always under the stored DEK; a rotation is invisible
  to readers, has one answer per operation id and revives nothing; what is live
  can be flushed; every call ends.
- Naming: a token that a client holds never comes to stand for another value.
- Fusion: spans that are replaced are in order and disjoint, nothing that deserves
  to be hidden shows, and the text comes back.
- API keys: no more keys in use than the plan allows; a revoked key is refused for
  ever; failures leave nothing behind that takes up room.
- Quotas and limits: what was accepted stays within the limit under every
  interleaving; a check that is not atomic misses by a known bound only.
- Lifecycle: Redis is closed under no request that uses it, the sweep is complete,
  and a shutdown ends whatever the requests do.
- Metrics: the samples are the latest, the percentiles are of the samples, and the lines of
  the exposition agree with one another.
- NER: what was taught is read back exactly; what the model recognises is hidden
  wherever a window is cut; the engines agree.
- Dataset: entities are the tagged words, the validators agree, the parts of a
  split are a partition, what was cleaned stays clean.
- Evaluation: every entity and every prediction is counted once.

## 2. The modules

| Module | What it is |
| --- | --- |
| `Vault` | The vault and the four use cases on it, one Redis round trip per step; its invariants |
| `VaultService` | The abstract vault: readable tokens, atomic rotations |
| `VaultRefinement` | The mapping from `Vault` to `VaultService` (`ImplementsService`) |
| `VaultProofs` | Their theorems |
| `TokenNaming`, `TokenNamingProofs` | Names of values over texts, calls and turns of a conversation |
| `Spans` | What a span is, which of two wins, when two are neighbours |
| `SpanFusion`, `SpanFusionProofs` | From detected spans to the tokenized text and back |
| `ApiKeys`, `ApiKeysProofs` | Keys, plans, provisioning, authentication, Supabase, the dashboard's revocation |
| `Quotas` | The vault quota and the monthly quota of tokenize calls |
| `RateLimit` | The per-minute counters |
| `LimitsProofs` | The theorems of both |
| `Counting`, `CountingProofs` | Sums and sorted listings of finite sets, by numbers of elements (operators), and the lemmas about them |
| `Metrics` | Counters, rings of samples, percentiles, exposition (operators) |
| `Lifecycle`, `LifecycleProofs` | One process from start to stop, with its requests and metrics |
| `Annotation` | Rows of words to spans to labels, and the two validators (operators) |
| `Generators` | The examples of the two template generators (sets) |
| `NerDetection` | Windows, reconstruction and trimming, of the service and of the stand-alone engine (operators) |
| `Evaluation` | Matching and scoring (operators) |
| `NerChain` | One row on its way through all of these |
| `DatasetFiles` | The programs of the pipeline and the files they leave |
| `TrainingProofs` | The theorems about the files, and about the windows in `NerChain` |
| `MC...` | Instances for TLC: constants, symmetry. `MCLimits` and `MCTraining` join two modules |

`Vault`, `TokenNaming`, `Quotas` and `SpanFusion` are four views of the same
`TokenizeTextUseCase.execute`: storage under rotation, names, accounting,
replacement of text. Each abstracts from what the others are about. A
ciphertext is the DEK it is under (`Vault`), a stored value is the value
(`TokenNaming`), a stored token is one unit of a set's size (`Quotas`), a token
is the value it stands for (`SpanFusion`).

**Vault.** `dek`, `cipher`, `ttl`, `index`, `indexTtl`, `rev`, `result` are the
keys in Redis. `tz`, `fl`, `ro` are the locals of running tokenize, flush and
rotation calls; `pc` names the next command. `dirty` is the set of connections
whose WATCH was invalidated: each action that writes a key adds the calls that
watch it (`DekWatchers`, `RevWatchers`, `TokenWatchers`), expiry included.
`Tick` ages all keys. `TokenizeAbort`, `FlushAbort`, `RotateAbort` end a call
between two commands: a deadline, a lost connection, a dead process.
The reply of `RotateExec` may be lost after the commit: the client library reports a connection
lost under WATCH as a `WatchError`, and the call tries again and finds its own result, or as the error it
is, and the call ends; a later call with the same operation id finds the result. `UnlinkIndex` is the shutdown
clean-up of a replica. `answers` is a history of what callers were told. DEKs and
revisions are random and never repeat, so a fresh one is any that nobody
remembers; a finite pool is enough and nothing is capped.

**TokenNaming.** `existing` is the dictionary that a call carries from text to text,
`seen` the tracker of one text, `known` what the client sends along, `vault`
what a name stands for in a request. `world` is
chosen at the start: the hash of a value under each DEK (`base`), through which collisions
are configured, and the kind of client (carry-over, ids, overlapping calls, rotations).
`issued` is a history of the tokens handed out.

**SpanFusion.** `Detect` reports any span a detector may report, `Resolve` and `Merge`
are single iterations of the two loops of `span_fusion.py`, `FuseAgain` the second call of
`fuse_spans` in `execute`. `Replace`, `ReplaceSpan` and `ReplaceDone` are the substitution: the text
becomes a list of pieces, one for each character, in which the spans are replaced from the right, so that the
offsets of those still to come stay valid. `RestoreToken` puts one token back. Python slices, which clip
beyond the end of a text, are `Slice`. The rules of `span_fusion.py` themselves
are in `Spans`, which `NerDetection` shares.

**ApiKeys.** `row` is Supabase, `meta` and `index` are Redis, `plan` the plan in Redis,
`warm` what a starting replica has loaded and not cached yet. `authority` says
whether Supabase is configured; it is chosen at the start and stays. An admin
request is a record with the command it is about to send. `Outages` says which
requests to Supabase, reads or writes, may fail; a failed write may have happened.
`StoreUnanswered` is a Lua evaluation whose answer is lost, with or without effect. `alone` and `recent` are
histories for the limit: the change of plan that no other admin request overlaps, if there is one, and the plans set
since the last such change (`Quiet`, `Starts`).

**Quotas**, **RateLimit.** Counters as the commands see them, calls as records, histories
(`accepted`, `granted`) of what was let pass. The two keep different counters and never
read one another's, so one instance, `MCLimits`, takes both: `limit` is chosen at the start and
says which of the two a behaviour is of.

**Lifecycle, Metrics.** `phase` is where `lifespan` stands, `flag`, `active` and `pool` are the process's
state, `stage` and `route` the requests', `orphans` the index sets in Redis and `todo` those that
SCAN has still to return. A handler is a single event that succeeds, fails or never happens
(a request that hangs); `Register` is the index set that a tokenize leaves. What it records
are the operators of `Metrics` (`Sorted` numbers the samples by how many are up to them, which is what a stable sort
does), and `log` is a history of the latencies, of all requests and of each operation. Locks are left out: all
of it runs in one event loop.

**Annotation**, **Generators**, **NerDetection**, **Evaluation**, **NerChain.** A text is a sequence of
words, a word a sequence of pieces, a piece a sequence of characters: pieces are
the model's tokens. A character is one of the few kinds the code treats differently: a letter, an apostrophe, a
quotation mark, a bracket, a comma, a full stop, a character the tokenizer skips (`Untokenized`), a word the patterns
match (`RegexLike`). `NerChain` takes a row of one of five layouts of the sources
(`tags`, `humadex`, `annotations`, `mask`, `values`: where the offsets come from; `annotations` is the
second form of HUMADEX, a text with offsets) or an example of a generator, and
runs it through conversion, validation, labelling, a model, `detect` window by window
(`ReadWindow`, `Detect`), the stand-alone engine and `server.py` (`Standalone`), and scoring. The
model is external: it predicts the taught labels, or one label wrong, and anything for tokens that
have none.

**DatasetFiles.** `files` maps a directory and a name to a sequence of records; `job` is the running
program with the files it has still to write, or to read (`FormatFile` takes the files of `chat_formatter.py` one by one,
`FormatSave` writes what they gave); `Interrupt` ends it between two. Directories are listed in the
order of the names, `ListedBefore`; a shuffle is any of `Orders`. `arrowOf`, `cleanOf` and
`chatDir` remember which run the files on disk come from. `MCTraining` joins it to `NerChain` as
`MCLimits` joins the limits; `part` says which.

Bounds and modes are constants: `MaxTries`, `RotationTries` (both five in the code), `TTL`, `MaxTexts`, `MaxAttempts`,
`MaxSpans`, `MaxLength`, `MaxCounter` (no call starts once the month's counter passed it),
`MaxCount` (no request begins once the minute's counter reached it), `MaxTime`,
`Months`, `MaxRequests`, `MaxPrograms` (how often a program is started), the domain of `Orders` (how many
examples a split may shuffle), the sets of
processes, keys, requests and values, and the set `Rows`. `MaxSamples`, `WindowSize` and `WindowOverlap` are constants of the
code (10,000, 512 and 128), made small in the instances.

## 3. What is checked

Passing runs:

| Run | Instance | Properties |
| --- | --- | --- |
| `vault_writers` | one address, two tokenize calls, one rotation, TTL 2, two attempts of each | `KeyConsistency`, `NeverResurrect`, `ImplementsService` |
| `vault_rotations` | one address, one tokenize call with two attempts, two callers of one operation id who make one attempt at a time and call again, TTL 1 | `AnswersAgree`, `VaultInv` |
| `vault_flush` | two hashes, one tokenize call, two flushes, one rotation, TTL 2, sequential clients | `LiveTokenIndexed`, `FlushLeavesNothing` |
| `vault_liveness` | one hash, one tokenize call, two flushes, one rotation, shutdown clean-ups, two attempts, TTL 2, fairness | `CallsTerminate` |
| `naming_clients` | two worlds. A conversation: two values with one hash, two types, two texts, one call after the other on one request id, tokens carried along. Single texts: two overlapping calls on ids of their own, with and without carry-over, a rotation that swaps the hashes | `TokenMeansValue`, `OneNamePerValue`, `NamesApart` |
| `fusion_rules` | one text with a space and another character between words, up to three spans of two detectors and two types | `FusionInv`, `UnbeatenHidden`, `FusionIdempotent`, `RestoredUpToGaps` |
| `keys_limit` | with and without Supabase; two administrators, one client, two keys, a plan of one key and one of two, changes of plan; writes to Supabase fail | `KeysFitPlan`, `NoGhostKeys` |
| `keys_authority` | with and without Supabase; two administrators who create and revoke, one client; outages, lost evaluations, crashes, restarts, warm-ups, the dashboard | `RevocationIsFinal`, `KeysInv` |
| `limits` | either two tokenize calls, three tokens a month and one per request, two requests, two months, calls die; or two clients, a limit of two, minutes of two ticks, scripts fail, requests die | `AcceptedWithinLimit`, `CounterCovers`, `OvershootBounded`, `MinuteLimit` |
| `service` | one process, three requests of four routes, two latencies, a ring of two samples, one index set; starts and sweeps fail, requests hang; fairness of the shutdown | `DrainedBeforeClose`, `SweptClean`, `ActiveCounts`, `RingsHoldLast`, `PercentilesCover`, `ExpositionConsistent`, `ShutdownEnds` |
| `training` | either one row of up to three words, of every layout, tagging and generator, windows of three tokens with an overlap of two; or up to seven programs over one dataset, three generators and their files | `RowsConvertExactly`, `ConvertedValid`, `ValidatorsAgree`, `PerfectScore`, `ShortEntitiesHidden`, `EnginesAgree`, `ScoresAddUp`; `SplitsPartition`, `CleanedComplete`, `CleanChat` |

One run ends in a violation, the counterexample of section 6: `naming_stale`. Every property of a passing run has a mutant: a change of one
definition that a plausible bug would make, under which TLC finds the property
violated.

What the properties say beyond their names:

- `KeyConsistency` is about writers that encrypt under a DEK they read several
  commands earlier. It needs the WATCH of the store, the revision that each
  store changes, and the WATCHes of the commit together.
- `NeverResurrect` is an action property: a token's life grows in a step only if
  that step is a store of this very token. A commit rewrites every token of its
  snapshot, and any of them may be gone by then.
- `ImplementsService`: seen through rehydrate, the vault is one in which a rotation is a
  single event that changes nothing readable, and whose recorded count is
  the number of tokens readable at that moment.
- `LiveTokenIndexed` and `FlushLeavesNothing` hold for clients that flush a request
  when its tokenize calls are over (`SequentialClients`) and while no replica shuts
  down; section 6 says what happens otherwise.
- `TokenMeansValue` relates what a client holds to what the vault holds under that
  name, after any number of later texts, turns, collisions, expiries and, with fresh
  ids, rotations.
- `UnbeatenHidden`: `_resolve_overlapping` compares a span with the last one kept
  only, so that a regex match stays hidden next to any chain of other spans is not
  obvious from the rules.
- `RestoredUpToGaps` follows the text through both replacements. It is about texts whose spans lie inside
  (`OffsetsInside`): when the normalised text the patterns saw is longer than the text, a merged span may reach beyond
  its end, and the text comes back longer.
- `OvershootBounded`: the vault quota is read set by set, before anything is
  written. It is passed by no more than the calls in flight may add.
- `CounterCovers`: however calls interleave and die, the month's counter never
  falls below what was accepted, so that errors are on the side of refusal.
- `MinuteLimit` counts by the minute in which a request began, which names its
  counter. It relies on a counter outliving the requests of its minute.
- `KeysFitPlan` is about keys in use: valid and handed over to somebody. A row whose
  insert was reported as failed may exist, but nobody has its key. They fit the plan of the organisation or one that it
  had since its last change of plan that ran alone. A creation reads the limit before it counts, and
  a change of plan lists the keys before it sets the plan; so the plan of the moment is too much to ask while
  requests overlap (`KeyLimit`, section 6), but a downgrade that no other request overlaps leaves no more keys than the new plan
  allows, and creations that overlap one another never pass the limit together.
- `DrainedBeforeClose` needs the order in `lifespan`: the flag is raised before the count is
  read, and the guard reads the flag before it counts. Health checks and scrapes pass the guard, so
  they alone may run on.
- `SweptClean`: the sweep returns only what was there when it began. It is complete
  because nothing that makes an index set runs any more, unless the drain was given up.
- `ActiveCounts` and `ShutdownEnds` belong together: the drain waits for a count that every path
  out of a handler must take back, and has a deadline for handlers that have no way out.
- `RingsHoldLast` is about a ring that fills up and wraps separately for each label.
- `ExpositionConsistent` relates the buckets, the counters and the latencies that one
  request leaves in three places.
- `RowsConvertExactly` compares five ways to find offsets with the words they stand for; the layout that lists
  values without offsets may find an earlier occurrence, and only that.
- `ConvertedValid` says which examples break a rule that `validate.py` states for all of them
  (section 6), and that only rows of that one layout are rejected.
- `PerfectScore` goes around the circle: labels made by one program, read back by
  another and scored by a third against the entities of the beginning.
- `ShortEntitiesHidden`: an entity of no more tokens than the windows overlap, plus one, is hidden in
  full wherever the windows are cut. The first token of a window
  has a label that was taught although the window starts inside an entity.
- `EnginesAgree`: what the stand-alone engine finds the service hides, and what the service hides `server.py`
  finds, although they trim and merge by different rules. Quotation marks are excluded: there the engines do differ.
- `SplitsPartition` is about programs that completed, in any order and after any interruption;
  `CleanedComplete` and `CleanChat` about `clean_mix.py` run again over its own output.

Why the bounds are enough. The races of the vault need two parties on one key,
and the longest, between a commit and a second one, an expiry in between and
a retry; one address, two calls of the kind in question, two attempts and a TTL of
two ticks let all of them happen, and each mutant, which takes one guard away, is
found within them. Two callers of one operation have one attempt each, since a call that ran out of attempts and comes
again goes the same way as a second attempt, but for one read more; second attempts proper, after a lost reply
too, are in `vault_writers`. Two hashes are used where a set of tokens matters (flush).
Two administrators and one key more than the plan allows are the least that can
pass a limit; with the plans of one and of two keys there is a limit to pass, an upgrade and a downgrade. Two values with one hash are the least for a collision, two texts
for a carry-over. Three spans give chains of overlaps; five characters give gaps
of zero, one and two characters. Two months and two minutes let a call straddle
the boundary. Three requests are one more than the ring holds, and let one hang, one fail and one come
during the drain. Three words give an entity, what stands before it and
what stands after it; with windows of three tokens, texts of three words of up to
three tokens need several windows, and cut entities at every token. Seven programs are enough to go
from a download to the Arrow datasets once, or to clean and format twice. Symmetry is used for administrators, rotations, calls and clients,
never for keys or DEKs (a CHOOSE ranges over them) and not in the run with a
liveness property. Deadlock is checked for the vault and fusion; the other
instances may stop: a row is scored, a process has ended, the bounds are used up.

## 4. Fairness

**Vault.** `FairSpec` assumes weak fairness of the steps of every running call: asyncio
schedules every task that is ready, and each Redis command is answered or times
out (`socket_timeout=5`). It assumes nothing about the start of calls, time,
cancellation or shutdowns. No strong fairness is needed: an attempt that is
disturbed is counted, so that attempts run out (`RoRetry`, `Reread`), and
`CallsTerminate` holds whatever the others do.

**Lifecycle.** `Spec` assumes weak fairness of `Shutdown`, `Drain`, `Sweep` and `Close`, the steps of the
lifespan task, which the event loop runs when its sleep or its command has ended, and of
`Expire`: ten seconds pass. Nothing is assumed about requests, which may hang for ever, nor
about the server's decision to stop; `ShutdownEnds` starts where it has decided. A command of the sweep that gets
no answer fails, by the timeout of the socket.

## 5. What is proved

All theorems hold for every value of the constants that satisfies the
assumptions stated in the modules: any number of requests, hashes, calls, keys,
clients, spans and texts, any TTL and number of attempts.

| Theorem | Module | Statement |
| --- | --- | --- |
| `VaultTypeOK` | `VaultProofs` | `Spec => []TypeOK` |
| `VaultInvariant` | `VaultProofs` | `Spec => []VaultInv` |
| `VaultKeyConsistency` | `VaultProofs` | `Spec => []KeyConsistency` |
| `VaultAnswersAgree` | `VaultProofs` | `Spec => []AnswersAgree` |
| `VaultLiveTokenIndexed` | `VaultProofs` | `Spec => []LiveTokenIndexed`, if clients are sequential and no replica shuts down |
| `VaultFlushLeavesNothing` | `VaultProofs` | `Spec => FlushLeavesNothing`, likewise |
| `VaultNeverResurrect` | `VaultProofs` | `Spec => NeverResurrect` |
| `VaultImplementsService` | `VaultProofs` | `Spec => ImplementsService` |
| `NamingTokenMeansValue` | `TokenNamingProofs` | `Spec => []TokenMeansValue`, if every world is of careful clients (below) |
| `NamingOneNamePerValue`, `NamingNamesApart` | `TokenNamingProofs` | `Spec => []OneNamePerValue`, `Spec => []NamesApart`, likewise |
| `FusionInvariant`, `FusionDisjoint` | `SpanFusionProofs` | `Spec => []FusionInv`, `Spec => []Disjoint` |
| `FusionUnbeatenHidden` | `SpanFusionProofs` | `Spec => []UnbeatenHidden` |
| `FusionIdempotence` | `SpanFusionProofs` | `Spec => []FusionIdempotent` |
| `FusionRestored` | `SpanFusionProofs` | `Spec => []RestoredUpToGaps` |
| `ApiKeysTypeOK`, `ApiKeysInvariant`, `ApiKeysRevocationIsFinal` | `ApiKeysProofs` | `Spec => []TypeOK`, `Spec => []KeysInv`, `Spec => []RevocationIsFinal` |
| `ApiKeysLargestPlan` | `ApiKeysProofs` | no more keys are in use than the largest plan allows, if no script goes unanswered, Redis keeps its data and Supabase can be read |
| `ApiKeysFitPlan` | `ApiKeysProofs` | `Spec => []KeysFitPlan`, for plans of any limits and changes between them, under the same conditions |
| `ApiKeysKeyLimit` | `ApiKeysProofs` | likewise, `KeyLimit` holds whenever no recent plan is larger than the current one: from a change of plan that ran alone until the next, and on while plans only grow |
| `ApiKeysNoGhostKeys` | `ApiKeysProofs` | `Spec => []NoGhostKeys`, if no script goes unanswered, no request dies and Redis keeps its data |
| `QuotaCounterCovers`, `QuotaAcceptedWithinLimit` | `LimitsProofs` | `Spec => []CounterCovers`, `Spec => []AcceptedWithinLimit`, if no command is sent twice |
| `QuotaOvershootBounded` | `LimitsProofs` | `Spec => []OvershootBounded` |
| `RateMinuteLimit` | `LimitsProofs` | `RateSpec => []MinuteLimit` |
| `LifecycleActiveCounts` | `LifecycleProofs` | `Spec => []ActiveCounts` |
| `LifecycleDrained` | `LifecycleProofs` | `Spec => []DrainedBeforeClose` |
| `LifecycleSwept` | `LifecycleProofs` | `Spec => []SweptClean` |
| `LifecycleRings` | `LifecycleProofs` | `Spec => []RingsHoldLast` |
| `LifecyclePercentiles` | `LifecycleProofs` | `Spec => []PercentilesCover` |
| `LifecycleExposition` | `LifecycleProofs` | `Spec => []ExpositionConsistent` |
| `FilesInvariant` | `TrainingProofs` | `FilesSpec => []FilesInv` |
| `FilesSplitsPartition`, `FilesCleanedComplete`, `FilesCleanChat` | `TrainingProofs` | `FilesSpec => []SplitsPartition`, `FilesSpec => []CleanedComplete`, `FilesSpec => []CleanChat` |
| `WindowsCover`, `NoGapBetweenWindows`, `NoNeedlessFailure` | `TrainingProofs` | `Spec => []CoveredInv`, `Spec => []InputCovered`, `Spec => []FailsOnlyUncovered`, for every report of a tokenizer that lists ranges of the text in its order |
| `WindowsKeepShortRuns` | `TrainingProofs` | a run of tokens at most one longer than the overlap lies whole in one window |

The hypotheses are those under which the runs check the same properties. Without them the properties
fail. Section 6 has the configurations for shutdowns and overlapping flushes (`vault_shutdown_index`,
`vault_flush_race`), rotations within a conversation (`naming_stale`), unanswered scripts (`keys_fallback`),
and commands sent twice (`limits`). `KeyLimit` itself fails when a change of plan overlaps a creation (`keys_downgrade`). A restart of Redis, or an outage in which
an authentication finds no row, takes a key in use out of the count, and a request that dies leaves its key in it. Each inductive
invariant was checked by TLC on the instances of the runs before it was proved.

**Vault.** Type correctness needs `AttemptLeft`: wherever an attempt is made, one is
left, so that the counters stay within `MaxTries` and `RotationTries`. `KeyConsistency` is not
inductive: a store in flight holds a DEK, a rotation a snapshot. `VaultInv`
adds what their WATCHes guarantee. `WriterOk`: a store that was not disturbed
since its WATCH writes under the stored DEK, and an undisturbed creation finds
none. `SnapshotOk`: while DEK and revision are those of the snapshot, every live
token is in the snapshot under the stored DEK or still to be scanned (a store
changes the revision, an expiry only removes). `CommitUndisturbed`: an undisturbed
commit has confirmed exactly the live tokens of its snapshot. At EXEC the live
tokens are therefore precisely those that are rewritten. Each action keeps the invariant; most
steps change one call only (`TzOnlyInv`, `RoOnlyInv`), removals have a lemma of
their own (`RemovalInv`), and the commit is `RotateExecInv`. `IndexInv` is the invariant behind the flush:
a request is not flushed and tokenized at once (`Sequential`), a flush that has read
the index set knows every live token of its request and finds none after UNLINK (`FlushingOk`), and
the index set outlives its tokens. The refinement
follows: by `KeyConsistency` the readable tokens are the live ones
(`ReadableIsLife`), so a step of `Vault` is a `Put`, `Delete`, `Age`, `Rotation` or
a stutter (`StepImplements`).

**ApiKeys.** `RevocationIsFinal` is not inductive, since a key might become usable again. `KeysInv`
says who could do that: only a request that is making a key, and that key is known to
nobody (`MakersApart`), while an authentication asks for a key that was handed
over (`LateBarred`). Warm-ups write Redis only, which decides nothing where there is
a Supabase to warm up from (`ColdStandalone`). The proof shows that every step of an
administrator stays within a frame (`AdminFrame`) and that the frame keeps the invariant.
`LimitInv` relates two counts that the code keeps apart: a key in use is counted in Redis, and what is counted there is
within the limit. Hence a key must leave Redis after it has left Supabase, and nothing may put one into
Redis except the script (`RequestOk`, `DropOk`, no warm-up). It holds for any bound that no plan passes (`ApiKeysLargestPlan`).
`PlanInv` says which plan gives the bound: the largest of the recent ones, since the limit is read before the script runs and
the plan may change in between (`LimitGrows` when a larger plan is set). A change that runs alone may lower the bound
(`LimitShrinks`): by `ListingOk` it has listed every key that is counted, and what it listed fits the new plan; and no other request
holds a limit it read earlier. `GhostOk`
follows a counted key that nobody has from the script to the end of its registration or of the roll-back.

**SpanFusion.** `FusionInv` says that what is resolved and fused so far is sorted and
disjoint, and lies before what is to come, for lists of any length. A
candidate that replaces the last kept span starts no earlier than it, hence
behind all others. `KeptInv` is about what becomes of the spans: one that no overlapping span can beat is taken over by the
first loop whatever stands before it, stays, and is covered by a span of the second loop; the
result has no two neighbours that could be merged (`Apart`) and no overlap. On such a list both
loops of the second pass hand on what they get. `RestoreInv` carries `RestoredUpToGaps`. The text of every span is that
of its range up to blanks inside it (`Faithful`), which a merge keeps. The pieces of the output lie behind one another on the text
(`Layout`), with a function that says where each begins; to replace or to restore is to move its values. Since pieces that are
no tokens are characters, positions in front of the first token are offsets of the text: what is replaced next, from the
right, lies entirely there (`Ahead`), because the spans are disjoint.

**Naming.** Careful clients are of two kinds. Those that send single texts under ids of their own (`SingleText`) share
no name with anybody (`OwnRequest`), and the tracker knows every token of the text (`EntriesStored`).
A conversation under one DEK (`OneConversation`) carries everything along: each value has the first name of its hash that no other
value had when it was named (`FirstNames`), so that a value that is named again gets the name it has, and what the client
knows, the call's dictionary and the tracker extend one another (`ConversationInv`). A value whose token expired keeps its
name reserved that way. That there is a first free name is the least element of a set of naturals, from the
library's theorems on well-founded orders.

**Quotas and rate limit.** A sum over calls, requests or minutes is the cardinality of a set with one element for each unit
(`Counting`), so that what a step does to it follows from the theorems on finite sets. `OvershootBounded`
is about calls that passed a check on counts of different moments. `OvershootInv` says for every set of calls that are
still counting: when only the calls outside the set may exceed the quota, either there is still room, or one of the
set is going to count what exceeds it and be refused (`Potential`). The theorem is the case of the empty set. `RateInv`: a request
that is running began at most one tick ago and belongs to the minute of its counter, which does
not expire before, and until then counts everything that passed (`Covered`).

**Lifecycle.** The three properties are inductive only together (`LifecycleInv`,
theorem `LifecycleInvariant`). `FlagUp`: from the drain on the flag is up, so that what arrives and runs
is unguarded. `ActiveCounts` turns a count of zero into an empty set of
running requests (`NoneRunning`), which is how a drain that was not given up ends. From then on no guarded
request runs, hence none registers an index set, and `OnlyTodo` holds: what exists is what
the scan has still to return. `SweptLate` says that the scan has ended only after it. A lemma for each
group of actions shows that it keeps the invariant; `CountMoves` is what arriving and leaving do to the cardinality.
`RingsInv` gives each ring in terms of its history: below its size it is the history, from then on the newest sample is before the
cursor and the oldest at it (`Follows`). Ring and tail of the history then have the same samples equally often, by a bijection of their positions.
`PercentilesCover` is about a sorted ring. `InOrder` of `Counting` puts at place k the element that has k elements
up to it, so that a listing is a bijection and is sorted without an induction; at least as many samples as the rank are
therefore at or below the percentile. `ExpositionConsistent` follows from `CountersInv`: the labels of a counter add up to
its total (`AddsUp`), also over the increment of a label that is new, and the flushes that succeeded are those that left a latency.

**Dataset files.** `FilesInv` is the conjunction of `JobOk` (a job lists each file once, and all that it lists exist),
`FilesClean` (packs are as made, the cleaned directory has only clean records and chat records, which have no entities to
filter), `ChatInv`, `CleanInv` and `SplitInv`, which say of an interrupted program what it
has done: every file of the mix that is no longer waited for was copied under one of its two names, and since two
files of one name come from two directories, a later copy takes neither away; the parts written so far are those of one order
of one chat file. The partition then holds because joining the parts of an order is the order again, and a permutation
of the positions leaves every record as often as it was.

**Windows.** `CoveredInv` says that the windows read so far reach over every visible character before
`covered_end`, and that each of them ends before it. `WindowFacts` is the arithmetic: each window begins at the
latest one token after its predecessor ends, and the last one ends with the text. A character in front of the next window that no
window covers is then in no token, since the tokens in front of the window are in the one before it (`GapHasNoToken`).
So `detect` answers only when no visible character lies outside its windows, and fails only where the tokenizer left one
out. The converse is not so: a character that the tokenizer skips inside a window is not noticed.
These two are theorems and no properties of a run; TLC has checked `CoveredInv`, which contains them, on the instance of `training`.

Only model-checked: liveness (`CallsTerminate`, `ShutdownEnds`), which needs fairness or ENABLED; and the seven properties of
`NerChain` in the run `training`, which are about what `Annotation`, `NerDetection` and `Evaluation` compute by folds and
selections over words, labels and matches: induction over data, which the provers do not do. `WindowsKeepShortRuns` is the part of
`ShortEntitiesHidden` that is not about a fold.

## 6. Where the code and its documentation part

One disagreement is a run of the project, `naming_stale` (`TokenMeansValue`): a value is
named, the DEK is rotated within the call, the value is named again, and its
first name is no longer tracked: the next text gives it to another value. The
client then holds a token that rehydrates to something else (`routes.py:180`,
`tokenize_text.py:67-69`).

The others are refuted by configurations of the same modules that are not listed as runs. The
files of the vault, the keys and `fusion_offsets` are kept here; for the rest the table says how `limits.cfg`,
`naming_stale.cfg`, `fusion_rules.cfg` or `training.cfg` is to be changed. Each refutes one statement:

| Configuration | Statement that fails | What the code does |
| --- | --- | --- |
| `vault_foreign_key` | `RotationsFailByContentionOnly`; `rotate_dek.py:4` "Contention never mixes keys", `vault_port.py:190` "None means retry" | `snapshot_rotation` reads the DEK (272) and the ciphertexts (275-280) in separate commands; if another rotation commits in between, decryption fails with an error instead of a retry |
| `vault_pttl_race` | `NoExpiryErrorIsReal`; `redis_vault.py:301` "expired/flushed: never resurrect" | GET and PTTL are separate; a token gone at the second is reported as one without expiry |
| `vault_flush_race` | `FlushLeavesNothing`; `docs/legal/TECHNICAL_MEASURES.md:163` "atomically deletes all vault entries for a request" | SMEMBERS, UNLINK, DEL; a token stored in between stays, outside the index |
| `vault_shutdown_index` | `LiveTokenIndexed`; `docs/legal/DPA_TEMPLATE.md:134` "orphan vault entry cleanup" | a replica that shuts down unlinks all index sets and no token |
| `naming_stale`, or the world `Conversation` alone | `OneTokenPerValue`; `routes.py:103-105` "the same PII always maps to the same token within one request" | a rotation, or another detected type, gives the value a second token |
| `fusion_offsets` | `OffsetsIntoOriginal`; `regex_detection.py:323-324` "The returned spans contain character offsets into the ORIGINAL (unmasked) text" | when normalisation changes the length of a text, the offsets in the normalised text are used on the original (354, 364-367): after an ellipsis, a ligature or a trademark sign a match is shifted and its first characters stay readable |
| `fusion_rules` with `MaxSpans = 2` | `RoundTrip`; `docs/legal/DPIA.md:36` "Tokenized text in -> original text out" | the character between two merged spans comes back as a space (`span_fusion.py:41`) |
| `fusion_rules` | `WinnerIsKept`; `span_fusion.py:64` "The winning span is kept" | in a chain the winner may be dropped itself |
| `fusion_rules` with `MaxSpans = 2` | `SpecificPreferred`; `regex_detection.py:68-69` | among regex spans the longer one wins before the order of patterns counts |
| `keys_fallback` | `KeyLimit`; `api_key_port.py:106-107` "Atomically check active key count and store if under limit" | after two timeouts counting and storing are separate |
| `keys_downgrade` | `KeyLimit`; `routes.py:767-769` | keys are listed before the plan is set; a creation in between is not seen |
| `keys_provision_race` | `ProvisionOnce`; `provision_org.py:55-58` "Idempotent" | two provisionings both find no key |
| `keys_provision_outage` | `ProvisionKeepsExisting`; `provision_org.py:7-9` | an outage of Supabase is answered like an unknown key, which deletes the Redis copy that provisioning looks at |
| `keys_warmup` | `RevokedStaysOut`; `redis_api_key.py:167-168` "warm-up cannot resurrect a revoked key" | the warm-up writes keys revoked since it loaded them; they are listed and counted as active, though refused (`RevocationIsFinal`) |
| `keys_audit` | `RevokedKeysAreKept`; `routes.py:557-558` "its metadata remains in Redis for audit purposes" | with Supabase the metadata is deleted |
| `limits` with `MaxTokens = 100`, `MonthlyLimit = 2`, `MaxCounter = 3` | `RefusedOnlyIfFull`; `tokenize_text.py:253` "rolled back atomically" | between INCRBY and DECRBY a call that fits is refused |
| `limits` with `Resends = TRUE` | `AcceptedWithinLimit`; `api_key_port.py:114-115` | a DECRBY sent twice takes tokens back twice |
| `limits` | `MonthlyBeforeVault`; `docs/plan-system.md:168` "Monthly quota check runs **before** the concurrent vault quota check" | the vault is checked first |
| `limits` | `SlidingLimit`; `redis_api_key.py:197` "Sliding-window rate limit" | counters belong to calendar minutes |
| `limits` | `CountersExpire`; `api_key_port.py:63` "The counter expires after 120 seconds" | a request that dies between INCR and EXPIRE of the fallback leaves a counter for ever |
| `training` | `NoLeakage`; `ner_formatter.py:7` "Split happens BEFORE tokenization to avoid data leakage" | the generators draw templates with replacement (`hard_negatives_generator.py:269`), so that a text may be in the training and in the test data |

Other divergences that the modules show without a configuration of their own:

- `validate.py:391-398` states that no token continues an entity that has not begun. An
  entity that begins inside a word has no first label, since only the first token of a word gets one
  (`bio_converter.py:89-108`); the templates of the boundary-hard generator with quotation marks or brackets around
  a name make such examples. `ConvertedValid` says exactly when.
- `clean_mix.py:263-268` avoids a name that is taken by adding the directory's. Run again it finds its own
  output, and keeps stale copies beside new ones; `chat_formatter.py` reads both.
- `chat_formatter.py` on `data/cleaned` reads the synthetic and hard-negative packs twice, cleaned and as they
  are; boundary-hard examples reach the chat file only through `clean_mix.py`.
- `split.py` fails on fewer than six examples and leaves the splits of an earlier run when there are none;
  `ner_formatter.py` does not notice that its three inputs are of two different splits.
- `download.py` makes the directory before it loads; `convert.py` then writes an empty file for the dataset of a failed
  download.
- The `_count` of a histogram (`metrics.py`) is the number of samples in the ring. It stops at 10,000, and
  a bucket may fall from one scrape to the next, which Prometheus takes for a restart.

## 7. What is not modelled

- Cryptography is ideal: a ciphertext decrypts under its own DEK and no other; the
  truncated keyed hash is a function that may collide.
- Patterns and the neural model: the patterns report any spans in `SpanFusion` and words of their own in
  `NerChain`; the model predicts labels as section 2 says. The tokenizer is a given split of words into pieces.
  Outputs that are not finite numbers, confidence, and the aggregation strategies `average` and `max` of the stand-alone
  engine are left out.
- Strings: formatting and parsing of tokens, headers, timestamps, error bodies.
- A restart of Redis is part of `ApiKeys` only. In the vault it removes DEK and ciphertexts together.
  Eviction under memory pressure (`volatile-ttl`) is left out; it would make
  `LiveTokenIndexed` false.
- Lost replies are modelled where something depends on them: rotations, Lua
  evaluations, quota commands, Supabase writes.
- Usage statistics of keys, two counters of the metrics (`record_plan_change`,
  `record_max_keys_exceeded`), which work like the others, and telemetry, which is logging. The billing stub answers constants.
- The dashboard's billing, organisations and key creation (planned). Its pages and the SDKs have no state of their own.
- In the pipeline: what a text says, the stratification of a split, files that are written in
  part (a program is interrupted between two files), and `_parse_bio_tokens`, a fallback of `convert.py` that makes
  no entity. Training, export, reports and the loops of `evaluate.py` are batch scripts around
  libraries and an inference server.

## 8. Plan

1. Done, with proofs: `Vault`, `VaultService`, `VaultRefinement`; `ApiKeys`; `TokenNaming`; `Quotas`; `RateLimit`;
   `SpanFusion`; `Lifecycle` and `Metrics`; `DatasetFiles`; the windows of `NerChain`. Done, model-checked: the
   algorithms of the labels, their reading and their scoring.
2. `Billing`: the Stripe webhook (`platform/web/app/api/billing`), whose events come
   more than once and in any order, and the checkout. Abstract specification: the plan
   of an organisation is that of its latest subscription. Composed with `ApiKeys` through the plan.
3. `Dashboard`: count-then-insert creation of keys against the service's limit,
   organisations with their roll-back.
4. Proofs: the decoding of labels, if `ReconstructSpans` is described by what it returns (the maximal runs of words
   of one type) instead of by a fold; then `ShortEntitiesHidden` follows from `WindowsKeepShortRuns`.

A new run replaces a listed one, or is joined to it as in `MCLimits`, where the two ask related questions, so that the
list stays short.

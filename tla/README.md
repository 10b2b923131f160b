# TLA+ models of uni-api's request core

This directory holds TLA+ specifications of the parts of uni-api (`src/utils.py`,
`src/response.py`) that have state and concurrency. It has TLC configurations that
model-check them on small instances. It also has TLAPS proofs, for every
instance. They cover the pool's rate limit, its round-robin fairness and
fixed-priority order, and its refinement of an abstract specification of what
it promises. They also cover the stream: its type correctness, its cleanup on
every exit, the order of the lines the client gets, the single terminator of a
normal end, and its refinement of an abstract specification of what the
client may see.

## The system and how its parts interact

A request for a model goes through these stages:

1. **Credential pool** (`ThreadSafeCircularList`, utils.py 68-189). The pool
   picks an API key for the model with `next(model)`.
   - It walks the key list from `index`, or from 0 under `fixed_priority`.
   - It skips keys that are cooling or rate-limited.
   - It records a timestamp for the key it returns.
   - After a full pass it raises HTTP 429.
   - `set_cooling(key, t)` benches a key that failed. Both calls hold one
     `asyncio.Lock`.
2. **Adapter** (`fetch_*_response_stream`, response.py 24-307). The adapter
   streams the upstream body and yields SSE lines. It yields either the error
   dict of `check_response`, or text lines followed by a terminator
   `data: [DONE]`. The gpt, azure, cloudflare and cohere adapters end without a
   terminator when upstream sends none.
3. **Heartbeat multiplexer** (`heartbeat_generator`, `fetch_response_stream`,
   response.py 377-494). It runs two waiter Tasks: the adapter's `__anext__` and
   a heartbeat queue's `get`. A producer task fills the queue every 2 seconds.
   Each turn it waits for the first task to complete and yields the result. It
   returns on a line containing `[DONE]`. On every exit it cancels both tasks,
   closes the adapter and cancels the producer.
4. **First-chunk wrapper** (`error_handling_wrapper`, `check_response_content`,
   utils.py 432-537). It pulls the first line from the multiplexer.
   - An error dict becomes an HTTP error.
   - A `[DONE]` becomes HTTP 400.
   - A text line starts the stream.
   - A heartbeat starts the stream at once, and the check is deferred to the
     first real line.

Before any of this, `update_config` (utils.py 296-328) normalises each API
key's `model` list once at startup and collects its weights. `post_all_models`
(utils.py 539-621) turns that list into the models the key may see. It uses
`get_all_models` and `get_model_dict` (utils.py 198-205, 623-640). URL
derivation and the formatting helpers are pure functions of one value (see
"Not modelled").

## Modules

| module | models | state |
|---|---|---|
| `CredentialPool` | the pool: `__init__`, `is_rate_limited`, `next`, `set_cooling`, `after_next_current` | `items`, `index`, `requests[key][model_key]`, `coolingUntil`, the clock `now`, the last `result`; history variables `hist` (every grant, never trimmed), `skipped`, `nreq` |
| `MCCredentialPool` | an instance: keys `k1..k3`, one model `gpt-4o` that the pattern `gpt-4` matches, limit lists `gpt-4: 1/1, 2/3` and `default: 2/2`, cooling time 2 | — |
| `CredentialPoolProofs` | the TLAPS proofs of `TypeOK` and `RateLimitRespected` | — |
| `PoolAbstract` | what the pool promises: a grant hands out *any* key that is not cooling and has room in every window of its full history; a 429 happens only when no key has room | `hist`, `coolingUntil`, `now`, `result`, `nreq` |
| `PoolRefinementProofs` | the TLAPS proof that `CredentialPool` implements `PoolAbstract` | — |
| `PoolScanProofs` | the TLAPS proofs of `RoundRobinNoStarvation` and `FixedPriorityPicksLowest` | — |
| `PoolClients` | concurrent requests over one pool: each calls `next` and then `after_next_current` | the pool, plus per task `got` (the key `next` returned) and `current` (what `after_next_current` returned) |
| `MCPoolClients` | two tasks over the round-robin instance | — |
| `ModelListing` | `update_config`'s api_keys loop for one key, then `post_all_models`, `get_all_models`, `get_model_dict` | `providers`, the raw `model` list, the normalised `entries`, `weights`, `loaded` |
| `MCModelListing` | two provider configurations (one with an alias), twelve entry shapes, and a configuration whose model name contains `/` | — |
| `StreamMux` | one streaming request: adapter, producer, multiplexer, wrapper, client | adapter events `up` and position `pos`, the two tasks, the queue, the `done` set being walked, the multiplexer's place, `closes`, the client's lines, the status, the wrapper's place |
| `StreamAbstract` | what a streaming response promises its client: the body's events in order, heartbeats anywhere between them, nothing after the terminator, and a stop at any point | `body`, `sent` |
| `StreamMuxProofs` | the TLAPS proofs of `StreamMux`'s `TypeOK`, `CleanupOnExit`, `AdapterOrderKept`, `DoneTerminates` and of its refinement of `StreamAbstract` | — |

**CredentialPool.** These definitions translate the source directly:

- `ScheduleAlgorithm` is the constructor's fallback to round_robin.
- `Shuffles` is `random.sample`.
- `ModelKey` is the model key, or "default" when no model is given.
- `RateLimitFor` is the exact match, then the first pattern in dict order that is
  a substring of the model (`MatchingPatterns`, `FirstMatch`), then "default",
  then `[(999999, 60)]`.
- `Cooling` and `OverLimit` (with `Window`) are the two rejection tests of
  `is_rate_limited`.
- `Trim` is the cleanup by the longest period.
- `StartIndex`, `Slot`, `Free` and `Advance` are the index walk of `next`.

`next` holds the lock, and nothing in it suspends, so a call of `next` is one
step:

- `NextGranted(m)` takes the first free slot of the walk. It advances the index
  past that slot, then trims and appends the timestamp. That is the whole
  `is_rate_limited` call that succeeded.
- `NextRateLimited(m)` is the full pass that ends in 429, with the index back at
  its start.

`SetCooling(k, s)` includes the early return for `None`. `Tick` advances the
clock. Timestamps are pairs `<<now, n>>` because a list can hold equal times.

**PoolAbstract and the refinement.** `CredentialPool` instantiates
`PoolAbstract` as `PA`. The limit table is mapped to `RateLimitFor` and the
model-key map to `ModelKey`. The variables map to the variables of the same
name, so the refinement mapping is the identity on the shared state, and the
detailed module's `items`, `index`, `requests` and `skipped` are hidden.
`PoolRefinesAbstract == PA!Spec` says two things:
- the trimmed lists and the scan order of `next` are a correct way of choosing
  *some* key the full history allows;
- the 429 of a full pass means that no key is allowed.

**PoolClients.** Each task `t` takes one `next` step (`TaskNext`). This is the
pool's `NextGranted` or `NextRateLimited`, with the result recorded in `got[t]`.
Later it calls `after_next_current` (`TaskCurrent`), which reads
`items[index - 1]` under the lock. `set_cooling` and the clock run as in the
pool. The tasks' steps interleave because every request is its own coroutine
on the event loop.

**ModelListing.** A model name or an entry is kept as the list of its
`/`-separated segments. That is all the code looks at: `"/" in s` and
`s.split("/")[i]`. Each loop is a `FoldLeft`. The pieces are:
- `GetModelDict` is the alias keys in insertion order;
- `Add` is the `not in unique_models` test and append;
- `AddAll` and `AddProvider` are the loops over `models_list[key]` and over
  the providers of a name;
- `PostStep` is one pass of the loop with its four `/` branches, the api-key
  skip and the plain branch;
- `PostAllModels` has the early return on `"all"`;
- `WeightStep` is the weight loop of `update_config`.

`UpdateConfig` is the whole api_keys loop for the key. A dict entry becomes
its key, a missing or empty list becomes `["all"]`, and the weights are kept
when non-empty. The reference (`RefIds`, `RefWeights`) is written from the
spec's terms instead: an entry `provider/model` grants that provider's model,
and `model` is everything after the first `/`.

**StreamMux.** A step is the code between two suspension points of the event
loop. There are separate actions for:

- the Tasks completing (`AdapterNext`, `HeartbeatGet`)
- the producer's put (`Beat`)
- the loop head re-creating the waiters that are None (`Arm`)
- `asyncio.wait` returning every task done by then (`Wake`)
- the walk of the done set, which can be taken in either order (`YieldResp`,
  `YieldBeat`)
- the `StopAsyncIteration` at `await task` (`AdapterEnded`)
- the finalizer of an abandoned generator (`Finalize`)
- a client disconnect (`ClientCancel`)
- the `finally` block (`Cleanup`)

The wrapper's handling of each line is `Deliver`, which dispatches to:

- `FirstItem`, the first pull;
- `DeferredItem`, `new_generator` after a first heartbeat;
- `StreamItem`.

The adapters' possible outputs are `AdapterOutputs`. It is the union of
`ErrorBody` (`check_response`, and the `yield error_message; return` that every
adapter opens with), `TerminatedBodies` (text lines then `[DONE]`) and
`UnterminatedBodies` (text lines, then the end of the body). These are output
shapes only: the adapters' buffering and JSON mapping are not modelled, and
the map names only the lines that decide the shape. The check itself is
`CheckOutcome`, built from `IsErrorDict` (an HTTPException with the error's
`status_code`, the constant `ErrorStatus`) and `StartsWithDone` (a
StopAsyncIteration). Its audio passthrough, its `error_triggers` test and its
non-JSON path are left out: no line of the model takes them. A line is abstracted to its kind: "text",
"textDONE" (text whose content contains the characters `[DONE]`), "err",
"done", "hb", and "eof" for the adapter's end.

## Runs

| run | checks | result |
|---|---|---|
| `pool_round_robin` | `TypeOK`, `RateLimitRespected`, `RoundRobinNoStarvation` | pass, 1.37M states |
| `pool_fixed_priority` | `FixedPriorityPicksLowest` | pass, 1.44M states |
| `pool_random` | `RoundRobinNoStarvation`, for every initial shuffle | pass, 0.41M states |
| `stream_pass` | `TypeOK`, `AdapterOrderKept`, `DoneTerminates`, `CleanupOnExit`, `EventuallyExits`, `StreamRefinesAbstract` | pass, 12k states |
| `stream_done_in_text` | `DoneTerminates` when a text line contains `[DONE]` | violation (finding) |
| `stream_error_after_heartbeat` | `UpstreamErrorIsHttpError` | violation (finding) |
| `stream_no_terminator` | `DoneOnEveryEnd`, with no heartbeat before the first line | violation (finding) |
| `pool_refinement` | `PoolRefinesAbstract` on the round-robin instance | pass, 1.37M states |
| `pool_clients_current` | `CurrentIsOwnKey`, two tasks | violation (finding) |
| `model_listing` | `ListingIsReference`, `WeightsAreReference` | pass, 632 states (316 initial configurations) |
| `model_listing_slash` | `ListingIsReference` when a model name contains `/` | violation (finding) |

What the properties say:

- **RateLimitRespected** (spec 8.1). For every key, model, limit
  `<<count, period>>` and time `t`, the grants in `(t - period, t]` number at
  most `count`. It counts against the full history, so a trim that drops
  entries a longer window still needs is caught.
- **RoundRobinNoStarvation** (spec 8.2). No key is free yet passed over at N
  grants in a row, whatever the wrap-around, cooling and models do.
- **FixedPriorityPicksLowest** (spec 8.3) is an action property. A grant
  returns a free key, and every key before it was limited at that moment.
- **AdapterOrderKept** (spec 7). The n-th data line the client gets (counting
  only data lines, `DataCount`) is the adapter's n-th event: none lost, none
  repeated, none reordered. It is stated with the cardinality of a set of
  places rather than with `SelectSeq`, so that TLAPS can reason about it.
- **DoneTerminates** (spec 6). A normally ended response has the terminator
  as its last data line, and holds exactly one (`DoneIndices` is a
  singleton).
- **StreamRefinesAbstract** (spec 6, 7). Every behaviour of the request, with
  `client` as `sent` and `up` as `body`, is a behaviour of `StreamAbstract`.
  Besides the order, it says that nothing, not even a heartbeat, follows the
  terminator.
- **CleanupOnExit** (spec 4.4). After the multiplexer exits, by any of its four
  ways out, no task is pending, the producer is cancelled, and the adapter was
  closed exactly once.
- **EventuallyExits** is liveness. The multiplexer always reaches its cleanup.
- **UpstreamErrorIsHttpError** (spec S6, 7). An upstream error reaches the
  client as an HTTP error with its status (`ErrorStatus`), whatever the
  heartbeat timing.
- **DoneOnEveryEnd** (spec 6, on every exit). A started response that no error
  event ended and the client did not leave holds the terminator exactly once
  once the multiplexer has exited.
- **PoolRefinesAbstract** (spec 3, 4.1). Every behaviour of the pool is a
  behaviour of `PoolAbstract`. The run breaks if the trim uses the shortest
  period: a later grant then passes the trimmed list but not the history.
- **CurrentIsOwnKey** (the comment at utils.py 176). The key
  `after_next_current` returns to a task is the key that `next` gave that
  task.
- **ListingIsReference** (spec 5). `post_all_models` lists exactly the models
  the key's entries grant, each once. This covers the shared `unique_models`
  set across branches, alias keys, `sk-` references to other keys, and the
  early `"all"` return.
- **WeightsAreReference**. `update_config` keeps a weight exactly for the dict
  entries whose provider serves the model, or serves anything for `*`. The
  last value given for a key wins.

Every property of a passing run has a mutant in `PROJECT.json`. The mutant is a
plausible bug in the mapped code, and TLC finds the property violated under the
run's own configuration.

The violations are findings:

- The multiplexer ends the stream on the *substring* `[DONE]` (response.py
  450). A text delta that mentions `[DONE]` cuts the response off without its
  terminator.
- When a heartbeat precedes an upstream error (the upstream takes longer than
  the 2 s interval), the wrapper has already returned a stream (status 200)
  before the check raises HTTPException (utils.py 496). The client sees an
  aborted 200, not the HTTP error with the upstream status (500 in spec S6).
- A started response whose upstream body ends without `[DONE]` (the gpt,
  azure, cloudflare and cohere adapters, when upstream omits it) is aborted:
  the adapter's StopAsyncIteration at `await task` (response.py 446) becomes
  RuntimeError inside the async generator, and the client never gets the
  terminator that spec property 6 promises when no error event ended the
  stream (`DoneOnEveryEnd`). The run allows no heartbeat before the first
  line, so the trace is this path and not the deferred check's.
- `after_next_current` reads `items[index - 1]` from the index that every
  request shares (utils.py 180). Suppose task 1 gets `k1`, and then task 2's
  `next` runs before task 1 asks. Task 1 is then told `k2`. A caller that
  cools "its" key after an upstream error would cool the wrong one.
- `post_all_models` parses an entry with `model.split("/")[1]` (utils.py 551),
  and `update_config` does the same at 308. So `p/m/x` looks up `m`, and a
  provider model named `m/x`, as OpenRouter names models, is never listed
  through `p/m/x`.

### Bounds

- **Pool.** Three keys are enough for a walk that skips some keys and wraps
  around. Two limits with different periods on the matched pattern make
  trimming by the wrong period observable. The `default` list serves calls
  without a model. Cooling of 2 ticks outlasts a tick. `MaxTime = 3` and
  `MaxRequests = 4` let a window fill, overflow and expire again. `random`
  checks every one of the 6 shuffles with `MaxTime = 2` and `MaxRequests = 3`.
  - The periods are scaled. `parse_rate_limit` only produces multiples of its
    units (1, 60, 3600, ...). But `is_rate_limited` compares `req > now -
    period` and does not depend on the ratio of the periods.
  - The model reads the clock once per `next`. The real code reads it again at
    each key, microseconds apart.
- **Refinement.** The round-robin instance above. It includes the two-period
  list whose wrong trim the refinement catches.
- **Clients.** Two tasks, `MaxTime = 1` and `MaxRequests = 2`. The violation
  needs only two grants in a row.
- **Listing.** There are two provider configurations. In the first, `p`
  serves `a` and an alias `a -> b`, and `q` serves `a`. In the second, `p`
  serves nothing and `q` serves `b`. There are twelve entry shapes:
  - the plain name `a`;
  - `p/a`, `p/b`, `p/*` and `q/b`, where `p/b` names an alias, and in the
    second configuration a provider without models;
  - `sk1/*` and `sk1/c`, where `sk1` is a listed key whose models are
    `a, c`;
  - the bare key `sk1`;
  - `all`;
  - `p/a`, `p/*` and `q/b` with a weight.

  Every list of up to two entries is checked, plus a key without a `model`
  field. Two entries are enough for these cases:
  - every pair of branches that share `unique_models`;
  - a repeated entry;
  - `all` after another entry;
  - a weight overwritten by a later entry.
- **Stream.** Up to three text lines, three heartbeats, and every upstream
  shape: error, text then terminator, text then end of body.

### Fairness

`stream_pass` assumes weak fairness of every step the event loop takes by
itself:

- the Tasks' completions;
- the loop's steps;
- the cleanup;
- the finalizer. CPython finalizes a dropped async generator through the
  asyncgen hooks.

The producer and the client get no fairness. The client may stay or leave at any
time, and `EventuallyExits` holds either way.

## Proofs (TLAPS: `CredentialPoolProofs`, `PoolRefinementProofs`, `PoolScanProofs`, `StreamMuxProofs`)

- `TypeCorrect`: `Spec => []TypeOK`. The proof is the initial-state lemma plus
  one step per action.
- `RateLimitSafe`: `Spec => []RateLimitRespected`, for every list of keys,
  algorithm, limit configuration and bound. It is proved from these assumptions
  in `PoolAssumption`:
  - the items are distinct;
  - every limit list is a non-empty list of pairs with count in Nat and period
    in Nat \ {0}, which is what `parse_rate_limit` produces;
  - the patterns are exactly the keys of the limit table, in dict order.

  `RateLimitRespected` is not inductive by itself. A grant is checked against
  the trimmed list `requests`, while the property counts every grant ever made.
  The inductive invariant `IInv` adds three facts:
  - `Stamped`: every timestamp is not after `now` and has a fresh number;
  - `LogInHist`: the list is part of the history;
  - `TrimmedOld`: whatever trimming dropped is at or before `now - period` for
    every period of the model's list.

  With these, a window ending at or after `now` contains only entries of the
  list. The list had fewer than `count` of them, or the key would have been
  limited (lemma `WindowGrow`). A window ending before `now` does not contain
  the new stamp.

  Lemmas used:
  - `LimitsType`: every model resolves to a limit list. It uses `LeastElement`
    for the first matching pattern.
  - `ModelKeyInjective`
  - `StampFinite`
  - `ExceptAt`

  `IInv` was also checked with TLC on the round-robin instance before it was
  proved.

- `PoolRefinement`: `Spec => PoolRefinesAbstract`, under the same
  `PoolAssumption`. Two invariants carry it:
  - `IInv`, as above;
  - `ItemsCover`: every key has a slot in the (possibly shuffled) list.

  The argument has these parts:
  - `WindowsAgree`: within any window ending now, `IInv` makes the
    history's grants (`PA!Recent`) equal to the trimmed list's (`Window`).
  - `LimitedIffNoRoom`: it follows that `is_rate_limited` is exactly the
    negation of `PA!HasRoom`. `CardSame` identifies the instance's
    `Cardinality` with the module's own.
  - `GrantRefines`: a grant is a `PA!Grant` of the same key.
  - `RefuseRefines`: a 429 is a `PA!Refuse`. By `SlotOnto` the scan visits
    every position, and by `ItemsCover` every key has a position.
  - `set_cooling` and `Tick` map to `Cool` and `Tick`.

- `RoundRobinFair`: `Spec => []RoundRobinNoStarvation`, under `PoolAssumption`.
  The property is not inductive: a count `skipped[k] < N` says nothing about
  where the key is in the scan. The inductive invariant is
  `TypeOK /\ ItemsCover /\ SkipBound`. `SkipBound` says that for every slot
  `s`, the key in that slot has `skipped` plus `ScanOffset(s)` at most
  `N - 1`. `ScanOffset(s)` is `(s - index) % N`, the number of slots the next
  scan passes before it reaches `s`.

  A grant that skips a free key picked an earlier slot `o`, by minimality of
  the free offset. The index then moves to just past `o`, so every slot of
  the skipped key comes `o + 1` slots closer to the front
  (`OffsetAfterGrant`), while its count rises by one. A key that was picked or
  was limited gets count 0, and a 429 leaves the index where it was.
  - The arithmetic of the circle is done by `ModOffset`, `SlotAtOffset` and
    `OffsetAfterGrant`, each with a case split on the wrap-around.
  - `SkipBound` was checked with TLC on the round-robin and random instances
    (1.37M and 0.41M states) before it was proved.
- `FixedPriorityOrder`: `Spec => FixedPriorityPicksLowest`, the action
  property.
  - Its invariant `ItemsFixed` says that only `random` reorders the list.
  - Under `fixed_priority` the scan starts at 0, so slot `o` is position
    `o + 1`.
  - The distinct items of `PoolAssumption` make `PosOf` of the picked key that
    position.
  - Every earlier position is outside `Free`, because the picked offset is
    the least free one.
- `StreamTypeCorrect`: `Spec => []TypeOK` for `StreamMux`, under
  `StreamAssumption`, for every bound. The invariant `TInv` adds:
  - `QueueInv`: the queue holds no more than the producer put;
  - `PosInv`: the adapter task is started only while the body has an event
    left, and a completed task has handed one out;
  - `TodoInv`: a task in the `done` set being walked has completed;
  - `ExitInv`.

  `OutputsAreKinds` shows that every adapter output is a list of event kinds.
  From it, `EventKind` shows that the line a walked response task yields is
  one of them. `DeliverType` covers the wrapper's three states.
- `CleanupSafe`: `Spec => []CleanupOnExit`. Its inductive invariant
  `ExitInv` adds that the adapter is not closed before the multiplexer exits.
  Only the finally block closes it, so it is closed exactly once. After the
  exit, every action that could restart a task is disabled.

- `OrderSafe`: `Spec => []AdapterOrderKept`, under `StreamAssumption`, for
  every bound. The property is not inductive: it says nothing of the event the
  response task holds. The inductive invariant `SInv` adds to `TInv`:
  - `OrderInv`: before the first line the client has nothing, and while the
    wrapper pulls, the data lines it got number `pos - 1` when the response
    task holds an event and `pos` otherwise;
  - `ExitPull`: once the multiplexer is leaving, the wrapper has stopped
    pulling or has passed the first-line check;
  - `DoneInv`: the terminator is the last line the client got, and no
    multiplexer turn starts after it.

  A yielded event `up[pos]` is then data line number `pos`. `DeliverShape`
  shows that the wrapper either appends the line and goes on pulling, or drops
  it and stops. `AppendKeepsIndices`, `AppendCount` and `AppendDone` say what
  appending a line does to the places of the data lines and of the
  terminator (`FS_AddElement` of `FiniteSetTheorems`). `SInv` was checked
  with TLC on the `stream_pass` instance and with text lines that carry
  `[DONE]` before it was proved.
- `DoneTerminatesSafe`: `NoDoneInText => (Spec => []DoneTerminates)`.
  `NoDoneInText` says that no text line carries the characters `[DONE]`;
  `stream_done_in_text` shows that without it the property fails, so the
  hypothesis is the code's real condition, not a convenience. The invariant
  `FinishInv` adds that a return into a started response comes right after
  the terminator reached the client. With `DoneInv`, the terminator's places
  are then exactly the last one.
- `StreamRefinement`: `Spec => StreamRefinesAbstract`. Under `SInv`, a
  yielded event that the wrapper appends is `SendEvent` (the abstract
  `Delivered` is the count of data lines, and the stream is open because no
  terminator was sent), an appended heartbeat is `SendBeat`, and every other
  step leaves `client` and `up` alone.

  StreamMux takes its sequence helper `UpTo` from `Sequences` alone, and
  counts with `FiniteSets`. `SequencesExt` would reach the RECURSIVE
  operators of `Folds`, and tlapm cannot use a module that does.

These stay with TLC only:

- the liveness property `EventuallyExits`, which is beyond the provers;
- `CurrentIsOwnKey` and `UpstreamErrorIsHttpError`, which are violated;
- `ListingIsReference` and `WeightsAreReference` of `ModelListing`. Every
  loop there is a `FoldLeft` of `SequencesExt`, which is RECURSIVE. Written
  as recursive functions instead, the loops would still need induction over
  the list to be compared with the reference, and the library's induction
  theorems take an operator parameter that no installed prover instantiates.

## Not modelled

- **`InMemoryRateLimiter`**: nothing under `src/` calls it.
- **`parse_rate_limit`**, beyond its result type (`LimitList`, the pairs it returns).
- **The adapters' line buffering and JSON mapping.** The model keeps only the
  sequence of event kinds.
- **`fetch_response`**, the non-stream path.
- **The SSE builders.**
- **Configuration loading**: `load_config`, `save_api_yaml` and
  `update_initial_model` are file and HTTP I/O at startup. The provider loop
  of `update_config` that builds the pools is also not modelled. Only its
  api_keys loop is modelled.
- **`BaseAPI` URL derivation.**
- **The audio-format detection and the `error_triggers` word list of the
  wrapper.**

These are conversions of single values with no interleaving. They are candidates
for reference-checked operators in a later module.

Two known hazards have no property yet. They are listed in `PROJECT.json` with
the reason:

- an empty pool raises IndexError;
- the heartbeat queue is unbounded.

The lock of `next` is not listed as a hazard: `next` awaits nothing while it
holds it, so it is atomic on the event loop with or without the lock, and the
model makes it one step. `set_cooling` reads `time()` before it awaits the
lock. This is not a hazard here either. None of the lock's holders (`next`, `is_rate_limited`, `set_cooling`,
`after_next_current`) awaits anything that suspends while it holds the lock.
So the lock is never contended, and the `await` does not yield to another
task.

## Plan

Work continues in this order:

1. **The adapters' line framing** (buffer, split on newline, leftover). It will
   be a pure operator checked against a reference definition over bounded
   chunkings, then composed with `StreamMux`.
2. **The provider loop of `update_config`**: which pool each model's keys go
   to.

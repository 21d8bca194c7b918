# Verification of cpa-glm-vision-bridge

TLA+ models of the plugin in `src/`, the TLC runs that check them on small
instances, and TLAPS proofs of what matters most for every value of the
constants. Paths below are relative to the repository, `file.go:line`.

The plugin lets a text-only model answer requests with images. A request enters
through the host's RPC (`plugin.go`, `executor.go`), its images are replaced by
descriptions that visual models write (`image_transform.go`, `bridge.go`,
`vision_stream.go`), a conversation that is too long is compressed by a
checkpointed summary (`history.go`, `history_boundaries.go`), and the result is
sent to a chain of text models whose stream is forwarded to the client
(`text_model.go`, `text_stream.go`). Descriptions and summaries are kept in a
cache with a file behind it (`cache.go`).

## 1. Inventory

| component | state | operations | interacts with | what makes it correct |
|---|---|---|---|---|
| Call of a visual model, `vision_stream.go` | accumulator, reader goroutine and its channel, budget and grace timers, `streamClosed` | start, read, consume, timeout, close, confirm, deferred close | host (`execute_stream`, `stream_read`, `stream_close`), called by the candidate loop | truth of the outcome about answer and upstream; one reader; return in bounded time |
| Candidate chain, `bridge.go:61-128`, `cache.go:138-159` | loop index, last error; the flight map; exact and stable memory | look up, lead or join a flight, skip, call, fall back, give up, remember | cache, visual call, other requests | one leader per key, right image, own question unless the stable memory answers, no overlap of paid calls, failure only as the last resort, everybody answered |
| Streaming text chain, `executor.go:54-96`, `text_model.go`, `text_stream.go` | model index, `emitted`, output gate, truncation tracker | prepare, open, read, gate, emit, close upstream, next model, close client | host streams of model and client | one author, a whole answer or an error, nothing before content, one close |
| Cache and file, `cache.go` | map, limit, dirty channel, writer goroutine, timer, stop/done, file | get, getLast, set, setLimit, markDirty, flush, load, close | all requests, lifecycle | bounded, no forgotten write, readable file, quiet after close |
| History compression, `history.go:17-112, 185-300`, `history_boundaries.go` | none of its own; checkpoints in the cache | pass, reuse, choose a cut, summarise, store | cache, summarizer models | nothing lost or repeated, tool pairs whole, within budget, honest refusals |
| Summarizer, `history.go:301-466` | cached pieces, their flights, a pair of goroutines and its channel | split, summarise pieces two at a time, join, cut again, chain of models | host, cache, other requests | the summary speaks of the whole history in order, or is an error; one call per piece; every goroutine ends |
| Visual transform, `image_transform.go`, `image_history.go` | plan of current, restored, archived images; job and result channels | choose, validate, describe with workers, replace | candidate chain, cache | every image resolved or the request fails; the right text in its place; bounded workers and calls; every goroutine ends |
| Lifecycle, `plugin.go:101-143`, `main.go:78-82`, `config.go` | the `configured` atomic value, the current cache | configure, currentConfig, shutdown; setLimit, load and the pruning they do | cache, all requests | every writer known and stopped when replaced; the cache in force is open and of its path and limit; an entry is lost to the TTL or a limit only; a lifecycle call returns; sound settings |
| Composition, `executor.go`, `bridge.go:9-59` | order of the stages of one request | execute, executeStream | all of the above | the text model never gets an image or an over-budget body |
| Output limit and estimates, `history.go:114-173`, `token_estimator.go` | none | clamp, estimate | composition | client's smaller limit kept, never above the configured one |
| Protocols and media, `protocol_adapter.go`, `image_media.go`, `media_scan.go`, `responses_input.go`, `tool_policy.go` | none | parse, detect, scan, normalize, walk, replace | transform | one adapter per request, no image gets past, none refused by a wrong guess |
| Event log, `events.go` | bounded list under a mutex | begin, stage, finish, snapshot | all | bounded |
| Management, `management.go`, `management_ui.go`, `rpc.go`, `web/` | none | render | event log, configuration | display only |

Hard behaviours: goroutines that share a stream and two timers; several requests
on one flight map; fallback chains that must stop in one case only; a debounced
writer against clients, close and crash; a pool of workers whose request
returned early; a configuration replaced under requests that still use it;
checkpoints found by conversations they were not made for. `PROJECT.json` lists each hazard at its line.

## 2. Modules

| module | models | state and actions against the code |
|---|---|---|
| `VisionCall` | what a visual call promises its caller (abstract) | `status`, `upstream`, `asked`; outcomes are the four ways of returning |
| `VisionStream` | `executeVisionStreamWithTimeout` and helpers | `pc` is the place in the function, `readers`/`reply` the goroutine and its channel, `timeUp`/`graceUp` the timers, `acc` the accumulator; `sent` and `upstream` are the host's side. One action per select case or host call |
| `VisionChain` | `describeImage`, `memoCache.do`, the write of the stable memory | per request `pc`, `at`, `result`, `joined`; shared `flights`, `exact`, `stable`; a call takes the steps of `VisionCall` |
| `AnswerStream` | what a client of a stream may see (abstract) | `client`, `ended` |
| `TextForward` | the goroutine of `executeStream` with `forwardTextFallbackStream` and `forwardPrimaryStreamWithHost` | `gate` is the gate's buffer and the payload in hand, `emitted`, `cut`, `final` the function's locals, `failure` its error |
| `MemoCache` | `cache.go` without `do` | a client's call takes the time, then the lock, then marks (three steps, as in the code); `writer` is the place in the goroutine and in `flush()` |
| `HistoryBoundaries` | `history_boundaries.go` as operators | items with call and result identifiers; a boundary is a number of items |
| `HistoryCheckpoint` | `prepareFinalTextBody` over the cached checkpoints | `conv` is the client's; `plan` is the cut while the summarizer runs; a summary is the items it stands for and a size |
| `HistorySummary` | `summarizeHistory`, `splitText`, `compressHistoryPiece` | per request `pc`, `pieces`, `next`; per goroutine of a pair its place, piece and model; shared `memory` and `flights`. A text is the sequence of the parts of the history it speaks of |
| `ImageSelection` | which images are described, recalled or marked, and for which text: the pure part of `image_transform.go`, `image_history.go` and their estimate in `token_estimator.go` | operators over a conversation and its images |
| `VisualTransform` | `transformRequestWithPlanAndMediaHint` | `pc` of the request, `queue` and `closed` of the feeder, `wpc` and `job` of each worker, `results` the channel, `memory` the stable memory that others write too |
| `Lifecycle` | `configure`, `currentConfig`, shutdown, `newMemoCache`, `setLimit`, `close`, `pruneLocked` wherever these, `set` and `flush` call it | `host` is the lifecycle call in progress, `pc` the place of each request, `configured` the atomic value; one function per field of the caches made so far. `expired` are the entries whose TTL has passed, `evicted` those a cache pushed out while its writer ran: a cache whose writer has ended saves nothing, so what it pushes out was saved already or is `late` |
| `MediaInspection` | `protocol_adapter.go`, `media_scan.go`, `responses_input.go`, the walk and decoding of `image_media.go` | operators over JSON trees with repeated keys (of which the last counts, also a null one), escapes and long strings |
| `Configuration` | `normalizeConfig`, the model chains, `applyFinalTextOutputLimit` | operators over settings |
| `Settings` | `configure` and `currentConfig` as to the settings, and what requests make of these | `settings` is what is in force; `Reconfigure` is a `configure` that is accepted |
| `Inputs` | `MediaInspection` over every body of a grammar | one state per body; the property is about the operators |
| `VisionStreamProofs`, `VisionChainProofs`, `TextForwardProofs`, `LifecycleProofs`, `MemoCacheProofs`, `HistoryCheckpointProofs`, `HistorySummaryProofs`, `VisualTransformProofs` | proofs about the module they are named after; `LifecycleProofs` also has those about `Settings` | |
| `MC*` | instances for TLC | |

`HistorySummary` is the summarizer that `HistoryCheckpoint` takes as success with
some size or failure; `VisualTransform` takes a call of `VisionChain` as one step
that returns a text or an error; `VisionChain` takes a call of `VisionStream` in
the steps of `VisionCall`; `Lifecycle` takes a cache of `MemoCache` as its entries
and a flush that succeeds, and leaves open which entry a limit pushes out.

Operators whose comment starts with "Mutant of" are plausible wrong versions of
the definition they precede. No behaviour uses them; each is there to show that
a property fails when the code is wrong in that way.

## 3. Runs

| run | instance | shows |
|---|---|---|
| `vision_stream` | all replies over {text, truncation} x {done, error, failed}; no bound is needed, the state is finite | the outcome is true of answer and upstream, one reader, a raced answer is preferred, the call returns, refinement of `VisionCall` |
| `vision_chain` | 2 requests, each about one of 4 tasks: one image asked plainly or with a reanalysis, a second image, a remote one without keys; 3 candidates, the middle one unusable | leaders, memories, whose image and whose question is answered, reanalysis, no overlap, failure last, each call of a candidate is a `VisionCall`, all answered |
| `vision_overlap` | same, with `ErrorEndsUpstream = FALSE` | finding 1 |
| `text_forward` | 2 models, up to 3 payloads each with any marks, gate of 2 | the inductive invariant, single author, whole answer, upstreams closed, refinement of `AnswerStream`, the client's stream is closed |
| `memo_cache` | 2 keys, limit 1 or 2, 1 client, clock of two ticks, 1 restart, flushes that fail at each file operation | readable file within bounds (`CacheInv`), no forgotten write, quiet after close, eventually saved |
| `history` | up to 4 items of 4 kinds, one return to an earlier point, budget 4, threshold 2, cache of 2 | nothing lost, tool pairs whole, within budget (`HistoryInv`) |
| `history_recent`, `history_refused` | same | findings 2 and 3 |
| `history_summary` | 2 requests with histories of 5 and 3 units, pieces of 2, summaries of at most 1, 1 model | the summary speaks of the whole history, one caller per piece, every goroutine ends |
| `visual_transform` | conversations of up to 4 items in 9 shapes, up to 3 images of 5 contents, 4 configurations, at most 2 workers, a memory budget for two different memories but not for one twice | jobs are in one place, each image is replaced by its own text, limits kept, the pool ends |
| `lifecycle` | 2 paths, limits 1 and 2, 2 requests whose entries may expire, 2 lifecycle calls (530,436 states) | every writer is known, the cache in force has its path and limit, entries of replaced caches are saved unless they expired or a limit pushed them out, calls return |
| `inputs` | 13,335 bodies of one or two messages with a block of any protocol, nested or not. 4,590 configurations in any order, of which 540 are accepted and give 162 different settings: names that are blank, padded, repeated or in two roles; numbers around every limit; every pair of visual models of 5 names, 3 limits, 2 budgets, on or off; no list of visual models (the defaults) and an empty one (refused) | no image gets past, no body refused by a wrong guess; the settings in force are sound, and are read again as they are |

Why the bounds are enough. *Two requests* are what a flight, an eviction between
a hit and a write, and a leader with a joiner need; a third only repeats a role.
*Three candidates* give a skip between two calls and a last one to exhaust. *Two
models* and *three payloads* give a buffer that is released in two emits, one
more payload after it, and an overflow of the gate. *Four items* hold a user
message, a call, its result and one more, so that a cut can fall before, inside
and after a transaction, a checkpoint can be extended once, and going back finds
one whose end is the end of the conversation. *Two keys with limit one* make
every write evict; *one restart* is enough because nothing but the file
survives it. `MemoCache` has one client because a second one meets the first at
the lock only, where each call is one step; its clock is short and `TTL = 0`
so that an entry expires at the next tick. *Three images* on *two workers* leave
a job with the feeder while both are busy, so that a failure can come before,
between and after the others; *two lifecycle calls* after
the default of a first request replace a cache and come back to its path, or
lower a limit and raise it, or configure after a shutdown, beside two first
requests that race for the defaults; *limits of one and two* are one that two
entries pass, when set, when loaded and when the limit is lowered, and one that
they do not.
*Five units in pieces of two* are a pair, a single piece, a second round that
cuts joined summaries, and the last call; the other history begins with the same
piece, so that two requests meet on one flight. In `inputs` a type is one of
three words of images, three of tools and texts, and a document. What is done with a
body there depends on no setting, so that `MCInputs` changes the settings under one
body only; and settings do not depend on those before them, so that the
configurations themselves are what is varied. The conditions that relate two
settings are met from both sides.

## 4. Fairness

* `VisionStream`: timers fire, a ready select case is taken sooner or later (Go
  chooses at random among ready cases), and `stream_close` returns.
  `stream_read` is **not** assumed to return: the timeout exists for that.
* `VisionChain`: a runnable goroutine runs, the host answers a start request,
  and a call returns (the property `ReturnsInTime` of `VisionStream`). A
  configured timeout is positive (`config.go`), which `ReturnsInTime` needs.
* `TextForward`: host calls return and a model's stream ends. There is no
  timeout in the text path, so this is an assumption about the host; without it
  `AlwaysClosed` does not hold.
* `MemoCache`: calls return, the writer runs, its timer expires. Clients are
  not fair and need not stop; `EventuallySaved` speaks of histories in which
  they do, because every mark starts the timer over (`cache.go:206-213`).
* `VisualTransform`: a goroutine that can run does, and `describeImage` returns,
  which is `AllAnswered` of `VisionChain`.
* `HistorySummary`: a goroutine that can run does, and the host answers.
* `Lifecycle`: a writer that was told to stop flushes and ends (a flush makes a
  bounded number of file operations), and a lifecycle call goes on. Requests
  need not go on.
* `HistoryCheckpoint`, `Settings` and `Inputs` have safety properties only.

## 5. Assumptions about the host

`ErrorEndsUpstream` says that a failed read or a chunk with an error is the
host's word that the upstream request is over. `src/` does not say so; the runs
and proofs of `NoOverlap` and `SafeToFallBack` state it, and `vision_overlap`
shows what happens without it. `EmitAckLost = FALSE` says that an emit that is
reported failed did not reach the client. A start reply that fails (an error of
the host, a reply that cannot be decoded, a status of 400 or more, no stream id)
leaves no upstream request: the code returns there before the deferred close is
registered, so a stream that the host had opened all the same would not be closed
(`vision_stream.go:77-97`, `text_model.go:119-135`). `VisionStream`, `VisionChain`
and `TextForward` take the host to open none, and `SafeToFallBack`, `NoOverlap` and
`OneUpstream` hold under this. An emit or a close takes effect at once. In `MemoCache` a crash is the end of the process: what was renamed stays.
In `Lifecycle` the host makes one lifecycle call after the other, and `close` has
one caller at a time: two at once may both pass its `select` and close a channel
twice (`cache.go:268-279`).

Two more things are taken from the data. A summary that a model gives back
speaks of all of the text it was given. And the key of a piece of a history and
that of the last call differ, which they do while the target is above 4096
tokens (`history.go:355, 394`).

`NoImagePasses` speaks of `Ordinary` bodies, which names two exceptions: a `type`
or `media_type` of more than 256 bytes is read as none (`media_scan.go:176`), and a
conversation field that is no list is not walked. A body with an escape such as
`\/` or a surrogate pair in a key or a type is valid JSON that
`strconv.Unquote` refuses (`media_scan.go:161`); the model has these too, the body is then
refused, and no property says otherwise.

## 6. Findings

1. *Fallback after an error without confirmation* (`vision_overlap`). Only a
   timeout goes through `closeAndConfirmVisionStream`; a failed read or a
   chunk with an error returns after a deferred close that nobody confirms
   (`vision_stream.go:93-97, 112`), and the loop continues (`bridge.go:102`).
   `plugin.go:161` promises no fallback without a confirmation.
2. *A reused checkpoint may leave nothing verbatim* (`history_recent`). After
   going back to the end of a summarised prefix, the body holds the summary only
   (`history.go:49-65`), against `plugin.go:177`.
3. *Refused although it fits* (`history_refused`). Between threshold and budget,
   a conversation without a cut is refused as exceeding the budget
   (`history.go:37-38, 76-77`); with compression off it would be sent.

## 7. Proofs

`tlapm` checks the eight `*Proofs` modules from the named assumptions of the
modules alone. Each has an inductive invariant, made of named parts that the
module itself defines and TLC evaluates too, and a lemma per action or group of
actions; the other theorems follow from it.

*VisionStream.* No single property is inductive: that a timeout means an ended
upstream depends on where the reply that said so is. `IInv` is the type
invariant with five parts: `Progress` (how far the call is, and what that says
of outcome and reader), `Closing` (how often the stream was closed at each
place), `Reading` (one read, or one waiting result), `Accounting` (what the host
sent is in the accumulator or in the channel) and `Ended` (which replies and
outcomes prove that the upstream is over). `Invariance` proves
`Spec => []IInv` with one lemma per group of actions; `CompleteAnswers`,
`SingleReaders` and `SafeFallBacks` read the safety properties off it;
`PrefersCompletedAnswer` is an action property; `Refinement` maps every step to
a step or a stutter of `VisionCall`.

*VisionChain.* The invariant has two layers. `LeadInv` adds to the types:
`Waiting` (a joiner knows whose flight it waits for), `Leading` (whoever is inside
a keyed flight is the one the map names: the reason two leaders cannot meet),
`Calling` (a call has a candidate) and, for a host with `ErrorEndsUpstream`,
`Ordered` (candidates before the index are over, those after it untouched).
`Leaders` and `Overlaps` follow, for any number of requests, images and
candidates. `ChainInv` adds `Tried` (the usable candidates before the index have
failed), `Flying` (a flight has the key of the request inside it) and `Sharing`
(a joiner has the key of its leader, who joined nobody, and no result before the
leader has one). With it `ServeInvariance` proves `RightImages`,
`FreshReanalyses` and `Failures`, which read the memories and the results
together and are inductive only as one: a wrong text could come from a memory,
from a leader, or from a candidate of another context. `RightImage` is about the
image only. Whose question is answered is `RightQuestion`, which `QuestInvariance`
proves with `Own` (whoever leads a flight returns what it extracted itself): what
an exact memory, a flight or an own call gives was extracted for the question
asked. The stable memory answers any question about its image on purpose
(`bridge.go:73`), and the property lets a request be served so only if it asked
plainly, joined nobody and called no candidate. `VisionCalls` maps every
step of a chain to a step or a stutter of `VisionCall` for each of its
candidates.

*TextForward.* What a client may see depends on what is still in the gate, and
on which model produced it. `ForwardInv` has the parts `Untouched` (models that
are not reached have produced nothing), `Streaming` (only the model in turn has
an open upstream, and the client's stream is open until the end) and, for a host
with `~EmitAckLost`, `Authored` (what the client has is an initial part of what
this model produced), `Holding` (the gate has the rest, in order) and `Leaving` (a
success left nothing behind). `ForwardInvariance` holds for any number of models,
size of the gate and length of the streams; `SingleAuthors`, `WholeAnswers`,
`OneUpstreams` and `HeldUntilContents` follow; `ForwardsAnswer` maps every step to
a step or a stutter of `AnswerStream`.

*Lifecycle.* That the cache in force is open and of its path and limit (`InForce`) needs to
be known of a cache before it is stored, and of the call that is about to store
it. `CallsInv` is the type invariant with `Sensible` (what each place of a
call says of the cache it saw), `KnownWriters` (a writer that was not told to
stop is the one in force, one about to be stored, or one that was replaced
unseen), `Fresh` (a cache that a request made is known to nobody else until it
is stored) and `Fitting` (path, limit and openness of the cache about to be stored and of
the one in force). `InForces` follows from `CallsInv` alone, so that the run
checks `LifecycleInv` and not `InForce` again. `EntriesInv` says where an entry is that
must not get lost: in the file of its path or, if that is the path of the cache in
force, in this cache, which then is marked dirty (`Entered`); a cache about to be
stored has loaded it already, because the old one was closed first (`Loaded`,
`Ended`); a request sets its entry in the cache in force or a closed one
(`Published`), and no other cache has anything to save (`Clean`). These hold
unless `currentConfig` raced and left a writer behind, as the property says.
`AllEntriesKept` follows. It excuses three kinds of entries: `late` (set after the
last flush of their cache), `expired` and `evicted`. So that the last does not excuse
too much, `Crowded` says that entries are pushed out only when more were set than one
of the limits allows; the lemmas `PrunedKeeps` and `PrunedFacts` say once what a prune
keeps and whom it pushes out, whether it is `setLimit`, `set`, `load` or `flush` that
prunes. All of it holds for any number of paths, limits,
requests, lifecycle calls and caches.

*MemoCache.* `NoForgottenWrite` is not inductive: what is lost when a flush fails
to see an entry was decided when it copied the map. `CacheInv` adds `Stopped`
(the order of `close`, the writer's last flush and its exit), `Copied` (a live
entry is in the copy being written, or it was announced since: the dirty flag,
the timer, or a client that is about to mark) and `LastCopied` (after the last
copy only late entries are missing). Entries expire in all of these, so the
lemmas `LiveMap`, `PrunedMap` and `LiveShrinks` say once what `live` and `prune` keep
as time passes. `CacheInvariance`, `WritesKept` and the action property
`FileLeftAlone` hold for any clients, keys, limits and times to live.

*HistoryCheckpoint.* `HistoryInv` carries through the summary that runs between
the two halves of a request: `Planned` (the cut is a boundary of this conversation
and what the summary starts from is its beginning), `CheckpointsWhole` (a stored
checkpoint stands for the prefix it is stored under) and `CutInTwo` (an answer is
a cut of the conversation at a safe boundary). The lemmas `Parts`, `Joins` and
`CutsWhole` are about sequences and boundaries: the two parts of a cut give the
whole again, and a safe cut separates no call from its result. `Wholeness` and
`ToolPairs` hold for conversations of any length.

*HistorySummary.* Two goroutines of one request, and those of other requests, may
work on the same text. `PiecesInv` is the type invariant with `Places` (where the
goroutines of a request can be at each place of its main loop) and `Flying`
(whoever asks the models is in the map of flights, which has a text once).
`OnePerPieces` proves with it that one goroutine at a time asks for a text and that
what is cached is a whole summary within the limit. `WholeHistories` needs
`TextsInv` as well: `Served` (what a goroutine hands over, and what is cached, is a
summary of its text), `InWork` (each piece of a pair is with its goroutine, or its
summary was collected) and `Spanning` (what is joined, followed by the pieces, reads
from the first unit of the history to the last). `Gapless` alone is not kept when a
piece in the middle becomes a summary, since it compares neighbours only; `Reads`
orders all units. The texts need an induction, as `splitText` is a recursive function
and the joins are a fold. `Induction` gets it for sets of numbers from `WFMin` (a
well-founded relation has a least element), without an operator as a parameter;
`FlattenIs` and `SplitsAre` use it to show that the functions exist and satisfy their
equations, `FlattenFirst` that a join takes off its first part, `SplitsWhole` that the
pieces of a text are not empty and joined give it again, and `SummaryInPlace` that a
summary can take the place of what it is of.

*VisualTransform.* `TransformInv` has parts for the queue (`GivenOnce`,
`ReportedOnce`, `OnePlace`: a job is in one place, handed out and reported once),
for what was started (`Started`, `OwnText`, `OwnMemories`), for the choice of images
(`Chosen`) and for the body (`Replaced`). `Replacements` follows, for any request,
settings and number of workers. `KeepsLimits` proves `WithinLimits` in two parts.
`Limits` is about the configured numbers and the token estimate: what the
estimate counts is what the plan describes, by two different walks over the
request. `RecallFair` is about the memories that are recalled within a number of
characters. The choice is a recursive function from the newest image to the oldest,
and the characters a sum over a set, so that both need an induction: `Induction`
and `Downward` get it from `WFMin`, `SumsExist` and `TotalIs` say that the sum over a
finite set is what one more element adds to the sum of the rest, `KeptIs` that the
choice satisfies its equations, and `KeptFair` that what is kept fits, and that a
memory left out is longer than every older one that is kept.

*Settings.* The inductive invariant is that `normalizeConfig` accepted some
configuration and returned the settings in force (`AcceptedInForce`); the work is to
show what it returns. `UniqueModels`, `NamedModels` and `VisualChain` are folds, as
the code has loops; `FoldExists` shows that a function with the equations of such a
fold exists, `UniqueIs`, `NamedIs` and `SeeingIs` turn it into the list after each turn of the loop, and
`Upward` is the induction over the turns. With it `UniqueFacts`, `NamedFacts` and `SeeingFacts` say
what is in the lists, and `UniqueSame` and `NamedSame` that a list they made is not
changed again. `WithDefaultsFacts` collects what is true of all settings that
`normalizeConfig` returns, accepted or not (`Filled`); `FilledAgain` that it returns them
unchanged; `ChainsAreSound` and `NumbersAreSound` add what it checked before it
accepted them. Two steps are less obvious than the rest: that no two visual models
have one name follows from the count of the names (`NoneTwice`), and that a
model's room is positive from its limit being above the smallest one
(`VisionFacts`). `SettingsAreSound` holds for any names, numbers, lists of models and
limits of clients. It assumes of the defaults that they are accepted and have a
positive output limit and summary target, as those of `defaultPluginConfig` do.

Only model-checked:

* liveness (`ReturnsInTime`, `AllAnswered`, `AlwaysClosed`, `EventuallySaved`,
  `PoolEnds`, `SummaryEnds`, `CallsReturn`), since liveness under fairness and
  ENABLED are out of the prover's reach;
* `NoImagePasses`: `MediaInspection` and `Inputs` use RECURSIVE operators over trees,
  and what these compute for every tree stays with TLC, because the prover does not
  reason about RECURSIVE operators. No other module declares or reaches one;
* the three properties that the code does not have (section 6): TLC finds the
  counterexamples, and no theorem can state them. `NoOverlap` is proved for a
  host with `ErrorEndsUpstream`.

Every safety property of the passing runs but `NoImagePasses` is a theorem, and so
are the three refinements.

## 8. Not modelled, and why

* Wire formats, prompts and wording: chunks are reduced to the marks the code
  looks for, images and texts to names, history to units. A cut of `splitText`
  inside a rune, and the trimming of a context to its tail
  (`image_transform.go:101`), change text only.
* The token estimate per character (`token_estimator.go`): arithmetic without a
  branch a property depends on. Which images it reserves tokens for is
  `EstimatedFull`, compared with the plan by `WithinLimits`; archived images count
  as their markers, not as the memories that may replace them.
* Asset identifiers are numbers; the code joins parts with `/`, which tells the
  images of a request apart by their path.
* The non-streaming chain `executeTextFallback`, and the mode of `prepareFinalTextBody`
  without compression, which passes a body on or refuses it.
* `tool_policy.go` appends a text to tool descriptions.
* RPC dispatch, C buffers and the check of unknown YAML fields (`main.go`,
  `plugin.go`, `rpc.go`): encoding.
* The event log and the management pages are read by nobody in the plugin.
  `web/` and the SDK are external.

## 9. Plan

| order | module | what for |
|---|---|---|
| done | `VisionCall`, `VisionStream`, `VisionChain`, `AnswerStream`, `TextForward`, `MemoCache`, `HistoryBoundaries`, `HistoryCheckpoint`, their first proofs | the core |
| done | `ImageSelection`, `VisualTransform`, `Lifecycle`, `HistorySummary`, `MediaInspection`, `Configuration`, `Inputs`, `TextForwardProofs`, `LifecycleProofs` | the components around it |
| done | `MemoCacheProofs`, `HistoryCheckpointProofs`, `HistorySummaryProofs`, `VisualTransformProofs`, `Settings`, the rest of `VisionChainProofs` and `LifecycleProofs` | the safety properties that were only model-checked before |
| later | `Request` | composition of transform, compression, output limit and the text chain (streaming or not); property: what a text model gets holds no image and fits the budget |

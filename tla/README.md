# Verification of moss-tts-nano-onnx-go

TLA+ models, TLC runs and TLAPS proofs about the speech synthesis server in
`src/`: a Go program that keeps a pool of worker subprocesses, each with its own
ONNX runtime, and serves synthesis requests over HTTP.

1. [The system](#1-the-system): parts, state, operations, interactions
2. [The modules and the code](#2-the-modules-and-the-code)
3. [The runs](#3-the-runs): what each checks, bounds, fairness
4. [Where comments and code disagree](#4-where-comments-and-code-disagree)
5. [The proofs](#5-the-proofs)
6. [What is not modelled](#6-what-is-not-modelled)
7. [Plan](#7-plan)

To check a run: `tlc -workers 2 -config MCCorePool_core.cfg MCCorePool.tla`; to
check the proofs of a module: `tlapm CorePoolProofs.tla`, and so on for each
`*Proofs` module (`WorkerLinkProofs` takes about five minutes, `FrameStreamProofs`
four, the others less).

## 1. The system

A browser asks the web server for speech, in one piece or as a stream.  The
handler acquires an inference core from the pool; a core is a worker process and
the link to it.  The request crosses the link, the worker runs it in a goroutine
of its own on the one ONNX runtime of its process, and the answer, or a sequence
of audio chunks, comes back.  A client that leaves cancels its context, which
reaches the worker as a message.  Caches of encoded reference voices lie on disk
and are shared by all workers.

| Component | Source | State it keeps | Operations | Interacts with |
|---|---|---|---|---|
| Core pool | `pkg/ttsruntime/pool.go` | resident and reserve cores, per core a mutex, a counter of active requests and a time stamp; queue of waiting requests | `Acquire`, `AcquireForRead`, `Release`, `dispatchPending`, idle monitor, `Close` | web API (requests), worker link (one per core) |
| Worker link | `pkg/ttsruntime/worker_process.go`, `pkg/worker` | request ids, table of pending channels, closed flag, connection, subprocess | start, `sendRequest`, `sendStreamRequest`, `sendCancel`, `readLoop`, `closePending`, `Close` | pool (above), worker main (other end of the connection) |
| Worker main | `cmd/worker_main.go` | table of cancel functions, write mutex, one runtime | handshake, dispatch of requests to goroutines, cancel | worker link, TTS runtime |
| TTS runtime | `pkg/ttsruntime/ttsruntime.go` | sampling parameters, random generator, caches | splitting of a text, reference encoding, synthesis, streaming: frames to audio in batches | ONNX runtime, caches |
| ONNX runtime | `pkg/ortruntime/runtime.go` | sessions, counter of active requests, two mutexes, generation defaults | create, ensure encoder, destroy, reset, generate, decode | onnxruntime library (external) |
| Preload cache | `pkg/ttsruntime/preload.go` | memory map with access order, files | `Get`, `Preload`, `Clear`, `Remove` | TTS runtime; other processes through the files |
| Clone cache | `pkg/ttsruntime/audio_clone_cache.go` | files with modification times, shared by processes | `Get`, `Put`, `CleanExpired` | TTS runtime, web server |
| Web server | `pkg/web` | progress subscribers, readiness, pool | `emit`, background initialisation, synthesis and stream handlers, `Close` | pool, dependencies, browser |
| Runtime manager, stream controller | `pkg/runtime/runtime_manager.go`, `pkg/stream/controller.go` | - | - | nothing: the server has a field for the one that stays nil, nobody imports the other |
| Normalizer | `pkg/normalizer` | engine handle, one-time initialisation | `EnsureInitializedSync`, `BuildCache`, `Close` | web server, external WeText library |
| Dependencies | `pkg/deps/deps.go` | files on disk, download progress | `EnsureNativeLibs`, `EnsureModels` | web server, network |
| Tokenizer, sampler, audio, device, configuration, proxy, logging | `pkg/tokenizer`, `pkg/sampler`, `pkg/audio`, `pkg/device`, `pkg/config`, `pkg/appconfig`, `pkg/onnxconfig`, `pkg/proxy`, `pkg/log`, `pkg/constants` | data or counters of one caller | pure functions, I/O | everything |

What is hard in each, and what would make it correct:

- **Core pool.**  Four attempts to get a core without a lock across them; a
  counter read by every scan and written elsewhere; a mutex per core that is
  waited for while the pool's own mutex is held for reading; a hand-over through
  a buffered channel to a request that may be leaving; a monitor that stops
  processes; two mutexes taken in both orders.  Correct: exclusive leases, exact
  counters, no leased core stopped, the bound on processes, a consistent queue,
  every acquisition ends, a queued request is served.
- **Worker link and worker main.**  Five ways for a call to end (answer,
  time-out, context, failed write, failed connection) race with three places
  that delete its table entry; one goroutine serves every call and may block on
  one of them; cancel messages race with the start of the task they are meant
  for; tasks share fields of one runtime.  Correct: the table is exact, the
  reader never waits for somebody who has left, streams arrive whole and in
  order, calls end, a request is served with its own parameters.
- **ONNX sessions.**  Sessions are native objects destroyed explicitly; pointers
  to them are kept across resets; the counter of active requests is not looked
  at by a forced reset; loading can fail half-way, after everything was
  destroyed.  Correct: no run of a destroyed session, one phase in memory.
- **Preload cache.**  Ids are used again for other files; several processes
  read, write and remove the same file; writes are in place.  Correct: the right
  voice, an eviction order that is the order of use, no damaged file without a
  fault.
- **Clone cache.**  One temporary file per key for all processes, a mutex per
  process; the cleaning goroutine of the parent looks into another directory
  than the workers.  Correct: no damaged entry without a fault, a stored entry is
  found, an expired one goes.
- **Web server.**  Browsers join while several goroutines emit events; buffers
  are bounded and events dropped; the process may be told to stop while the start
  is at any point.  Correct: each event once and in order, nothing lost but by a
  full buffer, "ready" is true, the stream of events ends, the pool is closed.
- **Dependencies.**  A failure or a crash at any point of any download, then a
  restart that judges a file by its size; two sources.  Correct: what is whole
  stays so, a restart mends what it can, a start ends.
- **Frames to audio.**  Tensors are handed from run to run and freed by hand;
  frames reach the codec in batches that depend on the listener's pace; a frame
  that repeats ends a piece without being called back; the reader may leave.
  Correct: no frame lost or out of order, the codec's state fits the piece, the
  context of a piece is what was spoken before, every way out closes the channel.
- **Pure parts.**  A search for the best segmentation, a splitting of text that
  cuts bytes, arithmetic in 128 bits, a nucleus of tokens, spans put away and
  back.  Correct: they compute what their definition says.

## 2. The modules and the code

| Module | Models | Role |
|---|---|---|
| `CoreLease` | - | what the pool promises: cores leased to one user at a time, started for somebody, retired only when free |
| `CorePool` | `pool.go` | the pool; implements `CoreLease` |
| `CorePoolProofs` | - | TLAPS proofs about `CorePool` |
| `RemoteCall` | - | what a worker promises to its callers: a call ends once and with a cause, its task is begun once, a stream that ends well has all chunks |
| `WorkerLink` | `worker_process.go`, `pkg/worker`, `worker_main.go`, the part of the runtime that tasks share | one worker and the link to it; implements `RemoteCall` |
| `WorkerLinkProofs` | - | TLAPS proofs about `WorkerLink` |
| `OrtSessions` | sessions of `ortruntime/runtime.go`, order of a synthesis and of an encoding in `ttsruntime.go` | what happens inside a worker |
| `OrtSessionsProofs` | - | TLAPS proofs about `OrtSessions` |
| `PreloadCache` | `preload.go`, `ResolvePromptAudioCodesWithPreload` | the shared cache of voices |
| `PreloadCacheProofs` | - | TLAPS proofs about `PreloadCache` |
| `CloneCache` | `audio_clone_cache.go`, its use in `EncodeReferenceAudioWithOptions`, the cleaning in `web.go` | the cache of encoded audio, shared through files |
| `CloneCacheProofs` | - | TLAPS proofs about `CloneCache` |
| `ServerStart` | `backgroundInit`, `emit`, `Close` of `web.go`, `handleProgress`, `EnsureInitializedSync`, signal handler | the start and its events |
| `ServerStartProofs` | - | TLAPS proofs about `ServerStart` |
| `Downloads` | `deps.go` | what a start finds, fetches and takes for complete |
| `DownloadsProofs` | - | TLAPS proofs about `Downloads` |
| `Speech` | - | what a synthesis promises its listener: pieces one after the other, each spoken from its first frame to its last; only a fault or a cancellation takes frames away |
| `FrameStream` | loops over pieces and `decodeFramesStreaming` of `ttsruntime.go`, generation and streaming codec of `ortruntime/runtime.go` | one synthesis, from frames to audio; implements `Speech` |
| `FrameStreamProofs` | - | TLAPS proofs about `FrameStream`, and about pure steps of a synthesis: `DoubleWords`, `Sampling`, `Waveform` |
| `Tokenizer`, `TextChunks` | `tokenizer.go`; `SplitVoiceCloneText` and what it calls | pure |
| `DoubleWords`, `Pcg64`, `Sampling` | arithmetic of `pcg64.go` in two words; the rest of it; `sampler.go` | pure |
| `ProtectedSpans`, `Waveform` | `protectSpans` and `restoreSpans` of `robust.go`; `TrimTrailingSilence` of `audio.go` | pure |
| `Algorithms` | - | a behaviour per input of the pure modules, and their properties |
| `MC*` | - | model values and symmetry for TLC |

The modules meet where the code does: a core of `CorePool` is one `WorkerLink`;
its constant `Exclusive` says that calls are made one at a time as the pool
makes them.  `WorkerLink` finds that tasks may overlap all the same after a
cancellation; `OrtSessions` takes that as its starting point and lets tasks
overlap.  `PreloadCache` is what `OrtSessions` abstracts to "the codes are at
hand, or an audio file must be encoded", and `CloneCache` is what a worker looks
at before it encodes.  `FrameStream` is one `Generate` and `Decode` of
`OrtSessions`, with sessions that are there; the pieces it speaks come from
`TextChunks`, the tokens of a frame from `Sampling` with numbers from `Pcg64`.
`ServerStart` makes the pool of `CorePool` after `Downloads`.

In every module a goroutine has a program counter and an action is the code
between two points where another goroutine can tell the difference: taking or
releasing a lock, an atomic counter, a channel operation, a file operation.

**CorePool.**  Requests are goroutines that call `Acquire` or `AcquireForRead`
once; that is why runs do not check deadlock: the system stops when all are
served.  `active` is `ActiveReqs`, `coreMu` the mutex of a core, `readers` and
`writer` are `Pool.mu`, `pendingMu` and `queue` the queue.  Three details:

- A `sync.RWMutex` makes new readers wait as soon as a writer waits; `RLock`
  says so.
- The scan of reserve cores reads the counter and calls `TryLock` in one step:
  nothing is decided between the two, and a core with a positive counter or a
  locked mutex is skipped alike.  `Lock` and the `Add(1)` after it are also one
  step: the counter of a core whose mutex was just taken is read by others as
  zero a moment longer, which sends them to wait for that mutex as `WorkLock`
  does anyway.
- Every `Release` starts a goroutine of `dispatchPending`; all but one wait for
  `pendingMu`, so a counter `dispatches` stands for those that wait.  The
  dispatcher calls the same three attempts as `Acquire`, hence `Acquirers`
  contains `Dispatcher`.
- The list of reserve cores grows at its end; cores are numbered in the order
  of their start, so that the set with `NextCore` is the list.

**WorkerLink.**  The id of a call is the call itself (`nextReqID` never
repeats).  A frame is written under a mutex and is one message.  `toWorker` is
unbounded: requests are small and few; `toParent` holds `NetCap` answers before
a write blocks.  `out` stands for `outCh` and `chunkChan`, both filled and
emptied by the goroutines of one stream; `given` counts what reached the pool's
channel, and a stream is in `gone` when its handler has left and that channel is
full.  A stream is `Stuck` when, besides, its goroutine waits to send and its channel
of the table is full: nobody will ever take anything out of that, and `closePending`,
which sends under `mu`, may wait for it for ever (`ClosingMayWait`).  All sampling
parameters are one, since the code overrides each by itself; `params` is the field of
the runtime with what a request sent, `defaults` the generation defaults of the manifest,
into which generation writes what it found there.  A stream alternates between generating
and writing a chunk.  A panic of the worker is a `WorkerDies`.  Chunks have
numbers: `Line(r)` is what lies between the reader of the connection and the
client, in the order in which the client gets it, where the chunk at place i has
the number that follows those given before it; on the connection the chunks of
one stream stand between other answers, and `Follow` says that none of them is
left out.

**OrtSessions.**  Sessions of inference are loaded and destroyed together and
are one set with a number; `live` is what is in memory, whether or not
`rt.Onnx` still leads to it.  `Pick` evaluates the pointer that is passed to
`RunSession`, `Run` has `SessionRunMutex`: the session may be destroyed between
the two and during the run.  Pieces of text and frames are loops without
counters.  `LoadFails` leaves the sessions loaded so far in memory, as the code
does; "hybrid" mode tries once more on the CPU.  A nil session or the second
close of a stream's channel ends the process (nothing recovers).  The histories
`overlapped` and `failed` let properties say "if tasks did not overlap".

**PreloadCache.**  The codes of an audio file are the file.  What a process does
in memory under its mutex is one step; each access to the directory is one,
because other processes do not wait.  `writing` has the requests whose open file
is the one that bears the id now: `os.Remove` takes the name away and the writer
goes on in vain, `os.Create` empties the file under a writer.  `Kept` is what an
earlier run, or an earlier version of the program, may have left.  The history
`met` has the requests that ran at the same time as one with the same id and
another file.

**CloneCache.**  A file has a content apart from its name, as in the file
system: `gob[d][k]` and `tmp[k]` say which file bears a name, `fd` which one a
process has open, `whole` which contents are complete.  So a process goes on
writing to a file that another one has emptied (`os.Create` of the same name),
renamed or removed.  The mutex `mu` is one per process.  `met` has the keys that
two processes wrote at the same time or that a fault concerned, `late` the
encodings that began after their key was stored.  Between two cleanings of the
parent time passes: any entry may expire.  A removal by the cleaner may fail, which
counts as a fault; the entry is there at the next cleaning.

**ServerStart.**  A stage ends where `backgroundInit` may give up; an emitter
(`backgroundInit` and one goroutine per language) records an event and copies the
subscribers in one step, under the mutex, and sends to one subscriber a step,
without it and without waiting.  `existing[s]` is how many events a browser
copied when it joined.  A browser that comes again is another element of `Subs`, as its
subscription has a channel of its own.  After the pool is made its event is emitted,
and only then does the server know it: `held` says that the server knows its pool, `early`
remembers that `Close` ran before it did.

**Downloads.**  One action per file operation that can fail; a crash is a start
from `libs` with the same `disk`.  `todo` has the files of a listing that are not
complete and `file` the one in work: the order of a listing is the remote
server's, and any file may come next.  A fetched file goes from absent or empty over
partial to whole; a fault leaves it as it is.  A source may also accept a request and then
say nothing more (`Stall`): the client has time-outs for connecting and for TLS, none for
an answer or its body (`deps.go:708`, `746`), so that the start waits until it is stopped.
Of the archive with the library one file is modelled, the one `findOrtLib` asks for; the
others are extracted by the same loop and asked for by nobody.  `clean`, `asked` and `damaged` are histories: no fault in this start,
it asked for the listings, files that a fault has cut off in the middle.

**FrameStream.**  A past is a number; `live` is what was not destroyed.  The
audio of a batch is the frames it was made from, so that order, loss and the
codec's state (`fed`) can be compared with what was generated; `after` is how
many frames of the piece the codec had been fed before.  The listener's view of it,
as `Speech` has it, is what is still to be spoken (`Rest`), how far the codec is in
the piece (`Decoded`) and the audio between codec and listener (`Way`: the channel
and the wave in hand).  `NothingLost` says of a synthesis without faults that each item sent
begins where the one before it ended (`From`, `Reached`), that
it was decoded from the frames at its place (`Said`), and that the last one
reaches the end of the text.  The budget of the first batch of a piece is
`FirstBudget`, a later one any of `Budgets`: `resolveStreamDecodeFrameBudget`
computes it from clocks.  The plain synthesis is `stream = FALSE`.

**Pure modules.**  A rune is a name, a byte its rune and place, a score an
integer, a weight a power of two, a machine word four bits.  A random number is one of n
equidistant ones from 0 on, without 1, as `Float64` is.  Definitions keep the order of
the code's loops where it decides the result (equal scores, the first of several
matches) and use sets where it does not.  Some are RECURSIVE, as only TLC uses
them; `DoubleWords`, `Sampling` and `Waveform` are not, and are also proved about.  References that do not follow the code stand at the end of `Tokenizer`
and in the properties of `Algorithms`: all segmentations instead of dynamic
programming, numbers instead of pairs of words, probabilities instead of a sorted
mask.

## 3. The runs

| Run | Question | Bounds |
|---|---|---|
| `pool_core` | Do leases, counters, reserve bound and queue stay right while requests, a reader, cancellations, the monitor and `Close` interleave?  Is every step one of the abstract lease? | 2 requests, 1 reader, 1 resident core, 1 reserve core started up to twice |
| `pool_live` | Does every acquisition end, is a queued request served? | 3 requests, 1 resident, 1 reserve core, no cancellation, no `Close` |
| `pool_leak` | violation, see section 4 | 2 requests, 1 core |
| `link_turns` | Is the table exact, do streams arrive whole, whose parameters does a task find?  Is every step one of the abstract remote call? | a unary synthesis that overrides parameters and a stream of up to 2 chunks, one at a time; cancellation, a crash, `Close`; channels of capacity 1 |
| `link_live` | Does the reader never wait for somebody gone?  Do calls end when the worker may die, answers may be 300 seconds late, and a stream beside them was left with full channels? | a ping, which takes no core, beside a stream of up to 3 chunks; cancellation, a crash; channels of capacity 1 |
| `ort_overlap` | Is generation protected from other tasks?  Does a worker whose tasks do not overlap run no destroyed session, keep the phases apart and not panic? | a unary task and a stream, 4 sets of sessions loaded in all |
| `preload_shared` | Is the eviction order the order of use, does a request speak with its own voice, is no damaged file left without a fault? | 3 requests, 2 processes, 3 ids of which one names two files, 2 entries in memory, 1 crash or failed write |
| `clone_shared` | Do writers of one key in several processes leave no damaged entry, is what was stored found, does a lone `Put` succeed, does an expired entry go? | 3 encodings (one does not write), 2 processes, 1 key, 1 crash, failed write or failed removal |
| `server_start` | Does a browser get each event once and in order, is "ready" true, does its stream end, is the pool closed at exit? | 1 browser, a buffer of 1, 1 further event per emitter, 1 dropped event, a stop at any point |
| `downloads_restart` | Do restarts never damage a whole file and mend what is missing, does every start end that waits for no silent source? | 2 repositories, the mirror and the default source, 3 failures, silent sources or crashes, restarts |
| `frames_pieces` | Is every step one of the abstract speech: all frames in order and once but for faults and cancellation?  Is the codec's state that of the piece, the context the one last spoken, does every synthesis end? | 3 pieces of at most 2 frames out of 2, a first budget of 1, then 1 or 2, a channel of 1, 1 failure, cancellation; streamed and not |
| `algorithms_small` | Do the pure parts compute what their references say? | texts of up to 4 runes (7 of two letters), 16 pieces in the vocabulary; passages of up to 4 runes (6 of three kinds), limits 1 to 5; all pairs of 4-bit words with a small high word; 15 seeds and sequences each; up to 4 scores; lines of 5 symbols; waves of 11 samples |

A property that a run lists may be the conjunction of two of its module:
`LoneWriterStores`, `EventsArrive`, `PoolAsTold`, `StartMends`, `StateCarriesOn`,
`TokensSpellText`, `GeneratorIsFull`, `ChoiceFollowsScores`.
The type invariants `TypeOK` hold with the same constants; runs list what says
more.

Why these bounds are enough to be of interest: in `pool_core` a reserve core
can be started, expire, be stopped and be started again, while the other request
waits in the queue and the reader on the resident core's mutex; two cores show
what a scan that passes a busy core does.  In `link_turns` every channel can be
full, with one more answer behind it in the connection; in `link_live` three chunks fill
everything between worker and client once the client has left, while the ping is at
any point.  Four sets of sessions
are enough for the one at start, an encoder, the sessions after it and those
after a reset.  Three requests on two processes with two entries in memory reach
an eviction, an id used again, and two processes that save one file.
`CorePool` was also checked with three requests, a reader and two resident cores
(`ExclusiveLease`, `CountIsLease`).  In `clone_shared` two processes can have the
temporary file open and the third encoding meets what they leave; one key
suffices because keys share nothing.  In `server_start` a buffer of one is full at once,
and a browser can join between any two events.  Three faults in
`downloads_restart` fail the mirror for both repositories and leave one more for a
crash.  Three pieces let an empty one stand between two others, and two equal
frames freeze a piece.  Splitting is checked with limits around the number of
tokens of the shortest pieces, so that whole sentences, clauses and cut clauses
occur.  The proofs of section 5 remove these bounds from the safety properties of
every state machine, and from those parts of the pure modules that they name.

**Fairness.**  Safety runs use `Spec`.  `CorePool` assumes that goroutines run,
that leases end, and strong fairness of taking a lock: `sync.Mutex` hands itself
over to a goroutine that has waited for a millisecond, and `sync.RWMutex` stops
new readers when a writer waits.  Nothing is assumed of cancellations, ageing and
`Close`.  `WorkerLink` assumes that goroutines of the parent and of the worker
run, that a worker in progress generates, strong fairness where a Go `select`
chooses among ready cases, that the 300 seconds pass, and that a worker whose
connection was closed dies.  Nothing is assumed of crashes, nor of `closePending` while it
may come to a stream that is stuck: it then holds `mu`, and no call leaves.  `CloneCache` assumes
only that the parent's cleaning loop goes on; `ServerStart` that the goroutines
of the start run, that nothing they wait for (a download, a library) takes for
ever, and that a handler whose browser reads goes on; `Downloads` that a start
goes on unless it waits for a source that has fallen silent, and nothing of such a source; `FrameStream`
that the task runs and that the reader reads until it leaves.  Each is weak: no
step of these needs a choice that can be passed over for ever.

`UnaryEnds` has one exception.  A client leaves a stream whose channels are full, the worker
dies, and `closePending` waits under `mu` to send the error into that stream's channel: the
deferred removal of every other call (`worker_process.go:267`) waits for `mu`, so that
not even a ping, which takes no core, ends.  The run shows that there is no other;
`UnaryAlwaysEnds` of section 4 is the property without it.

`RegisteredEnds` is about calls that are in the table before `readLoop` has
given up: a stream that registers after that gets no answer, and no time-out
exists for streams.

## 4. Where comments and code disagree

One run ends in a violation of what a comment says: `pool_leak`.  A request is
cancelled while the dispatcher puts a core into its buffered channel: nobody
takes it out, and the core stays locked (`pool.go:264`, comment `pool.go:304`).

Other properties of this kind are stated at the end of their modules, without a
run of their own; TLC finds each violated with the constants given here (those
not named: every set empty, every capacity and `MaxChunks` 1, every flag FALSE
but `Exclusive`):

| Module, property | Constants | Comment |
|---|---|---|
| `CorePool` `NoStrandedRequest` | 2 requests, 1 core | `pool.go:49`: a core released after the last look of a request and before its entry in the queue |
| `CorePool` `CloseNotDeadlocked` | 2 requests, 1 core, `CloseAllowed` | `pool.go:364`: two mutexes in both orders |
| `CorePool` `AcquireGivesCore` | 2 requests, 1 core, no reserve, `CloseAllowed` | `pool.go:144` |
| `CorePool` `ClosedStopsAll` | 1 request, 1 core, 1 reserve core, `CloseAllowed` | `pool.go:364` |
| `CorePool` `IdleMinuteRespected` | 2 requests, 1 core, 1 reserve core | `pool.go:57` |
| `WorkerLink` `CancelIsHeard` | `Streams = Cancellable = {t1}` | `worker_process.go:292` |
| `WorkerLink` `OneTaskAtATime` | `Synth = {u1, u2}`, `Cancellable = {u1}` | `pool.go:30` |
| `WorkerLink` `ParametersOfRequest` | `Synth = {u1, u2}`, `Overriding = Cancellable = {u1}` | `worker_main.go:234` |
| `WorkerLink` `DefaultsIfNotSent` | `Synth = {u1, u2}`, `Overriding = {u1}` | `protocol.go:50` |
| `WorkerLink` `CloseNotBlocked` | `Streams = Cancellable = {t1}`, `MaxChunks = 3`, `MayCrash`, `MayClose` | `worker_process.go:372` |
| `WorkerLink` `UnaryAlwaysEnds` (with `FairSpec`) | as `link_live` | `worker_process.go:253`: as `CloseNotBlocked`, the call beside the stream waits for the same mutex |
| `WorkerLink` `CancelledStreamEnds` (with `FairSpec`) | `Streams = Cancellable = {t1}`, `MaxChunks = 3` | `worker_process.go:325`: the goroutine of a stream never looks at the context while it sends |
| `OrtSessions` `AcquireProtects` | 2 unary tasks | `runtime.go:317`: the forced reset of a cancelled task |
| `PreloadCache` `NoMixUp` | as `preload_shared` | `ttsruntime.go:319` |
| `CloneCache` `RenameIsWhole` | as `clone_shared` | `audio_clone_cache.go:100`: a second writer has emptied the file that the first one renames |
| `CloneCache` `WorkersEntriesGo` | as `clone_shared` | `web.go:304`: the parent cleans another directory |
| `ServerStart` `NoPoolLeft` | as `server_start` | `web.go:229`: a pool about to be published |
| `Downloads` `ReadyMeansComplete` | as `downloads_restart` | `deps.go:290`: only the manifest is looked for |
| `Downloads` `SilentSourceGivenUp` (with `FairSpec`) | as `downloads_restart` | `deps.go:300`: a mirror that accepts and says nothing is waited for, the default source is not asked |
| `FrameStream` `DestroyedOnce` | as `frames_pieces` | `runtime.go:1254`: the tensors of the prefill are destroyed twice |
| `FrameStream` `ContextIsPrevious` | as `frames_pieces` | `ttsruntime.go:1090`: a piece without frames is passed over |
| `FrameStream` `SeedIsSent` | as `frames_pieces` | `api.md:367`: a flag is set before it is looked at |
| `Algorithms` `RestoreInverts` | as `algorithms_small` | none: a span that has gone into a later one ("#http://...") stays a placeholder and is spoken |
| `Algorithms` `RunesStayWhole` | as `algorithms_small` | none: `splitTextByTokenBudget` cuts between bytes |
| `Algorithms` `ChunksFit` | as `algorithms_small` | none: numbers of tokens are added (`ttsruntime.go:206`), and the text that is joined, whose right part no longer begins a word, may need more; nor is a prefix counted again that is cut at an earlier mark (`ttsruntime.go:277`) |
| `Algorithms` `RemovedStaysOut` | as `algorithms_small` | none: at the random number 0 the first token is taken, whatever its probability (`sampler.go:151`) |
| `Algorithms` `BytesComeBack` | as `algorithms_small` | none: `Decode` compares four characters with three (`tokenizer.go:317`); nothing in the process calls it |

Seen while translating, without a property: `Encode` falls back to bytes below
0x100 where its comment says ASCII (`tokenizer.go:264`), and takes the unknown
piece where a piece of the wrong type has the text; a text that stays in one
chunk is returned without the preparation it was measured with.

## 5. The proofs

Each `*Proofs` module proves what it says for all values of the constants of its
module, from the module's own `ASSUME` and nothing else.  These assumptions say
which sets are disjoint, that `None` and the like are no process, request or file,
and that capacities are positive (`Capacity`, `StreamCap`, `Cap`: the code makes
its channels with constants); only `WorkerLink` also assumes finitely many calls.
Every safety property of a run but those of `algorithms_small` is a theorem, each
refinement included, and so is every type invariant:

| Run | Module | Theorems (property) |
|---|---|---|
| `pool_core` | `CorePoolProofs` | `Exclusive` (`ExclusiveLease`), `CountCorrect` (`CountIsLease`), `Bounded` (`ReserveBound`), `QueueCorrect` (`QueueConsistent`), `Implementation` (`ImplementsLease`), `RunningLease` |
| `link_turns` | `WorkerLinkProofs` | `TableIsExact` (`TableExact`), `StreamsAreWhole` (`StreamWhole`), `ParametersKept` (`AnsweredCallsKeepParameters`), `LinkImplements` (`ImplementsCall`) |
| `link_live` | `WorkerLinkProofs` | `ReaderIsFree` (`ReaderNeverWaits`) |
| `ort_overlap` | `OrtSessionsProofs` | `Protected` (`GenerationProtected`), `NothingStale` (`NothingStaleAlone`), `PhasesExclude` (`PhasesApart`), `NoPanic` (`NoPanicAlone`) |
| `preload_shared` | `PreloadCacheProofs` | `OrderIsExact` (`OrderIsRecency`), `VoiceIsOwn` (`OwnVoice`), `OnlyFaultsTear` (`TornByFaultOnly`) |
| `clone_shared` | `CloneCacheProofs` | `OnlyFaultsDamage` (`DamageByFaultOnly`), `LoneWriterIsSafe` (`LoneWriterStores`) |
| `server_start` | `ServerStartProofs` | `EveryEventArrives` (`EventsArrive`), `PoolIsAsTold` (`PoolAsTold`) |
| `downloads_restart` | `DownloadsProofs` | `WholeFilesStay` (`WholeStaysWhole`), `StartsMend` (`StartMends`) |
| `frames_pieces` | `FrameStreamProofs` | `SynthesisSpeaks` (`ImplementsSpeech`), `StateIsCarried` (`StateCarriesOn`), `ContextIsRight` (`ContextIsLastSpoken`), `AllIsSent` |
| `algorithms_small` | `FrameStreamProofs` | parts of its properties for every input: `StepIsLinear`, `StepsStayApart`, `IncrementIsOdd`, `TopIsExact`, `TrimIsSilent` |

The properties are not inductive.  In every module `IInv` is the strengthening,
a conjunction of named parts; `Invariance` proves it from `Init` and one lemma per
action or group of actions, and each theorem follows from it.  `IInv` was checked
with TLC on the module's run before it was proved; that of `FrameStream`, whose parts
quantify over sequences that equal a variable, with the variable in their place.

**CorePool.**  `IInv` adds what the invariants rest on:

- `HandInv`, `ChanInv`: a goroutine has a core in its hand exactly at the labels
  between taking and unlocking it, and a core lies in a channel only while its
  request waits or leaves;
- `LeaseInv`: who has a core is the one its mutex is locked for; without it
  exclusiveness could be lost in the hand-over, where the mutex stays locked and
  changes its user;
- `DispatchInv`: the dispatcher has `pendingMu` whenever it is between its
  labels, so that the head it saw is still there;
- `ScanInv`: a goroutine that waits for a core's mutex still holds `Pool.mu` for
  reading, so that `Close` cannot stop the core in between;
- `RunInv`: running, stopped and not yet started cores are disjoint and the
  reserve is finite, which bounds the processes.

In the refinement the user of a core is the holder of its mutex while the counter
is one: taking is a `Lease` (or `StartFor`), delivering a `HandOver`, the decrement
in `Release` the `Return`, so that the rest of `Release` is a stutter; the
monitor's cleanup is a `Retire`, `Close` a `Shutdown`.  `RunningLease` proves
`LeasedCoreRuns`, that nobody has a core whose process was stopped; no run lists it,
because `ImplementsLease` (only a running core has a user) and `CountIsLease` (whoever
has a core is its user) say the same together.

**WorkerLink.**  What holds at one end of the link is a fact about the other end:

- `CallInv`: a call has at most one last answer.  Its entry in the table, an
  answer carried by `readLoop` and one in its channel exclude each other
  (`LastIsLast`), and one of them is there as long as the call waits (`Tabled`).
  The reader finds room for the answer for that reason, not because of the
  capacity alone.
- `QuietInv`: a task is asked for once and its last answer is the last the
  connection has of it; when a call is over without having been left early, the
  worker is done with it (`Settled`).  After a cancellation this is false, which is
  why tasks may overlap.
- `NumberInv`: the number that a chunk bears at each place of its way: client,
  goroutine of the stream, channel, reader (`Placed`), connection (`Sent`); "done"
  comes after all that was made (`DoneLast`).
- `TurnInv`: with `Exclusive` and no call left early, one task at most is in the
  worker, hence the one parameter field is its own (`OwnInv`).  The shared defaults are
another matter: what is there comes from a task that has got as far as generating
(`BegunInv`), so the task that generates sees its own parameter there if it was sent
one, and otherwise the manifest's or that of a task that is over (`SharedInv`).  That a
request which sends none gets an earlier one's is what the code does
(`DefaultsIfNotSent`, section 4).  A failed connection
  (`FailInv`) ends what would come after.

For the refinement `CauseInv` follows every last answer back to where it comes from:
either the connection failed, or the answer is its task's, which is over, and fits
it (`MayAnswer`): "cancelled" only if the client left, since the worker is told to
stop by nobody else (`StopInv`), a result or an error only of a unary task
(`TaskCause`).  This holds on the connection (`NetCause`) and from there to the caller
(`WayCause`).  A caller of `RemoteCall` is the goroutine of `sendRequest` or
`sendStreamRequest` (`Phases`), its outcome and the chunks put into `outCh`
(`Arrived`); the work is the goroutine of the task (`Works`), over as soon as its last
answer is made.  So all messages, the table, the channels and the reader are stutters;
`TaskRegister` is a `Begin`, `TaskChunk` a `Make`, `StreamSend` a `Get` or an end.
That a `Get` finds a chunk that was made, and a "done" all of them, is `NumberInv`;
that a stream never ends with an error while the link is whole is `TaskCause`.

**OrtSessions.**  `GenerationProtected` holds however tasks overlap and loads fail:
exactly the task that generates has `SessionMutex` (`HasMutex` of `TypeOK`), what
`rt.Onnx` leads to is in memory (`LoadedInv`), and a set that was loaded and is not
yet installed is in memory and nobody else's (`InstallInv`); destroying needs the
mutex, so what generation has looked up stays.  For tasks that do not overlap,
`SoloInv` says what the only task finds: its decoder is on the sessions that
`rt.Onnx` has, or there are none and it does not come to decode; it encodes without
sessions of inference.  `PhaseInv` says what is in memory at each place as long
as no load has failed.  `SoloInv` holds after failed loads too, which is why
`NothingStaleAlone` needs no such condition and the other two do.

**PreloadCache.**  `OrderIsRecency` rests on the mutex: an id that a process
loads, encodes or saves is not in its memory until that is over (`PlaceInv`), so
`addToMemory` never adds a second time what is there; and stamps grow along the
list and lie below the clock (`OrderInv`).  `OwnVoice` rests on what a request without a
rival finds once it has removed or not found what was under its id: its own file
or nothing in memory; its own file, a damaged one, one of an earlier version or none
on disk (`OwnInv`).
That rivals know of each other from their first step is `RivalInv`.

**CloneCache.**  `NameInv` says which contents may bear which name: the temporary
name and the entry never lead to the same file.  `DamageInv`: without a fault, a
named file that does not decode is still open for writing, which stays true when
another process empties it or renames it under the writer.  `LoneInv`, for a key
that two processes never wrote at the same time and no fault met: its one writer has
the file that bears the temporary name, which is whole when it is renamed, and
what was stored is there.  `LateInv` carries that to the encodings that begin
afterwards.

**ServerStart.**  Where each event is for each browser: shown, among those copied
when it joined, in its channel, on its way from an emitter, or dropped by a full
buffer (`NothingLost`).  Order needs that an emitter's event is its latest and newer
than all it has sent there (`ItemInv`, `FlightInv`), and that what waits in a channel
is newer than what was copied (`StreamInv`); two emitters may overtake each other,
so order is per goroutine.  `PoolInv` relates the pool, the place of the
background goroutine, `ready`, `Close` and whether it came early.

**Downloads.**  `TargetInv`: what is opened for writing was not whole when it was
looked at, and nothing has written to it since.  The action property
`WholeStaysWhole` follows from it.  `FaultlessInv` describes the disk at each place of
the start of a program that never met a fault (all models or none, then those before
the current one), so that it does not fail; a start that waits for a silent source has
met one.  `MendInv`: what a start without a fault has put behind it in a listing is whole
or was cut off by an earlier fault.

**FrameStream.**  Audio is followed from item to item, so that no induction over
frames is needed: every item begins where the one before it ended (`Tiled`), and the
last ends as far as the codec was fed (`Until`).  What the codec was fed with what
waits for it is what was generated and called back of the current piece (`Fed`), which at the end of a
piece is all of it; frames are only added, so places in earlier items keep their meaning
(the lemma `Longer`).  `TailInv` says whose end `tail` is: while a streamed piece is
spoken it is already the next piece's context, in the plain synthesis it is this
piece's until the batch (`OwnTail`, `NextTail`, `EndOf`).  `PastLives`, of the
module, has which pasts are in memory at which label.  `AllIsSent` proves `NothingLost`,
which no run lists: `Speech` without faults and cancellation allows nothing else.

In the refinement a frame is a `Think` when it is made (all but the one that ends a
stream's piece by repeating), a `Speak` when the codec has turned it into audio,
alone or with those before it (`CallbackDecodes`, `Flush`, `Batch`), and a `Hear` when
the audio is received; sending is a stutter, since the wave in hand is already on its way.
A failed inference is a `Stumble`: in the codec it takes the batch that it was given,
in generation it takes none, the piece is just shorter.  A synthesis that is not streamed
answers with all its audio in the step that ends it (`Close`), or with none (`BreakOff`).  Needed on top of `IInv` is `TurnInv`: between two pieces of a stream no
frame waits and the codec is at its start, so that a page is turned only behind the last
frame.  What `Speech` does not promise is what the code does not: frames behind a fault
of the codec are decoded on, so that a gap is heard in the middle of a piece.

**Pure steps.**  The modules below `Algorithms` that have no recursion are proved about in
`FrameStreamProofs`, for every input and every value of their constants:

- `StepIsLinear`, `IncrementIsOdd`: for words of any even number of values, those of 64 bits
  included, one step of the generator is exactly state * multiplier + increment modulo
  the square, and the increment is odd.  No carry is lost between the words
  (`ProductExact`, `SumExact`): a number of two words is a rest modulo the square, and
  the quotient is what the carries drop.  `algorithms_small` has words of four bits.
- `StepsStayApart`: a multiplier with an inverse modulo the square keeps different states
  apart.  Every odd one has an inverse when the square is a power of two, and `pcgMultLo`
  is odd (`pcg64.go:19`); the inverse is a hypothesis, since its existence is induction over bits.
- `TopIsExact`: of any scores, those stay for which fewer than `topK` are greater.  That the
  threshold exists (`NthLargest`) is shown with the least score that has `topK` at least as
  great: those above it are the ones at least as great as the least among them, which is
  itself no such score.
- `TrimIsSilent`: `KeepsVoice`, which is what `TrimKeepsVoice` says of an answer, for any
  audio.  A loud sample lies in a window that counts as voiced (`VoicedWindow`) and the cut is
  behind the last of these (`CutBehind`).

That a set of numbers has a least member (`Least`) comes from the well-foundedness of their
order; it is the only induction over data in the proofs, and needs no operator as a parameter.

**Left to TLC.**

- Liveness: `AcquireReturns`, `QueuedIsServed`, `UnaryEnds`, `RegisteredEnds`,
  `ExpiredGoes`, `StreamEnds`, `StartEnds`, `SynthesisEnds`.  They rest on fairness,
  and the prover has no ENABLED.
- The properties of `Algorithms`, but for the parts above.  What a loop computes for every
  input needs induction over the input; the induction theorems of the library take an
  operator as a parameter, which no installed prover can instantiate.  `Tokenizer`,
  `TextChunks`, `Pcg64` and `ProtectedSpans` also use RECURSIVE operators or bit
  operations, and the rest of `Sampling` sums over sets and sorts, which the prover does not
  follow.  `Algorithms` extends all of them, so that no theorem can name its
  properties: `TrimIsSilent` is about the operator that `TrimKeepsVoice` applies.
- The properties of section 4 that the code violates.

## 6. What is not modelled

- Numerical inference, the numbers of the audio, resampling, FFmpeg: floating
  point.  The sampler is modelled with weights that are powers of two.
- The rows of a prompt (`BuildAudioPrefixRows` and the like) and the tensors:
  layout of data without a decision.
- The idle release of sessions (`CheckAndReleaseIdleSessions`): it returns early
  while any request is active, and its only caller is an active request; it
  never releases anything.
- The normalizer's regular expressions but for the protected spans, and the
  WeText library.
- The reader of the tokenizer's model file, start of a worker process, framing,
  HTML pages, the fields of a request, logging, device queries, proxies,
  configuration files: I/O or layout.
- `pkg/runtime` and `pkg/stream`: nothing calls them.

## 7. Plan

What is listed in section 2 is modelled and checked, the safety properties and the
refinements of the state machines are proved, and the pure steps that need no
recursion.  What is left, the most important first:

1. Liveness, should the prover learn ENABLED: `UnaryEnds` and `SynthesisEnds` first.
2. The rest of the nucleus (`RemoveMask`, `KeepNucleus`) for any scores: that a sorted
   sequence begins with those before each score, once sums over sets can be reasoned about.
3. The period of the generator: an odd increment and a multiplier that is one modulo four
   give the full period (`GeneratorIsFull`), which is induction over the number of bits;
   `StepsStayApart` has the part that needs none.
4. The composition of `CorePool` and `WorkerLink`: what a lease means when the call that
   held it was cancelled (`OneTaskAtATime`).

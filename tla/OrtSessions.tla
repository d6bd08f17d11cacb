------------------------------ MODULE OrtSessions ------------------------------
(***************************************************************************)
(* The ONNX sessions of a worker (src/pkg/ortruntime/runtime.go) and the   *)
(* synthesis tasks that load, run and destroy them                         *)
(* (src/pkg/ttsruntime/ttsruntime.go).                                     *)
(*                                                                         *)
(* The sessions of inference are loaded and destroyed together: they are   *)
(* one set here, as is the session that encodes reference audio.  A task   *)
(* that encodes swaps the one for the other; an interrupted task, and one  *)
(* that finds the process too large between two pieces of text, destroys   *)
(* and loads everything again.  Destroying and generating take             *)
(* SessionMutex; loading, and decoding outside generation, do not.         *)
(*                                                                         *)
(* The pool gives a worker one task at a time, but a cancelled unary call  *)
(* returns before its task has ended, so that tasks may overlap.           *)
(***************************************************************************)
EXTENDS Integers, FiniteSets

CONSTANTS
  Synth,    \* unary synthesis tasks
  Streams,  \* streaming synthesis tasks
  MaxSets   \* bound of the model on the sets of sessions loaded in all

Tasks == Synth \cup Streams
None == "none"

ASSUME SessionsAssumption ==
  /\ Synth \cap Streams = {}
  /\ None \notin Tasks
  /\ MaxSets \in Nat \ {0}

VARIABLES
  pc,         \* [Tasks -> label]: where the goroutine of the task is
  next,       \* [Tasks -> label]: where it goes on after loading or running sessions
  using,      \* [Tasks -> set]: what the call of Session.Run is made on
  decoder,    \* [Tasks -> set]: where the session of its streaming decoder is from
  cancelled,  \* the tasks whose context is done
  mutex,      \* holder of OrtCpuRuntime.SessionMutex
  inference,  \* OrtCpuRuntime.Onnx.Inference
  step,       \* it has a CodecDecodeStep
  encoder,    \* OrtCpuRuntime.Onnx.CodecEncode
  live,       \* the sets in memory, reachable or not
  made,       \* sets loaded so far
  hybrid,     \* ExecutionMode is "hybrid"
  crashed,    \* the process has panicked
  failed,     \* history: some loading of sessions failed
  overlapped  \* history: some task began while another one ran

taskVars == <<pc, next, using, decoder, cancelled>>
sessVars == <<inference, step, encoder, live, made, hybrid>>
vars == <<taskVars, mutex, sessVars, crashed, failed, overlapped>>

NoSet == 0
SetIds == 1 .. MaxSets

Running(t) == pc[t] \notin {"idle", "done", "dead"}
Goto(t, l) == pc' = [pc EXCEPT ![t] = l]
GotoVia(t, l, n) == Goto(t, l) /\ next' = [next EXCEPT ![t] = n]

(* A nil pointer, or the second close of a channel, ends the process. *)
Panic == crashed' = TRUE /\ pc' = [t \in Tasks |-> "dead"]

----------------------------------------------------------------------------
Init ==
  /\ pc = [t \in Tasks |-> "idle"]
  /\ next = [t \in Tasks |-> None]
  /\ using = [t \in Tasks |-> NoSet]
  /\ decoder = [t \in Tasks |-> NoSet]
  /\ cancelled = {}
  /\ mutex = None
  /\ inference = 1 /\ step = TRUE
  /\ encoder = NoSet
  /\ live = {1} /\ made = 1
  /\ hybrid \in BOOLEAN
  /\ crashed = FALSE
  /\ failed = FALSE /\ overlapped = FALSE

----------------------------------------------------------------------------
(* Destroying and loading *)

(* destroyInferenceSessions; destroyCodecEncodeSession *)
DestroyBoth ==
  /\ live' = live \ {inference, encoder}
  /\ inference' = NoSet /\ step' = FALSE /\ encoder' = NoSet
  /\ UNCHANGED <<made, hybrid>>

(* CreateSessions.  It does not look at what rt.Onnx has. *)
Load(t) ==
  /\ pc[t] = "load" /\ made < MaxSets
  /\ live' = live \cup {made + 1}
  /\ made' = made + 1
  /\ Goto(t, "install")
  /\ using' = [using EXCEPT ![t] = made + 1]
  /\ UNCHANGED <<next, decoder, cancelled, mutex, inference, step, encoder, hybrid,
                 crashed, failed, overlapped>>

(* Where a task goes on when CreateSessions has returned an error. *)
AfterError(t) == CASE next[t] = "check"  -> "check"
                   [] next[t] = "take"   -> "end"
                   [] next[t] = "retake" -> "chunk"
                   [] next[t] = "end"    -> "end"

(* The sessions loaded before the one that fails stay in memory.  On a GPU all are     *)
(* tried once more on the CPU.  A stream that had no sessions closes its channel twice. *)
LoadFails(t) ==
  /\ pc[t] = "load"
  /\ failed' = TRUE
  /\ \/ UNCHANGED <<live, made>>
     \/ made < MaxSets /\ live' = live \cup {made + 1} /\ made' = made + 1
  /\ \/ /\ hybrid /\ hybrid' = FALSE
        /\ UNCHANGED <<pc, crashed>>
     \/ /\ ~hybrid /\ UNCHANGED hybrid
        /\ \/ t \in Streams /\ next[t] = "take" /\ Panic
           \/ ~(t \in Streams /\ next[t] = "take") /\ Goto(t, AfterError(t))
              /\ UNCHANGED crashed
  /\ UNCHANGED <<next, using, decoder, cancelled, mutex, inference, step, encoder, overlapped>>

(* rt.Onnx is replaced as a whole.  That codec_decode_step cannot be loaded is no error. *)
Install(t) ==
  /\ pc[t] = "install"
  /\ inference' = using[t] /\ encoder' = NoSet
  /\ \/ step' = TRUE /\ UNCHANGED failed
     \/ step' = FALSE /\ failed' = TRUE
  /\ using' = [using EXCEPT ![t] = NoSet]
  /\ Goto(t, next[t])
  /\ UNCHANGED <<next, decoder, cancelled, mutex, live, made, hybrid, crashed, overlapped>>

(* Mutant: nothing is loaded after the reset. *)
ResetOnly(t) ==
  /\ pc[t] = "reset" /\ mutex = None
  /\ DestroyBoth
  /\ Goto(t, next[t])
  /\ UNCHANGED <<next, using, decoder, cancelled, mutex, crashed, failed, overlapped>>

(* ForceResetSessions *)
Reset(t) ==
  /\ pc[t] = "reset" /\ mutex = None
  /\ DestroyBoth
  /\ Goto(t, "load")
  /\ UNCHANGED <<next, using, decoder, cancelled, mutex, crashed, failed, overlapped>>

----------------------------------------------------------------------------
(* RunSession: SessionRunMutex is held while a task is at "running" *)

(* The session is looked up before the mutex is waited for. *)
Pick(t, s, n) ==
  /\ using' = [using EXCEPT ![t] = s]
  /\ GotoVia(t, "run", n)

Run(t) ==
  /\ pc[t] = "run" /\ \A u \in Tasks : pc[u] # "running"
  /\ Goto(t, "running")
  /\ UNCHANGED <<next, using, decoder, cancelled, mutex, sessVars, crashed, failed, overlapped>>

RunEnd(t) ==
  /\ pc[t] = "running"
  /\ using' = [using EXCEPT ![t] = NoSet]
  /\ Goto(t, next[t])
  /\ UNCHANGED <<next, decoder, cancelled, mutex, sessVars, crashed, failed, overlapped>>

----------------------------------------------------------------------------
(* A task begins; the codes of its voice are at hand, or an audio file must be encoded *)

Begin(t) ==
  /\ pc[t] = "idle"
  /\ overlapped' = (overlapped \/ \E u \in Tasks : Running(u))
  /\ \E l \in {"check", "unload"} : Goto(t, l)
  /\ UNCHANGED <<next, using, decoder, cancelled, mutex, sessVars, crashed, failed>>

(* Mutant: SessionMutex is not taken. *)
UnloadUnlocked(t) ==
  /\ pc[t] = "unload"
  /\ DestroyBoth
  /\ \/ Goto(t, "ensure") /\ UNCHANGED next
     \/ GotoVia(t, "load", "check")
  /\ UNCHANGED <<using, decoder, cancelled, mutex, crashed, failed, overlapped>>

(* DestroyAllSessions; then the audio file is read, or cannot be. *)
Unload(t) ==
  /\ pc[t] = "unload" /\ mutex = None
  /\ DestroyBoth
  /\ \/ Goto(t, "ensure") /\ UNCHANGED next
     \/ GotoVia(t, "load", "check")
  /\ UNCHANGED <<using, decoder, cancelled, mutex, crashed, failed, overlapped>>

(* EnsureCodecEncodeSession *)
Ensure(t) ==
  /\ pc[t] = "ensure" /\ mutex = None
  /\ \/ /\ encoder # NoSet
        /\ Goto(t, "encode")
        /\ UNCHANGED <<next, sessVars, failed>>
     \/ /\ encoder = NoSet /\ made < MaxSets
        /\ encoder' = made + 1
        /\ live' = live \cup {made + 1} /\ made' = made + 1
        /\ Goto(t, "encode")
        /\ UNCHANGED <<next, inference, step, hybrid, failed>>
     \/ /\ encoder = NoSet
        /\ failed' = TRUE
        /\ GotoVia(t, "load", "check")
        /\ UNCHANGED sessVars
  /\ UNCHANGED <<using, decoder, cancelled, mutex, crashed, overlapped>>

Encode(t) ==
  /\ pc[t] = "encode"
  /\ \/ encoder # NoSet /\ Pick(t, encoder, "encoded") /\ UNCHANGED crashed
     \/ encoder = NoSet /\ Panic /\ UNCHANGED <<next, using>>
  /\ UNCHANGED <<decoder, cancelled, mutex, sessVars, failed, overlapped>>

(* Mutant: the encoder stays in memory. *)
EncodedKeeps(t) ==
  /\ pc[t] = "encoded" /\ mutex = None
  /\ GotoVia(t, "load", "check")
  /\ UNCHANGED <<using, decoder, cancelled, mutex, sessVars, crashed, failed, overlapped>>

(* DestroyCodecEncodeSession *)
Encoded(t) ==
  /\ pc[t] = "encoded" /\ mutex = None
  /\ live' = live \ {encoder} /\ encoder' = NoSet
  /\ GotoVia(t, "load", "check")
  /\ UNCHANGED <<using, decoder, cancelled, mutex, inference, step, made, hybrid,
                 crashed, failed, overlapped>>

(* The sessions of inference may be missing. *)
Check(t) ==
  /\ pc[t] = "check"
  /\ \/ inference # NoSet /\ step /\ Goto(t, "take") /\ UNCHANGED next
     \/ ~(inference # NoSet /\ step) /\ GotoVia(t, "load", "take")
  /\ UNCHANGED <<using, decoder, cancelled, mutex, sessVars, crashed, failed, overlapped>>

(* Mutant: the decoder made before the reset is used on. *)
TakeOnce(t) ==
  /\ pc[t] \in {"take", "retake"}
  /\ \/ /\ inference # NoSet /\ step
        /\ decoder' = [decoder EXCEPT ![t] = IF @ = NoSet THEN inference ELSE @]
        /\ Goto(t, "chunk") /\ UNCHANGED crashed
     \/ /\ ~(inference # NoSet /\ step) /\ Panic
        /\ UNCHANGED decoder
  /\ UNCHANGED <<next, using, cancelled, mutex, sessVars, failed, overlapped>>

(* NewCodecStreamingDecodeSession is given the session itself. *)
Take(t) ==
  /\ pc[t] \in {"take", "retake"}
  /\ \/ /\ inference # NoSet /\ step
        /\ decoder' = [decoder EXCEPT ![t] = inference]
        /\ Goto(t, "chunk") /\ UNCHANGED crashed
     \/ /\ ~(inference # NoSet /\ step) /\ Panic
        /\ UNCHANGED decoder
  /\ UNCHANGED <<next, using, cancelled, mutex, sessVars, failed, overlapped>>

----------------------------------------------------------------------------
(* The pieces of text, one after the other *)

Cancel(t) ==
  /\ Running(t) /\ t \notin cancelled
  /\ cancelled' = cancelled \cup {t}
  /\ UNCHANGED <<pc, next, using, decoder, mutex, sessVars, crashed, failed, overlapped>>

(* ctx.Done: the sessions are reset when the task ends. *)
Interrupted(t) ==
  /\ t \in cancelled
  /\ \/ pc[t] \in {"chunk", "decode"}
     \/ pc[t] = "decoded" /\ t \in Synth
  /\ GotoVia(t, "reset", "end")
  /\ UNCHANGED <<using, decoder, cancelled, mutex, sessVars, crashed, failed, overlapped>>

(* GenerateAudioFramesWithCallbackAndOverrides, under SessionMutex *)
Generate(t) ==
  /\ pc[t] = "chunk" /\ t \notin cancelled
  /\ Goto(t, "prefill")
  /\ UNCHANGED <<next, using, decoder, cancelled, mutex, sessVars, crashed, failed, overlapped>>

GenerateLock(t) ==
  /\ pc[t] = "prefill" /\ mutex = None
  /\ mutex' = t
  /\ Goto(t, "first")
  /\ UNCHANGED <<next, using, decoder, cancelled, sessVars, crashed, failed, overlapped>>

(* Each run of a session of the model finds it through rt.Onnx.Inference. *)
GenerateRun(t) ==
  /\ pc[t] \in {"first", "gen", "frames"}
  /\ pc[t] = "first" => t \notin cancelled
  /\ \/ inference # NoSet /\ Pick(t, inference, "gen") /\ UNCHANGED crashed
     \/ inference = NoSet /\ Panic /\ UNCHANGED <<next, using>>
  /\ UNCHANGED <<decoder, cancelled, mutex, sessVars, failed, overlapped>>

(* onFrame of a stream decodes in the middle of the generation. *)
GenerateFrames(t) ==
  /\ t \in Streams /\ pc[t] \in {"gen", "frames"}
  /\ Pick(t, decoder[t], "frames")
  /\ UNCHANGED <<decoder, cancelled, mutex, sessVars, crashed, failed, overlapped>>

GenerateEnd(t) ==
  /\ \/ pc[t] \in {"gen", "frames"}
     \/ pc[t] = "first" /\ t \in cancelled
  /\ mutex' = None
  /\ Goto(t, "decode")
  /\ UNCHANGED <<next, using, decoder, cancelled, sessVars, crashed, failed, overlapped>>

(* decodeFramesStreaming, decodePending(true): without SessionMutex *)
Decode(t) ==
  /\ pc[t] = "decode" /\ t \notin cancelled
  /\ \/ Pick(t, decoder[t], "decoded")
     \/ Goto(t, "decoded") /\ UNCHANGED <<next, using>>
  /\ UNCHANGED <<decoder, cancelled, mutex, sessVars, crashed, failed, overlapped>>

(* resetSessionsIfOverMemory, unless this was the last piece *)
Decoded(t) ==
  /\ pc[t] = "decoded" /\ (t \in Synth => t \notin cancelled)
  /\ \/ \E l \in {"chunk", "end"} : Goto(t, l) /\ UNCHANGED next
     \/ GotoVia(t, "reset", "retake")
  /\ UNCHANGED <<using, decoder, cancelled, mutex, sessVars, crashed, failed, overlapped>>

End(t) ==
  /\ pc[t] = "end"
  /\ Goto(t, "done")
  /\ UNCHANGED <<next, using, decoder, cancelled, mutex, sessVars, crashed, failed, overlapped>>

LoadStep(t) == Load(t) \/ LoadFails(t) \/ Install(t) \/ Reset(t) \/ Run(t) \/ RunEnd(t)

EncodeStep(t) == Unload(t) \/ Ensure(t) \/ Encode(t) \/ Encoded(t)

TextStep(t) ==
  \/ Check(t) \/ Take(t) \/ Interrupted(t)
  \/ Generate(t) \/ GenerateLock(t) \/ GenerateRun(t) \/ GenerateFrames(t) \/ GenerateEnd(t)
  \/ Decode(t) \/ Decoded(t) \/ End(t)

Next == \E t \in Tasks : Begin(t) \/ Cancel(t) \/ LoadStep(t) \/ EncodeStep(t) \/ TextStep(t)

Spec == Init /\ [][Next]_vars

----------------------------------------------------------------------------
(* Properties *)

Labels == {"idle", "unload", "ensure", "encode", "encoded", "check", "take", "retake",
           "load", "install", "reset", "run", "running", "chunk", "prefill", "first", "gen",
           "frames", "decode", "decoded", "end", "done", "dead"}

Generating == {"first", "gen", "frames"}

HasMutex(t) ==
  pc[t] \in Generating \/ (pc[t] \in {"run", "running"} /\ next[t] \in Generating)

(* The values the variables may have, and who has SessionMutex. *)
TypeOK ==
  /\ pc \in [Tasks -> Labels] /\ next \in [Tasks -> Labels \cup {None}]
  /\ using \in [Tasks -> SetIds \cup {NoSet}] /\ decoder \in [Tasks -> SetIds \cup {NoSet}]
  /\ cancelled \subseteq Tasks
  /\ mutex \in Tasks \cup {None}
  /\ ~crashed => \A t \in Tasks : mutex = t <=> HasMutex(t)
  /\ inference \in SetIds \cup {NoSet} /\ encoder \in SetIds \cup {NoSet}
  /\ live \subseteq SetIds /\ made \in SetIds
  /\ step \in BOOLEAN /\ hybrid \in BOOLEAN
  /\ crashed \in BOOLEAN /\ failed \in BOOLEAN /\ overlapped \in BOOLEAN

(* SessionMutex protects generation (runtime.go:300): however tasks overlap, the      *)
(* sessions that generation runs are not destroyed between the look-up and the end of *)
(* the run, although loading replaces rt.Onnx without the mutex.                      *)
GenerationProtected ==
  \A t \in Tasks :
    pc[t] \in {"run", "running"} /\ next[t] = "gen" => using[t] \in live

(* A worker whose tasks have not overlapped runs no session that was destroyed, across *)
(* encoding, resets between pieces of text, interruptions and failures to load: the    *)
(* decoder keeps the session itself, which a reset destroys (ttsruntime.go:670).       *)
NothingStaleAlone ==
  ~overlapped => \A t \in Tasks : pc[t] = "running" => using[t] \in live

(* The sessions of encoding and those of inference, and two loads of the latter, are  *)
(* never in memory at the same time (runtime.go:49), if tasks have not overlapped and *)
(* no load has failed.                                                                *)
PhasesApart == ~overlapped /\ ~failed => Cardinality(live) <= 1

(* Neither does such a worker panic on a missing session. *)
NoPanicAlone == ~overlapped /\ ~failed => ~crashed

----------------------------------------------------------------------------
(* What a comment in the code says and the code does not do *)

(* runtime.go:317 "AcquireSession marks an active request that uses sessions, to keep *)
(* them from being destroyed": the resets of another task do not look at it.          *)
AcquireProtects ==
  \A t \in Tasks : pc[t] = "running" => using[t] \in live
=============================================================================

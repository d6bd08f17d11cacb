----------------------------- MODULE WorkerLink -----------------------------
(***************************************************************************)
(* One worker process and the link to it: WorkerProcess in the parent      *)
(* (src/pkg/ttsruntime/worker_process.go), the connection                  *)
(* (src/pkg/worker), and the loop and tasks of the worker                  *)
(* (src/cmd/worker_main.go) with the part of its runtime that the tasks    *)
(* share.                                                                  *)
(*                                                                         *)
(* A call is registered under a fresh id, written to the connection and    *)
(* answered through a channel of its own: of capacity 1 for a unary call,  *)
(* larger for a stream.  readLoop fills these channels.  When the          *)
(* connection fails it tells every registered call.  The worker runs each  *)
(* synthesis in a goroutine and reads cancel messages meanwhile.           *)
(*                                                                         *)
(* The id of a call is the call itself: nextReqID never repeats.  The      *)
(* connection is a pair of queues; a frame is written under a mutex, so it *)
(* is one message.                                                         *)
(***************************************************************************)
EXTENDS Integers, Sequences, FiniteSets

CONSTANTS
  Inline,      \* unary calls that the worker's main loop answers: ping, list voices, ...
  Synth,       \* unary synthesis calls
  Streams,     \* streaming synthesis calls
  Overriding,  \* the synthesis calls that carry the sampling parameter; each parameter goes by itself
  Cancellable, \* the calls whose context may be cancelled
  Slow,        \* the unary calls that may be left without an answer for 300 seconds
  StreamCap,   \* capacity of the channel of a stream
  OutCap,      \* capacity of what lies between a stream and the pool's channel to the client
  NetCap,      \* answers the connection holds before a write to it blocks
  MaxChunks,   \* bound of the model on the chunks of one stream
  Exclusive,   \* synthesis calls are made one at a time, as the pool makes them
  MayCrash,    \* the worker may die
  MayClose     \* Close may be called

Unary == Inline \cup Synth
Calls == Unary \cup Streams
Tasks == Synth \cup Streams

None == "none"  \* no call, no answer, no parameters but the defaults

ASSUME LinkAssumption ==
  /\ Inline \cap Synth = {} /\ Unary \cap Streams = {}
  /\ None \notin Calls
  /\ IsFiniteSet(Calls)
  /\ Overriding \subseteq Tasks /\ Cancellable \subseteq Tasks /\ Slow \subseteq Unary
  /\ StreamCap \in Nat \ {0} /\ OutCap \in Nat \ {0} /\ NetCap \in Nat \ {0}
  /\ MaxChunks \in Nat
  /\ Exclusive \in BOOLEAN /\ MayCrash \in BOOLEAN /\ MayClose \in BOOLEAN

VARIABLES
  call,      \* [Calls -> label]: where the goroutine of the call is
  outcome,   \* [Calls -> None or how the call ended]
  pending,   \* the calls in WorkerProcess.pending
  chan,      \* [Calls -> Seq(Answers)]: the channel of the call
  held,      \* [Streams -> answer or Nothing]: on its way from the channel to outCh
  out,       \* [Streams -> Seq(chunk number)]: outCh and chunkChan
  given,     \* [Streams -> Nat]: chunks passed on to the pool's channel
  cancelled, \* the calls whose context is done
  told,      \* the calls that have sent their cancel message
  gone,      \* the streams whose client has left, the pool's channel being full
  closed,    \* WorkerProcess.closed; the connection is closed with it
  reader,    \* where readLoop is; it has mu while it is at "closing"
  carried,   \* the answer readLoop is about to send into a channel
  toWorker,  \* requests and cancel messages on the connection
  toParent,  \* answers on the connection
  alive,     \* the worker process runs
  task,      \* [Tasks -> label]: where the goroutine of the task is
  reply,     \* [Tasks -> type]: the answer the task is about to write
  chunks,    \* [Streams -> Nat]: chunks the task has produced
  active,    \* workerConnState.activeTasks
  stop,      \* the running tasks whose context was cancelled by cancelTask
  overrides, \* OnnxTtsRuntime.GenerationOverrides: whose parameters, or None
  params,    \* [Tasks -> task or None]: the parameters the task has picked up
  defaults,  \* Manifest["generation_defaults"]: whose parameters, or None as loaded
  session    \* holder of OrtCpuRuntime.SessionMutex

callVars == <<call, outcome, pending, chan, held, out, given, cancelled, told, gone>>
linkVars == <<closed, reader, carried>>
netVars  == <<toWorker, toParent>>
workVars == <<alive, task, reply, chunks, active, stop, overrides, params, defaults, session>>
vars == <<callVars, linkVars, netVars, workVars>>

Terminal == {"result", "error", "done", "cancelled"}

(* An answer: its type, the call it belongs to (None for the answer to a cancel message), *)
(* and its number if it is a chunk.                                                       *)
Answer(t, r, n) == [type |-> t, id |-> r, n |-> n]
Nothing == Answer(None, None, 0)
Answers == [type : Terminal \cup {"chunk"}, id : Calls \cup {None}, n : 0 .. MaxChunks]
Requests == [type : {"call", "cancel"}, id : Calls]

Cap(r) == IF r \in Streams THEN StreamCap ELSE 1

----------------------------------------------------------------------------
Init ==
  /\ call = [r \in Calls |-> "idle"]
  /\ outcome = [r \in Calls |-> None]
  /\ pending = {}
  /\ chan = [r \in Calls |-> <<>>]
  /\ held = [r \in Streams |-> Nothing]
  /\ out = [r \in Streams |-> <<>>]
  /\ given = [r \in Streams |-> 0]
  /\ cancelled = {}
  /\ told = {}
  /\ gone = {}
  /\ closed = FALSE
  /\ reader = "read"
  /\ carried = Nothing
  /\ toWorker = <<>>
  /\ toParent = <<>>
  /\ alive = TRUE
  /\ task = [r \in Tasks |-> "none"]
  /\ reply = [r \in Tasks |-> None]
  /\ chunks = [r \in Streams |-> 0]
  /\ active = {}
  /\ stop = {}
  /\ overrides = None
  /\ params = [r \in Tasks |-> None]
  /\ defaults = None
  /\ session = None

(* WorkerProcess.mu can be taken: closePending has it while it waits for a channel. *)
MuFree == reader # "closing"

(* The pool has its core back from call r. *)
Released(r) == call[r] = "ended" /\ (r \in Streams => out[r] = <<>>)

Busy == \E r \in Tasks : call[r] # "idle" /\ ~Released(r)

(* A write to the connection.  Bytes for a worker that has died may be accepted and lost. *)
Send(m) == toWorker' = IF alive THEN Append(toWorker, m) ELSE toWorker
MayFail == closed \/ ~alive
MayPass == ~closed

----------------------------------------------------------------------------
(* The parent: sendRequest and sendStreamRequest *)

Start(r) ==
  /\ call[r] = "idle" /\ MuFree /\ ~closed
  /\ Exclusive /\ r \in Tasks => ~Busy
  /\ call' = [call EXCEPT ![r] = "register"]
  /\ UNCHANGED <<outcome, pending, chan, held, out, given, cancelled, told, gone,
                 linkVars, netVars, workVars>>

StartClosed(r) ==
  /\ call[r] = "idle" /\ MuFree /\ closed
  /\ call' = [call EXCEPT ![r] = "ended"]
  /\ outcome' = [outcome EXCEPT ![r] = "error"]
  /\ UNCHANGED <<pending, chan, held, out, given, cancelled, told, gone,
                 linkVars, netVars, workVars>>

Register(r) ==
  /\ call[r] = "register" /\ MuFree
  /\ pending' = pending \cup {r}
  /\ call' = [call EXCEPT ![r] = "write"]
  /\ UNCHANGED <<outcome, chan, held, out, given, cancelled, told, gone,
                 linkVars, netVars, workVars>>

Write(r) ==
  /\ call[r] = "write" /\ MayPass
  /\ Send([type |-> "call", id |-> r])
  /\ call' = [call EXCEPT ![r] = "wait"]
  /\ UNCHANGED <<outcome, pending, chan, held, out, given, cancelled, told, gone,
                 linkVars, toParent, workVars>>

WriteFails(r) ==
  /\ call[r] = "write" /\ MayFail
  /\ call' = [call EXCEPT ![r] = "leave"]
  /\ outcome' = [outcome EXCEPT ![r] = "error"]
  /\ UNCHANGED <<pending, chan, held, out, given, cancelled, told, gone,
                 linkVars, netVars, workVars>>

(* The select of sendRequest: the answer, 300 seconds, the context. *)
Receive(r) ==
  /\ r \in Unary
  /\ call[r] = "wait" /\ chan[r] # <<>>
  /\ outcome' = [outcome EXCEPT ![r] = Head(chan[r]).type]
  /\ chan' = [chan EXCEPT ![r] = Tail(@)]
  /\ call' = [call EXCEPT ![r] = "leave"]
  /\ UNCHANGED <<pending, held, out, given, cancelled, told, gone,
                 linkVars, netVars, workVars>>

TimeOut(r) ==
  /\ r \in Slow
  /\ call[r] = "wait"
  /\ outcome' = [outcome EXCEPT ![r] = "timeout"]
  /\ call' = [call EXCEPT ![r] = "leave"]
  /\ UNCHANGED <<pending, chan, held, out, given, cancelled, told, gone,
                 linkVars, netVars, workVars>>

GiveUp(r) ==
  /\ r \in Unary
  /\ call[r] = "wait" /\ r \in cancelled
  /\ \/ MayPass /\ Send([type |-> "cancel", id |-> r])
     \/ MayFail /\ UNCHANGED toWorker
  /\ told' = told \cup {r}
  /\ outcome' = [outcome EXCEPT ![r] = "cancelled"]
  /\ call' = [call EXCEPT ![r] = "leave"]
  /\ UNCHANGED <<pending, chan, held, out, given, cancelled, gone,
                 linkVars, toParent, workVars>>

(* Mutant: the entry of an unanswered call stays in the table. *)
LeaveRegistered(r) ==
  /\ call[r] = "leave" /\ MuFree
  /\ pending' = IF outcome[r] \in {"timeout", "cancelled"} THEN pending ELSE pending \ {r}
  /\ call' = [call EXCEPT ![r] = "ended"]
  /\ UNCHANGED <<outcome, chan, held, out, given, cancelled, told, gone,
                 linkVars, netVars, workVars>>

Leave(r) ==
  /\ call[r] = "leave" /\ MuFree
  /\ pending' = pending \ {r}
  /\ call' = [call EXCEPT ![r] = "ended"]
  /\ UNCHANGED <<outcome, chan, held, out, given, cancelled, told, gone,
                 linkVars, netVars, workVars>>

----------------------------------------------------------------------------
(* The goroutine of sendStreamRequest, between the channel of the stream and outCh *)

StreamTake(r) ==
  /\ call[r] = "wait" /\ chan[r] # <<>>
  /\ held' = [held EXCEPT ![r] = Head(chan[r])]
  /\ chan' = [chan EXCEPT ![r] = Tail(@)]
  /\ call' = [call EXCEPT ![r] = "send"]
  /\ UNCHANGED <<outcome, pending, out, given, cancelled, told, gone,
                 linkVars, netVars, workVars>>

StreamSend(r) ==
  /\ call[r] = "send" /\ Len(out[r]) < OutCap
  /\ \/ /\ held[r].type = "chunk"
        /\ out' = [out EXCEPT ![r] = Append(@, held[r].n)]
        /\ call' = [call EXCEPT ![r] = "wait"]
        /\ UNCHANGED outcome
     \/ /\ held[r].type \in Terminal
        /\ outcome' = [outcome EXCEPT ![r] = held[r].type]
        /\ call' = [call EXCEPT ![r] = "leave"]
        /\ UNCHANGED out
  /\ held' = [held EXCEPT ![r] = Nothing]
  /\ UNCHANGED <<pending, chan, given, cancelled, told, gone,
                 linkVars, netVars, workVars>>

(* The cancel message is sent once; the stream goes on until its last answer. *)
StreamCancel(r) ==
  /\ call[r] = "wait" /\ r \in cancelled \ told
  /\ \/ MayPass /\ Send([type |-> "cancel", id |-> r])
     \/ MayFail /\ UNCHANGED toWorker
  /\ told' = told \cup {r}
  /\ UNCHANGED <<call, outcome, pending, chan, held, out, given, cancelled, gone,
                 linkVars, toParent, workVars>>

(* The goroutines behind outCh pass a chunk on to the channel the web handler reads. *)
Pass(r) ==
  /\ out[r] # <<>> /\ r \notin gone
  /\ given' = [given EXCEPT ![r] = Head(out[r])]
  /\ out' = [out EXCEPT ![r] = Tail(@)]
  /\ UNCHANGED <<call, outcome, pending, chan, held, cancelled, told, gone,
                 linkVars, netVars, workVars>>

----------------------------------------------------------------------------
(* readLoop and closePending *)

(* Mutant: the entry is deleted by the caller alone. *)
ReadAnswerKeeps ==
  /\ reader = "read" /\ ~closed /\ toParent # <<>>
  /\ toParent' = Tail(toParent)
  /\ \/ /\ Head(toParent).id \in pending
        /\ carried' = Head(toParent)
        /\ reader' = "send"
     \/ /\ Head(toParent).id \notin pending
        /\ UNCHANGED <<carried, reader>>
  /\ UNCHANGED <<callVars, closed, toWorker, workVars>>

ReadAnswer ==
  /\ reader = "read" /\ ~closed /\ toParent # <<>>
  /\ toParent' = Tail(toParent)
  /\ \/ /\ Head(toParent).id \in pending
        /\ pending' = IF Head(toParent).type \in Terminal
                      THEN pending \ {Head(toParent).id} ELSE pending
        /\ carried' = Head(toParent)
        /\ reader' = "send"
     \/ /\ Head(toParent).id \notin pending
        /\ UNCHANGED <<pending, carried, reader>>
  /\ UNCHANGED <<call, outcome, chan, held, out, given, cancelled, told, gone,
                 closed, toWorker, workVars>>

(* Mutant: an answer that does not fit is dropped. *)
PutAnswerDrops ==
  /\ reader = "send"
  /\ chan' = [chan EXCEPT ![carried.id] =
                 IF Len(@) < Cap(carried.id) THEN Append(@, carried) ELSE @]
  /\ carried' = Nothing
  /\ reader' = "read"
  /\ UNCHANGED <<call, outcome, pending, held, out, given, cancelled, told, gone,
                 closed, netVars, workVars>>

(* Outside mu: a full channel stops the loop. *)
PutAnswer ==
  /\ reader = "send"
  /\ Len(chan[carried.id]) < Cap(carried.id)
  /\ chan' = [chan EXCEPT ![carried.id] = Append(@, carried)]
  /\ carried' = Nothing
  /\ reader' = "read"
  /\ UNCHANGED <<call, outcome, pending, held, out, given, cancelled, told, gone,
                 closed, netVars, workVars>>

ReadFails ==
  /\ reader = "read"
  /\ closed \/ (~alive /\ toParent = <<>>)
  /\ reader' = "closing"
  /\ UNCHANGED <<callVars, closed, carried, netVars, workVars>>

(* Mutant: the end of the connection is taken for the end of the stream. *)
ClosePendingDone ==
  /\ reader = "closing"
  /\ \E r \in pending :
       /\ Len(chan[r]) < Cap(r)
       /\ chan' = [chan EXCEPT ![r] = Append(@, Answer(IF r \in Streams THEN "done" ELSE "error", r, 0))]
       /\ pending' = pending \ {r}
  /\ UNCHANGED <<call, outcome, held, out, given, cancelled, told, gone,
                 linkVars, netVars, workVars>>

(* Inside mu: a full channel stops everyone. *)
ClosePending ==
  /\ reader = "closing"
  /\ \E r \in pending :
       /\ Len(chan[r]) < Cap(r)
       /\ chan' = [chan EXCEPT ![r] = Append(@, Answer("error", r, 0))]
       /\ pending' = pending \ {r}
  /\ UNCHANGED <<call, outcome, held, out, given, cancelled, told, gone,
                 linkVars, netVars, workVars>>

(* Mutant: only one call is told. *)
ClosePendingEndEarly ==
  /\ reader = "closing"
  /\ Cardinality(pending) < 2
  /\ reader' = "dead"
  /\ UNCHANGED <<callVars, closed, carried, netVars, workVars>>

ClosePendingEnd ==
  /\ reader = "closing" /\ pending = {}
  /\ reader' = "dead"
  /\ UNCHANGED <<callVars, closed, carried, netVars, workVars>>

(* Close of the WorkerProcess; the worker gets a signal and dies (WorkerDies). *)
Close ==
  /\ MayClose /\ ~closed /\ MuFree
  /\ closed' = TRUE
  /\ UNCHANGED <<callVars, reader, carried, netVars, workVars>>

----------------------------------------------------------------------------
(* The worker: workerHandleConnection *)

NetFree == Len(toParent) < NetCap

Answered(m) == toParent' = Append(toParent, m)

ReadInline ==
  /\ alive /\ toWorker # <<>> /\ NetFree
  /\ Head(toWorker).type = "call" /\ Head(toWorker).id \in Inline
  /\ toWorker' = Tail(toWorker)
  /\ \E t \in {"result", "error"} : Answered(Answer(t, Head(toWorker).id, 0))
  /\ UNCHANGED <<callVars, linkVars, workVars>>

ReadSynth ==
  /\ alive /\ toWorker # <<>>
  /\ Head(toWorker).type = "call" /\ Head(toWorker).id \in Tasks
  /\ toWorker' = Tail(toWorker)
  /\ task' = [task EXCEPT ![Head(toWorker).id] = "spawned"]
  /\ UNCHANGED <<callVars, linkVars, toParent, alive, reply, chunks, active, stop,
                 overrides, params, defaults, session>>

(* cancelTask knows the tasks that have registered.  The answer carries the id of the *)
(* cancel message, which is 0, and finds no entry in the parent.                      *)
ReadCancel ==
  /\ alive /\ toWorker # <<>> /\ NetFree
  /\ Head(toWorker).type = "cancel"
  /\ toWorker' = Tail(toWorker)
  /\ \/ /\ Head(toWorker).id \in active
        /\ stop' = stop \cup {Head(toWorker).id}
        /\ active' = active \ {Head(toWorker).id}
        /\ Answered(Answer("cancelled", None, 0))
     \/ /\ Head(toWorker).id \notin active
        /\ UNCHANGED <<stop, active>>
        /\ Answered(Answer("error", None, 0))
  /\ UNCHANGED <<callVars, linkVars, alive, task, reply, chunks,
                 overrides, params, defaults, session>>

----------------------------------------------------------------------------
(* The worker: workerHandleSynthesize and workerHandleSynthesizeStream *)

TaskRegister(r) ==
  /\ alive /\ task[r] = "spawned"
  /\ active' = active \cup {r}
  /\ task' = [task EXCEPT ![r] = "registered"]
  /\ UNCHANGED <<callVars, linkVars, netVars, alive, reply, chunks, stop,
                 overrides, params, defaults, session>>

(* Mutant: the overrides of an earlier request are not taken back. *)
TaskOverrideKeeps(r) ==
  /\ alive /\ task[r] = "registered"
  /\ overrides' = IF r \in Overriding THEN r ELSE overrides
  /\ task' = [task EXCEPT ![r] = "set"]
  /\ UNCHANGED <<callVars, linkVars, netVars, alive, reply, chunks, active, stop,
                 params, defaults, session>>

TaskOverride(r) ==
  /\ alive /\ task[r] = "registered"
  /\ overrides' = IF r \in Overriding THEN r ELSE None
  /\ task' = [task EXCEPT ![r] = "set"]
  /\ UNCHANGED <<callVars, linkVars, netVars, alive, reply, chunks, active, stop,
                 params, defaults, session>>

(* buildGenerationOverrides, at the start of the synthesis *)
TaskPickUp(r) ==
  /\ alive /\ task[r] = "set"
  /\ params' = [params EXCEPT ![r] = overrides]
  /\ task' = [task EXCEPT ![r] = "prepare"]
  /\ UNCHANGED <<callVars, linkVars, netVars, alive, reply, chunks, active, stop,
                 overrides, defaults, session>>

(* Generation: with SessionMutex, the parameters are written into the defaults, from *)
(* which they are then read.  (One piece of text per synthesis: the parameters are   *)
(* not needed again.)                                                                *)
TaskGenerate(r) ==
  /\ alive /\ task[r] = "prepare" /\ session = None
  /\ session' = r
  /\ defaults' = IF params[r] # None THEN params[r] ELSE defaults
  /\ params' = [params EXCEPT ![r] = None]
  /\ task' = [task EXCEPT ![r] = "generate"]
  /\ UNCHANGED <<callVars, linkVars, netVars, alive, reply, chunks, active, stop,
                 overrides>>

(* A stream produces a chunk while it generates; its handler looks at the context first. *)
TaskChunk(r) ==
  /\ alive /\ task[r] = "generate" /\ r \in Streams
  /\ r \notin stop /\ chunks[r] < MaxChunks
  /\ chunks' = [chunks EXCEPT ![r] = @ + 1]
  /\ reply' = [reply EXCEPT ![r] = "chunk"]
  /\ task' = [task EXCEPT ![r] = "write"]
  /\ UNCHANGED <<callVars, linkVars, netVars, alive, active, stop,
                 overrides, params, defaults, session>>

(* The end of the synthesis: an error that comes from the context is told apart. *)
TaskFails(r) ==
  /\ alive /\ r \in Synth
  /\ task[r] = "prepare" \/ task[r] = "generate"
  /\ reply' = [reply EXCEPT ![r] = IF r \in stop THEN "cancelled" ELSE "error"]
  /\ session' = IF session = r THEN None ELSE session
  /\ task' = [task EXCEPT ![r] = "write"]
  /\ UNCHANGED <<callVars, linkVars, netVars, alive, chunks, active, stop,
                 overrides, params, defaults>>

(* A synthesis that was cancelled after its last look at the context is not answered. *)
TaskDiscards(r) ==
  /\ alive /\ r \in Synth
  /\ task[r] = "generate" /\ r \in stop
  /\ session' = None
  /\ active' = active \ {r}
  /\ stop' = stop \ {r}
  /\ task' = [task EXCEPT ![r] = "ended"]
  /\ UNCHANGED <<callVars, linkVars, netVars, alive, reply, chunks,
                 overrides, params, defaults>>

(* A stream may also end without any chunk; and its goroutine has SessionMutex for a    *)
(* while when the handler has noticed the cancellation before it.                       *)
TaskSucceeds(r) ==
  /\ alive
  /\ \/ /\ task[r] = "generate" \/ (task[r] = "prepare" /\ r \in Streams)
        /\ r \in Synth => r \notin stop
        /\ reply' = [reply EXCEPT ![r] = IF r \in Streams THEN "done" ELSE "result"]
        /\ session' = IF session = r THEN None ELSE session
     \/ /\ task[r] = "generate" /\ r \in Streams \cap stop
        /\ reply' = [reply EXCEPT ![r] = "cancelled"]
        /\ UNCHANGED session
  /\ task' = [task EXCEPT ![r] = "write"]
  /\ UNCHANGED <<callVars, linkVars, netVars, alive, chunks, active, stop,
                 overrides, params, defaults>>

TaskUnlock(r) ==
  /\ alive /\ session = r
  /\ task[r] = "ended" \/ (task[r] = "write" /\ reply[r] = "cancelled")
  /\ session' = None
  /\ UNCHANGED <<callVars, linkVars, netVars, alive, task, reply, chunks, active, stop,
                 overrides, params, defaults>>

TaskWrite(r) ==
  /\ alive /\ task[r] = "write" /\ NetFree
  /\ Answered(Answer(reply[r], r, IF r \in Streams THEN chunks[r] ELSE 0))
  /\ reply' = [reply EXCEPT ![r] = None]
  /\ \/ /\ reply[r] = "chunk"
        /\ task' = [task EXCEPT ![r] = "generate"]
        /\ UNCHANGED <<active, stop>>
     \/ /\ reply[r] \in Terminal
        /\ task' = [task EXCEPT ![r] = "ended"]
        /\ active' = active \ {r}
        /\ stop' = stop \ {r}
  /\ UNCHANGED <<callVars, linkVars, toWorker, alive, chunks,
                 overrides, params, defaults, session>>

----------------------------------------------------------------------------
(* The environment *)

(* The client goes away, or the web handler ends. *)
Cancel(r) ==
  /\ r \in Cancellable \ cancelled
  /\ call[r] \in {"register", "write", "wait"} \/ (r \in Streams /\ call[r] # "idle")
  /\ ~Released(r)
  /\ cancelled' = cancelled \cup {r}
  /\ UNCHANGED <<call, outcome, pending, chan, held, out, given, told, gone,
                 linkVars, netVars, workVars>>

(* The handler that reads the pool's channel has left and the channel is full. *)
ClientGone(r) ==
  /\ r \in (Streams \cap cancelled) \ gone
  /\ gone' = gone \cup {r}
  /\ UNCHANGED <<call, outcome, pending, chan, held, out, given, cancelled, told,
                 linkVars, netVars, workVars>>

(* The worker dies, by itself or by Close; answers on their way may be lost. *)
WorkerDies ==
  /\ alive /\ (MayCrash \/ closed)
  /\ alive' = FALSE
  /\ toWorker' = <<>>
  /\ \E k \in 0 .. Len(toParent) : toParent' = SubSeq(toParent, 1, k)
  /\ UNCHANGED <<callVars, linkVars, task, reply, chunks, active, stop,
                 overrides, params, defaults, session>>

----------------------------------------------------------------------------
CallStep(r) ==
  \/ Start(r) \/ StartClosed(r) \/ Register(r) \/ Write(r) \/ WriteFails(r)
  \/ Receive(r) \/ TimeOut(r) \/ GiveUp(r) \/ Leave(r)

StreamStep(r) == StreamTake(r) \/ StreamSend(r) \/ StreamCancel(r) \/ Pass(r)

ReaderStep == ReadAnswer \/ PutAnswer \/ ReadFails \/ ClosePending \/ ClosePendingEnd

(* The client of stream r has left and everything between it and readLoop is full: *)
(* nobody takes an answer out of the channel of r any more.                        *)
Stuck(r) ==
  /\ r \in gone /\ Len(out[r]) = OutCap
  /\ call[r] = "send" /\ Len(chan[r]) = Cap(r)

(* closePending takes the calls in the order of a map: the next one may be stuck. *)
ClosingMayWait == reader = "closing" /\ \E r \in pending : Stuck(r)

WorkerLoop == ReadInline \/ ReadSynth \/ ReadCancel

TaskStep(r) ==
  \/ TaskRegister(r) \/ TaskOverride(r) \/ TaskPickUp(r) \/ TaskGenerate(r)
  \/ TaskFails(r) \/ TaskDiscards(r) \/ TaskSucceeds(r) \/ TaskUnlock(r) \/ TaskWrite(r)

Next ==
  \/ \E r \in Calls : CallStep(r) \/ Cancel(r)
  \/ \E r \in Streams : StreamStep(r) \/ TaskChunk(r) \/ ClientGone(r)
  \/ \E r \in Tasks : TaskStep(r)
  \/ ReaderStep \/ WorkerLoop \/ Close \/ WorkerDies

Spec == Init /\ [][Next]_vars

(* Goroutines of both processes are scheduled, a timer fires, a select does not pass *)
(* over a ready case for ever, and a worker whose connection was closed dies (Close  *)
(* kills it after 5 seconds).  Nothing is assumed of clients and of new calls, nor   *)
(* of closePending once it may wait for a channel that stays full.                   *)
Fairness ==
  /\ \A r \in Calls :
       /\ WF_vars(Register(r) \/ Write(r) \/ WriteFails(r))
       /\ WF_vars(Receive(r) \/ TimeOut(r) \/ GiveUp(r))
       /\ WF_vars(Leave(r))
  /\ \A r \in Streams :
       /\ WF_vars(StreamTake(r) \/ StreamSend(r))
       /\ SF_vars(StreamCancel(r))
       /\ WF_vars(Pass(r))
  /\ \A r \in Tasks : WF_vars(TaskStep(r))
  /\ WF_vars(ReaderStep /\ ~ClosingMayWait)
  /\ WF_vars(WorkerLoop)
  /\ WF_vars(closed /\ WorkerDies)

FairSpec == Spec /\ Fairness

----------------------------------------------------------------------------
(* Properties *)

CallLabels == {"idle", "register", "write", "wait", "send", "leave", "ended"}
TaskLabels == {"none", "spawned", "registered", "set", "prepare", "generate", "write", "ended"}

(* The values the variables may have. *)
TypeOK ==
  /\ call \in [Calls -> CallLabels]
  /\ outcome \in [Calls -> Terminal \cup {"timeout", None}]
  /\ pending \in SUBSET Calls
  /\ chan \in [Calls -> Seq(Answers)]
  /\ \A r \in Calls : Len(chan[r]) <= Cap(r)
  /\ held \in [Streams -> Answers \cup {Nothing}]
  /\ out \in [Streams -> Seq(1 .. MaxChunks)]
  /\ \A r \in Streams : Len(out[r]) <= OutCap
  /\ given \in [Streams -> 0 .. MaxChunks]
  /\ cancelled \in SUBSET Tasks /\ told \in SUBSET cancelled
  /\ gone \in SUBSET (Streams \cap cancelled)
  /\ closed \in BOOLEAN /\ alive \in BOOLEAN
  /\ reader \in {"read", "send", "closing", "dead"}
  /\ carried \in Answers \cup {Nothing}
  /\ toWorker \in Seq(Requests)
  /\ toParent \in Seq(Answers) /\ Len(toParent) <= NetCap
  /\ task \in [Tasks -> TaskLabels]
  /\ reply \in [Tasks -> Terminal \cup {"chunk", None}]
  /\ chunks \in [Streams -> 0 .. MaxChunks]
  /\ active \in SUBSET Tasks /\ stop \in SUBSET Tasks
  /\ overrides \in Overriding \cup {None} /\ defaults \in Overriding \cup {None}
  /\ params \in [Tasks -> Overriding \cup {None}]
  /\ session \in Tasks \cup {None}

(* readLoop serves all calls, so it must never wait for somebody who does not       *)
(* receive: a unary call's channel is empty whenever readLoop or closePending is    *)
(* about to send into it, though its caller may have left (time-out, context) long  *)
(* ago; and a stream whose goroutine has left has room for what is still sent.      *)
ReaderNeverWaits ==
  \A r \in Calls :
    (reader = "send" /\ carried.id = r) \/ (reader = "closing" /\ r \in pending)
      => /\ r \in Unary => chan[r] = <<>>
         /\ r \in Streams /\ call[r] \in {"leave", "ended"} => Len(chan[r]) < StreamCap

LastAnswerComes(r) ==
  \/ \E i \in 1 .. Len(chan[r]) : chan[r][i].type \in Terminal
  \/ carried.id = r /\ carried.type \in Terminal
  \/ r \in Streams /\ held[r].type \in Terminal

(* The table of pending calls is exact while calls end in any of five ways and the  *)
(* connection may fail at any time: an entry belongs to a call in progress, and a   *)
(* call that waits without an entry has its last answer in its channel or on the    *)
(* way there.  A call without both would wait for ever (a stream has no time-out).  *)
TableExact ==
  \A r \in Calls :
    /\ r \in pending => call[r] \in {"write", "wait", "send", "leave"}
    /\ call[r] \in {"wait", "send"} => r \in pending \/ LastAnswerComes(r)

(* What is between the task of a stream and its outCh, the oldest answer first. *)
Line(r) == <<held[r]>> \o chan[r] \o <<carried>> \o toParent
Chunk(a, r) == a.id = r /\ a.type = "chunk"

(* The chunks of stream r in s are numbered b + 1, b + 2, ... in this order. *)
Follow(s, r, b) ==
  \A i \in 1 .. Len(s) : Chunk(s[i], r) =>
    /\ s[i].n = b + 1 \/ \E j \in 1 .. i - 1 : Chunk(s[j], r) /\ s[j].n = s[i].n - 1
    /\ \A j \in 1 .. i - 1 : Chunk(s[j], r) => s[j].n < s[i].n

(* A client gets the chunks of its stream in order without a gap, through two       *)
(* bounded channels, readLoop and the connection; and a stream that ends with       *)
(* "done" has passed on every chunk the worker produced.                            *)
StreamWhole ==
  \A r \in Streams :
    /\ \A i \in 1 .. Len(out[r]) : out[r][i] = given[r] + i
    /\ Follow(Line(r), r, given[r] + Len(out[r]))
    /\ outcome[r] = "done" => given[r] + Len(out[r]) = chunks[r]

OwnParameters(r) == IF r \in Overriding THEN r ELSE None

(* The runtime has one field for the sampling parameter of all its tasks, and       *)
(* generation writes what a task found there into defaults that all tasks share.    *)
(* While calls are made one at a time and each waits for its answer, a task finds   *)
(* in the field what its request sent, and a request that sent the parameter        *)
(* generates with it.  One that sent none generates with the manifest's, or with    *)
(* what a request whose task is over has left in the defaults, and never with that  *)
(* of a task at work.                                                               *)
AnsweredCallsKeepParameters ==
  (Exclusive /\ \A q \in Calls : outcome[q] \notin {"timeout", "cancelled"})
    => \A r \in Tasks :
         /\ task[r] = "prepare" => params[r] = OwnParameters(r)
         /\ session = r /\ r \in Overriding => defaults = r
         /\ session = r /\ r \notin Overriding /\ defaults # None => task[defaults] = "ended"

(* What a caller may count on (RemoteCall): the calls that start a synthesis, as the  *)
(* goroutine that makes them and their task in the worker see them.  The client has  *)
(* what was put into outCh.                                                          *)
Phases ==
  [r \in Tasks |-> IF call[r] = "idle" THEN "idle"
                   ELSE IF call[r] \in {"leave", "ended"} THEN "over" ELSE "asked"]

Works ==
  [r \in Tasks |-> IF task[r] \in {"none", "spawned"} THEN "none"
                   ELSE IF task[r] = "ended" \/ (task[r] = "write" /\ reply[r] \in Terminal)
                   THEN "over" ELSE "going"]

Outcomes == [r \in Tasks |-> outcome[r]]
Arrived == [r \in Streams |-> given[r] + Len(out[r])]

Caller == INSTANCE RemoteCall WITH
  Calls <- Tasks, phase <- Phases, outcome <- Outcomes, work <- Works,
  made <- chunks, got <- Arrived, left <- cancelled, broken <- MayFail

(* A call ends once and with a cause; a task is begun once; and a stream that ends   *)
(* with "done" has all its chunks, from a task that is over: whatever is lost, late  *)
(* or cancelled on the way.                                                          *)
ImplementsCall == Caller!CallSpec

(* A unary call that has begun ends, whatever becomes of the worker and the         *)
(* connection, and though other calls share the table, readLoop and the worker with *)
(* it, unless closePending, which has mu, comes to a stream for ever full.          *)
UnaryEnds == \A r \in Unary : call[r] # "idle" ~> (call[r] = "ended" \/ ClosingMayWait)

(* A call that is in the table before readLoop has told everyone that the           *)
(* connection failed ends, unless a client that left blocks its stream.             *)
RegisteredEnds ==
  \A r \in Calls : (r \in pending /\ reader # "dead") ~> (call[r] = "ended" \/ gone # {})

----------------------------------------------------------------------------
(* What comments in the code say and the code does not do *)

(* worker_process.go:292 "context cancelled, tell the subprocess to stop": a task   *)
(* whose cancel message the worker has read does not go on.                         *)
CancelIsHeard ==
  \A r \in Tasks :
    (/\ r \in told /\ alive /\ ~closed
     /\ \A i \in 1 .. Len(toWorker) : toWorker[i] # [type |-> "cancel", id |-> r]
     /\ task[r] \in {"prepare", "generate"})
    => r \in stop

(* pool.go:30 "one request at a time uses the inference unit" *)
OneTaskAtATime ==
  \A r, q \in Tasks :
    task[r] \in {"prepare", "generate"} /\ task[q] \in {"prepare", "generate"} => r = q

(* worker_main.go:234 "apply the sampling parameters of the request" *)
ParametersOfRequest == \A r \in Tasks : task[r] = "prepare" => params[r] = OwnParameters(r)

(* protocol.go:50 "sampling parameters (optional; if not sent, the manifest's default)" *)
DefaultsIfNotSent ==
  \A r \in Tasks \ Overriding : session = r => defaults = None

(* worker_process.go:325 "clean up after a last answer or the end of the context" *)
CancelledStreamEnds == \A r \in Streams : r \in cancelled ~> call[r] = "ended"

(* worker_process.go:372 "Close closes the subprocess": it is not kept from it by   *)
(* closePending, which has mu and sends into a channel that nobody will empty.      *)
CloseNotBlocked ==
  ~ /\ reader = "closing" /\ ~closed /\ pending # {}
    /\ \A r \in pending : Stuck(r)

(* worker_process.go:253 "sends a request and waits for the answer, can be cancelled *)
(* by the context": the call ends, by the answer, after 300 seconds or with its      *)
(* context.  It then still needs mu to leave.                                        *)
UnaryAlwaysEnds == \A r \in Unary : call[r] # "idle" ~> call[r] = "ended"
=============================================================================

--------------------------- MODULE WorkerLinkProofs ---------------------------
(***************************************************************************)
(* Proofs about WorkerLink, for all sets of calls and all capacities.      *)
(*                                                                         *)
(* A call has at most one last answer: CallInv follows it from the table   *)
(* of pending calls through readLoop and the channel to the caller.        *)
(* QuietInv says when the worker has nothing left to do or to say for a    *)
(* task, NumberInv which number a chunk bears at every place of its way,   *)
(* and TurnInv that tasks take turns while every call gets its answer.     *)
(* CauseInv says where an answer comes from: its task, which is over, or   *)
(* the connection, which failed.  With it WorkerLink implements RemoteCall.*)
(***************************************************************************)
EXTENDS WorkerLink, SequenceTheorems, TLAPS

CallTyped ==
  /\ call \in [Calls -> CallLabels]
  /\ outcome \in [Calls -> Terminal \cup {"timeout", None}]
  /\ pending \in SUBSET Calls
  /\ cancelled \in SUBSET Tasks /\ told \in SUBSET cancelled
  /\ gone \in SUBSET (Streams \cap cancelled)

WayTyped ==
  /\ chan \in [Calls -> Seq(Answers)]
  /\ \A r \in Calls : Len(chan[r]) <= Cap(r)
  /\ held \in [Streams -> Answers \cup {Nothing}]
  /\ carried \in Answers \cup {Nothing}

OutTyped ==
  /\ out \in [Streams -> Seq(1 .. MaxChunks)]
  /\ \A r \in Streams : Len(out[r]) <= OutCap
  /\ given \in [Streams -> 0 .. MaxChunks]

NetTyped ==
  /\ toWorker \in Seq(Requests)
  /\ toParent \in Seq(Answers) /\ Len(toParent) <= NetCap

TaskTyped ==
  /\ task \in [Tasks -> TaskLabels]
  /\ reply \in [Tasks -> Terminal \cup {"chunk", None}]
  /\ chunks \in [Streams -> 0 .. MaxChunks]
  /\ active \in SUBSET Tasks /\ stop \in SUBSET Tasks

ParamTyped ==
  /\ overrides \in Overriding \cup {None} /\ defaults \in Overriding \cup {None}
  /\ params \in [Tasks -> Overriding \cup {None}]
  /\ session \in Tasks \cup {None}

Flags == closed \in BOOLEAN /\ alive \in BOOLEAN

Typed == CallTyped /\ WayTyped /\ OutTyped /\ NetTyped /\ TaskTyped /\ ParamTyped

----------------------------------------------------------------------------
(* What an answer looks like at every place of its way. *)

ReplyInv ==
  /\ \A r \in Tasks : reply[r] # None <=> task[r] = "write"
  /\ \A r \in Tasks : reply[r] = "chunk" => r \in Streams /\ chunks[r] >= 1

ParentInv ==
  \A i \in 1 .. Len(toParent) :
    toParent[i].type = "chunk" => toParent[i].id \in Streams /\ toParent[i].n >= 1

ReaderInv ==
  /\ reader \in {"read", "send", "closing", "dead"}
  /\ reader = "send" <=> carried # Nothing
  /\ carried # Nothing => carried.id \in Calls
  /\ carried.type = "chunk" => carried.id \in Streams /\ carried.n >= 1

ChanInv ==
  \A r \in Calls : \A i \in 1 .. Len(chan[r]) :
    /\ chan[r][i].id = r
    /\ chan[r][i].type = "chunk" => r \in Streams /\ chan[r][i].n >= 1

HeldInv ==
  \A r \in Streams :
    /\ held[r] # Nothing <=> call[r] = "send"
    /\ held[r] # Nothing => held[r].id = r
    /\ held[r].type = "chunk" => held[r].n >= 1

FormInv == ReplyInv /\ ParentInv /\ ReaderInv /\ ChanInv /\ HeldInv

----------------------------------------------------------------------------
(* One last answer per call. *)

(* Before the call is registered there is nothing, while it lasts it is in the table or *)
(* its last answer is on its way.                                                       *)
Tabled(r) ==
  /\ call[r] = "send" => r \in Streams
  /\ call[r] \notin {"leave", "ended"} => outcome[r] = None
  /\ r \in pending => call[r] \in {"write", "wait", "send", "leave"}
  /\ call[r] \in {"idle", "register"} => chan[r] = <<>> /\ carried.id # r
  /\ r \in Tasks /\ call[r] = "write" /\ reader \in {"read", "send"} => r \in pending
  /\ call[r] \in {"write", "wait", "send"} => r \in pending \/ LastAnswerComes(r)
  /\ r \in Streams /\ call[r] \in {"idle", "register", "write"} => out[r] = <<>>

(* The last answer is the last: nothing follows it, and it takes the call from the table. *)
LastIsLast(r) ==
  /\ carried.id = r /\ carried.type \in Terminal => r \notin pending
  /\ \A i \in 1 .. Len(chan[r]) : chan[r][i].type \in Terminal =>
       i = Len(chan[r]) /\ r \notin pending /\ carried.id # r
  /\ r \in Streams /\ held[r].type \in Terminal =>
       chan[r] = <<>> /\ r \notin pending /\ carried.id # r

(* Nothing is on its way to a stream that has ended. *)
LeftAlone(r) ==
  call[r] \in {"write", "leave", "ended"} =>
    carried.id # r /\ (r \in pending => chan[r] = <<>>)

TableInv == \A r \in Calls : Tabled(r)
LastInv == \A r \in Calls : LastIsLast(r)
LeftInv == \A r \in Streams : LeftAlone(r)

CallInv == TableInv /\ LastInv /\ LeftInv

----------------------------------------------------------------------------
(* What the worker has still to do and to say. *)

Asks(m, r) == m.type = "call" /\ m.id = r
Asked(r) == \E i \in 1 .. Len(toWorker) : Asks(toWorker[i], r)
AskedOnce(r) ==
  \A i, j \in 1 .. Len(toWorker) : Asks(toWorker[i], r) /\ Asks(toWorker[j], r) => i = j
Mentioned(r) == \E i \in 1 .. Len(toParent) : toParent[i].id = r
Quiet(r) == ~Asked(r) /\ task[r] \in {"none", "ended"} /\ ~Mentioned(r)

(* A task is none of the worker's before it is asked for, and is asked for once. *)
Waiting(r) ==
  /\ call[r] \in {"idle", "register", "write"} => task[r] = "none" /\ ~Asked(r)
  /\ Asked(r) => task[r] = "none"
  /\ AskedOnce(r)

AskInv == \A r \in Tasks : Waiting(r)

(* The last answer of a task is the last that the connection has of it. *)
EndsTask(r) ==
  \A i \in 1 .. Len(toParent) :
    toParent[i].id = r /\ toParent[i].type \in Terminal =>
      /\ task[r] = "ended"
      /\ \A j \in (i + 1) .. Len(toParent) : toParent[j].id # r

LastOfTask == \A r \in Tasks : EndsTask(r)

(* A call that was not left early is not over before the worker is done with it. *)
Early(r) == r \in Synth /\ outcome[r] \in {"timeout", "cancelled"}
Over(r) == r \notin pending \/ call[r] \in {"idle", "register", "write", "leave", "ended"}
Settled(r) == reader \in {"read", "send"} /\ ~Early(r) /\ Over(r) => Quiet(r)

OverInv == \A r \in Tasks : Settled(r)

QuietInv == AskInv /\ LastOfTask /\ OverInv

----------------------------------------------------------------------------
(* The numbers of the chunks of a stream. *)

Passed(r) == given[r] + Len(out[r])
InHand(r) == IF held[r].type = "chunk" THEN 1 ELSE 0
InChan(r) == IF chan[r] # <<>> /\ chan[r][Len(chan[r])].type \in Terminal
             THEN Len(chan[r]) - 1 ELSE Len(chan[r])
InCarried(r) == IF Chunk(carried, r) THEN 1 ELSE 0
Base(r) == Passed(r) + InHand(r) + InChan(r) + InCarried(r)
Made(r) == IF reply[r] = "chunk" THEN chunks[r] - 1 ELSE chunks[r]

Reach(s, r, b, m) == m = b \/ \E i \in 1 .. Len(s) : Chunk(s[i], r) /\ s[i].n = m
DoneFor(a, r) == a.id = r /\ a.type = "done"
DoneComes(r) == \E i \in 1 .. Len(toParent) : DoneFor(toParent[i], r)

(* Between the connection and the client, where every answer has its place. *)
Placed(r) ==
  /\ \A i \in 1 .. Len(out[r]) : out[r][i] = given[r] + i
  /\ held[r].type = "chunk" => held[r].n = Passed(r) + 1
  /\ \A i \in 1 .. Len(chan[r]) :
       chan[r][i].type = "chunk" => chan[r][i].n = Passed(r) + InHand(r) + i
  /\ Chunk(carried, r) => carried.n = Passed(r) + InHand(r) + Len(chan[r]) + 1

(* On the connection, which all calls share. *)
Sent(r) ==
  /\ Follow(toParent, r, Base(r))
  /\ \A i \in 1 .. Len(toParent) : Chunk(toParent[i], r) =>
       Base(r) < toParent[i].n /\ toParent[i].n <= Made(r)
  /\ Base(r) <= Made(r)
  /\ alive \/ DoneComes(r) => Reach(toParent, r, Base(r), Made(r))

(* Before "done" comes all that was made. *)
AllMade(r) == Base(r) = chunks[r] /\ task[r] = "ended"
DoneLast(r) ==
  /\ held[r].type = "done" => AllMade(r)
  /\ \A i \in 1 .. Len(chan[r]) : chan[r][i].type = "done" => AllMade(r)
  /\ DoneFor(carried, r) => AllMade(r)
  /\ outcome[r] = "done" => AllMade(r) /\ Base(r) = Passed(r)

PlaceInv == \A r \in Streams : Placed(r)
NetInv == \A r \in Streams : Sent(r)
DoneInv == \A r \in Streams : DoneLast(r)

NumberInv == PlaceInv /\ NetInv /\ DoneInv

----------------------------------------------------------------------------
(* Tasks take turns. *)

Engaged(r) == call[r] # "idle" /\ ~Released(r)
InWorker(r) == Asked(r) \/ task[r] \notin {"none", "ended"}
Patient == Exclusive /\ \A q \in Calls : outcome[q] \notin {"timeout", "cancelled"}

FailInv == reader \in {"closing", "dead"} => closed \/ ~alive

EngagedInv == Exclusive => \A r, q \in Tasks : Engaged(r) /\ Engaged(q) => r = q

AloneInv == Patient /\ alive => \A r, q \in Tasks : InWorker(r) /\ InWorker(q) => r = q

OwnInv ==
  Patient => \A r \in Tasks :
    /\ task[r] = "set" => overrides = OwnParameters(r)
    /\ task[r] = "prepare" => params[r] = OwnParameters(r)

(* What is in the shared defaults comes from a task that has got as far as generating, *)
(* and the task that generates sees its own there, or what an ended task has left.     *)
Begun == {"generate", "write", "ended"}
BegunInv == Patient /\ defaults # None => task[defaults] \in Begun
SharedInv ==
  Patient /\ session # None =>
    /\ session \in Overriding => defaults = session
    /\ session \notin Overriding /\ defaults # None => task[defaults] = "ended"

TurnInv == FailInv /\ EngagedInv /\ AloneInv /\ OwnInv /\ BegunInv /\ SharedInv

IInv == Typed /\ Flags /\ FormInv /\ CallInv /\ QuietInv /\ NumberInv /\ TurnInv

----------------------------------------------------------------------------
USE DEF Terminal, CallLabels, TaskLabels

LEMMA CallFacts ==
  /\ Calls = Unary \cup Streams /\ Tasks = Synth \cup Streams /\ Unary = Inline \cup Synth
  /\ Unary \cap Streams = {} /\ Inline \cap Synth = {} /\ None \notin Calls
  /\ Inline \cap Tasks = {} /\ Tasks \subseteq Calls /\ Cancellable \subseteq Tasks
  BY LinkAssumption DEF Calls, Unary, Tasks

LEMMA CapFacts ==
  /\ MaxChunks \in Nat
  /\ \A r \in Calls : Cap(r) \in Nat \ {0}
  /\ \A r \in Unary : Cap(r) = 1
  /\ \A r \in Streams : Cap(r) = StreamCap
  BY LinkAssumption, CallFacts DEF Cap

LEMMA NothingFacts ==
  /\ Nothing.type = None /\ Nothing.id = None /\ Nothing.n = 0
  /\ Nothing \notin Answers
  /\ \A a \in Answers : a.type \in Terminal \cup {"chunk"} /\ a.id \in Calls \cup {None}
                       /\ a.n \in 0 .. MaxChunks
  BY DEF Nothing, Answer, Answers, None

LEMMA AnswerFacts ==
  ASSUME NEW t \in Terminal \cup {"chunk"}, NEW r \in Calls \cup {None}, NEW n \in 0 .. MaxChunks
  PROVE  /\ Answer(t, r, n) \in Answers /\ Answer(t, r, n) # Nothing
         /\ Answer(t, r, n).type = t /\ Answer(t, r, n).id = r /\ Answer(t, r, n).n = n
  BY NothingFacts DEF Answer, Answers

LEMMA CallTypedStep == ASSUME Typed, ChanInv, Next PROVE CallTyped'
  <1>1. CASE UNCHANGED <<call, outcome, pending, cancelled, told, gone>>
    BY <1>1 DEF Typed, CallTyped
  <1>2. ASSUME NEW r \in Calls, Start(r) PROVE CallTyped'
    BY <1>2, CallFacts DEF Start, Typed, CallTyped
  <1>3. ASSUME NEW r \in Calls, StartClosed(r) PROVE CallTyped'
    BY <1>3, CallFacts DEF StartClosed, Typed, CallTyped
  <1>4. ASSUME NEW r \in Calls, Register(r) PROVE CallTyped'
    BY <1>4, CallFacts DEF Register, Typed, CallTyped
  <1>5. ASSUME NEW r \in Calls, Write(r) PROVE CallTyped'
    BY <1>5, CallFacts DEF Write, Typed, CallTyped
  <1>6. ASSUME NEW r \in Calls, WriteFails(r) PROVE CallTyped'
    BY <1>6, CallFacts DEF WriteFails, Typed, CallTyped
  <1>7. ASSUME NEW r \in Calls, Receive(r) PROVE CallTyped'
    <2>1. /\ r \in Calls /\ chan[r] \in Seq(Answers) /\ chan[r] # <<>> /\ r \notin Streams
      BY <1>7, CallFacts DEF Receive, Typed, WayTyped
    <2>2. Head(chan[r]) = chan[r][1] /\ 1 \in 1 .. Len(chan[r]) /\ chan[r][1] \in Answers
      BY <2>1
    <2>3. Head(chan[r]).type \in Terminal  BY <2>1, <2>2, NothingFacts DEF ChanInv
    <2> QED  BY <1>7, <2>1, <2>3 DEF Receive, Typed, CallTyped, linkVars, netVars, workVars
  <1>8. ASSUME NEW r \in Calls, TimeOut(r) PROVE CallTyped'
    BY <1>8, CallFacts DEF TimeOut, Typed, CallTyped
  <1>9. ASSUME NEW r \in Calls, GiveUp(r) PROVE CallTyped'
    BY <1>9, CallFacts DEF GiveUp, Typed, CallTyped
  <1>10. ASSUME NEW r \in Calls, Leave(r) PROVE CallTyped'
    BY <1>10, CallFacts DEF Leave, Typed, CallTyped
  <1>11. ASSUME NEW r \in Streams, StreamTake(r) PROVE CallTyped'
    BY <1>11, CallFacts DEF StreamTake, Typed, CallTyped
  <1>12. ASSUME NEW r \in Streams, StreamSend(r) PROVE CallTyped'
    BY <1>12, CallFacts DEF StreamSend, Typed, CallTyped
  <1>13. ASSUME NEW r \in Streams, StreamCancel(r) PROVE CallTyped'
    BY <1>13, CallFacts DEF StreamCancel, Typed, CallTyped
  <1>14. ASSUME ReadAnswer PROVE CallTyped'  BY <1>14 DEF ReadAnswer, Typed, CallTyped
  <1>15. ASSUME ClosePending PROVE CallTyped'
    BY <1>15, CallFacts DEF ClosePending, Typed, CallTyped
  <1>16. ASSUME NEW r \in Calls, Cancel(r) PROVE CallTyped'
    BY <1>16, CallFacts DEF Cancel, Typed, CallTyped
  <1>17. ASSUME NEW r \in Streams, ClientGone(r) PROVE CallTyped'
    BY <1>17, CallFacts DEF ClientGone, Typed, CallTyped
  <1>18. ASSUME NEW r \in Streams, Pass(r) \/ TaskChunk(r)
        PROVE  CallTyped'
    BY <1>1, <1>18 DEF Pass, TaskChunk, callVars, linkVars, netVars, workVars
  <1>19. ASSUME NEW r \in Tasks, TaskRegister(r) \/ TaskOverride(r) \/ TaskPickUp(r) \/ TaskGenerate(r) \/
           TaskFails(r) \/ TaskDiscards(r) \/ TaskSucceeds(r) \/ TaskUnlock(r) \/
           TaskWrite(r)
        PROVE  CallTyped'
    BY <1>1, <1>19 DEF TaskRegister, TaskOverride, TaskPickUp, TaskGenerate, TaskFails, TaskDiscards,
        TaskSucceeds, TaskUnlock, TaskWrite, callVars, linkVars, netVars, workVars
  <1>20. ASSUME PutAnswer \/ ReadFails \/ ClosePendingEnd \/ Close \/ ReadInline \/ ReadSynth \/
           ReadCancel \/ WorkerDies
        PROVE  CallTyped'
    BY <1>1, <1>20 DEF PutAnswer, ReadFails, ClosePendingEnd, Close, ReadInline, ReadSynth, ReadCancel,
        WorkerDies, callVars, linkVars, netVars, workVars
  <1> QED
    BY <1>1, <1>2, <1>3, <1>4, <1>5, <1>6, <1>7, <1>8, <1>9, <1>10, <1>11, <1>12, <1>13, <1>14,
       <1>15, <1>16, <1>17, <1>18, <1>19, <1>20
    DEF Next, CallStep, StreamStep, ReaderStep, WorkerLoop, TaskStep

LEMMA FlagsStep == ASSUME Flags, Next PROVE Flags'
  <1>1. CASE UNCHANGED <<closed, alive>>
    BY <1>1 DEF Flags
  <1>2. ASSUME Close PROVE Flags'  BY <1>2 DEF Close, Flags, callVars, linkVars, netVars, workVars
  <1>3. ASSUME WorkerDies PROVE Flags'
    BY <1>3 DEF WorkerDies, Flags, callVars, linkVars, netVars, workVars
  <1>4. ASSUME NEW r \in Calls, Start(r) \/ StartClosed(r) \/ Register(r) \/ Write(r) \/ WriteFails(r) \/
           Receive(r) \/ TimeOut(r) \/ GiveUp(r) \/ Leave(r) \/ Cancel(r)
        PROVE  Flags'
    BY <1>1, <1>4 DEF Start, StartClosed, Register, Write, WriteFails, Receive, TimeOut, GiveUp, Leave,
        Cancel, callVars, linkVars, netVars, workVars
  <1>5. ASSUME NEW r \in Streams, StreamTake(r) \/ StreamSend(r) \/ StreamCancel(r) \/ Pass(r) \/ TaskChunk(r) \/
           ClientGone(r)
        PROVE  Flags'
    BY <1>1, <1>5 DEF StreamTake, StreamSend, StreamCancel, Pass, TaskChunk, ClientGone, callVars, linkVars,
        netVars, workVars
  <1>6. ASSUME NEW r \in Tasks, TaskRegister(r) \/ TaskOverride(r) \/ TaskPickUp(r) \/ TaskGenerate(r) \/
           TaskFails(r) \/ TaskDiscards(r) \/ TaskSucceeds(r) \/ TaskUnlock(r) \/
           TaskWrite(r)
        PROVE  Flags'
    BY <1>1, <1>6 DEF TaskRegister, TaskOverride, TaskPickUp, TaskGenerate, TaskFails, TaskDiscards,
        TaskSucceeds, TaskUnlock, TaskWrite, callVars, linkVars, netVars, workVars
  <1>7. ASSUME ReadAnswer \/ PutAnswer \/ ReadFails \/ ClosePending \/ ClosePendingEnd \/
           ReadInline \/ ReadSynth \/ ReadCancel
        PROVE  Flags'
    BY <1>1, <1>7 DEF ReadAnswer, PutAnswer, ReadFails, ClosePending, ClosePendingEnd, ReadInline,
        ReadSynth, ReadCancel, callVars, linkVars, netVars, workVars
  <1> QED
    BY <1>1, <1>2, <1>3, <1>4, <1>5, <1>6, <1>7
    DEF Next, CallStep, StreamStep, ReaderStep, WorkerLoop, TaskStep

LEMMA ParamTypedStep == ASSUME Typed, Next PROVE ParamTyped'
  <1>1. CASE UNCHANGED <<overrides, params, defaults, session>>
    BY <1>1 DEF Typed, ParamTyped
  <1>2. ASSUME NEW r \in Tasks, TaskOverride(r) PROVE ParamTyped'
    BY <1>2 DEF TaskOverride, Typed, ParamTyped
  <1>3. ASSUME NEW r \in Tasks, TaskPickUp(r) PROVE ParamTyped'
    BY <1>3 DEF TaskPickUp, Typed, ParamTyped
  <1>4. ASSUME NEW r \in Tasks, TaskGenerate(r) PROVE ParamTyped'
    BY <1>4 DEF TaskGenerate, Typed, ParamTyped
  <1>5. ASSUME NEW r \in Tasks, TaskFails(r) PROVE ParamTyped'
    BY <1>5 DEF TaskFails, Typed, ParamTyped
  <1>6. ASSUME NEW r \in Tasks, TaskDiscards(r) PROVE ParamTyped'
    BY <1>6 DEF TaskDiscards, Typed, ParamTyped
  <1>7. ASSUME NEW r \in Tasks, TaskSucceeds(r) PROVE ParamTyped'
    BY <1>7 DEF TaskSucceeds, Typed, ParamTyped
  <1>8. ASSUME NEW r \in Tasks, TaskUnlock(r) PROVE ParamTyped'
    BY <1>8 DEF TaskUnlock, Typed, ParamTyped
  <1>9. ASSUME NEW r \in Calls, Start(r) \/ StartClosed(r) \/ Register(r) \/ Write(r) \/ WriteFails(r) \/
           Receive(r) \/ TimeOut(r) \/ GiveUp(r) \/ Leave(r) \/ Cancel(r)
        PROVE  ParamTyped'
    BY <1>1, <1>9 DEF Start, StartClosed, Register, Write, WriteFails, Receive, TimeOut, GiveUp, Leave,
        Cancel, callVars, linkVars, netVars, workVars
  <1>10. ASSUME NEW r \in Streams, StreamTake(r) \/ StreamSend(r) \/ StreamCancel(r) \/ Pass(r) \/ TaskChunk(r) \/
           ClientGone(r)
        PROVE  ParamTyped'
    BY <1>1, <1>10 DEF StreamTake, StreamSend, StreamCancel, Pass, TaskChunk, ClientGone, callVars, linkVars,
        netVars, workVars
  <1>11. ASSUME NEW r \in Tasks, TaskRegister(r) \/ TaskWrite(r)
        PROVE  ParamTyped'
    BY <1>1, <1>11 DEF TaskRegister, TaskWrite, callVars, linkVars, netVars, workVars
  <1>12. ASSUME ReadAnswer \/ PutAnswer \/ ReadFails \/ ClosePending \/ ClosePendingEnd \/ Close
           \/ ReadInline \/ ReadSynth \/ ReadCancel \/ WorkerDies
        PROVE  ParamTyped'
    BY <1>1, <1>12 DEF ReadAnswer, PutAnswer, ReadFails, ClosePending, ClosePendingEnd, Close, ReadInline,
        ReadSynth, ReadCancel, WorkerDies, callVars, linkVars, netVars, workVars
  <1> QED
    BY <1>1, <1>2, <1>3, <1>4, <1>5, <1>6, <1>7, <1>8, <1>9, <1>10, <1>11, <1>12
    DEF Next, CallStep, StreamStep, ReaderStep, WorkerLoop, TaskStep

LEMMA TaskTypedStep == ASSUME Typed, Next PROVE TaskTyped'
  <1>1. CASE UNCHANGED <<task, reply, chunks, active, stop>>
    BY <1>1 DEF Typed, TaskTyped
  <1>2. ASSUME ReadSynth PROVE TaskTyped'  BY <1>2, CallFacts DEF ReadSynth, Typed, TaskTyped
  <1>3. ASSUME ReadCancel PROVE TaskTyped'  BY <1>3, CallFacts DEF ReadCancel, Typed, TaskTyped
  <1>4. ASSUME NEW r \in Tasks, TaskRegister(r) PROVE TaskTyped'
    BY <1>4, CallFacts DEF TaskRegister, Typed, TaskTyped
  <1>5. ASSUME NEW r \in Tasks, TaskOverride(r) PROVE TaskTyped'
    BY <1>5, CallFacts DEF TaskOverride, Typed, TaskTyped
  <1>6. ASSUME NEW r \in Tasks, TaskPickUp(r) PROVE TaskTyped'
    BY <1>6, CallFacts DEF TaskPickUp, Typed, TaskTyped
  <1>7. ASSUME NEW r \in Tasks, TaskGenerate(r) PROVE TaskTyped'
    BY <1>7, CallFacts DEF TaskGenerate, Typed, TaskTyped
  <1>8. ASSUME NEW r \in Streams, TaskChunk(r) PROVE TaskTyped'
    <2>1. /\ chunks[r] \in 0 .. MaxChunks /\ chunks[r] < MaxChunks /\ MaxChunks \in Nat /\ r \in Tasks
      BY <1>8, CapFacts, CallFacts DEF TaskChunk, Typed, TaskTyped
    <2>2. chunks[r] + 1 \in 0 .. MaxChunks  BY <2>1
    <2> QED  BY <1>8, <2>1, <2>2 DEF TaskChunk, Typed, TaskTyped
  <1>9. ASSUME NEW r \in Tasks, TaskFails(r) PROVE TaskTyped'
    BY <1>9, CallFacts DEF TaskFails, Typed, TaskTyped
  <1>10. ASSUME NEW r \in Tasks, TaskDiscards(r) PROVE TaskTyped'
    BY <1>10, CallFacts DEF TaskDiscards, Typed, TaskTyped
  <1>11. ASSUME NEW r \in Tasks, TaskSucceeds(r) PROVE TaskTyped'
    BY <1>11, CallFacts DEF TaskSucceeds, Typed, TaskTyped
  <1>12. ASSUME NEW r \in Tasks, TaskWrite(r) PROVE TaskTyped'
    BY <1>12, CallFacts DEF TaskWrite, Typed, TaskTyped
  <1>13. ASSUME NEW r \in Calls, Start(r) \/ StartClosed(r) \/ Register(r) \/ Write(r) \/ WriteFails(r) \/
           Receive(r) \/ TimeOut(r) \/ GiveUp(r) \/ Leave(r) \/ Cancel(r)
        PROVE  TaskTyped'
    BY <1>1, <1>13 DEF Start, StartClosed, Register, Write, WriteFails, Receive, TimeOut, GiveUp, Leave,
        Cancel, callVars, linkVars, netVars, workVars
  <1>14. ASSUME NEW r \in Streams, StreamTake(r) \/ StreamSend(r) \/ StreamCancel(r) \/ Pass(r) \/ ClientGone(r)
        PROVE  TaskTyped'
    BY <1>1, <1>14 DEF StreamTake, StreamSend, StreamCancel, Pass, ClientGone, callVars, linkVars, netVars,
        workVars
  <1>15. ASSUME NEW r \in Tasks, TaskUnlock(r)
        PROVE  TaskTyped'
    BY <1>1, <1>15 DEF TaskUnlock, callVars, linkVars, netVars, workVars
  <1>16. ASSUME ReadAnswer \/ PutAnswer \/ ReadFails \/ ClosePending \/ ClosePendingEnd \/ Close
           \/ ReadInline \/ WorkerDies
        PROVE  TaskTyped'
    BY <1>1, <1>16 DEF ReadAnswer, PutAnswer, ReadFails, ClosePending, ClosePendingEnd, Close, ReadInline,
        WorkerDies, callVars, linkVars, netVars, workVars
  <1> QED
    BY <1>1, <1>2, <1>3, <1>4, <1>5, <1>6, <1>7, <1>8, <1>9, <1>10, <1>11, <1>12, <1>13, <1>14,
       <1>15, <1>16
    DEF Next, CallStep, StreamStep, ReaderStep, WorkerLoop, TaskStep

(* Taking the first element of a sequence, and adding one. *)
LEMMA TailFacts ==
  ASSUME NEW S, NEW s \in Seq(S), s # <<>>
  PROVE  /\ Len(s) \in Nat \ {0} /\ Head(s) = s[1] /\ Head(s) \in S
         /\ Tail(s) \in Seq(S) /\ Len(Tail(s)) = Len(s) - 1
         /\ \A i \in 1 .. Len(Tail(s)) : Tail(s)[i] = s[i + 1]
  BY HeadTailProperties

LEMMA AddFacts ==
  ASSUME NEW S, NEW s \in Seq(S), NEW x \in S
  PROVE  /\ Len(s) \in Nat
         /\ Append(s, x) \in Seq(S) /\ Len(Append(s, x)) = Len(s) + 1
         /\ \A i \in 1 .. Len(s) : Append(s, x)[i] = s[i]
         /\ Append(s, x)[Len(s) + 1] = x
  BY AppendProperties

(* What the channel of a call becomes, and the connection. *)
Took(r) ==
  /\ chan[r] # <<>> /\ chan' \in [Calls -> Seq(Answers)]
  /\ Len(chan'[r]) = Len(chan[r]) - 1 /\ Len(chan[r]) \in Nat \ {0}
  /\ \A i \in 1 .. Len(chan'[r]) : chan'[r][i] = chan[r][i + 1]
  /\ \A q \in Calls : q # r => chan'[q] = chan[q]

Put(r, a) ==
  /\ chan' \in [Calls -> Seq(Answers)] /\ Len(chan[r]) \in Nat
  /\ Len(chan'[r]) = Len(chan[r]) + 1 /\ Len(chan'[r]) <= Cap(r)
  /\ \A i \in 1 .. Len(chan[r]) : chan'[r][i] = chan[r][i]
  /\ chan'[r][Len(chan[r]) + 1] = a
  /\ \A q \in Calls : q # r => chan'[q] = chan[q]

LEMMA TookFacts ==
  ASSUME WayTyped, NEW r \in Calls, chan[r] # <<>>, chan' = [chan EXCEPT ![r] = Tail(@)]
  PROVE  Took(r) /\ Head(chan[r]) = chan[r][1] /\ chan[r][1] \in Answers
  <1>1. chan[r] \in Seq(Answers)  BY DEF WayTyped
  <1> QED  BY <1>1, TailFacts DEF WayTyped, Took

LEMMA PutFacts ==
  ASSUME WayTyped, NEW r \in Calls, NEW a \in Answers, Len(chan[r]) < Cap(r),
         chan' = [chan EXCEPT ![r] = Append(@, a)]
  PROVE  Put(r, a)
  <1>1. chan[r] \in Seq(Answers)  BY DEF WayTyped
  <1>2. Cap(r) \in Nat  BY CapFacts
  <1> QED  BY <1>1, <1>2, AddFacts DEF WayTyped, Put

LEMMA TookTyped == ASSUME WayTyped, NEW r \in Calls, Took(r) PROVE \A q \in Calls : Len(chan'[q]) <= Cap(q)
  BY CapFacts DEF WayTyped, Took

LEMMA PutTyped == ASSUME WayTyped, NEW r \in Calls, NEW a, Put(r, a) PROVE \A q \in Calls : Len(chan'[q]) <= Cap(q)
  BY DEF WayTyped, Put

LEMMA WayTypedStep == ASSUME Typed, ReaderInv, Next PROVE WayTyped'
  <1>1. CASE UNCHANGED <<chan, held, carried>>
    BY <1>1 DEF Typed, WayTyped
  <1>2. ASSUME NEW r \in Calls, Receive(r) PROVE WayTyped'
    <2>1. Took(r)  BY <1>2, TookFacts DEF Receive, Typed
    <2> QED  BY <1>2, <2>1, TookTyped DEF Receive, Typed, WayTyped, Took, linkVars
  <1>3. ASSUME NEW r \in Streams, StreamTake(r) PROVE WayTyped'
    <2>1. r \in Calls  BY CallFacts
    <2>2. Took(r) /\ Head(chan[r]) \in Answers  BY <1>3, <2>1, TookFacts DEF StreamTake, Typed
    <2>3. held' \in [Streams -> Answers \cup {Nothing}]  BY <1>3, <2>2 DEF StreamTake, Typed, WayTyped
    <2> QED  BY <1>3, <2>1, <2>2, <2>3, TookTyped DEF StreamTake, Typed, WayTyped, Took, linkVars
  <1>4. ASSUME NEW r \in Streams, StreamSend(r) PROVE WayTyped'
    BY <1>4, CallFacts DEF StreamSend, Typed, WayTyped, callVars, linkVars
  <1>5. ASSUME ReadAnswer PROVE WayTyped'
    <2>1. Head(toParent) \in Answers  BY <1>5, TailFacts DEF ReadAnswer, Typed, NetTyped
    <2> QED  BY <1>5, <2>1 DEF ReadAnswer, Typed, WayTyped
  <1>6. ASSUME PutAnswer PROVE WayTyped'
    <2>1. carried \in Answers /\ carried.id \in Calls  BY <1>6 DEF PutAnswer, ReaderInv, Typed, WayTyped
    <2>2. Put(carried.id, carried)  BY <1>6, <2>1, PutFacts DEF PutAnswer, Typed
    <2> QED  BY <1>6, <2>1, <2>2, PutTyped DEF PutAnswer, Typed, WayTyped, Put
  <1>7. ASSUME ClosePending PROVE WayTyped'
    <2>1. PICK r \in pending : /\ Len(chan[r]) < Cap(r)
                                 /\ chan' = [chan EXCEPT ![r] = Append(@, Answer("error", r, 0))]
      BY <1>7 DEF ClosePending
    <2>2. r \in Calls /\ Answer("error", r, 0) \in Answers
      BY AnswerFacts, CapFacts DEF Typed, CallTyped
    <2>3. Put(r, Answer("error", r, 0))  BY <2>1, <2>2, PutFacts DEF Typed
    <2> QED  BY <1>7, <2>2, <2>3, PutTyped DEF ClosePending, Typed, WayTyped, Put, linkVars
  <1>8. ASSUME NEW r \in Calls, Start(r) \/ StartClosed(r) \/ Register(r) \/ Write(r) \/ WriteFails(r) \/
           TimeOut(r) \/ GiveUp(r) \/ Leave(r) \/ Cancel(r)
        PROVE  WayTyped'
    BY <1>1, <1>8 DEF Start, StartClosed, Register, Write, WriteFails, TimeOut, GiveUp, Leave, Cancel,
        callVars, linkVars, netVars, workVars
  <1>9. ASSUME NEW r \in Streams, StreamCancel(r) \/ Pass(r) \/ TaskChunk(r) \/ ClientGone(r)
        PROVE  WayTyped'
    BY <1>1, <1>9 DEF StreamCancel, Pass, TaskChunk, ClientGone, callVars, linkVars, netVars, workVars
  <1>10. ASSUME NEW r \in Tasks, TaskRegister(r) \/ TaskOverride(r) \/ TaskPickUp(r) \/ TaskGenerate(r) \/
           TaskFails(r) \/ TaskDiscards(r) \/ TaskSucceeds(r) \/ TaskUnlock(r) \/
           TaskWrite(r)
        PROVE  WayTyped'
    BY <1>1, <1>10 DEF TaskRegister, TaskOverride, TaskPickUp, TaskGenerate, TaskFails, TaskDiscards,
        TaskSucceeds, TaskUnlock, TaskWrite, callVars, linkVars, netVars, workVars
  <1>11. ASSUME ReadFails \/ ClosePendingEnd \/ Close \/ ReadInline \/ ReadSynth \/ ReadCancel \/
           WorkerDies
        PROVE  WayTyped'
    BY <1>1, <1>11 DEF ReadFails, ClosePendingEnd, Close, ReadInline, ReadSynth, ReadCancel, WorkerDies,
        callVars, linkVars, netVars, workVars
  <1> QED
    BY <1>1, <1>2, <1>3, <1>4, <1>5, <1>6, <1>7, <1>8, <1>9, <1>10, <1>11
    DEF Next, CallStep, StreamStep, ReaderStep, WorkerLoop, TaskStep

LEMMA OutTypedStep == ASSUME Typed, HeldInv, Next PROVE OutTyped'
  <1>1. CASE UNCHANGED <<out, given>>
    BY <1>1 DEF Typed, OutTyped
  <1>2. ASSUME NEW r \in Streams, StreamSend(r) PROVE OutTyped'
    <2>1. held[r].type = "chunk" => held[r].n \in 1 .. MaxChunks
      BY NothingFacts DEF HeldInv, Typed, WayTyped
    <2>2. out[r] \in Seq(1 .. MaxChunks) /\ Len(out[r]) < OutCap /\ OutCap \in Nat
      BY <1>2, LinkAssumption DEF StreamSend, Typed, OutTyped
    <2>3. CASE UNCHANGED out  BY <1>2, <2>3 DEF StreamSend, Typed, OutTyped
    <2>4. CASE held[r].type = "chunk" /\ out' = [out EXCEPT ![r] = Append(@, held[r].n)]
      <3>1. /\ Append(out[r], held[r].n) \in Seq(1 .. MaxChunks)
            /\ Len(Append(out[r], held[r].n)) = Len(out[r]) + 1 /\ Len(out[r]) \in Nat
        BY <2>1, <2>2, <2>4, AddFacts
      <3> QED  BY <1>2, <2>2, <2>4, <3>1 DEF StreamSend, Typed, OutTyped
    <2> QED  BY <1>2, <2>3, <2>4 DEF StreamSend
  <1>3. ASSUME NEW r \in Streams, Pass(r) PROVE OutTyped'
    <2>1. out[r] \in Seq(1 .. MaxChunks) /\ out[r] # <<>>  BY <1>3 DEF Pass, Typed, OutTyped
    <2>2. /\ Tail(out[r]) \in Seq(1 .. MaxChunks) /\ Head(out[r]) \in 1 .. MaxChunks
          /\ Len(Tail(out[r])) = Len(out[r]) - 1 /\ Len(out[r]) \in Nat
      BY <2>1, TailFacts
    <2>3. Len(out[r]) <= OutCap /\ OutCap \in Nat /\ MaxChunks \in Nat
      BY LinkAssumption DEF Typed, OutTyped
    <2>4. Head(out[r]) \in 0 .. MaxChunks /\ Len(Tail(out[r])) <= OutCap  BY <2>2, <2>3
    <2> QED  BY <1>3, <2>2, <2>4 DEF Pass, Typed, OutTyped
  <1>4. ASSUME NEW r \in Calls, Start(r) \/ StartClosed(r) \/ Register(r) \/ Write(r) \/ WriteFails(r) \/
           Receive(r) \/ TimeOut(r) \/ GiveUp(r) \/ Leave(r) \/ Cancel(r)
        PROVE  OutTyped'
    BY <1>1, <1>4 DEF Start, StartClosed, Register, Write, WriteFails, Receive, TimeOut, GiveUp, Leave,
        Cancel, callVars, linkVars, netVars, workVars
  <1>5. ASSUME NEW r \in Streams, StreamTake(r) \/ StreamCancel(r) \/ TaskChunk(r) \/ ClientGone(r)
        PROVE  OutTyped'
    BY <1>1, <1>5 DEF StreamTake, StreamCancel, TaskChunk, ClientGone, callVars, linkVars, netVars, workVars
  <1>6. ASSUME NEW r \in Tasks, TaskRegister(r) \/ TaskOverride(r) \/ TaskPickUp(r) \/ TaskGenerate(r) \/
           TaskFails(r) \/ TaskDiscards(r) \/ TaskSucceeds(r) \/ TaskUnlock(r) \/
           TaskWrite(r)
        PROVE  OutTyped'
    BY <1>1, <1>6 DEF TaskRegister, TaskOverride, TaskPickUp, TaskGenerate, TaskFails, TaskDiscards,
        TaskSucceeds, TaskUnlock, TaskWrite, callVars, linkVars, netVars, workVars
  <1>7. ASSUME ReadAnswer \/ PutAnswer \/ ReadFails \/ ClosePending \/ ClosePendingEnd \/ Close
           \/ ReadInline \/ ReadSynth \/ ReadCancel \/ WorkerDies
        PROVE  OutTyped'
    BY <1>1, <1>7 DEF ReadAnswer, PutAnswer, ReadFails, ClosePending, ClosePendingEnd, Close, ReadInline,
        ReadSynth, ReadCancel, WorkerDies, callVars, linkVars, netVars, workVars
  <1> QED
    BY <1>1, <1>2, <1>3, <1>4, <1>5, <1>6, <1>7
    DEF Next, CallStep, StreamStep, ReaderStep, WorkerLoop, TaskStep

(* What the connection to the worker and from it becomes. *)
LEMMA SendFacts ==
  ASSUME NetTyped, NEW m \in Requests, Send(m)
  PROVE  /\ toWorker' \in Seq(Requests)
         /\ \/ ~alive /\ toWorker' = toWorker
            \/ /\ alive /\ Len(toWorker') = Len(toWorker) + 1 /\ Len(toWorker) \in Nat
               /\ \A i \in 1 .. Len(toWorker) : toWorker'[i] = toWorker[i]
               /\ toWorker'[Len(toWorker) + 1] = m
  BY AddFacts DEF NetTyped, Send

Said(a) ==
  /\ Len(toParent) \in Nat /\ toParent' \in Seq(Answers) /\ Len(toParent') = Len(toParent) + 1
  /\ \A i \in 1 .. Len(toParent) : toParent'[i] = toParent[i]
  /\ toParent'[Len(toParent) + 1] = a

LEMMA SaidFacts ==
  ASSUME NetTyped, NEW a \in Answers, NetFree, Answered(a)
  PROVE  Said(a) /\ Len(toParent') <= NetCap
  <1>1. NetCap \in Nat  BY LinkAssumption
  <1> QED  BY <1>1, AddFacts DEF NetTyped, NetFree, Answered, Said

Heard ==
  /\ toWorker # <<>> /\ Len(toWorker) \in Nat \ {0} /\ toWorker[1] \in Requests
  /\ Head(toWorker) = toWorker[1]
  /\ toWorker' \in Seq(Requests) /\ Len(toWorker') = Len(toWorker) - 1
  /\ \A i \in 1 .. Len(toWorker') : toWorker'[i] = toWorker[i + 1]

LEMMA HeardFacts ==
  ASSUME NetTyped, toWorker # <<>>, toWorker' = Tail(toWorker)
  PROVE  Heard
  BY TailFacts DEF NetTyped, Heard

(* The answer that a task writes. *)
Written(r) == Answer(reply[r], r, IF r \in Streams THEN chunks[r] ELSE 0)

LEMMA WrittenFacts ==
  ASSUME Typed, ReplyInv, NEW r \in Tasks, task[r] = "write"
  PROVE  /\ reply[r] \in Terminal \cup {"chunk"}
         /\ Written(r) \in Answers /\ Written(r).type = reply[r] /\ Written(r).id = r
         /\ r \in Streams => Written(r).n = chunks[r]
  <1>1. reply[r] \in Terminal \cup {"chunk"}  BY DEF ReplyInv, Typed, TaskTyped
  <1>2. (IF r \in Streams THEN chunks[r] ELSE 0) \in 0 .. MaxChunks
    BY CapFacts DEF Typed, TaskTyped
  <1> QED  BY <1>1, <1>2, CallFacts, AnswerFacts DEF Written

(* An answer of the worker's main loop. *)
LEMMA InlineFacts ==
  ASSUME Typed, ReadInline
  PROVE  /\ Heard /\ Asks(toWorker[1], toWorker[1].id) /\ toWorker[1].id \in Inline
         /\ \E a \in Answers : /\ a.type \in {"result", "error"} /\ a.id \in Inline
                              /\ Said(a) /\ Len(toParent') <= NetCap
  <1>1. Heard /\ toWorker[1].id \in Inline /\ toWorker[1].type = "call" /\ NetFree
    BY HeardFacts DEF Typed, ReadInline, Heard
  <1>2. PICK t \in {"result", "error"} : Answered(Answer(t, toWorker[1].id, 0))
    BY <1>1 DEF ReadInline, Heard
  <1>3. /\ Answer(t, toWorker[1].id, 0) \in Answers /\ Answer(t, toWorker[1].id, 0).type = t
        /\ Answer(t, toWorker[1].id, 0).id = toWorker[1].id
    BY <1>1, CallFacts, CapFacts, AnswerFacts
  <1> QED  BY <1>1, <1>2, <1>3, SaidFacts DEF Typed, Asks

LEMMA CancelFacts ==
  ASSUME Typed, ReadCancel
  PROVE  /\ Heard /\ toWorker[1].type = "cancel"
         /\ \E a \in Answers : /\ a.type \in {"cancelled", "error"} /\ a.id = None
                              /\ Said(a) /\ Len(toParent') <= NetCap
  <1>1. Heard /\ toWorker[1].type = "cancel" /\ NetFree
    BY HeardFacts DEF Typed, ReadCancel, Heard
  <1>2. PICK t \in {"cancelled", "error"} : Answered(Answer(t, None, 0))
    BY DEF ReadCancel
  <1>3. /\ Answer(t, None, 0) \in Answers /\ Answer(t, None, 0).type = t
        /\ Answer(t, None, 0).id = None
    BY CapFacts, AnswerFacts
  <1> QED  BY <1>1, <1>2, <1>3, SaidFacts DEF Typed

(* The worker dies: nothing is on its way to it, and some of its answers are lost. *)
LEMMA DiesFacts ==
  ASSUME Typed, WorkerDies
  PROVE  /\ toWorker' = <<>> /\ toParent' \in Seq(Answers)
         /\ Len(toParent) \in Nat /\ Len(toParent') <= Len(toParent)
         /\ \A i \in 1 .. Len(toParent') : toParent'[i] = toParent[i]
  <1>1. PICK k \in 0 .. Len(toParent) : toParent' = SubSeq(toParent, 1, k)  BY DEF WorkerDies
  <1>2. toParent \in Seq(Answers) /\ k \in Int /\ k <= Len(toParent) /\ k >= 0 /\ Len(toParent) \in Nat
    BY DEF Typed, NetTyped
  <1>3. \A i \in 1 .. k : toParent[i] \in Answers  BY <1>2
  <1>4. /\ toParent' \in Seq(Answers) /\ Len(toParent') = k
        /\ \A i \in 1 .. k : toParent'[i] = toParent[i]
    BY <1>1, <1>2, <1>3, SubSeqProperties
  <1> QED  BY <1>2, <1>4 DEF WorkerDies

LEMMA NetTypedStep == ASSUME Typed, ReplyInv, Next PROVE NetTyped'
  <1>1. CASE UNCHANGED <<toWorker, toParent>>
    BY <1>1 DEF Typed, NetTyped
  <1>2. ASSUME NEW r \in Calls, Write(r) PROVE NetTyped'
    <2>1. /\ \A q \in Calls : [type |-> "call", id |-> q] \in Requests
          /\ \A q \in Calls : [type |-> "cancel", id |-> q] \in Requests
      BY DEF Requests
    <2> QED  BY <1>2, <2>1, CallFacts, SendFacts DEF Write, Typed, NetTyped
  <1>3. ASSUME NEW r \in Calls, GiveUp(r) PROVE NetTyped'
    <2>1. /\ \A q \in Calls : [type |-> "call", id |-> q] \in Requests
          /\ \A q \in Calls : [type |-> "cancel", id |-> q] \in Requests
      BY DEF Requests
    <2> QED  BY <1>3, <2>1, CallFacts, SendFacts DEF GiveUp, Typed, NetTyped
  <1>4. ASSUME NEW r \in Streams, StreamCancel(r) PROVE NetTyped'
    <2>1. /\ \A q \in Calls : [type |-> "call", id |-> q] \in Requests
          /\ \A q \in Calls : [type |-> "cancel", id |-> q] \in Requests
      BY DEF Requests
    <2> QED  BY <1>4, <2>1, CallFacts, SendFacts DEF StreamCancel, Typed, NetTyped
  <1>5. ASSUME ReadAnswer PROVE NetTyped'
    <2>1. toParent \in Seq(Answers) /\ toParent # <<>> /\ Len(toParent) <= NetCap /\ NetCap \in Nat
      BY <1>5, LinkAssumption DEF ReadAnswer, Typed, NetTyped
    <2> QED  BY <1>5, <2>1, TailFacts DEF ReadAnswer, Typed, NetTyped
  <1>6. ASSUME ReadInline PROVE NetTyped'  BY <1>6, InlineFacts DEF Typed, NetTyped, Heard, Said
  <1>7. ASSUME ReadSynth PROVE NetTyped'  BY <1>7, HeardFacts DEF ReadSynth, Typed, NetTyped, Heard
  <1>8. ASSUME ReadCancel PROVE NetTyped'  BY <1>8, CancelFacts DEF Typed, NetTyped, Heard, Said
  <1>9. ASSUME NEW r \in Tasks, TaskWrite(r) PROVE NetTyped'
    <2>1. Written(r) \in Answers  BY <1>9, WrittenFacts DEF TaskWrite
    <2>2. Said(Written(r)) /\ Len(toParent') <= NetCap
      BY <1>9, <2>1, SaidFacts DEF TaskWrite, Typed, Written
    <2> QED  BY <1>9, <2>2 DEF TaskWrite, Typed, NetTyped, Said
  <1>10. ASSUME WorkerDies PROVE NetTyped'
    <2>1. NetCap \in Nat /\ Len(toParent) <= NetCap  BY LinkAssumption DEF Typed, NetTyped
    <2>2. Len(toParent') <= NetCap  BY <1>10, <2>1, DiesFacts
    <2> QED  BY <1>10, <2>2, DiesFacts DEF NetTyped
  <1>11. ASSUME NEW r \in Calls, Start(r) \/ StartClosed(r) \/ Register(r) \/ WriteFails(r) \/ Receive(r) \/
           TimeOut(r) \/ Leave(r) \/ Cancel(r)
        PROVE  NetTyped'
    BY <1>1, <1>11 DEF Start, StartClosed, Register, WriteFails, Receive, TimeOut, Leave, Cancel, callVars,
        linkVars, netVars, workVars
  <1>12. ASSUME NEW r \in Streams, StreamTake(r) \/ StreamSend(r) \/ Pass(r) \/ TaskChunk(r) \/ ClientGone(r)
        PROVE  NetTyped'
    BY <1>1, <1>12 DEF StreamTake, StreamSend, Pass, TaskChunk, ClientGone, callVars, linkVars, netVars,
        workVars
  <1>13. ASSUME NEW r \in Tasks, TaskRegister(r) \/ TaskOverride(r) \/ TaskPickUp(r) \/ TaskGenerate(r) \/
           TaskFails(r) \/ TaskDiscards(r) \/ TaskSucceeds(r) \/ TaskUnlock(r)
        PROVE  NetTyped'
    BY <1>1, <1>13 DEF TaskRegister, TaskOverride, TaskPickUp, TaskGenerate, TaskFails, TaskDiscards,
        TaskSucceeds, TaskUnlock, callVars, linkVars, netVars, workVars
  <1>14. ASSUME PutAnswer \/ ReadFails \/ ClosePending \/ ClosePendingEnd \/ Close
        PROVE  NetTyped'
    BY <1>1, <1>14 DEF PutAnswer, ReadFails, ClosePending, ClosePendingEnd, Close, callVars, linkVars,
        netVars, workVars
  <1> QED
    BY <1>1, <1>2, <1>3, <1>4, <1>5, <1>6, <1>7, <1>8, <1>9, <1>10, <1>11, <1>12, <1>13, <1>14
    DEF Next, CallStep, StreamStep, ReaderStep, WorkerLoop, TaskStep

----------------------------------------------------------------------------
(* The form of answers *)

LEMMA None4 == None \notin Terminal \cup {"chunk"}
  BY DEF None

LEMMA ReplyStep == ASSUME Typed, ReplyInv, AskInv, Next PROVE ReplyInv'
  <1>1. CASE UNCHANGED <<reply, task, chunks>>
    BY <1>1 DEF ReplyInv
  <1>2. ASSUME ReadSynth PROVE ReplyInv'
    <2>1. Heard /\ Asks(toWorker[1], toWorker[1].id) /\ toWorker[1].id \in Tasks
      BY <1>2, HeardFacts DEF ReadSynth, Typed, Heard, Asks
    <2>2. task[toWorker[1].id] = "none"  BY <2>1 DEF AskInv, Waiting, Asked, Heard
    <2> QED  BY <1>2, <2>1, <2>2 DEF ReadSynth, ReplyInv, Typed, TaskTyped, Heard
  <1>3. ASSUME NEW r \in Tasks, TaskRegister(r) PROVE ReplyInv'
    BY <1>3, None4 DEF TaskRegister, ReplyInv, Typed, TaskTyped
  <1>4. ASSUME NEW r \in Tasks, TaskOverride(r) PROVE ReplyInv'
    BY <1>4, None4 DEF TaskOverride, ReplyInv, Typed, TaskTyped
  <1>5. ASSUME NEW r \in Tasks, TaskPickUp(r) PROVE ReplyInv'
    BY <1>5, None4 DEF TaskPickUp, ReplyInv, Typed, TaskTyped
  <1>6. ASSUME NEW r \in Tasks, TaskGenerate(r) PROVE ReplyInv'
    BY <1>6, None4 DEF TaskGenerate, ReplyInv, Typed, TaskTyped
  <1>7. ASSUME NEW r \in Streams, TaskChunk(r) PROVE ReplyInv'
    <2>1. chunks[r] \in Nat /\ r \in Tasks /\ chunks'[r] = chunks[r] + 1
          /\ \A q \in Streams : q # r => chunks'[q] = chunks[q]
      BY <1>7, CallFacts, CapFacts DEF TaskChunk, Typed, TaskTyped
    <2>2. chunks'[r] >= 1  BY <2>1
    <2>3. /\ reply'[r] = "chunk" /\ task'[r] = "write"
          /\ \A q \in Tasks : q # r => reply'[q] = reply[q] /\ task'[q] = task[q]
      BY <1>7, <2>1 DEF TaskChunk, Typed, TaskTyped
    <2> QED  BY <1>7, <2>1, <2>2, <2>3, None4 DEF ReplyInv
  <1>8. ASSUME NEW r \in Tasks, TaskFails(r) PROVE ReplyInv'
    BY <1>8, None4 DEF TaskFails, ReplyInv, Typed, TaskTyped
  <1>9. ASSUME NEW r \in Tasks, TaskDiscards(r) PROVE ReplyInv'
    BY <1>9, None4 DEF TaskDiscards, ReplyInv, Typed, TaskTyped
  <1>10. ASSUME NEW r \in Tasks, TaskSucceeds(r) PROVE ReplyInv'
    BY <1>10, None4 DEF TaskSucceeds, ReplyInv, Typed, TaskTyped
  <1>11. ASSUME NEW r \in Tasks, TaskWrite(r) PROVE ReplyInv'
    BY <1>11, None4 DEF TaskWrite, ReplyInv, Typed, TaskTyped
  <1>12. ASSUME NEW r \in Calls, Start(r) \/ StartClosed(r) \/ Register(r) \/ Write(r) \/ WriteFails(r) \/
           Receive(r) \/ TimeOut(r) \/ GiveUp(r) \/ Leave(r) \/ Cancel(r)
        PROVE  ReplyInv'
    BY <1>1, <1>12 DEF Start, StartClosed, Register, Write, WriteFails, Receive, TimeOut, GiveUp, Leave,
        Cancel, callVars, linkVars, netVars, workVars
  <1>13. ASSUME NEW r \in Streams, StreamTake(r) \/ StreamSend(r) \/ StreamCancel(r) \/ Pass(r) \/ ClientGone(r)
        PROVE  ReplyInv'
    BY <1>1, <1>13 DEF StreamTake, StreamSend, StreamCancel, Pass, ClientGone, callVars, linkVars, netVars,
        workVars
  <1>14. ASSUME NEW r \in Tasks, TaskUnlock(r)
        PROVE  ReplyInv'
    BY <1>1, <1>14 DEF TaskUnlock, callVars, linkVars, netVars, workVars
  <1>15. ASSUME ReadAnswer \/ PutAnswer \/ ReadFails \/ ClosePending \/ ClosePendingEnd \/ Close
           \/ ReadInline \/ ReadCancel \/ WorkerDies
        PROVE  ReplyInv'
    BY <1>1, <1>15 DEF ReadAnswer, PutAnswer, ReadFails, ClosePending, ClosePendingEnd, Close, ReadInline,
        ReadCancel, WorkerDies, callVars, linkVars, netVars, workVars
  <1> QED
    BY <1>1, <1>2, <1>3, <1>4, <1>5, <1>6, <1>7, <1>8, <1>9, <1>10, <1>11, <1>12, <1>13, <1>14,
       <1>15
    DEF Next, CallStep, StreamStep, ReaderStep, WorkerLoop, TaskStep

LEMMA SaidKeeps ==
  ASSUME ParentInv, NEW a \in Answers, Said(a),
         a.type = "chunk" => a.id \in Streams /\ a.n >= 1
  PROVE  ParentInv'
  <1> SUFFICES ASSUME NEW i \in 1 .. Len(toParent'), toParent'[i].type = "chunk"
               PROVE  toParent'[i].id \in Streams /\ toParent'[i].n >= 1
    BY DEF ParentInv
  <1>1. CASE i = Len(toParent) + 1  BY <1>1 DEF Said
  <1>2. CASE i # Len(toParent) + 1
    <2>1. i \in 1 .. Len(toParent) /\ toParent'[i] = toParent[i]  BY <1>2 DEF Said
    <2> QED  BY <2>1 DEF ParentInv
  <1> QED  BY <1>1, <1>2

LEMMA ParentStep == ASSUME Typed, ReplyInv, ParentInv, Next PROVE ParentInv'
  <1>1. CASE UNCHANGED toParent
    BY <1>1 DEF ParentInv
  <1>2. ASSUME ReadAnswer PROVE ParentInv'
    <2>1. toParent \in Seq(Answers) /\ toParent # <<>>
      BY <1>2 DEF ReadAnswer, Typed, NetTyped
    <2>2. /\ Len(toParent') = Len(toParent) - 1 /\ Len(toParent) \in Nat
          /\ \A i \in 1 .. Len(toParent') : toParent'[i] = toParent[i + 1]
      BY <1>2, <2>1, TailFacts DEF ReadAnswer
    <2> SUFFICES ASSUME NEW i \in 1 .. Len(toParent'), toParent'[i].type = "chunk"
                 PROVE  toParent'[i].id \in Streams /\ toParent'[i].n >= 1
      BY DEF ParentInv
    <2>3. i + 1 \in 1 .. Len(toParent) /\ toParent'[i] = toParent[i + 1]  BY <2>2
    <2> QED  BY <2>3 DEF ParentInv
  <1>3. ASSUME ReadInline PROVE ParentInv'  BY <1>3, InlineFacts, SaidKeeps
  <1>4. ASSUME ReadCancel PROVE ParentInv'  BY <1>4, CancelFacts, SaidKeeps
  <1>5. ASSUME NEW r \in Tasks, TaskWrite(r) PROVE ParentInv'
    <2>1. Said(Written(r)) /\ Written(r) \in Answers /\ Written(r).type = reply[r] /\ Written(r).id = r
          /\ (r \in Streams => Written(r).n = chunks[r])
      BY <1>5, WrittenFacts, SaidFacts DEF TaskWrite, Typed, Written
    <2>2. Written(r).type = "chunk" => Written(r).id \in Streams /\ Written(r).n >= 1
      BY <2>1 DEF ReplyInv
    <2> QED  BY <2>1, <2>2, SaidKeeps
  <1>6. ASSUME WorkerDies PROVE ParentInv'
    <2> SUFFICES ASSUME NEW i \in 1 .. Len(toParent'), toParent'[i].type = "chunk"
                 PROVE  toParent'[i].id \in Streams /\ toParent'[i].n >= 1
      BY DEF ParentInv
    <2>1. i \in 1 .. Len(toParent) /\ toParent'[i] = toParent[i]  BY <1>6, DiesFacts
    <2> QED  BY <2>1 DEF ParentInv
  <1>7. ASSUME NEW r \in Calls, Start(r) \/ StartClosed(r) \/ Register(r) \/ Write(r) \/ WriteFails(r) \/
           Receive(r) \/ TimeOut(r) \/ GiveUp(r) \/ Leave(r) \/ Cancel(r)
        PROVE  ParentInv'
    BY <1>1, <1>7 DEF Start, StartClosed, Register, Write, WriteFails, Receive, TimeOut, GiveUp, Leave,
        Cancel, callVars, linkVars, netVars, workVars
  <1>8. ASSUME NEW r \in Streams, StreamTake(r) \/ StreamSend(r) \/ StreamCancel(r) \/ Pass(r) \/ TaskChunk(r) \/
           ClientGone(r)
        PROVE  ParentInv'
    BY <1>1, <1>8 DEF StreamTake, StreamSend, StreamCancel, Pass, TaskChunk, ClientGone, callVars, linkVars,
        netVars, workVars
  <1>9. ASSUME NEW r \in Tasks, TaskRegister(r) \/ TaskOverride(r) \/ TaskPickUp(r) \/ TaskGenerate(r) \/
           TaskFails(r) \/ TaskDiscards(r) \/ TaskSucceeds(r) \/ TaskUnlock(r)
        PROVE  ParentInv'
    BY <1>1, <1>9 DEF TaskRegister, TaskOverride, TaskPickUp, TaskGenerate, TaskFails, TaskDiscards,
        TaskSucceeds, TaskUnlock, callVars, linkVars, netVars, workVars
  <1>10. ASSUME PutAnswer \/ ReadFails \/ ClosePending \/ ClosePendingEnd \/ Close \/ ReadSynth
        PROVE  ParentInv'
    BY <1>1, <1>10 DEF PutAnswer, ReadFails, ClosePending, ClosePendingEnd, Close, ReadSynth, callVars,
        linkVars, netVars, workVars
  <1> QED
    BY <1>1, <1>2, <1>3, <1>4, <1>5, <1>6, <1>7, <1>8, <1>9, <1>10
    DEF Next, CallStep, StreamStep, ReaderStep, WorkerLoop, TaskStep

LEMMA ReaderStepInv == ASSUME Typed, ParentInv, ReaderInv, Next PROVE ReaderInv'
  <1>1. CASE UNCHANGED <<reader, carried>>
    BY <1>1 DEF ReaderInv
  <1>2. ASSUME ReadAnswer PROVE ReaderInv'
    <2>1. toParent \in Seq(Answers) /\ toParent # <<>>
      BY <1>2 DEF ReadAnswer, Typed, NetTyped
    <2>2. /\ Head(toParent) = toParent[1] /\ toParent[1] \in Answers /\ 1 \in 1 .. Len(toParent)
      BY <2>1, TailFacts
    <2>3. toParent[1].type = "chunk" => toParent[1].id \in Streams /\ toParent[1].n >= 1
      BY <2>2 DEF ParentInv
    <2>4. toParent[1] # Nothing  BY <2>2, NothingFacts
    <2> QED  BY <1>2, <2>2, <2>3, <2>4 DEF ReadAnswer, ReaderInv, Typed, CallTyped
  <1>3. ASSUME PutAnswer PROVE ReaderInv'  BY <1>3, NothingFacts, None4 DEF PutAnswer, ReaderInv
  <1>4. ASSUME ReadFails PROVE ReaderInv'  BY <1>4 DEF ReadFails, ReaderInv
  <1>5. ASSUME ClosePendingEnd PROVE ReaderInv'  BY <1>5 DEF ClosePendingEnd, ReaderInv
  <1>6. ASSUME NEW r \in Calls, Start(r) \/ StartClosed(r) \/ Register(r) \/ Write(r) \/ WriteFails(r) \/
           Receive(r) \/ TimeOut(r) \/ GiveUp(r) \/ Leave(r) \/ Cancel(r)
        PROVE  ReaderInv'
    BY <1>1, <1>6 DEF Start, StartClosed, Register, Write, WriteFails, Receive, TimeOut, GiveUp, Leave,
        Cancel, callVars, linkVars, netVars, workVars
  <1>7. ASSUME NEW r \in Streams, StreamTake(r) \/ StreamSend(r) \/ StreamCancel(r) \/ Pass(r) \/ TaskChunk(r) \/
           ClientGone(r)
        PROVE  ReaderInv'
    BY <1>1, <1>7 DEF StreamTake, StreamSend, StreamCancel, Pass, TaskChunk, ClientGone, callVars, linkVars,
        netVars, workVars
  <1>8. ASSUME NEW r \in Tasks, TaskRegister(r) \/ TaskOverride(r) \/ TaskPickUp(r) \/ TaskGenerate(r) \/
           TaskFails(r) \/ TaskDiscards(r) \/ TaskSucceeds(r) \/ TaskUnlock(r) \/
           TaskWrite(r)
        PROVE  ReaderInv'
    BY <1>1, <1>8 DEF TaskRegister, TaskOverride, TaskPickUp, TaskGenerate, TaskFails, TaskDiscards,
        TaskSucceeds, TaskUnlock, TaskWrite, callVars, linkVars, netVars, workVars
  <1>9. ASSUME ClosePending \/ Close \/ ReadInline \/ ReadSynth \/ ReadCancel \/ WorkerDies
        PROVE  ReaderInv'
    BY <1>1, <1>9 DEF ClosePending, Close, ReadInline, ReadSynth, ReadCancel, WorkerDies, callVars,
        linkVars, netVars, workVars
  <1> QED
    BY <1>1, <1>2, <1>3, <1>4, <1>5, <1>6, <1>7, <1>8, <1>9
    DEF Next, CallStep, StreamStep, ReaderStep, WorkerLoop, TaskStep

LEMMA TookKeeps == ASSUME ChanInv, NEW r \in Calls, Took(r) PROVE ChanInv'
  <1> SUFFICES ASSUME NEW q \in Calls, NEW i \in 1 .. Len(chan'[q])
               PROVE  /\ chan'[q][i].id = q
                      /\ chan'[q][i].type = "chunk" => q \in Streams /\ chan'[q][i].n >= 1
    BY DEF ChanInv
  <1>1. CASE q # r  BY <1>1 DEF Took, ChanInv
  <1>2. CASE q = r
    <2>1. i + 1 \in 1 .. Len(chan[q]) /\ chan'[q][i] = chan[q][i + 1]  BY <1>2 DEF Took
    <2> QED  BY <2>1 DEF ChanInv
  <1> QED  BY <1>1, <1>2

LEMMA PutKeeps ==
  ASSUME ChanInv, NEW r \in Calls, NEW a \in Answers, Put(r, a), a.id = r,
         a.type = "chunk" => r \in Streams /\ a.n >= 1
  PROVE  ChanInv'
  <1> SUFFICES ASSUME NEW q \in Calls, NEW i \in 1 .. Len(chan'[q])
               PROVE  /\ chan'[q][i].id = q
                      /\ chan'[q][i].type = "chunk" => q \in Streams /\ chan'[q][i].n >= 1
    BY DEF ChanInv
  <1>1. CASE q # r  BY <1>1 DEF Put, ChanInv
  <1>2. CASE q = r /\ i = Len(chan[r]) + 1  BY <1>2 DEF Put
  <1>3. CASE q = r /\ i # Len(chan[r]) + 1
    <2>1. i \in 1 .. Len(chan[q]) /\ chan'[q][i] = chan[q][i]  BY <1>3 DEF Put
    <2> QED  BY <2>1 DEF ChanInv
  <1> QED  BY <1>1, <1>2, <1>3

(* closePending tells one call that the connection has failed. *)
LEMMA ClosingFacts ==
  ASSUME Typed, ClosePending
  PROVE  \E r \in Calls : r \in pending /\ pending' = pending \ {r} /\ Put(r, Answer("error", r, 0))
  <1>1. PICK r \in pending : /\ Len(chan[r]) < Cap(r) /\ pending' = pending \ {r}
                             /\ chan' = [chan EXCEPT ![r] = Append(@, Answer("error", r, 0))]
    BY DEF ClosePending
  <1>2. r \in Calls /\ Answer("error", r, 0) \in Answers
    BY AnswerFacts, CapFacts DEF Typed, CallTyped
  <1> QED  BY <1>1, <1>2, PutFacts DEF Typed

LEMMA ChanStep == ASSUME Typed, ReaderInv, ChanInv, Next PROVE ChanInv'
  <1>1. CASE UNCHANGED chan
    BY <1>1 DEF ChanInv
  <1>2. ASSUME NEW r \in Calls, Receive(r) PROVE ChanInv'
    BY <1>2, TookFacts, TookKeeps DEF Receive, Typed
  <1>3. ASSUME NEW r \in Streams, StreamTake(r) PROVE ChanInv'
    BY <1>3, CallFacts, TookFacts, TookKeeps DEF StreamTake, Typed
  <1>4. ASSUME PutAnswer PROVE ChanInv'
    <2>1. carried \in Answers /\ carried.id \in Calls  BY <1>4 DEF PutAnswer, ReaderInv, Typed, WayTyped
    <2>2. Put(carried.id, carried)  BY <1>4, <2>1, PutFacts DEF PutAnswer, Typed
    <2> QED  BY <2>1, <2>2, PutKeeps DEF ReaderInv
  <1>5. ASSUME ClosePending PROVE ChanInv'
    <2>1. PICK r \in Calls : Put(r, Answer("error", r, 0))  BY <1>5, ClosingFacts
    <2>2. /\ Answer("error", r, 0) \in Answers
          /\ Answer("error", r, 0).type = "error" /\ Answer("error", r, 0).id = r
      BY AnswerFacts, CapFacts
    <2> QED  BY <2>1, <2>2, PutKeeps
  <1>6. ASSUME NEW r \in Calls, Start(r) \/ StartClosed(r) \/ Register(r) \/ Write(r) \/ WriteFails(r) \/
           TimeOut(r) \/ GiveUp(r) \/ Leave(r) \/ Cancel(r)
        PROVE  ChanInv'
    BY <1>1, <1>6 DEF Start, StartClosed, Register, Write, WriteFails, TimeOut, GiveUp, Leave, Cancel,
        callVars, linkVars, netVars, workVars
  <1>7. ASSUME NEW r \in Streams, StreamSend(r) \/ StreamCancel(r) \/ Pass(r) \/ TaskChunk(r) \/ ClientGone(r)
        PROVE  ChanInv'
    BY <1>1, <1>7 DEF StreamSend, StreamCancel, Pass, TaskChunk, ClientGone, callVars, linkVars, netVars,
        workVars
  <1>8. ASSUME NEW r \in Tasks, TaskRegister(r) \/ TaskOverride(r) \/ TaskPickUp(r) \/ TaskGenerate(r) \/
           TaskFails(r) \/ TaskDiscards(r) \/ TaskSucceeds(r) \/ TaskUnlock(r) \/
           TaskWrite(r)
        PROVE  ChanInv'
    BY <1>1, <1>8 DEF TaskRegister, TaskOverride, TaskPickUp, TaskGenerate, TaskFails, TaskDiscards,
        TaskSucceeds, TaskUnlock, TaskWrite, callVars, linkVars, netVars, workVars
  <1>9. ASSUME ReadAnswer \/ ReadFails \/ ClosePendingEnd \/ Close \/ ReadInline \/ ReadSynth \/
           ReadCancel \/ WorkerDies
        PROVE  ChanInv'
    BY <1>1, <1>9 DEF ReadAnswer, ReadFails, ClosePendingEnd, Close, ReadInline, ReadSynth, ReadCancel,
        WorkerDies, callVars, linkVars, netVars, workVars
  <1> QED
    BY <1>1, <1>2, <1>3, <1>4, <1>5, <1>6, <1>7, <1>8, <1>9
    DEF Next, CallStep, StreamStep, ReaderStep, WorkerLoop, TaskStep

LEMMA HeldStep == ASSUME Typed, ChanInv, HeldInv, Next PROVE HeldInv'
  <1>1. CASE UNCHANGED <<held, call>>
    BY <1>1 DEF HeldInv
  <1>2. ASSUME NEW r \in Calls, Start(r) PROVE HeldInv'
    BY <1>2, CallFacts DEF Start, HeldInv, Typed, CallTyped
  <1>3. ASSUME NEW r \in Calls, StartClosed(r) PROVE HeldInv'
    BY <1>3, CallFacts DEF StartClosed, HeldInv, Typed, CallTyped
  <1>4. ASSUME NEW r \in Calls, Register(r) PROVE HeldInv'
    BY <1>4, CallFacts DEF Register, HeldInv, Typed, CallTyped
  <1>5. ASSUME NEW r \in Calls, Write(r) PROVE HeldInv'
    BY <1>5, CallFacts DEF Write, HeldInv, Typed, CallTyped
  <1>6. ASSUME NEW r \in Calls, WriteFails(r) PROVE HeldInv'
    BY <1>6, CallFacts DEF WriteFails, HeldInv, Typed, CallTyped
  <1>7. ASSUME NEW r \in Calls, Receive(r) PROVE HeldInv'
    BY <1>7, CallFacts DEF Receive, HeldInv, Typed, CallTyped
  <1>8. ASSUME NEW r \in Calls, TimeOut(r) PROVE HeldInv'
    BY <1>8, CallFacts DEF TimeOut, HeldInv, Typed, CallTyped
  <1>9. ASSUME NEW r \in Calls, GiveUp(r) PROVE HeldInv'
    BY <1>9, CallFacts DEF GiveUp, HeldInv, Typed, CallTyped
  <1>10. ASSUME NEW r \in Calls, Leave(r) PROVE HeldInv'
    BY <1>10, CallFacts DEF Leave, HeldInv, Typed, CallTyped
  <1>11. ASSUME NEW r \in Streams, StreamTake(r) PROVE HeldInv'
    <2>1. r \in Calls /\ Took(r) /\ Head(chan[r]) = chan[r][1] /\ chan[r][1] \in Answers
      BY <1>11, CallFacts, TookFacts DEF StreamTake, Typed
    <2>2. 1 \in 1 .. Len(chan[r])  BY <2>1 DEF Took
    <2>3. /\ chan[r][1].id = r /\ (chan[r][1].type = "chunk" => chan[r][1].n >= 1)
          /\ chan[r][1] # Nothing
      BY <2>1, <2>2, NothingFacts DEF ChanInv
    <2> QED  BY <1>11, <2>1, <2>3 DEF StreamTake, HeldInv, Typed, CallTyped, WayTyped
  <1>12. ASSUME NEW r \in Streams, StreamSend(r) PROVE HeldInv'
    <2>1. r \in Calls  BY CallFacts
    <2>2. held'[r] = Nothing /\ \A q \in Streams : q # r => held'[q] = held[q]
      BY <1>12 DEF StreamSend, Typed, WayTyped
    <2>3. call'[r] # "send" /\ \A q \in Calls : q # r => call'[q] = call[q]
      BY <1>12, <2>1 DEF StreamSend, Typed, CallTyped
    <2> QED  BY <2>2, <2>3, CallFacts, NothingFacts, None4 DEF HeldInv
  <1>13. ASSUME NEW r \in Calls, Cancel(r)
        PROVE  HeldInv'
    BY <1>1, <1>13 DEF Cancel, callVars, linkVars, netVars, workVars
  <1>14. ASSUME NEW r \in Streams, StreamCancel(r) \/ Pass(r) \/ TaskChunk(r) \/ ClientGone(r)
        PROVE  HeldInv'
    BY <1>1, <1>14 DEF StreamCancel, Pass, TaskChunk, ClientGone, callVars, linkVars, netVars, workVars
  <1>15. ASSUME NEW r \in Tasks, TaskRegister(r) \/ TaskOverride(r) \/ TaskPickUp(r) \/ TaskGenerate(r) \/
           TaskFails(r) \/ TaskDiscards(r) \/ TaskSucceeds(r) \/ TaskUnlock(r) \/
           TaskWrite(r)
        PROVE  HeldInv'
    BY <1>1, <1>15 DEF TaskRegister, TaskOverride, TaskPickUp, TaskGenerate, TaskFails, TaskDiscards,
        TaskSucceeds, TaskUnlock, TaskWrite, callVars, linkVars, netVars, workVars
  <1>16. ASSUME ReadAnswer \/ PutAnswer \/ ReadFails \/ ClosePending \/ ClosePendingEnd \/ Close
           \/ ReadInline \/ ReadSynth \/ ReadCancel \/ WorkerDies
        PROVE  HeldInv'
    BY <1>1, <1>16 DEF ReadAnswer, PutAnswer, ReadFails, ClosePending, ClosePendingEnd, Close, ReadInline,
        ReadSynth, ReadCancel, WorkerDies, callVars, linkVars, netVars, workVars
  <1> QED
    BY <1>1, <1>2, <1>3, <1>4, <1>5, <1>6, <1>7, <1>8, <1>9, <1>10, <1>11, <1>12, <1>13, <1>14,
       <1>15, <1>16
    DEF Next, CallStep, StreamStep, ReaderStep, WorkerLoop, TaskStep

----------------------------------------------------------------------------
(* One last answer per call *)

LEMMA EmptyFacts == ASSUME NEW S, NEW s \in Seq(S) PROVE (s = <<>> <=> Len(s) = 0) /\ Len(s) \in Nat
  OBVIOUS

(* What readLoop has read. *)
LEMMA ReadFacts ==
  ASSUME Typed, toParent # <<>>, toParent' = Tail(toParent)
  PROVE  /\ Head(toParent) = toParent[1] /\ toParent[1] \in Answers
         /\ Len(toParent) \in Nat \ {0} /\ Len(toParent') = Len(toParent) - 1
         /\ \A i \in 1 .. Len(toParent') : toParent'[i] = toParent[i + 1]
  BY TailFacts DEF Typed, NetTyped

LEMMA QuietMeans ==
  ASSUME NEW r \in Tasks, OverInv, reader = "read", ~Early(r), Over(r), toParent # <<>>,
         Len(toParent) \in Nat \ {0}
  PROVE  toParent[1].id # r
  BY DEF OverInv, Settled, Quiet, Mentioned

LEMMA TableStep == ASSUME Typed, FormInv, CallInv, OverInv, Next PROVE TableInv'
  <1> USE DEF CallInv
  <1>1. CASE UNCHANGED <<call, outcome, pending, chan, held, out, carried, reader>>
    BY <1>1 DEF TableInv, Tabled, LastAnswerComes
  <1>2. ASSUME NEW r \in Calls, Start(r) PROVE TableInv'
    <2> SUFFICES ASSUME NEW q \in Calls PROVE Tabled(q)'  BY DEF TableInv
    <2>1. Tabled(q)  BY DEF TableInv
    <2>2. LastAnswerComes(q)' <=> LastAnswerComes(q)  BY <1>2 DEF Start, LastAnswerComes, linkVars
    <2> QED  BY <1>2, <2>1, <2>2 DEF Start, Tabled, Typed, CallTyped, linkVars
  <1>3. ASSUME NEW r \in Calls, StartClosed(r) PROVE TableInv'
    <2> SUFFICES ASSUME NEW q \in Calls PROVE Tabled(q)'  BY DEF TableInv
    <2>1. Tabled(q)  BY DEF TableInv
    <2>2. LastAnswerComes(q)' <=> LastAnswerComes(q)  BY <1>3 DEF StartClosed, LastAnswerComes, linkVars
    <2> QED  BY <1>3, <2>1, <2>2 DEF StartClosed, Tabled, Typed, CallTyped, linkVars
  <1>4. ASSUME NEW r \in Calls, Register(r) PROVE TableInv'
    <2> SUFFICES ASSUME NEW q \in Calls PROVE Tabled(q)'  BY DEF TableInv
    <2>1. Tabled(q)  BY DEF TableInv
    <2>2. LastAnswerComes(q)' <=> LastAnswerComes(q)  BY <1>4 DEF Register, LastAnswerComes, linkVars
    <2> QED  BY <1>4, <2>1, <2>2 DEF Register, Tabled, Typed, CallTyped, linkVars
  <1>5. ASSUME NEW r \in Calls, Write(r) PROVE TableInv'
    <2> SUFFICES ASSUME NEW q \in Calls PROVE Tabled(q)'  BY DEF TableInv
    <2>1. Tabled(q)  BY DEF TableInv
    <2>2. LastAnswerComes(q)' <=> LastAnswerComes(q)  BY <1>5 DEF Write, LastAnswerComes, linkVars
    <2> QED  BY <1>5, <2>1, <2>2 DEF Write, Tabled, Typed, CallTyped, linkVars
  <1>6. ASSUME NEW r \in Calls, WriteFails(r) PROVE TableInv'
    <2> SUFFICES ASSUME NEW q \in Calls PROVE Tabled(q)'  BY DEF TableInv
    <2>1. Tabled(q)  BY DEF TableInv
    <2>2. LastAnswerComes(q)' <=> LastAnswerComes(q)  BY <1>6 DEF WriteFails, LastAnswerComes, linkVars
    <2> QED  BY <1>6, <2>1, <2>2 DEF WriteFails, Tabled, Typed, CallTyped, linkVars
  <1>7. ASSUME NEW r \in Calls, Receive(r) PROVE TableInv'
    <2>1. Took(r)  BY <1>7, TookFacts DEF Receive, Typed
    <2> SUFFICES ASSUME NEW q \in Calls PROVE Tabled(q)'  BY DEF TableInv
    <2>2. Tabled(q)  BY DEF TableInv
    <2>3. CASE q = r  BY <1>7, <2>2, <2>3, CallFacts DEF Receive, Tabled, Typed, CallTyped, linkVars
    <2>4. CASE q # r
      <3>1. chan'[q] = chan[q]  BY <2>1, <2>4 DEF Took
      <3>2. LastAnswerComes(q)' <=> LastAnswerComes(q)
        BY <1>7, <3>1 DEF Receive, LastAnswerComes, linkVars
      <3> QED  BY <1>7, <2>2, <2>4, <3>1, <3>2 DEF Receive, Tabled, Typed, CallTyped, linkVars
    <2> QED  BY <2>3, <2>4
  <1>8. ASSUME NEW r \in Calls, TimeOut(r) PROVE TableInv'
    <2> SUFFICES ASSUME NEW q \in Calls PROVE Tabled(q)'  BY DEF TableInv
    <2>1. Tabled(q)  BY DEF TableInv
    <2>2. LastAnswerComes(q)' <=> LastAnswerComes(q)  BY <1>8 DEF TimeOut, LastAnswerComes, linkVars
    <2> QED  BY <1>8, <2>1, <2>2 DEF TimeOut, Tabled, Typed, CallTyped, linkVars
  <1>9. ASSUME NEW r \in Calls, GiveUp(r) PROVE TableInv'
    <2> SUFFICES ASSUME NEW q \in Calls PROVE Tabled(q)'  BY DEF TableInv
    <2>1. Tabled(q)  BY DEF TableInv
    <2>2. LastAnswerComes(q)' <=> LastAnswerComes(q)  BY <1>9 DEF GiveUp, LastAnswerComes, linkVars
    <2> QED  BY <1>9, <2>1, <2>2 DEF GiveUp, Tabled, Typed, CallTyped, linkVars
  <1>10. ASSUME NEW r \in Calls, Leave(r) PROVE TableInv'
    <2> SUFFICES ASSUME NEW q \in Calls PROVE Tabled(q)'  BY DEF TableInv
    <2>1. Tabled(q)  BY DEF TableInv
    <2>2. LastAnswerComes(q)' <=> LastAnswerComes(q)  BY <1>10 DEF Leave, LastAnswerComes, linkVars
    <2> QED  BY <1>10, <2>1, <2>2 DEF Leave, Tabled, Typed, CallTyped, linkVars
  <1>11. ASSUME NEW r \in Streams, StreamTake(r) PROVE TableInv'
    <2>1. r \in Calls /\ Took(r) /\ Head(chan[r]) = chan[r][1]
      BY <1>11, CallFacts, TookFacts DEF StreamTake, Typed
    <2>2. /\ held'[r] = chan[r][1] /\ \A q \in Streams : q # r => held'[q] = held[q]
          /\ call'[r] = "send" /\ call[r] = "wait" /\ \A q \in Calls : q # r => call'[q] = call[q]
      BY <1>11, <2>1 DEF StreamTake, Typed, CallTyped, WayTyped
    <2> SUFFICES ASSUME NEW q \in Calls PROVE Tabled(q)'  BY DEF TableInv
    <2>3. Tabled(q)  BY DEF TableInv
    <2>4. CASE q = r
      <3>1. ASSUME LastAnswerComes(r) PROVE LastAnswerComes(r)'
        <4>1. held[r].type \notin Terminal
          BY <1>11, <2>2, NothingFacts, None4 DEF FormInv, HeldInv
        <4>2. CASE carried.id = r /\ carried.type \in Terminal
          BY <1>11, <4>2 DEF StreamTake, LastAnswerComes, linkVars
        <4>3. ASSUME NEW i \in 1 .. Len(chan[r]), chan[r][i].type \in Terminal PROVE LastAnswerComes(r)'
          <5>1. CASE i = 1  BY <2>2, <4>3, <5>1 DEF LastAnswerComes
          <5>2. CASE i # 1
            <6>1. i - 1 \in 1 .. Len(chan'[r]) /\ chan'[r][i - 1] = chan[r][i]
              BY <2>1, <5>2 DEF Took
            <6> QED  BY <4>3, <6>1 DEF LastAnswerComes
          <5> QED  BY <5>1, <5>2
        <4> QED  BY <3>1, <4>1, <4>2, <4>3 DEF LastAnswerComes
      <3> QED  BY <1>11, <2>2, <2>3, <2>4, <3>1 DEF StreamTake, Tabled, linkVars
    <2>5. CASE q # r
      <3>1. chan'[q] = chan[q]  BY <2>1, <2>5 DEF Took
      <3>2. LastAnswerComes(q)' <=> LastAnswerComes(q)
        BY <1>11, <2>2, <2>5, <3>1 DEF StreamTake, LastAnswerComes, linkVars
      <3> QED  BY <1>11, <2>2, <2>3, <2>5, <3>1, <3>2 DEF StreamTake, Tabled, linkVars
    <2> QED  BY <2>4, <2>5
  <1>12. ASSUME NEW r \in Streams, StreamSend(r) PROVE TableInv'
    <2>1. /\ r \in Calls /\ call[r] = "send" /\ call'[r] \in {"wait", "leave"}
          /\ call'[r] = "wait" => outcome' = outcome /\ held[r].type = "chunk"
          /\ \A q \in Calls : q # r => call'[q] = call[q] /\ outcome'[q] = outcome[q]
          /\ \A q \in Streams : q # r => held'[q] = held[q] /\ out'[q] = out[q]
          /\ UNCHANGED <<pending, chan, carried, reader>>
      BY <1>12, CallFacts DEF StreamSend, Typed, CallTyped, WayTyped, OutTyped, linkVars
    <2> SUFFICES ASSUME NEW q \in Calls PROVE Tabled(q)'  BY DEF TableInv
    <2>2. Tabled(q)  BY DEF TableInv
    <2>3. CASE q = r
      <3>1. call'[r] = "wait" /\ LastAnswerComes(r) => LastAnswerComes(r)'
        BY <2>1 DEF LastAnswerComes
      <3> QED  BY <2>1, <2>2, <2>3, <3>1 DEF Tabled
    <2>4. CASE q # r
      <3>1. LastAnswerComes(q)' <=> LastAnswerComes(q)  BY <2>1, <2>4 DEF LastAnswerComes
      <3> QED  BY <2>1, <2>2, <2>4, <3>1 DEF Tabled
    <2> QED  BY <2>3, <2>4
  <1>13. ASSUME NEW r \in Streams, Pass(r) PROVE TableInv'
    <2>1. r \in Calls /\ \A q \in Streams : q # r => out'[q] = out[q]
      BY <1>13, CallFacts DEF Pass, Typed, OutTyped
    <2> SUFFICES ASSUME NEW q \in Calls PROVE Tabled(q)'  BY DEF TableInv
    <2>2. Tabled(q)  BY DEF TableInv
    <2>3. LastAnswerComes(q)' <=> LastAnswerComes(q)  BY <1>13 DEF Pass, LastAnswerComes, linkVars
    <2> QED  BY <1>13, <2>1, <2>2, <2>3 DEF Pass, Tabled, linkVars
  <1>14. ASSUME ReadAnswer PROVE TableInv'
    <2>1. Head(toParent) = toParent[1] /\ toParent[1] \in Answers /\ Len(toParent) \in Nat \ {0}
      BY <1>14, ReadFacts DEF ReadAnswer
    <2>2. carried = Nothing /\ reader = "read" /\ UNCHANGED <<call, outcome, chan, held, out>>
      BY <1>14 DEF ReadAnswer, FormInv, ReaderInv
    <2> SUFFICES ASSUME NEW q \in Calls PROVE Tabled(q)'  BY DEF TableInv
    <2>3. Tabled(q)  BY DEF TableInv
    <2>4. LastAnswerComes(q) => LastAnswerComes(q)'
      BY <2>2, NothingFacts, None4 DEF LastAnswerComes
    <2>5. CASE toParent[1].id \notin pending
      <3>1. UNCHANGED <<pending, carried, reader>>  BY <1>14, <2>1, <2>5 DEF ReadAnswer
      <3> QED  BY <2>2, <2>3, <2>4, <3>1 DEF Tabled
    <2>6. CASE toParent[1].id \in pending
      <3>1. /\ carried' = toParent[1] /\ reader' = "send"
            /\ toParent[1].type \in Terminal => pending' = pending \ {toParent[1].id}
            /\ toParent[1].type \notin Terminal => pending' = pending
        BY <1>14, <2>1, <2>6 DEF ReadAnswer
      <3>2. CASE q # toParent[1].id
        <4>1. (q \in pending' <=> q \in pending) /\ carried'.id # q  BY <3>1, <3>2
        <4> QED  BY <2>2, <2>3, <2>4, <4>1 DEF Tabled
      <3>3. CASE q = toParent[1].id
        <4>1. call[q] \in {"write", "wait", "send", "leave"}  BY <2>3, <2>6, <3>3 DEF Tabled
        <4>2. q \in Tasks => call[q] # "write"
          <5> SUFFICES ASSUME q \in Tasks, call[q] = "write" PROVE FALSE  OBVIOUS
          <5>1. ~Early(q)  BY <2>3 DEF Early, Tabled, None
          <5> QED  BY <1>14, <2>1, <2>2, <3>3, <5>1, QuietMeans DEF Over, ReadAnswer
        <4>3. q \in pending' \/ LastAnswerComes(q)'
          BY <2>6, <3>1, <3>3 DEF LastAnswerComes
        <4> QED  BY <2>2, <2>3, <3>1, <4>1, <4>2, <4>3, CallFacts DEF Tabled
      <3> QED  BY <3>2, <3>3
    <2> QED  BY <2>5, <2>6
  <1>15. ASSUME PutAnswer PROVE TableInv'
    <2>1. carried \in Answers /\ carried.id \in Calls  BY <1>15 DEF PutAnswer, FormInv, ReaderInv, Typed, WayTyped
    <2>2. Put(carried.id, carried)  BY <1>15, <2>1, PutFacts DEF PutAnswer, Typed
    <2>3. /\ carried' = Nothing /\ reader = "send" /\ reader' = "read"
          /\ UNCHANGED <<call, outcome, pending, held, out>>
      BY <1>15 DEF PutAnswer
    <2> SUFFICES ASSUME NEW q \in Calls PROVE Tabled(q)'  BY DEF TableInv
    <2>4. Tabled(q)  BY DEF TableInv
    <2>5. CASE q # carried.id
      <3>1. chan'[q] = chan[q]  BY <2>2, <2>5 DEF Put
      <3>2. LastAnswerComes(q) => LastAnswerComes(q)'  BY <2>3, <2>5, <3>1 DEF LastAnswerComes
      <3> QED  BY <2>3, <2>4, <3>1, <3>2, NothingFacts, CallFacts DEF Tabled
    <2>6. CASE q = carried.id
      <3>1. LastAnswerComes(q) => LastAnswerComes(q)'
        <4>1. CASE carried.type \in Terminal
          <5>1. Len(chan'[q]) \in 1 .. Len(chan'[q]) /\ chan'[q][Len(chan'[q])] = carried
            BY <2>2, <2>6 DEF Put
          <5> QED  BY <4>1, <5>1 DEF LastAnswerComes
        <4>2. ASSUME NEW i \in 1 .. Len(chan[q]), chan[q][i].type \in Terminal PROVE LastAnswerComes(q)'
          <5>1. i \in 1 .. Len(chan'[q]) /\ chan'[q][i] = chan[q][i]  BY <2>2, <2>6 DEF Put
          <5> QED  BY <4>2, <5>1 DEF LastAnswerComes
        <4>3. CASE q \in Streams /\ held[q].type \in Terminal  BY <2>3, <4>3 DEF LastAnswerComes
        <4> QED  BY <4>1, <4>2, <4>3 DEF LastAnswerComes
      <3> QED  BY <2>3, <2>4, <2>6, <3>1, NothingFacts, CallFacts DEF Tabled
    <2> QED  BY <2>5, <2>6
  <1>16. ASSUME ReadFails PROVE TableInv'
    <2> SUFFICES ASSUME NEW q \in Calls PROVE Tabled(q)'  BY DEF TableInv
    <2>1. Tabled(q)  BY DEF TableInv
    <2>2. LastAnswerComes(q)' <=> LastAnswerComes(q)  BY <1>16 DEF ReadFails, LastAnswerComes, callVars
    <2> QED  BY <1>16, <2>1, <2>2 DEF ReadFails, Tabled, callVars
  <1>17. ASSUME ClosePending PROVE TableInv'
    <2>1. PICK r \in Calls : r \in pending /\ pending' = pending \ {r} /\ Put(r, Answer("error", r, 0))
      BY <1>17, ClosingFacts
    <2>2. reader = "closing" /\ UNCHANGED <<call, outcome, held, out, carried, reader>>
      BY <1>17 DEF ClosePending, linkVars
    <2> SUFFICES ASSUME NEW q \in Calls PROVE Tabled(q)'  BY DEF TableInv
    <2>3. Tabled(q)  BY DEF TableInv
    <2>4. CASE q # r
      <3>1. chan'[q] = chan[q]  BY <2>1, <2>4 DEF Put
      <3>2. LastAnswerComes(q) => LastAnswerComes(q)'  BY <2>2, <3>1 DEF LastAnswerComes
      <3> QED  BY <2>1, <2>2, <2>3, <2>4, <3>1, <3>2 DEF Tabled
    <2>5. CASE q = r
      <3>1. LastAnswerComes(r)'
        <4>1. /\ Len(chan'[r]) \in 1 .. Len(chan'[r])
              /\ chan'[r][Len(chan'[r])] = Answer("error", r, 0)
          BY <2>1 DEF Put
        <4>2. Answer("error", r, 0).type = "error"  BY DEF Answer
        <4> QED  BY <4>1, <4>2 DEF LastAnswerComes
      <3> QED  BY <2>1, <2>2, <2>3, <2>5, <3>1 DEF Tabled
    <2> QED  BY <2>4, <2>5
  <1>18. ASSUME ClosePendingEnd PROVE TableInv'
    <2> SUFFICES ASSUME NEW q \in Calls PROVE Tabled(q)'  BY DEF TableInv
    <2>1. Tabled(q)  BY DEF TableInv
    <2>2. LastAnswerComes(q)' <=> LastAnswerComes(q)  BY <1>18 DEF ClosePendingEnd, LastAnswerComes, callVars
    <2> QED  BY <1>18, <2>1, <2>2 DEF ClosePendingEnd, Tabled, callVars
  <1>19. ASSUME NEW r \in Calls, Cancel(r)
        PROVE  TableInv'
    BY <1>1, <1>19 DEF Cancel, callVars, linkVars, netVars, workVars
  <1>20. ASSUME NEW r \in Streams, StreamCancel(r) \/ TaskChunk(r) \/ ClientGone(r)
        PROVE  TableInv'
    BY <1>1, <1>20 DEF StreamCancel, TaskChunk, ClientGone, callVars, linkVars, netVars, workVars
  <1>21. ASSUME NEW r \in Tasks, TaskRegister(r) \/ TaskOverride(r) \/ TaskPickUp(r) \/ TaskGenerate(r) \/
           TaskFails(r) \/ TaskDiscards(r) \/ TaskSucceeds(r) \/ TaskUnlock(r) \/
           TaskWrite(r)
        PROVE  TableInv'
    BY <1>1, <1>21 DEF TaskRegister, TaskOverride, TaskPickUp, TaskGenerate, TaskFails, TaskDiscards,
        TaskSucceeds, TaskUnlock, TaskWrite, callVars, linkVars, netVars, workVars
  <1>22. ASSUME Close \/ ReadInline \/ ReadSynth \/ ReadCancel \/ WorkerDies
        PROVE  TableInv'
    BY <1>1, <1>22 DEF Close, ReadInline, ReadSynth, ReadCancel, WorkerDies, callVars, linkVars, netVars,
        workVars
  <1> QED
    BY <1>1, <1>2, <1>3, <1>4, <1>5, <1>6, <1>7, <1>8, <1>9, <1>10, <1>11, <1>12, <1>13, <1>14,
       <1>15, <1>16, <1>17, <1>18, <1>19, <1>20, <1>21, <1>22
    DEF Next, CallStep, StreamStep, ReaderStep, WorkerLoop, TaskStep

(* A last answer stays at the end when one is taken before it. *)
LEMMA TookEnd ==
  ASSUME NEW r \in Calls, LastIsLast(r), Took(r)
  PROVE  \A i \in 1 .. Len(chan'[r]) : chan'[r][i].type \in Terminal =>
           i = Len(chan'[r]) /\ r \notin pending /\ carried.id # r
  <1> SUFFICES ASSUME NEW i \in 1 .. Len(chan'[r]), chan'[r][i].type \in Terminal
               PROVE  i = Len(chan'[r]) /\ r \notin pending /\ carried.id # r
    OBVIOUS
  <1>1. i + 1 \in 1 .. Len(chan[r]) /\ chan'[r][i] = chan[r][i + 1]  BY DEF Took
  <1>2. i + 1 = Len(chan[r]) /\ r \notin pending /\ carried.id # r  BY <1>1 DEF LastIsLast
  <1> QED  BY <1>2 DEF Took

LEMMA TookLast ==
  ASSUME NEW r \in Unary, NEW q \in Calls, LastIsLast(q), Took(r), UNCHANGED <<pending, held, carried>>
  PROVE  LastIsLast(q)'
  <1>0. r \in Calls /\ r \notin Streams  BY CallFacts
  <1>1. CASE q # r
    <2>1. chan'[q] = chan[q]  BY <1>1 DEF Took
    <2> QED  BY <2>1 DEF LastIsLast
  <1>2. CASE q = r  BY <1>0, <1>2, TookEnd DEF LastIsLast
  <1> QED  BY <1>1, <1>2

LEMMA PutEnd ==
  ASSUME NEW r \in Calls, NEW a, Put(r, a), \A i \in 1 .. Len(chan[r]) : chan[r][i].type \notin Terminal
  PROVE  \A i \in 1 .. Len(chan'[r]) : chan'[r][i].type \in Terminal =>
           i = Len(chan'[r]) /\ a.type \in Terminal
  <1> SUFFICES ASSUME NEW i \in 1 .. Len(chan'[r]), chan'[r][i].type \in Terminal
               PROVE  i = Len(chan'[r]) /\ a.type \in Terminal
    OBVIOUS
  <1>1. i \notin 1 .. Len(chan[r])  BY DEF Put
  <1> QED  BY <1>1 DEF Put

LEMMA LastStep == ASSUME Typed, FormInv, CallInv, Next PROVE LastInv'
  <1> USE DEF CallInv
  <1>1. CASE UNCHANGED <<pending, chan, held, carried>>
    BY <1>1 DEF LastInv, LastIsLast
  <1>2. ASSUME NEW r \in Calls, Register(r) PROVE LastInv'
    <2> SUFFICES ASSUME NEW q \in Calls PROVE LastIsLast(q)'  BY DEF LastInv
    <2>0. LastIsLast(q)  BY DEF LastInv
    <2>1. call[r] = "register" /\ pending' = pending \cup {r} /\ UNCHANGED <<chan, held, carried>>
      BY <1>2 DEF Register, linkVars
    <2>2. chan[r] = <<>> /\ carried.id # r  BY <2>1 DEF TableInv, Tabled
    <2>3. r \in Streams => held[r].type \notin Terminal
      BY <2>1, NothingFacts, None4 DEF FormInv, HeldInv
    <2> QED  BY <2>0, <2>1, <2>2, <2>3 DEF LastIsLast
  <1>3. ASSUME NEW r \in Calls, Receive(r) PROVE LastInv'
    <2> SUFFICES ASSUME NEW q \in Calls PROVE LastIsLast(q)'  BY DEF LastInv
    <2>0. LastIsLast(q)  BY DEF LastInv
    <2>1. Took(r) /\ UNCHANGED <<pending, held, carried>>  BY <1>3, TookFacts DEF Receive, Typed, linkVars
    <2> QED  BY <2>0, <2>1, CallFacts, TookLast, <1>3 DEF Receive
  <1>4. ASSUME NEW r \in Calls, Leave(r) PROVE LastInv'
    <2> SUFFICES ASSUME NEW q \in Calls PROVE LastIsLast(q)'  BY DEF LastInv
    <2>0. LastIsLast(q)  BY DEF LastInv
    <2> QED  BY <1>4, <2>0 DEF Leave, LastIsLast, linkVars
  <1>5. ASSUME NEW r \in Streams, StreamTake(r) PROVE LastInv'
    <2>1. r \in Calls /\ Took(r) /\ Head(chan[r]) = chan[r][1] /\ UNCHANGED <<pending, carried>>
      BY <1>5, CallFacts, TookFacts DEF StreamTake, Typed, linkVars
    <2>2. held'[r] = chan[r][1] /\ \A q \in Streams : q # r => held'[q] = held[q]
      BY <1>5, <2>1 DEF StreamTake, Typed, WayTyped
    <2> SUFFICES ASSUME NEW q \in Calls PROVE LastIsLast(q)'  BY DEF LastInv
    <2>0. LastIsLast(q)  BY DEF LastInv
    <2>3. CASE q # r  BY <2>0, <2>1, <2>2, <2>3 DEF LastIsLast, Took
    <2>4. CASE q = r
      <3>1. \A i \in 1 .. Len(chan'[r]) : chan'[r][i].type \in Terminal =>
              i = Len(chan'[r]) /\ r \notin pending /\ carried.id # r
        BY <2>0, <2>1, <2>4, TookEnd
      <3>2. ASSUME chan[r][1].type \in Terminal
            PROVE  chan'[r] = <<>> /\ r \notin pending /\ carried.id # r
        <4>1. 1 \in 1 .. Len(chan[r])  BY <2>1 DEF Took
        <4>2. Len(chan[r]) = 1 /\ r \notin pending /\ carried.id # r
          BY <2>0, <2>4, <3>2, <4>1 DEF LastIsLast
        <4>3. chan'[r] \in Seq(Answers) /\ Len(chan'[r]) = 0  BY <2>1, <4>2 DEF Took
        <4> QED  BY <4>2, <4>3, EmptyFacts
      <3> QED  BY <2>0, <2>1, <2>2, <2>4, <3>1, <3>2 DEF LastIsLast
    <2> QED  BY <2>3, <2>4
  <1>6. ASSUME NEW r \in Streams, StreamSend(r) PROVE LastInv'
    <2> SUFFICES ASSUME NEW q \in Calls PROVE LastIsLast(q)'  BY DEF LastInv
    <2>0. LastIsLast(q)  BY DEF LastInv
    <2>1. /\ held'[r] = Nothing /\ \A p \in Streams : p # r => held'[p] = held[p]
          /\ UNCHANGED <<pending, chan, carried>>
      BY <1>6 DEF StreamSend, Typed, WayTyped, linkVars
    <2> QED  BY <2>0, <2>1, NothingFacts, None4 DEF LastIsLast
  <1>7. ASSUME ReadAnswer PROVE LastInv'
    <2> SUFFICES ASSUME NEW q \in Calls PROVE LastIsLast(q)'  BY DEF LastInv
    <2>0. LastIsLast(q)  BY DEF LastInv
    <2>1. Head(toParent) = toParent[1] /\ UNCHANGED <<chan, held>>  BY <1>7, ReadFacts DEF ReadAnswer
    <2>2. carried = Nothing  BY <1>7 DEF ReadAnswer, FormInv, ReaderInv
    <2>3. CASE toParent[1].id \notin pending
      BY <1>7, <2>0, <2>1, <2>3 DEF ReadAnswer, LastIsLast
    <2>4. CASE toParent[1].id \in pending
      <3>1. /\ carried' = toParent[1]
            /\ toParent[1].type \in Terminal => pending' = pending \ {toParent[1].id}
            /\ toParent[1].type \notin Terminal => pending' = pending
        BY <1>7, <2>1, <2>4 DEF ReadAnswer
      <3>2. CASE q # toParent[1].id  BY <2>0, <2>1, <3>1, <3>2 DEF LastIsLast
      <3>3. CASE q = toParent[1].id  BY <2>0, <2>1, <2>4, <3>1, <3>3 DEF LastIsLast
      <3> QED  BY <3>2, <3>3
    <2> QED  BY <2>3, <2>4
  <1>8. ASSUME PutAnswer PROVE LastInv'
    <2>1. carried \in Answers /\ carried.id \in Calls  BY <1>8 DEF PutAnswer, FormInv, ReaderInv, Typed, WayTyped
    <2>2. Put(carried.id, carried)  BY <1>8, <2>1, PutFacts DEF PutAnswer, Typed
    <2>3. carried' = Nothing /\ UNCHANGED <<pending, held>>  BY <1>8 DEF PutAnswer
    <2> SUFFICES ASSUME NEW q \in Calls PROVE LastIsLast(q)'  BY DEF LastInv
    <2>0. LastIsLast(q)  BY DEF LastInv
    <2>4. carried'.id # q /\ carried'.type \notin Terminal
      BY <2>3, NothingFacts, CallFacts, None4
    <2>5. CASE q # carried.id
      <3>1. chan'[q] = chan[q]  BY <2>2, <2>5 DEF Put
      <3> QED  BY <2>0, <2>3, <2>4, <3>1 DEF LastIsLast
    <2>6. CASE q = carried.id
      <3>1. /\ carried.type \in Terminal => q \notin pending
            /\ \A i \in 1 .. Len(chan[q]) : chan[q][i].type \notin Terminal
            /\ q \in Streams => held[q].type \notin Terminal
        BY <2>0, <2>6 DEF LastIsLast
      <3>2. \A i \in 1 .. Len(chan'[q]) : chan'[q][i].type \in Terminal =>
              i = Len(chan'[q]) /\ carried.type \in Terminal
        BY <2>2, <2>6, <3>1, PutEnd
      <3> QED  BY <2>3, <2>4, <3>1, <3>2 DEF LastIsLast
    <2> QED  BY <2>5, <2>6
  <1>9. ASSUME ClosePending PROVE LastInv'
    <2>1. PICK r \in Calls : r \in pending /\ pending' = pending \ {r} /\ Put(r, Answer("error", r, 0))
      BY <1>9, ClosingFacts
    <2>2. carried = Nothing /\ UNCHANGED <<held, carried>>
      BY <1>9 DEF ClosePending, linkVars, FormInv, ReaderInv
    <2> SUFFICES ASSUME NEW q \in Calls PROVE LastIsLast(q)'  BY DEF LastInv
    <2>0. LastIsLast(q)  BY DEF LastInv
    <2>3. carried.id # q  BY <2>2, NothingFacts, CallFacts
    <2>4. CASE q # r
      <3>1. chan'[q] = chan[q]  BY <2>1, <2>4 DEF Put
      <3> QED  BY <2>0, <2>1, <2>2, <3>1 DEF LastIsLast
    <2>5. CASE q = r
      <3>1. /\ \A i \in 1 .. Len(chan[q]) : chan[q][i].type \notin Terminal
            /\ q \in Streams => held[q].type \notin Terminal
        BY <2>0, <2>1, <2>5 DEF LastIsLast
      <3>2. \A i \in 1 .. Len(chan'[q]) : chan'[q][i].type \in Terminal => i = Len(chan'[q])
        BY <2>1, <2>5, <3>1, PutEnd
      <3> QED  BY <2>1, <2>2, <2>3, <2>5, <3>1, <3>2 DEF LastIsLast
    <2> QED  BY <2>4, <2>5
  <1>10. ASSUME NEW r \in Calls, Start(r) \/ StartClosed(r) \/ Write(r) \/ WriteFails(r) \/ TimeOut(r) \/ GiveUp(r)
           \/ Cancel(r)
        PROVE  LastInv'
    BY <1>1, <1>10 DEF Start, StartClosed, Write, WriteFails, TimeOut, GiveUp, Cancel, callVars, linkVars,
        netVars, workVars
  <1>11. ASSUME NEW r \in Streams, StreamCancel(r) \/ Pass(r) \/ TaskChunk(r) \/ ClientGone(r)
        PROVE  LastInv'
    BY <1>1, <1>11 DEF StreamCancel, Pass, TaskChunk, ClientGone, callVars, linkVars, netVars, workVars
  <1>12. ASSUME NEW r \in Tasks, TaskRegister(r) \/ TaskOverride(r) \/ TaskPickUp(r) \/ TaskGenerate(r) \/
           TaskFails(r) \/ TaskDiscards(r) \/ TaskSucceeds(r) \/ TaskUnlock(r) \/
           TaskWrite(r)
        PROVE  LastInv'
    BY <1>1, <1>12 DEF TaskRegister, TaskOverride, TaskPickUp, TaskGenerate, TaskFails, TaskDiscards,
        TaskSucceeds, TaskUnlock, TaskWrite, callVars, linkVars, netVars, workVars
  <1>13. ASSUME ReadFails \/ ClosePendingEnd \/ Close \/ ReadInline \/ ReadSynth \/ ReadCancel \/
           WorkerDies
        PROVE  LastInv'
    BY <1>1, <1>13 DEF ReadFails, ClosePendingEnd, Close, ReadInline, ReadSynth, ReadCancel, WorkerDies,
        callVars, linkVars, netVars, workVars
  <1> QED
    BY <1>1, <1>2, <1>3, <1>4, <1>5, <1>6, <1>7, <1>8, <1>9, <1>10, <1>11, <1>12, <1>13
    DEF Next, CallStep, StreamStep, ReaderStep, WorkerLoop, TaskStep

LEMMA LeftStep == ASSUME Typed, FormInv, CallInv, OverInv, Next PROVE LeftInv'
  <1> USE DEF CallInv
  <1>1. CASE UNCHANGED <<call, pending, chan, carried>>
    BY <1>1 DEF LeftInv, LeftAlone
  <1>2. ASSUME NEW r \in Calls, Start(r) PROVE LeftInv'
    <2> SUFFICES ASSUME NEW q \in Streams PROVE LeftAlone(q)'  BY DEF LeftInv
    <2>0. LeftAlone(q) /\ q \in Calls  BY CallFacts DEF LeftInv
    <2> QED  BY <1>2, <2>0 DEF Start, LeftAlone, Typed, CallTyped, linkVars
  <1>3. ASSUME NEW r \in Calls, StartClosed(r) PROVE LeftInv'
    <2> SUFFICES ASSUME NEW q \in Streams PROVE LeftAlone(q)'  BY DEF LeftInv
    <2>0. LeftAlone(q) /\ q \in Calls  BY CallFacts DEF LeftInv
    <2>1. chan[r] = <<>> /\ carried.id # r /\ r \notin pending  BY <1>3 DEF StartClosed, TableInv, Tabled
    <2> QED  BY <1>3, <2>0, <2>1 DEF StartClosed, LeftAlone, Typed, CallTyped, linkVars
  <1>4. ASSUME NEW r \in Calls, Register(r) PROVE LeftInv'
    <2> SUFFICES ASSUME NEW q \in Streams PROVE LeftAlone(q)'  BY DEF LeftInv
    <2>0. LeftAlone(q) /\ q \in Calls  BY CallFacts DEF LeftInv
    <2>1. chan[r] = <<>> /\ carried.id # r  BY <1>4 DEF Register, TableInv, Tabled
    <2> QED  BY <1>4, <2>0, <2>1 DEF Register, LeftAlone, Typed, CallTyped, linkVars
  <1>5. ASSUME NEW r \in Calls, Write(r) PROVE LeftInv'
    <2> SUFFICES ASSUME NEW q \in Streams PROVE LeftAlone(q)'  BY DEF LeftInv
    <2>0. LeftAlone(q) /\ q \in Calls  BY CallFacts DEF LeftInv
    <2> QED  BY <1>5, <2>0 DEF Write, LeftAlone, Typed, CallTyped, linkVars
  <1>6. ASSUME NEW r \in Calls, WriteFails(r) PROVE LeftInv'
    <2> SUFFICES ASSUME NEW q \in Streams PROVE LeftAlone(q)'  BY DEF LeftInv
    <2>0. LeftAlone(q) /\ q \in Calls  BY CallFacts DEF LeftInv
    <2> QED  BY <1>6, <2>0 DEF WriteFails, LeftAlone, Typed, CallTyped, linkVars
  <1>7. ASSUME NEW r \in Calls, Receive(r) PROVE LeftInv'
    <2> SUFFICES ASSUME NEW q \in Streams PROVE LeftAlone(q)'  BY DEF LeftInv
    <2>0. LeftAlone(q) /\ q \in Calls  BY CallFacts DEF LeftInv
    <2>1. Took(r) /\ q # r /\ UNCHANGED <<pending, carried>>
      BY <1>7, CallFacts, TookFacts DEF Receive, Typed, linkVars
    <2>2. chan'[q] = chan[q] /\ call'[q] = call[q]  BY <1>7, <2>0, <2>1 DEF Took, Receive, Typed, CallTyped
    <2> QED  BY <2>0, <2>1, <2>2 DEF LeftAlone
  <1>8. ASSUME NEW r \in Calls, TimeOut(r) PROVE LeftInv'
    <2> SUFFICES ASSUME NEW q \in Streams PROVE LeftAlone(q)'  BY DEF LeftInv
    <2>0. LeftAlone(q) /\ q \in Calls  BY CallFacts DEF LeftInv
    <2>1. q # r  BY <1>8, CallFacts, LinkAssumption DEF TimeOut
    <2> QED  BY <1>8, <2>0, <2>1 DEF TimeOut, LeftAlone, Typed, CallTyped, linkVars
  <1>9. ASSUME NEW r \in Calls, GiveUp(r) PROVE LeftInv'
    <2> SUFFICES ASSUME NEW q \in Streams PROVE LeftAlone(q)'  BY DEF LeftInv
    <2>0. LeftAlone(q) /\ q \in Calls  BY CallFacts DEF LeftInv
    <2>1. q # r  BY <1>9, CallFacts DEF GiveUp
    <2> QED  BY <1>9, <2>0, <2>1 DEF GiveUp, LeftAlone, Typed, CallTyped, linkVars
  <1>10. ASSUME NEW r \in Calls, Leave(r) PROVE LeftInv'
    <2> SUFFICES ASSUME NEW q \in Streams PROVE LeftAlone(q)'  BY DEF LeftInv
    <2>0. LeftAlone(q) /\ q \in Calls  BY CallFacts DEF LeftInv
    <2> QED  BY <1>10, <2>0 DEF Leave, LeftAlone, Typed, CallTyped, linkVars
  <1>11. ASSUME NEW r \in Streams, StreamTake(r) PROVE LeftInv'
    <2> SUFFICES ASSUME NEW q \in Streams PROVE LeftAlone(q)'  BY DEF LeftInv
    <2>0. LeftAlone(q) /\ q \in Calls  BY CallFacts DEF LeftInv
    <2>1. r \in Calls /\ Took(r) /\ UNCHANGED <<pending, carried>> /\ call'[r] = "send"
          /\ \A p \in Calls : p # r => call'[p] = call[p]
      BY <1>11, CallFacts, TookFacts DEF StreamTake, Typed, CallTyped, linkVars
    <2>2. q # r => chan'[q] = chan[q]  BY <2>0, <2>1 DEF Took
    <2> QED  BY <2>0, <2>1, <2>2 DEF LeftAlone
  <1>12. ASSUME NEW r \in Streams, StreamSend(r) PROVE LeftInv'
    <2> SUFFICES ASSUME NEW q \in Streams PROVE LeftAlone(q)'  BY DEF LeftInv
    <2>0. LeftAlone(q) /\ q \in Calls  BY CallFacts DEF LeftInv
    <2>1. /\ r \in Calls
          /\ call'[r] = "leave" => held[r].type \in Terminal
          /\ call'[r] \in {"wait", "leave"} /\ \A p \in Calls : p # r => call'[p] = call[p]
          /\ UNCHANGED <<pending, chan, carried>>
      BY <1>12, CallFacts DEF StreamSend, Typed, CallTyped, linkVars
    <2>2. held[r].type \in Terminal => chan[r] = <<>> /\ r \notin pending /\ carried.id # r
      BY <2>1 DEF LastInv, LastIsLast
    <2> QED  BY <2>0, <2>1, <2>2 DEF LeftAlone
  <1>13. ASSUME ReadAnswer PROVE LeftInv'
    <2> SUFFICES ASSUME NEW q \in Streams PROVE LeftAlone(q)'  BY DEF LeftInv
    <2>0. LeftAlone(q) /\ q \in Calls  BY CallFacts DEF LeftInv
    <2>1. Head(toParent) = toParent[1] /\ Len(toParent) \in Nat \ {0}
          /\ toParent # <<>> /\ reader = "read" /\ UNCHANGED <<call, outcome, chan>> /\ pending' \subseteq pending
      BY <1>13, ReadFacts DEF ReadAnswer
    <2>2. CASE toParent[1].id \notin pending  BY <1>13, <2>0, <2>1, <2>2 DEF ReadAnswer, LeftAlone
    <2>3. CASE toParent[1].id \in pending
      <3>1. carried' = toParent[1]  BY <1>13, <2>1, <2>3 DEF ReadAnswer
      <3>2. call[q] \in {"write", "leave", "ended"} => toParent[1].id # q
        <4>1. q \in Tasks /\ ~Early(q)  BY CallFacts DEF Early
        <4> QED  BY <2>1, <4>1, QuietMeans DEF Over
      <3> QED  BY <2>0, <2>1, <3>1, <3>2 DEF LeftAlone
    <2> QED  BY <2>2, <2>3
  <1>14. ASSUME PutAnswer PROVE LeftInv'
    <2>1. carried \in Answers /\ carried.id \in Calls  BY <1>14 DEF PutAnswer, FormInv, ReaderInv, Typed, WayTyped
    <2>2. Put(carried.id, carried)  BY <1>14, <2>1, PutFacts DEF PutAnswer, Typed
    <2>3. carried' = Nothing /\ UNCHANGED <<pending, call>>  BY <1>14 DEF PutAnswer
    <2> SUFFICES ASSUME NEW q \in Streams PROVE LeftAlone(q)'  BY DEF LeftInv
    <2>0. LeftAlone(q) /\ q \in Calls  BY CallFacts DEF LeftInv
    <2>4. carried'.id # q  BY <2>0, <2>3, NothingFacts, CallFacts
    <2>5. q # carried.id => chan'[q] = chan[q]  BY <2>0, <2>2 DEF Put
    <2> QED  BY <2>0, <2>3, <2>4, <2>5 DEF LeftAlone
  <1>15. ASSUME ClosePending PROVE LeftInv'
    <2>1. PICK r \in Calls : r \in pending /\ pending' = pending \ {r} /\ Put(r, Answer("error", r, 0))
      BY <1>15, ClosingFacts
    <2> SUFFICES ASSUME NEW q \in Streams PROVE LeftAlone(q)'  BY DEF LeftInv
    <2>0. LeftAlone(q) /\ q \in Calls  BY CallFacts DEF LeftInv
    <2>2. UNCHANGED <<call, carried>>  BY <1>15 DEF ClosePending, linkVars
    <2>3. q # r => chan'[q] = chan[q]  BY <2>0, <2>1 DEF Put
    <2> QED  BY <2>0, <2>1, <2>2, <2>3 DEF LeftAlone
  <1>16. ASSUME NEW r \in Calls, Cancel(r)
        PROVE  LeftInv'
    BY <1>1, <1>16 DEF Cancel, callVars, linkVars, netVars, workVars
  <1>17. ASSUME NEW r \in Streams, StreamCancel(r) \/ Pass(r) \/ TaskChunk(r) \/ ClientGone(r)
        PROVE  LeftInv'
    BY <1>1, <1>17 DEF StreamCancel, Pass, TaskChunk, ClientGone, callVars, linkVars, netVars, workVars
  <1>18. ASSUME NEW r \in Tasks, TaskRegister(r) \/ TaskOverride(r) \/ TaskPickUp(r) \/ TaskGenerate(r) \/
           TaskFails(r) \/ TaskDiscards(r) \/ TaskSucceeds(r) \/ TaskUnlock(r) \/
           TaskWrite(r)
        PROVE  LeftInv'
    BY <1>1, <1>18 DEF TaskRegister, TaskOverride, TaskPickUp, TaskGenerate, TaskFails, TaskDiscards,
        TaskSucceeds, TaskUnlock, TaskWrite, callVars, linkVars, netVars, workVars
  <1>19. ASSUME ReadFails \/ ClosePendingEnd \/ Close \/ ReadInline \/ ReadSynth \/ ReadCancel \/
           WorkerDies
        PROVE  LeftInv'
    BY <1>1, <1>19 DEF ReadFails, ClosePendingEnd, Close, ReadInline, ReadSynth, ReadCancel, WorkerDies,
        callVars, linkVars, netVars, workVars
  <1> QED
    BY <1>1, <1>2, <1>3, <1>4, <1>5, <1>6, <1>7, <1>8, <1>9, <1>10, <1>11, <1>12, <1>13, <1>14,
       <1>15, <1>16, <1>17, <1>18, <1>19
    DEF Next, CallStep, StreamStep, ReaderStep, WorkerLoop, TaskStep

----------------------------------------------------------------------------
(* What the worker has still to do and to say *)

LEMMA SendAsks ==
  ASSUME Typed, NEW m \in Requests, Send(m), NEW q \in Tasks, AskedOnce(q)
  PROVE  /\ ~Asks(m, q) => (Asked(q)' => Asked(q)) /\ AskedOnce(q)'
         /\ ~Asked(q) => AskedOnce(q)'
  <1>1. CASE toWorker' = toWorker  BY <1>1 DEF Asked, AskedOnce
  <1>2. CASE /\ Len(toWorker') = Len(toWorker) + 1 /\ Len(toWorker) \in Nat
             /\ \A i \in 1 .. Len(toWorker) : toWorker'[i] = toWorker[i]
             /\ toWorker'[Len(toWorker) + 1] = m
    <2>1. ASSUME NEW i \in 1 .. Len(toWorker'), Asks(toWorker'[i], q)
          PROVE  \/ i = Len(toWorker) + 1 /\ Asks(m, q)
                 \/ i \in 1 .. Len(toWorker) /\ Asks(toWorker[i], q)
      BY <1>2, <2>1
    <2>2. ~Asks(m, q) => (Asked(q)' => Asked(q))  BY <2>1 DEF Asked
    <2>3. ~Asks(m, q) => AskedOnce(q)'  BY <2>1 DEF AskedOnce
    <2>4. ~Asked(q) => AskedOnce(q)'  BY <2>1 DEF Asked, AskedOnce
    <2> QED  BY <2>2, <2>3, <2>4
  <1> QED  BY <1>1, <1>2, SendFacts DEF Typed

LEMMA HeardAsks ==
  ASSUME Heard, NEW q \in Tasks, AskedOnce(q)
  PROVE  /\ (Asked(q)' => Asked(q)) /\ AskedOnce(q)'
         /\ Asks(toWorker[1], q) => Asked(q) /\ ~Asked(q)'
  <1>1. ASSUME NEW i \in 1 .. Len(toWorker'), Asks(toWorker'[i], q)
        PROVE  i + 1 \in 2 .. Len(toWorker) /\ Asks(toWorker[i + 1], q)
    BY <1>1 DEF Heard
  <1>2. 1 \in 1 .. Len(toWorker)  BY DEF Heard
  <1>3. Asked(q)' => Asked(q)  BY <1>1 DEF Asked
  <1>4. AskedOnce(q)'
    <2> SUFFICES ASSUME NEW i \in 1 .. Len(toWorker'), NEW j \in 1 .. Len(toWorker'),
                        Asks(toWorker'[i], q), Asks(toWorker'[j], q)
                 PROVE  i = j
      BY DEF AskedOnce
    <2> QED  BY <1>1 DEF AskedOnce
  <1>5. Asks(toWorker[1], q) => Asked(q)  BY <1>2 DEF Asked
  <1>6. Asks(toWorker[1], q) => ~Asked(q)'  BY <1>1, <1>2 DEF Asked, AskedOnce
  <1> QED  BY <1>3, <1>4, <1>5, <1>6

LEMMA RequestFacts ==
  \A q \in Calls : \A t \in {"call", "cancel"} :
    /\ [type |-> t, id |-> q] \in Requests
    /\ [type |-> t, id |-> q].type = t /\ [type |-> t, id |-> q].id = q
  BY DEF Requests

LEMMA ReplyAt == None \notin Terminal \cup {"chunk", "timeout", "cancelled"}
  BY DEF None

LEMMA AskStep == ASSUME Typed, FormInv, AskInv, Next PROVE AskInv'
  <1>1. CASE UNCHANGED <<call, task, toWorker>>
    BY <1>1 DEF AskInv, Waiting, Asked, AskedOnce
  <1>2. ASSUME NEW r \in Calls, Start(r) PROVE AskInv'
    <2> SUFFICES ASSUME NEW q \in Tasks PROVE Waiting(q)'  BY DEF AskInv
    <2>0. Waiting(q) /\ q \in Calls  BY CallFacts DEF AskInv
    <2> QED  BY <1>2, <2>0, CallFacts DEF Start, Waiting, Asked, AskedOnce, Typed, CallTyped, netVars, workVars
  <1>3. ASSUME NEW r \in Calls, StartClosed(r) PROVE AskInv'
    <2> SUFFICES ASSUME NEW q \in Tasks PROVE Waiting(q)'  BY DEF AskInv
    <2>0. Waiting(q) /\ q \in Calls  BY CallFacts DEF AskInv
    <2> QED  BY <1>3, <2>0, CallFacts DEF StartClosed, Waiting, Asked, AskedOnce, Typed, CallTyped, netVars, workVars
  <1>4. ASSUME NEW r \in Calls, Register(r) PROVE AskInv'
    <2> SUFFICES ASSUME NEW q \in Tasks PROVE Waiting(q)'  BY DEF AskInv
    <2>0. Waiting(q) /\ q \in Calls  BY CallFacts DEF AskInv
    <2> QED  BY <1>4, <2>0, CallFacts DEF Register, Waiting, Asked, AskedOnce, Typed, CallTyped, netVars, workVars
  <1>5. ASSUME NEW r \in Calls, Write(r) PROVE AskInv'
    <2> SUFFICES ASSUME NEW q \in Tasks PROVE Waiting(q)'  BY DEF AskInv
    <2>0. Waiting(q) /\ q \in Calls  BY CallFacts DEF AskInv
    <2>1. r \in Calls /\ Send([type |-> "call", id |-> r]) /\ call[r] = "write"  BY <1>5 DEF Write
    <2>2. CASE q = r
      <3>1. ~Asked(q) /\ task[q] = "none"  BY <2>0, <2>1, <2>2 DEF Waiting
      <3>2. AskedOnce(q)'  BY <2>0, <2>1, <3>1, RequestFacts, SendAsks DEF Waiting
      <3> QED  BY <1>5, <2>2, <3>1, <3>2 DEF Write, Waiting, Typed, CallTyped, workVars
    <2>3. CASE q # r
      <3>1. ~Asks([type |-> "call", id |-> r], q)  BY <2>3 DEF Asks
      <3>2. (Asked(q)' => Asked(q)) /\ AskedOnce(q)'
        BY <2>0, <2>1, <3>1, RequestFacts, SendAsks DEF Waiting
      <3> QED  BY <1>5, <2>0, <2>3, <3>2 DEF Write, Waiting, Typed, CallTyped, workVars
    <2> QED  BY <2>2, <2>3
  <1>6. ASSUME NEW r \in Calls, WriteFails(r) PROVE AskInv'
    <2> SUFFICES ASSUME NEW q \in Tasks PROVE Waiting(q)'  BY DEF AskInv
    <2>0. Waiting(q) /\ q \in Calls  BY CallFacts DEF AskInv
    <2> QED  BY <1>6, <2>0, CallFacts DEF WriteFails, Waiting, Asked, AskedOnce, Typed, CallTyped, netVars, workVars
  <1>7. ASSUME NEW r \in Calls, Receive(r) PROVE AskInv'
    <2> SUFFICES ASSUME NEW q \in Tasks PROVE Waiting(q)'  BY DEF AskInv
    <2>0. Waiting(q) /\ q \in Calls  BY CallFacts DEF AskInv
    <2> QED  BY <1>7, <2>0, CallFacts DEF Receive, Waiting, Asked, AskedOnce, Typed, CallTyped, netVars, workVars
  <1>8. ASSUME NEW r \in Calls, TimeOut(r) PROVE AskInv'
    <2> SUFFICES ASSUME NEW q \in Tasks PROVE Waiting(q)'  BY DEF AskInv
    <2>0. Waiting(q) /\ q \in Calls  BY CallFacts DEF AskInv
    <2> QED  BY <1>8, <2>0, CallFacts DEF TimeOut, Waiting, Asked, AskedOnce, Typed, CallTyped, netVars, workVars
  <1>9. ASSUME NEW r \in Calls, GiveUp(r) PROVE AskInv'
    <2> SUFFICES ASSUME NEW q \in Tasks PROVE Waiting(q)'  BY DEF AskInv
    <2>0. Waiting(q) /\ q \in Calls  BY CallFacts DEF AskInv
    <2>1. Send([type |-> "cancel", id |-> r]) => (Asked(q)' => Asked(q)) /\ AskedOnce(q)'
      <3>1. r \in Calls /\ ~Asks([type |-> "cancel", id |-> r], q)  BY CallFacts, RequestFacts DEF Asks
      <3> QED  BY <2>0, <3>1, RequestFacts, SendAsks DEF Waiting
    <2>2. UNCHANGED toWorker => (Asked(q)' => Asked(q)) /\ AskedOnce(q)'
      BY <2>0 DEF Waiting, Asked, AskedOnce
    <2>3. (Asked(q)' => Asked(q)) /\ AskedOnce(q)'  BY <1>9, <2>1, <2>2 DEF GiveUp
    <2> QED  BY <1>9, <2>0, <2>3 DEF GiveUp, Waiting, Typed, CallTyped, workVars, callVars
  <1>10. ASSUME NEW r \in Calls, Leave(r) PROVE AskInv'
    <2> SUFFICES ASSUME NEW q \in Tasks PROVE Waiting(q)'  BY DEF AskInv
    <2>0. Waiting(q) /\ q \in Calls  BY CallFacts DEF AskInv
    <2> QED  BY <1>10, <2>0, CallFacts DEF Leave, Waiting, Asked, AskedOnce, Typed, CallTyped, netVars, workVars
  <1>11. ASSUME NEW r \in Streams, StreamTake(r) PROVE AskInv'
    <2> SUFFICES ASSUME NEW q \in Tasks PROVE Waiting(q)'  BY DEF AskInv
    <2>0. Waiting(q) /\ q \in Calls  BY CallFacts DEF AskInv
    <2> QED  BY <1>11, <2>0, CallFacts DEF StreamTake, Waiting, Asked, AskedOnce, Typed, CallTyped, netVars, workVars
  <1>12. ASSUME NEW r \in Streams, StreamSend(r) PROVE AskInv'
    <2> SUFFICES ASSUME NEW q \in Tasks PROVE Waiting(q)'  BY DEF AskInv
    <2>0. Waiting(q) /\ q \in Calls  BY CallFacts DEF AskInv
    <2> QED  BY <1>12, <2>0, CallFacts DEF StreamSend, Waiting, Asked, AskedOnce, Typed, CallTyped, netVars, workVars
  <1>13. ASSUME NEW r \in Streams, StreamCancel(r) PROVE AskInv'
    <2> SUFFICES ASSUME NEW q \in Tasks PROVE Waiting(q)'  BY DEF AskInv
    <2>0. Waiting(q) /\ q \in Calls  BY CallFacts DEF AskInv
    <2>1. Send([type |-> "cancel", id |-> r]) => (Asked(q)' => Asked(q)) /\ AskedOnce(q)'
      <3>1. r \in Calls /\ ~Asks([type |-> "cancel", id |-> r], q)  BY CallFacts, RequestFacts DEF Asks
      <3> QED  BY <2>0, <3>1, RequestFacts, SendAsks DEF Waiting
    <2>2. UNCHANGED toWorker => (Asked(q)' => Asked(q)) /\ AskedOnce(q)'
      BY <2>0 DEF Waiting, Asked, AskedOnce
    <2>3. (Asked(q)' => Asked(q)) /\ AskedOnce(q)'  BY <1>13, <2>1, <2>2 DEF StreamCancel
    <2> QED  BY <1>13, <2>0, <2>3 DEF StreamCancel, Waiting, Typed, CallTyped, workVars, callVars
  <1>14. ASSUME ReadInline PROVE AskInv'
    <2> SUFFICES ASSUME NEW q \in Tasks PROVE Waiting(q)'  BY DEF AskInv
    <2>0. Waiting(q) /\ q \in Calls  BY CallFacts DEF AskInv
    <2>1. (Asked(q)' => Asked(q)) /\ AskedOnce(q)'  BY <1>14, <2>0, InlineFacts, HeardAsks DEF Waiting
    <2> QED  BY <1>14, <2>0, <2>1 DEF ReadInline, Waiting, callVars, workVars
  <1>15. ASSUME ReadSynth PROVE AskInv'
    <2> SUFFICES ASSUME NEW q \in Tasks PROVE Waiting(q)'  BY DEF AskInv
    <2>0. Waiting(q) /\ q \in Calls  BY CallFacts DEF AskInv
    <2>1. Heard /\ toWorker[1].id \in Tasks /\ Asks(toWorker[1], toWorker[1].id)
      BY <1>15, HeardFacts DEF ReadSynth, Typed, Heard, Asks
    <2>2. /\ (Asked(q)' => Asked(q)) /\ AskedOnce(q)'
          /\ Asks(toWorker[1], q) => Asked(q) /\ ~Asked(q)'
      BY <2>0, <2>1, HeardAsks DEF Waiting
    <2>3. /\ task'[toWorker[1].id] = "spawned" /\ UNCHANGED call
          /\ \A p \in Tasks : p # toWorker[1].id => task'[p] = task[p]
      BY <1>15, <2>1 DEF ReadSynth, Heard, Typed, TaskTyped, callVars
    <2>4. q = toWorker[1].id => Asked(q) /\ ~Asked(q)'  BY <2>1, <2>2
    <2> QED  BY <2>0, <2>2, <2>3, <2>4 DEF Waiting
  <1>16. ASSUME ReadCancel PROVE AskInv'
    <2> SUFFICES ASSUME NEW q \in Tasks PROVE Waiting(q)'  BY DEF AskInv
    <2>0. Waiting(q) /\ q \in Calls  BY CallFacts DEF AskInv
    <2>1. (Asked(q)' => Asked(q)) /\ AskedOnce(q)'  BY <1>16, <2>0, CancelFacts, HeardAsks DEF Waiting
    <2> QED  BY <1>16, <2>0, <2>1 DEF ReadCancel, Waiting, callVars
  <1>17. ASSUME NEW r \in Tasks, TaskRegister(r) PROVE AskInv'
    <2> SUFFICES ASSUME NEW q \in Tasks PROVE Waiting(q)'  BY DEF AskInv
    <2>0. Waiting(q) /\ q \in Calls  BY CallFacts DEF AskInv
    <2> QED  BY <1>17, <2>0, ReplyAt DEF TaskRegister, Waiting, Asked, AskedOnce, Typed, TaskTyped, netVars, callVars
  <1>18. ASSUME NEW r \in Tasks, TaskOverride(r) PROVE AskInv'
    <2> SUFFICES ASSUME NEW q \in Tasks PROVE Waiting(q)'  BY DEF AskInv
    <2>0. Waiting(q) /\ q \in Calls  BY CallFacts DEF AskInv
    <2> QED  BY <1>18, <2>0, ReplyAt DEF TaskOverride, Waiting, Asked, AskedOnce, Typed, TaskTyped, netVars, callVars
  <1>19. ASSUME NEW r \in Tasks, TaskPickUp(r) PROVE AskInv'
    <2> SUFFICES ASSUME NEW q \in Tasks PROVE Waiting(q)'  BY DEF AskInv
    <2>0. Waiting(q) /\ q \in Calls  BY CallFacts DEF AskInv
    <2> QED  BY <1>19, <2>0, ReplyAt DEF TaskPickUp, Waiting, Asked, AskedOnce, Typed, TaskTyped, netVars, callVars
  <1>20. ASSUME NEW r \in Tasks, TaskGenerate(r) PROVE AskInv'
    <2> SUFFICES ASSUME NEW q \in Tasks PROVE Waiting(q)'  BY DEF AskInv
    <2>0. Waiting(q) /\ q \in Calls  BY CallFacts DEF AskInv
    <2> QED  BY <1>20, <2>0, ReplyAt DEF TaskGenerate, Waiting, Asked, AskedOnce, Typed, TaskTyped, netVars, callVars
  <1>21. ASSUME NEW r \in Streams, TaskChunk(r) PROVE AskInv'
    <2> SUFFICES ASSUME NEW q \in Tasks PROVE Waiting(q)'  BY DEF AskInv
    <2>0. Waiting(q) /\ q \in Calls  BY CallFacts DEF AskInv
    <2> QED  BY <1>21, <2>0, ReplyAt DEF TaskChunk, Waiting, Asked, AskedOnce, Typed, TaskTyped, netVars, callVars
  <1>22. ASSUME NEW r \in Tasks, TaskFails(r) PROVE AskInv'
    <2> SUFFICES ASSUME NEW q \in Tasks PROVE Waiting(q)'  BY DEF AskInv
    <2>0. Waiting(q) /\ q \in Calls  BY CallFacts DEF AskInv
    <2> QED  BY <1>22, <2>0, ReplyAt DEF TaskFails, Waiting, Asked, AskedOnce, Typed, TaskTyped, netVars, callVars
  <1>23. ASSUME NEW r \in Tasks, TaskDiscards(r) PROVE AskInv'
    <2> SUFFICES ASSUME NEW q \in Tasks PROVE Waiting(q)'  BY DEF AskInv
    <2>0. Waiting(q) /\ q \in Calls  BY CallFacts DEF AskInv
    <2> QED  BY <1>23, <2>0, ReplyAt DEF TaskDiscards, Waiting, Asked, AskedOnce, Typed, TaskTyped, netVars, callVars
  <1>24. ASSUME NEW r \in Tasks, TaskSucceeds(r) PROVE AskInv'
    <2> SUFFICES ASSUME NEW q \in Tasks PROVE Waiting(q)'  BY DEF AskInv
    <2>0. Waiting(q) /\ q \in Calls  BY CallFacts DEF AskInv
    <2> QED  BY <1>24, <2>0, ReplyAt DEF TaskSucceeds, Waiting, Asked, AskedOnce, Typed, TaskTyped, netVars, callVars
  <1>25. ASSUME NEW r \in Tasks, TaskWrite(r) PROVE AskInv'
    <2> SUFFICES ASSUME NEW q \in Tasks PROVE Waiting(q)'  BY DEF AskInv
    <2>0. Waiting(q) /\ q \in Calls  BY CallFacts DEF AskInv
    <2> QED  BY <1>25, <2>0, ReplyAt DEF TaskWrite, Waiting, Asked, AskedOnce, Typed, TaskTyped, netVars, callVars
  <1>26. ASSUME WorkerDies PROVE AskInv'
    <2> SUFFICES ASSUME NEW q \in Tasks PROVE Waiting(q)'  BY DEF AskInv
    <2>0. Waiting(q) /\ q \in Calls  BY CallFacts DEF AskInv
    <2> QED  BY <1>26, <2>0, DiesFacts DEF WorkerDies, Waiting, Asked, AskedOnce, callVars
  <1>27. ASSUME NEW r \in Calls, Cancel(r)
        PROVE  AskInv'
    BY <1>1, <1>27 DEF Cancel, callVars, linkVars, netVars, workVars
  <1>28. ASSUME NEW r \in Streams, Pass(r) \/ ClientGone(r)
        PROVE  AskInv'
    BY <1>1, <1>28 DEF Pass, ClientGone, callVars, linkVars, netVars, workVars
  <1>29. ASSUME NEW r \in Tasks, TaskUnlock(r)
        PROVE  AskInv'
    BY <1>1, <1>29 DEF TaskUnlock, callVars, linkVars, netVars, workVars
  <1>30. ASSUME ReadAnswer \/ PutAnswer \/ ReadFails \/ ClosePending \/ ClosePendingEnd \/ Close
        PROVE  AskInv'
    BY <1>1, <1>30 DEF ReadAnswer, PutAnswer, ReadFails, ClosePending, ClosePendingEnd, Close, callVars,
        linkVars, netVars, workVars
  <1> QED
    BY <1>1, <1>2, <1>3, <1>4, <1>5, <1>6, <1>7, <1>8, <1>9, <1>10, <1>11, <1>12, <1>13, <1>14,
       <1>15, <1>16, <1>17, <1>18, <1>19, <1>20, <1>21, <1>22, <1>23, <1>24, <1>25, <1>26,
       <1>27, <1>28, <1>29, <1>30
    DEF Next, CallStep, StreamStep, ReaderStep, WorkerLoop, TaskStep

(* The connection after a step, seen from one task. *)
LEMMA ReadEnds ==
  ASSUME Typed, toParent # <<>>, toParent' = Tail(toParent), NEW q \in Tasks, EndsTask(q), UNCHANGED task
  PROVE  /\ EndsTask(q)' /\ (Mentioned(q)' => Mentioned(q))
         /\ toParent[1].id = q /\ toParent[1].type \in Terminal => task[q] = "ended" /\ ~Mentioned(q)'
  <1>1. ASSUME NEW i \in 1 .. Len(toParent')
        PROVE  i + 1 \in 2 .. Len(toParent) /\ toParent'[i] = toParent[i + 1]
    BY ReadFacts
  <1>2. Mentioned(q)' => Mentioned(q)  BY <1>1 DEF Mentioned
  <1>3. EndsTask(q)'
    <2> SUFFICES ASSUME NEW i \in 1 .. Len(toParent'), toParent'[i].id = q, toParent'[i].type \in Terminal
                 PROVE  /\ task[q] = "ended"
                        /\ \A j \in (i + 1) .. Len(toParent') : toParent'[j].id # q
      BY DEF EndsTask
    <2>1. /\ task[q] = "ended"
          /\ \A j \in (i + 2) .. Len(toParent) : toParent[j].id # q
      BY <1>1 DEF EndsTask
    <2>2. ASSUME NEW j \in (i + 1) .. Len(toParent') PROVE toParent'[j].id # q
      <3>1. j \in 1 .. Len(toParent') /\ j + 1 \in (i + 2) .. Len(toParent)  BY ReadFacts
      <3> QED  BY <1>1, <2>1, <3>1
    <2> QED  BY <2>1, <2>2
  <1>4. ASSUME toParent[1].id = q, toParent[1].type \in Terminal
        PROVE  task[q] = "ended" /\ ~Mentioned(q)'
    <2>1. 1 \in 1 .. Len(toParent) /\ 1 + 1 = 2  BY ReadFacts
    <2>2. task[q] = "ended" /\ \A j \in 2 .. Len(toParent) : toParent[j].id # q
      BY <1>4, <2>1 DEF EndsTask
    <2> QED  BY <1>1, <2>2 DEF Mentioned
  <1> QED  BY <1>2, <1>3, <1>4

LEMMA SaidEnds ==
  ASSUME NEW a, Said(a), NEW q \in Tasks, EndsTask(q), task'[q] = task[q], a.id # q
  PROVE  EndsTask(q)' /\ (Mentioned(q)' => Mentioned(q))
  <1>1. ASSUME NEW i \in 1 .. Len(toParent'), toParent'[i].id = q
        PROVE  i \in 1 .. Len(toParent) /\ toParent'[i] = toParent[i]
    BY <1>1 DEF Said
  <1>2. Mentioned(q)' => Mentioned(q)  BY <1>1 DEF Mentioned
  <1>3. EndsTask(q)'
    <2> SUFFICES ASSUME NEW i \in 1 .. Len(toParent'), toParent'[i].id = q, toParent'[i].type \in Terminal
                 PROVE  /\ task[q] = "ended"
                        /\ \A j \in (i + 1) .. Len(toParent') : toParent'[j].id # q
      BY DEF EndsTask
    <2>1. /\ task[q] = "ended"
          /\ \A j \in (i + 1) .. Len(toParent) : toParent[j].id # q
      BY <1>1 DEF EndsTask
    <2>2. ASSUME NEW j \in (i + 1) .. Len(toParent'), toParent'[j].id = q PROVE FALSE
      <3>1. j \in 1 .. Len(toParent')  BY DEF Said
      <3>2. j \in 1 .. Len(toParent) /\ toParent'[j] = toParent[j]  BY <1>1, <2>2, <3>1
      <3>3. j \in (i + 1) .. Len(toParent)  BY <3>2 DEF Said
      <3> QED  BY <2>1, <2>2, <3>2, <3>3
    <2> QED  BY <2>1, <2>2
  <1> QED  BY <1>2, <1>3

LEMMA EndsStep == ASSUME Typed, FormInv, AskInv, LastOfTask, Next PROVE LastOfTask'
  <1>1. CASE UNCHANGED <<task, toParent>>
    BY <1>1 DEF LastOfTask, EndsTask
  <1>2. ASSUME ReadAnswer PROVE LastOfTask'
    <2> SUFFICES ASSUME NEW q \in Tasks PROVE EndsTask(q)'  BY DEF LastOfTask
    <2>0. EndsTask(q)  BY DEF LastOfTask
    <2> QED  BY <1>2, <2>0, ReadEnds DEF ReadAnswer, workVars
  <1>3. ASSUME ReadInline PROVE LastOfTask'
    <2> SUFFICES ASSUME NEW q \in Tasks PROVE EndsTask(q)'  BY DEF LastOfTask
    <2>0. EndsTask(q)  BY DEF LastOfTask
    <2> QED  BY <1>3, <2>0, InlineFacts, SaidEnds, CallFacts DEF ReadInline, workVars
  <1>4. ASSUME ReadSynth PROVE LastOfTask'
    <2> SUFFICES ASSUME NEW q \in Tasks PROVE EndsTask(q)'  BY DEF LastOfTask
    <2>0. EndsTask(q)  BY DEF LastOfTask
    <2>1. /\ Heard /\ toWorker[1].id \in Tasks /\ Asks(toWorker[1], toWorker[1].id)
          /\ 1 \in 1 .. Len(toWorker) /\ toParent' = toParent
      BY <1>4, HeardFacts DEF ReadSynth, Typed, Heard, Asks
    <2>2. task[toWorker[1].id] = "none"  BY <2>1 DEF AskInv, Waiting, Asked
    <2>3. \A p \in Tasks : p # toWorker[1].id => task'[p] = task[p]
      BY <1>4, <2>1 DEF ReadSynth, Heard, Typed, TaskTyped
    <2> QED  BY <2>0, <2>1, <2>2, <2>3 DEF EndsTask
  <1>5. ASSUME ReadCancel PROVE LastOfTask'
    <2> SUFFICES ASSUME NEW q \in Tasks PROVE EndsTask(q)'  BY DEF LastOfTask
    <2>0. EndsTask(q)  BY DEF LastOfTask
    <2> QED  BY <1>5, <2>0, CancelFacts, SaidEnds, CallFacts DEF ReadCancel
  <1>6. ASSUME NEW r \in Tasks, TaskRegister(r) PROVE LastOfTask'
    <2> SUFFICES ASSUME NEW q \in Tasks PROVE EndsTask(q)'  BY DEF LastOfTask
    <2>0. EndsTask(q)  BY DEF LastOfTask
    <2> QED  BY <1>6, <2>0 DEF TaskRegister, EndsTask, Typed, TaskTyped, netVars
  <1>7. ASSUME NEW r \in Tasks, TaskOverride(r) PROVE LastOfTask'
    <2> SUFFICES ASSUME NEW q \in Tasks PROVE EndsTask(q)'  BY DEF LastOfTask
    <2>0. EndsTask(q)  BY DEF LastOfTask
    <2> QED  BY <1>7, <2>0 DEF TaskOverride, EndsTask, Typed, TaskTyped, netVars
  <1>8. ASSUME NEW r \in Tasks, TaskPickUp(r) PROVE LastOfTask'
    <2> SUFFICES ASSUME NEW q \in Tasks PROVE EndsTask(q)'  BY DEF LastOfTask
    <2>0. EndsTask(q)  BY DEF LastOfTask
    <2> QED  BY <1>8, <2>0 DEF TaskPickUp, EndsTask, Typed, TaskTyped, netVars
  <1>9. ASSUME NEW r \in Tasks, TaskGenerate(r) PROVE LastOfTask'
    <2> SUFFICES ASSUME NEW q \in Tasks PROVE EndsTask(q)'  BY DEF LastOfTask
    <2>0. EndsTask(q)  BY DEF LastOfTask
    <2> QED  BY <1>9, <2>0 DEF TaskGenerate, EndsTask, Typed, TaskTyped, netVars
  <1>10. ASSUME NEW r \in Streams, TaskChunk(r) PROVE LastOfTask'
    <2> SUFFICES ASSUME NEW q \in Tasks PROVE EndsTask(q)'  BY DEF LastOfTask
    <2>0. EndsTask(q)  BY DEF LastOfTask
    <2> QED  BY <1>10, <2>0 DEF TaskChunk, EndsTask, Typed, TaskTyped, netVars
  <1>11. ASSUME NEW r \in Tasks, TaskFails(r) PROVE LastOfTask'
    <2> SUFFICES ASSUME NEW q \in Tasks PROVE EndsTask(q)'  BY DEF LastOfTask
    <2>0. EndsTask(q)  BY DEF LastOfTask
    <2> QED  BY <1>11, <2>0 DEF TaskFails, EndsTask, Typed, TaskTyped, netVars
  <1>12. ASSUME NEW r \in Tasks, TaskDiscards(r) PROVE LastOfTask'
    <2> SUFFICES ASSUME NEW q \in Tasks PROVE EndsTask(q)'  BY DEF LastOfTask
    <2>0. EndsTask(q)  BY DEF LastOfTask
    <2> QED  BY <1>12, <2>0 DEF TaskDiscards, EndsTask, Typed, TaskTyped, netVars
  <1>13. ASSUME NEW r \in Tasks, TaskSucceeds(r) PROVE LastOfTask'
    <2> SUFFICES ASSUME NEW q \in Tasks PROVE EndsTask(q)'  BY DEF LastOfTask
    <2>0. EndsTask(q)  BY DEF LastOfTask
    <2> QED  BY <1>13, <2>0 DEF TaskSucceeds, EndsTask, Typed, TaskTyped, netVars
  <1>14. ASSUME NEW r \in Tasks, TaskWrite(r) PROVE LastOfTask'
    <2> SUFFICES ASSUME NEW q \in Tasks PROVE EndsTask(q)'  BY DEF LastOfTask
    <2>0. EndsTask(q)  BY DEF LastOfTask
    <2>1. /\ Said(Written(r)) /\ Written(r).id = r /\ Written(r).type = reply[r]
          /\ task[r] = "write" /\ (reply[r] \in Terminal => task'[r] = "ended")
          /\ \A p \in Tasks : p # r => task'[p] = task[p]
      BY <1>14, WrittenFacts, SaidFacts DEF FormInv, TaskWrite, Typed, TaskTyped, Written
    <2>2. CASE q # r  BY <2>0, <2>1, <2>2, SaidEnds
    <2>3. CASE q = r
      <3>1. \A i \in 1 .. Len(toParent) : toParent[i].id = r => toParent[i].type \notin Terminal
        BY <2>0, <2>1, <2>3 DEF EndsTask
      <3> SUFFICES ASSUME NEW i \in 1 .. Len(toParent'), toParent'[i].id = r, toParent'[i].type \in Terminal
                   PROVE  /\ task'[r] = "ended"
                          /\ \A j \in (i + 1) .. Len(toParent') : toParent'[j].id # r
        BY <2>3 DEF EndsTask
      <3>2. i = Len(toParent) + 1 /\ reply[r] \in Terminal  BY <2>1, <3>1 DEF Said
      <3> QED  BY <2>1, <3>2 DEF Said
    <2> QED  BY <2>2, <2>3
  <1>15. ASSUME WorkerDies PROVE LastOfTask'
    <2> SUFFICES ASSUME NEW q \in Tasks PROVE EndsTask(q)'  BY DEF LastOfTask
    <2>0. EndsTask(q)  BY DEF LastOfTask
    <2> SUFFICES ASSUME NEW i \in 1 .. Len(toParent'), toParent'[i].id = q, toParent'[i].type \in Terminal
                 PROVE  /\ task'[q] = "ended"
                        /\ \A j \in (i + 1) .. Len(toParent') : toParent'[j].id # q
      BY DEF EndsTask
    <2>1. \A j \in 1 .. Len(toParent') : j \in 1 .. Len(toParent) /\ toParent'[j] = toParent[j]
      BY <1>15, DiesFacts
    <2>2. task[q] = "ended" /\ \A j \in (i + 1) .. Len(toParent) : toParent[j].id # q
      BY <2>0, <2>1 DEF EndsTask
    <2>3. \A j \in (i + 1) .. Len(toParent') : j \in 1 .. Len(toParent') /\ j \in (i + 1) .. Len(toParent)
      BY <1>15, DiesFacts
    <2> QED  BY <1>15, <2>1, <2>2, <2>3 DEF WorkerDies
  <1>16. ASSUME NEW r \in Calls, Start(r) \/ StartClosed(r) \/ Register(r) \/ Write(r) \/ WriteFails(r) \/
           Receive(r) \/ TimeOut(r) \/ GiveUp(r) \/ Leave(r) \/ Cancel(r)
        PROVE  LastOfTask'
    BY <1>1, <1>16 DEF Start, StartClosed, Register, Write, WriteFails, Receive, TimeOut, GiveUp, Leave,
        Cancel, callVars, linkVars, netVars, workVars
  <1>17. ASSUME NEW r \in Streams, StreamTake(r) \/ StreamSend(r) \/ StreamCancel(r) \/ Pass(r) \/ ClientGone(r)
        PROVE  LastOfTask'
    BY <1>1, <1>17 DEF StreamTake, StreamSend, StreamCancel, Pass, ClientGone, callVars, linkVars, netVars,
        workVars
  <1>18. ASSUME NEW r \in Tasks, TaskUnlock(r)
        PROVE  LastOfTask'
    BY <1>1, <1>18 DEF TaskUnlock, callVars, linkVars, netVars, workVars
  <1>19. ASSUME PutAnswer \/ ReadFails \/ ClosePending \/ ClosePendingEnd \/ Close
        PROVE  LastOfTask'
    BY <1>1, <1>19 DEF PutAnswer, ReadFails, ClosePending, ClosePendingEnd, Close, callVars, linkVars,
        netVars, workVars
  <1> QED
    BY <1>1, <1>2, <1>3, <1>4, <1>5, <1>6, <1>7, <1>8, <1>9, <1>10, <1>11, <1>12, <1>13, <1>14,
       <1>15, <1>16, <1>17, <1>18, <1>19
    DEF Next, CallStep, StreamStep, ReaderStep, WorkerLoop, TaskStep

LEMMA OverStep == ASSUME Typed, FormInv, CallInv, QuietInv, Next PROVE OverInv'
  <1> USE DEF CallInv, QuietInv
  <1>1. CASE UNCHANGED <<call, outcome, pending, reader, toWorker, task, toParent>>
    BY <1>1 DEF OverInv, Settled, Early, Over, Quiet, Asked, Mentioned
  <1>2. ASSUME NEW r \in Calls, Start(r) PROVE OverInv'
    <2> SUFFICES ASSUME NEW q \in Tasks PROVE Settled(q)'  BY DEF OverInv
    <2>0. Settled(q) /\ Waiting(q) /\ Tabled(q) /\ LastIsLast(q) /\ q \in Calls
      BY CallFacts DEF OverInv, AskInv, TableInv, LastInv
    <2>1. ~Early(q)' /\ call[q] \notin {"leave", "ended"} => ~Early(q)
      BY <2>0, ReplyAt DEF Early, Tabled
    <2> QED  BY <1>2, <2>0, <2>1 DEF Start, Settled, Early, Over, Quiet, Asked, Mentioned, Typed, CallTyped, linkVars, netVars, workVars
  <1>3. ASSUME NEW r \in Calls, StartClosed(r) PROVE OverInv'
    <2> SUFFICES ASSUME NEW q \in Tasks PROVE Settled(q)'  BY DEF OverInv
    <2>0. Settled(q) /\ Waiting(q) /\ Tabled(q) /\ LastIsLast(q) /\ q \in Calls
      BY CallFacts DEF OverInv, AskInv, TableInv, LastInv
    <2>1. ~Early(q)' /\ call[q] \notin {"leave", "ended"} => ~Early(q)
      BY <2>0, ReplyAt DEF Early, Tabled
    <2> QED  BY <1>3, <2>0, <2>1 DEF StartClosed, Settled, Early, Over, Quiet, Asked, Mentioned, Typed, CallTyped, linkVars, netVars, workVars
  <1>4. ASSUME NEW r \in Calls, Register(r) PROVE OverInv'
    <2> SUFFICES ASSUME NEW q \in Tasks PROVE Settled(q)'  BY DEF OverInv
    <2>0. Settled(q) /\ Waiting(q) /\ Tabled(q) /\ LastIsLast(q) /\ q \in Calls
      BY CallFacts DEF OverInv, AskInv, TableInv, LastInv
    <2>1. ~Early(q)' /\ call[q] \notin {"leave", "ended"} => ~Early(q)
      BY <2>0, ReplyAt DEF Early, Tabled
    <2> QED  BY <1>4, <2>0, <2>1 DEF Register, Settled, Early, Over, Quiet, Asked, Mentioned, Typed, CallTyped, linkVars, netVars, workVars
  <1>5. ASSUME NEW r \in Calls, Write(r) PROVE OverInv'
    <2> SUFFICES ASSUME NEW q \in Tasks PROVE Settled(q)'  BY DEF OverInv
    <2>0. Settled(q) /\ Waiting(q) /\ Tabled(q) /\ LastIsLast(q) /\ q \in Calls
      BY CallFacts DEF OverInv, AskInv, TableInv, LastInv
    <2>1. r \in Calls /\ Send([type |-> "call", id |-> r]) /\ call[r] = "write"  BY <1>5 DEF Write
    <2>2. CASE q = r
      BY <1>5, <2>0, <2>1, <2>2 DEF Write, Tabled, Settled, Over, Typed, CallTyped, linkVars
    <2>3. CASE q # r
      <3>1. ~Asks([type |-> "call", id |-> r], q)  BY <2>3 DEF Asks
      <3>2. Asked(q)' => Asked(q)  BY <2>0, <2>1, <3>1, RequestFacts, SendAsks DEF Waiting
      <3> QED  BY <1>5, <2>0, <2>3, <3>2 DEF Write, Settled, Early, Over, Quiet, Mentioned, Typed, CallTyped, linkVars, workVars
    <2> QED  BY <2>2, <2>3
  <1>6. ASSUME NEW r \in Calls, WriteFails(r) PROVE OverInv'
    <2> SUFFICES ASSUME NEW q \in Tasks PROVE Settled(q)'  BY DEF OverInv
    <2>0. Settled(q) /\ Waiting(q) /\ Tabled(q) /\ LastIsLast(q) /\ q \in Calls
      BY CallFacts DEF OverInv, AskInv, TableInv, LastInv
    <2>1. ~Early(q)' /\ call[q] \notin {"leave", "ended"} => ~Early(q)
      BY <2>0, ReplyAt DEF Early, Tabled
    <2> QED  BY <1>6, <2>0, <2>1 DEF WriteFails, Settled, Early, Over, Quiet, Asked, Mentioned, Typed, CallTyped, linkVars, netVars, workVars
  <1>7. ASSUME NEW r \in Calls, Receive(r) PROVE OverInv'
    <2> SUFFICES ASSUME NEW q \in Tasks PROVE Settled(q)'  BY DEF OverInv
    <2>0. Settled(q) /\ Waiting(q) /\ Tabled(q) /\ LastIsLast(q) /\ q \in Calls
      BY CallFacts DEF OverInv, AskInv, TableInv, LastInv
    <2>1. CASE q # r
      BY <1>7, <2>0, <2>1 DEF Receive, Settled, Early, Over, Quiet, Asked, Mentioned, Typed, CallTyped, linkVars, netVars, workVars
    <2>2. CASE q = r
      <3>0. r \in Calls /\ chan[r] # <<>> /\ r \notin Streams  BY <1>7, CallFacts DEF Receive
      <3>5. Took(r) /\ chan[r][1] \in Answers  BY <1>7, <3>0, TookFacts DEF Receive, Typed
      <3>6. 1 \in 1 .. Len(chan[r])  BY <3>0, <3>5 DEF Took, Typed, WayTyped
      <3>1. Took(r) /\ chan[r][1] \in Answers /\ 1 \in 1 .. Len(chan[r]) /\ r \notin Streams
        BY <3>0, <3>5, <3>6
      <3>2. chan[r][1].type \in Terminal  BY <3>1, NothingFacts DEF FormInv, ChanInv
      <3>3. r \notin pending  BY <2>0, <2>2, <3>1, <3>2 DEF LastIsLast
      <3>4. ~Early(q)  BY <1>7, <2>0, <2>2, ReplyAt DEF Early, Tabled, Receive
      <3> QED  BY <1>7, <2>0, <2>2, <3>3, <3>4 DEF Receive, Settled, Over, Quiet, Asked, Mentioned, linkVars, netVars, workVars
    <2> QED  BY <2>1, <2>2
  <1>8. ASSUME NEW r \in Calls, TimeOut(r) PROVE OverInv'
    <2> SUFFICES ASSUME NEW q \in Tasks PROVE Settled(q)'  BY DEF OverInv
    <2>0. Settled(q) /\ Waiting(q) /\ Tabled(q) /\ LastIsLast(q) /\ q \in Calls
      BY CallFacts DEF OverInv, AskInv, TableInv, LastInv
    <2>1. CASE q # r
      BY <1>8, <2>0, <2>1 DEF TimeOut, Settled, Early, Over, Quiet, Asked, Mentioned, Typed, CallTyped, linkVars, netVars, workVars
    <2>2. CASE q = r
      <3>1. q \in Synth  BY <1>8, <2>2, CallFacts, LinkAssumption DEF TimeOut
      <3> QED  BY <1>8, <2>2, <3>1 DEF TimeOut, Settled, Early, Typed, CallTyped
    <2> QED  BY <2>1, <2>2
  <1>9. ASSUME NEW r \in Calls, GiveUp(r) PROVE OverInv'
    <2> SUFFICES ASSUME NEW q \in Tasks PROVE Settled(q)'  BY DEF OverInv
    <2>0. Settled(q) /\ Waiting(q) /\ Tabled(q) /\ LastIsLast(q) /\ q \in Calls
      BY CallFacts DEF OverInv, AskInv, TableInv, LastInv
    <2>1. Send([type |-> "cancel", id |-> r]) => (Asked(q)' => Asked(q))
      <3>1. r \in Calls /\ ~Asks([type |-> "cancel", id |-> r], q)  BY CallFacts, RequestFacts DEF Asks
      <3> QED  BY <2>0, <3>1, RequestFacts, SendAsks DEF Waiting
    <2>2. UNCHANGED toWorker => (Asked(q)' => Asked(q))  BY DEF Asked
    <2>3. Asked(q)' => Asked(q)  BY <1>9, <2>1, <2>2 DEF GiveUp
    <2>4. CASE q # r
      BY <1>9, <2>0, <2>3, <2>4 DEF GiveUp, Settled, Early, Over, Quiet, Mentioned, Typed, CallTyped, linkVars, workVars
    <2>5. CASE q = r
      <3>1. q \in Synth  BY <1>9, <2>5, CallFacts DEF GiveUp
      <3> QED  BY <1>9, <2>5, <3>1 DEF GiveUp, Settled, Early, Typed, CallTyped
    <2> QED  BY <2>4, <2>5
  <1>10. ASSUME NEW r \in Calls, Leave(r) PROVE OverInv'
    <2> SUFFICES ASSUME NEW q \in Tasks PROVE Settled(q)'  BY DEF OverInv
    <2>0. Settled(q) /\ Waiting(q) /\ Tabled(q) /\ LastIsLast(q) /\ q \in Calls
      BY CallFacts DEF OverInv, AskInv, TableInv, LastInv
    <2>1. ~Early(q)' /\ call[q] \notin {"leave", "ended"} => ~Early(q)
      BY <2>0, ReplyAt DEF Early, Tabled
    <2> QED  BY <1>10, <2>0, <2>1 DEF Leave, Settled, Early, Over, Quiet, Asked, Mentioned, Typed, CallTyped, linkVars, netVars, workVars
  <1>11. ASSUME NEW r \in Streams, StreamTake(r) PROVE OverInv'
    <2> SUFFICES ASSUME NEW q \in Tasks PROVE Settled(q)'  BY DEF OverInv
    <2>0. Settled(q) /\ Waiting(q) /\ Tabled(q) /\ LastIsLast(q) /\ q \in Calls
      BY CallFacts DEF OverInv, AskInv, TableInv, LastInv
    <2>1. ~Early(q)' /\ call[q] \notin {"leave", "ended"} => ~Early(q)
      BY <2>0, ReplyAt DEF Early, Tabled
    <2> QED  BY <1>11, <2>0, <2>1 DEF StreamTake, Settled, Early, Over, Quiet, Asked, Mentioned, Typed, CallTyped, linkVars, netVars, workVars
  <1>12. ASSUME NEW r \in Streams, StreamSend(r) PROVE OverInv'
    <2> SUFFICES ASSUME NEW q \in Tasks PROVE Settled(q)'  BY DEF OverInv
    <2>0. Settled(q) /\ Waiting(q) /\ Tabled(q) /\ LastIsLast(q) /\ q \in Calls
      BY CallFacts DEF OverInv, AskInv, TableInv, LastInv
    <2>1. /\ r \in Calls /\ r \notin Synth /\ \A p \in Calls : p # r => call'[p] = call[p] /\ outcome'[p] = outcome[p]
          /\ call[r] = "send" /\ (held[r].type \in Terminal => r \notin pending)
          /\ held[r].type \notin Terminal => call'[r] = "wait"
          /\ UNCHANGED <<pending, reader, toWorker, toParent, task>>
      BY <1>12, CallFacts DEF StreamSend, LastInv, LastIsLast, Typed, CallTyped, linkVars, netVars, workVars
    <2> QED  BY <2>0, <2>1 DEF Settled, Early, Over, Quiet, Asked, Mentioned
  <1>13. ASSUME NEW r \in Streams, StreamCancel(r) PROVE OverInv'
    <2> SUFFICES ASSUME NEW q \in Tasks PROVE Settled(q)'  BY DEF OverInv
    <2>0. Settled(q) /\ Waiting(q) /\ Tabled(q) /\ LastIsLast(q) /\ q \in Calls
      BY CallFacts DEF OverInv, AskInv, TableInv, LastInv
    <2>1. Send([type |-> "cancel", id |-> r]) => (Asked(q)' => Asked(q))
      <3>1. r \in Calls /\ ~Asks([type |-> "cancel", id |-> r], q)  BY CallFacts, RequestFacts DEF Asks
      <3> QED  BY <2>0, <3>1, RequestFacts, SendAsks DEF Waiting
    <2>2. UNCHANGED toWorker => (Asked(q)' => Asked(q))  BY DEF Asked
    <2>3. Asked(q)' => Asked(q)  BY <1>13, <2>1, <2>2 DEF StreamCancel
    <2> QED  BY <1>13, <2>0, <2>3 DEF StreamCancel, Settled, Early, Over, Quiet, Mentioned, linkVars, workVars
  <1>14. ASSUME ReadAnswer PROVE OverInv'
    <2> SUFFICES ASSUME NEW q \in Tasks PROVE Settled(q)'  BY DEF OverInv
    <2>0. Settled(q) /\ Waiting(q) /\ Tabled(q) /\ LastIsLast(q) /\ q \in Calls
      BY CallFacts DEF OverInv, AskInv, TableInv, LastInv
    <2>1. /\ Head(toParent) = toParent[1] /\ reader = "read"
          /\ UNCHANGED <<call, outcome, toWorker, task>>
      BY <1>14, ReadFacts DEF ReadAnswer, workVars
    <2>2. /\ Mentioned(q)' => Mentioned(q)
          /\ toParent[1].id = q /\ toParent[1].type \in Terminal => task[q] = "ended" /\ ~Mentioned(q)'
      BY <1>14, <2>1, ReadEnds DEF ReadAnswer, LastOfTask
    <2>3. CASE toParent[1].id = q /\ toParent[1].type \in Terminal
      BY <2>0, <2>1, <2>2, <2>3 DEF Settled, Quiet, Waiting, Asked
    <2>4. CASE ~(toParent[1].id = q /\ toParent[1].type \in Terminal)
      <3>1. q \in pending' <=> q \in pending  BY <1>14, <2>1, <2>4 DEF ReadAnswer
      <3> QED  BY <2>0, <2>1, <2>2, <3>1 DEF Settled, Early, Over, Quiet, Asked
    <2> QED  BY <2>3, <2>4
  <1>15. ASSUME PutAnswer PROVE OverInv'
    BY <1>15 DEF PutAnswer, OverInv, Settled, Early, Over, Quiet, Asked, Mentioned, callVars, linkVars, netVars, workVars
  <1>16. ASSUME ReadFails PROVE OverInv'
    BY <1>16 DEF ReadFails, OverInv, Settled, Early, Over, Quiet, Asked, Mentioned, callVars, linkVars, netVars, workVars
  <1>17. ASSUME ClosePending PROVE OverInv'
    BY <1>17 DEF ClosePending, OverInv, Settled, Early, Over, Quiet, Asked, Mentioned, callVars, linkVars, netVars, workVars
  <1>18. ASSUME ClosePendingEnd PROVE OverInv'
    BY <1>18 DEF ClosePendingEnd, OverInv, Settled, Early, Over, Quiet, Asked, Mentioned, callVars, linkVars, netVars, workVars
  <1>19. ASSUME ReadInline PROVE OverInv'
    <2> SUFFICES ASSUME NEW q \in Tasks PROVE Settled(q)'  BY DEF OverInv
    <2>0. Settled(q) /\ Waiting(q) /\ Tabled(q) /\ LastIsLast(q) /\ q \in Calls
      BY CallFacts DEF OverInv, AskInv, TableInv, LastInv
    <2>1. (Asked(q)' => Asked(q)) /\ UNCHANGED <<call, outcome, pending, reader, task>>
      BY <1>19, <2>0, InlineFacts, HeardAsks DEF Waiting, ReadInline, callVars, linkVars, workVars
    <2>2. Mentioned(q)' => Mentioned(q)
      BY <1>19, <2>1, InlineFacts, SaidEnds, CallFacts DEF LastOfTask
    <2> QED  BY <2>0, <2>1, <2>2 DEF Settled, Early, Over, Quiet
  <1>20. ASSUME ReadSynth PROVE OverInv'
    <2> SUFFICES ASSUME NEW q \in Tasks PROVE Settled(q)'  BY DEF OverInv
    <2>0. Settled(q) /\ Waiting(q) /\ Tabled(q) /\ LastIsLast(q) /\ q \in Calls
      BY CallFacts DEF OverInv, AskInv, TableInv, LastInv
    <2>1. Heard /\ toWorker[1].id \in Tasks /\ Asks(toWorker[1], toWorker[1].id)
          /\ UNCHANGED <<call, outcome, pending, reader, toParent>>
      BY <1>20, HeardFacts DEF ReadSynth, Typed, Heard, Asks, callVars, linkVars
    <2>2. (Asked(q)' => Asked(q)) /\ (Asks(toWorker[1], q) => Asked(q))
      BY <2>0, <2>1, HeardAsks DEF Waiting
    <2>3. \A p \in Tasks : p # toWorker[1].id => task'[p] = task[p]
      BY <1>20, <2>1 DEF ReadSynth, Heard, Typed, TaskTyped
    <2>4. q = toWorker[1].id => Asked(q)  BY <2>1, <2>2
    <2> QED  BY <2>0, <2>1, <2>2, <2>3, <2>4 DEF Settled, Early, Over, Quiet, Mentioned
  <1>21. ASSUME ReadCancel PROVE OverInv'
    <2> SUFFICES ASSUME NEW q \in Tasks PROVE Settled(q)'  BY DEF OverInv
    <2>0. Settled(q) /\ Waiting(q) /\ Tabled(q) /\ LastIsLast(q) /\ q \in Calls
      BY CallFacts DEF OverInv, AskInv, TableInv, LastInv
    <2>1. (Asked(q)' => Asked(q)) /\ UNCHANGED <<call, outcome, pending, reader, task>>
      BY <1>21, <2>0, CancelFacts, HeardAsks DEF Waiting, ReadCancel, callVars, linkVars
    <2>2. Mentioned(q)' => Mentioned(q)
      BY <1>21, <2>1, CancelFacts, SaidEnds, CallFacts DEF LastOfTask
    <2> QED  BY <2>0, <2>1, <2>2 DEF Settled, Early, Over, Quiet
  <1>22. ASSUME NEW r \in Tasks, TaskRegister(r) PROVE OverInv'
    <2> SUFFICES ASSUME NEW q \in Tasks PROVE Settled(q)'  BY DEF OverInv
    <2>0. Settled(q) /\ Waiting(q) /\ Tabled(q) /\ LastIsLast(q) /\ q \in Calls
      BY CallFacts DEF OverInv, AskInv, TableInv, LastInv
    <2>1. q # r => task'[q] = task[q]  BY <1>22 DEF TaskRegister, Typed, TaskTyped
    <2>2. task[r] \notin {"none", "ended"}  BY <1>22 DEF TaskRegister
    <2> QED  BY <1>22, <2>0, <2>1, <2>2 DEF TaskRegister, Settled, Early, Over, Quiet, Asked, Mentioned, netVars, callVars, linkVars
  <1>23. ASSUME NEW r \in Tasks, TaskOverride(r) PROVE OverInv'
    <2> SUFFICES ASSUME NEW q \in Tasks PROVE Settled(q)'  BY DEF OverInv
    <2>0. Settled(q) /\ Waiting(q) /\ Tabled(q) /\ LastIsLast(q) /\ q \in Calls
      BY CallFacts DEF OverInv, AskInv, TableInv, LastInv
    <2>1. q # r => task'[q] = task[q]  BY <1>23 DEF TaskOverride, Typed, TaskTyped
    <2>2. task[r] \notin {"none", "ended"}  BY <1>23 DEF TaskOverride
    <2> QED  BY <1>23, <2>0, <2>1, <2>2 DEF TaskOverride, Settled, Early, Over, Quiet, Asked, Mentioned, netVars, callVars, linkVars
  <1>24. ASSUME NEW r \in Tasks, TaskPickUp(r) PROVE OverInv'
    <2> SUFFICES ASSUME NEW q \in Tasks PROVE Settled(q)'  BY DEF OverInv
    <2>0. Settled(q) /\ Waiting(q) /\ Tabled(q) /\ LastIsLast(q) /\ q \in Calls
      BY CallFacts DEF OverInv, AskInv, TableInv, LastInv
    <2>1. q # r => task'[q] = task[q]  BY <1>24 DEF TaskPickUp, Typed, TaskTyped
    <2>2. task[r] \notin {"none", "ended"}  BY <1>24 DEF TaskPickUp
    <2> QED  BY <1>24, <2>0, <2>1, <2>2 DEF TaskPickUp, Settled, Early, Over, Quiet, Asked, Mentioned, netVars, callVars, linkVars
  <1>25. ASSUME NEW r \in Tasks, TaskGenerate(r) PROVE OverInv'
    <2> SUFFICES ASSUME NEW q \in Tasks PROVE Settled(q)'  BY DEF OverInv
    <2>0. Settled(q) /\ Waiting(q) /\ Tabled(q) /\ LastIsLast(q) /\ q \in Calls
      BY CallFacts DEF OverInv, AskInv, TableInv, LastInv
    <2>1. q # r => task'[q] = task[q]  BY <1>25 DEF TaskGenerate, Typed, TaskTyped
    <2>2. task[r] \notin {"none", "ended"}  BY <1>25 DEF TaskGenerate
    <2> QED  BY <1>25, <2>0, <2>1, <2>2 DEF TaskGenerate, Settled, Early, Over, Quiet, Asked, Mentioned, netVars, callVars, linkVars
  <1>26. ASSUME NEW r \in Streams, TaskChunk(r) PROVE OverInv'
    <2> SUFFICES ASSUME NEW q \in Tasks PROVE Settled(q)'  BY DEF OverInv
    <2>0. Settled(q) /\ Waiting(q) /\ Tabled(q) /\ LastIsLast(q) /\ q \in Calls
      BY CallFacts DEF OverInv, AskInv, TableInv, LastInv
    <2>1. q # r => task'[q] = task[q]  BY <1>26 DEF TaskChunk, Typed, TaskTyped
    <2>2. task[r] \notin {"none", "ended"}  BY <1>26 DEF TaskChunk
    <2> QED  BY <1>26, <2>0, <2>1, <2>2 DEF TaskChunk, Settled, Early, Over, Quiet, Asked, Mentioned, netVars, callVars, linkVars
  <1>27. ASSUME NEW r \in Tasks, TaskFails(r) PROVE OverInv'
    <2> SUFFICES ASSUME NEW q \in Tasks PROVE Settled(q)'  BY DEF OverInv
    <2>0. Settled(q) /\ Waiting(q) /\ Tabled(q) /\ LastIsLast(q) /\ q \in Calls
      BY CallFacts DEF OverInv, AskInv, TableInv, LastInv
    <2>1. q # r => task'[q] = task[q]  BY <1>27 DEF TaskFails, Typed, TaskTyped
    <2>2. task[r] \notin {"none", "ended"}  BY <1>27 DEF TaskFails
    <2> QED  BY <1>27, <2>0, <2>1, <2>2 DEF TaskFails, Settled, Early, Over, Quiet, Asked, Mentioned, netVars, callVars, linkVars
  <1>28. ASSUME NEW r \in Tasks, TaskDiscards(r) PROVE OverInv'
    <2> SUFFICES ASSUME NEW q \in Tasks PROVE Settled(q)'  BY DEF OverInv
    <2>0. Settled(q) /\ Waiting(q) /\ Tabled(q) /\ LastIsLast(q) /\ q \in Calls
      BY CallFacts DEF OverInv, AskInv, TableInv, LastInv
    <2>1. q # r => task'[q] = task[q]  BY <1>28 DEF TaskDiscards, Typed, TaskTyped
    <2>2. task[r] \notin {"none", "ended"}  BY <1>28 DEF TaskDiscards
    <2> QED  BY <1>28, <2>0, <2>1, <2>2 DEF TaskDiscards, Settled, Early, Over, Quiet, Asked, Mentioned, netVars, callVars, linkVars
  <1>29. ASSUME NEW r \in Tasks, TaskSucceeds(r) PROVE OverInv'
    <2> SUFFICES ASSUME NEW q \in Tasks PROVE Settled(q)'  BY DEF OverInv
    <2>0. Settled(q) /\ Waiting(q) /\ Tabled(q) /\ LastIsLast(q) /\ q \in Calls
      BY CallFacts DEF OverInv, AskInv, TableInv, LastInv
    <2>1. q # r => task'[q] = task[q]  BY <1>29 DEF TaskSucceeds, Typed, TaskTyped
    <2>2. task[r] \notin {"none", "ended"}  BY <1>29 DEF TaskSucceeds
    <2> QED  BY <1>29, <2>0, <2>1, <2>2 DEF TaskSucceeds, Settled, Early, Over, Quiet, Asked, Mentioned, netVars, callVars, linkVars
  <1>30. ASSUME NEW r \in Tasks, TaskWrite(r) PROVE OverInv'
    <2> SUFFICES ASSUME NEW q \in Tasks PROVE Settled(q)'  BY DEF OverInv
    <2>0. Settled(q) /\ Waiting(q) /\ Tabled(q) /\ LastIsLast(q) /\ q \in Calls
      BY CallFacts DEF OverInv, AskInv, TableInv, LastInv
    <2>1. /\ Said(Written(r)) /\ Written(r).id = r /\ task[r] = "write"
          /\ \A p \in Tasks : p # r => task'[p] = task[p]
          /\ UNCHANGED <<call, outcome, pending, reader, toWorker>>
      BY <1>30, WrittenFacts, SaidFacts DEF FormInv, TaskWrite, Typed, TaskTyped, Written, callVars, linkVars
    <2>2. CASE q = r  BY <2>0, <2>1, <2>2 DEF Settled, Early, Over, Quiet
    <2>3. CASE q # r
      <3>1. Mentioned(q)' => Mentioned(q)  BY <2>1, <2>3, SaidEnds DEF LastOfTask
      <3> QED  BY <2>0, <2>1, <2>3, <3>1 DEF Settled, Early, Over, Quiet, Asked
    <2> QED  BY <2>2, <2>3
  <1>31. ASSUME WorkerDies PROVE OverInv'
    <2> SUFFICES ASSUME NEW q \in Tasks PROVE Settled(q)'  BY DEF OverInv
    <2>0. Settled(q) /\ Waiting(q) /\ Tabled(q) /\ LastIsLast(q) /\ q \in Calls
      BY CallFacts DEF OverInv, AskInv, TableInv, LastInv
    <2>1. ~Asked(q)'  BY <1>31, DiesFacts DEF Asked
    <2>2. Mentioned(q)' => Mentioned(q)  BY <1>31, DiesFacts DEF Mentioned
    <2> QED  BY <1>31, <2>0, <2>1, <2>2 DEF WorkerDies, Settled, Early, Over, Quiet, callVars, linkVars
  <1>32. ASSUME NEW r \in Calls, Cancel(r)
        PROVE  OverInv'
    BY <1>1, <1>32 DEF Cancel, callVars, linkVars, netVars, workVars
  <1>33. ASSUME NEW r \in Streams, Pass(r) \/ ClientGone(r)
        PROVE  OverInv'
    BY <1>1, <1>33 DEF Pass, ClientGone, callVars, linkVars, netVars, workVars
  <1>34. ASSUME NEW r \in Tasks, TaskUnlock(r)
        PROVE  OverInv'
    BY <1>1, <1>34 DEF TaskUnlock, callVars, linkVars, netVars, workVars
  <1>35. ASSUME Close
        PROVE  OverInv'
    BY <1>1, <1>35 DEF Close, callVars, linkVars, netVars, workVars
  <1> QED
    BY <1>1, <1>2, <1>3, <1>4, <1>5, <1>6, <1>7, <1>8, <1>9, <1>10, <1>11, <1>12, <1>13, <1>14,
       <1>15, <1>16, <1>17, <1>18, <1>19, <1>20, <1>21, <1>22, <1>23, <1>24, <1>25, <1>26,
       <1>27, <1>28, <1>29, <1>30, <1>31, <1>32, <1>33, <1>34, <1>35
    DEF Next, CallStep, StreamStep, ReaderStep, WorkerLoop, TaskStep

----------------------------------------------------------------------------
(* The numbers of chunks: how much is between the connection and the client *)

LEMMA CountFacts ==
  ASSUME Typed, NEW r \in Streams
  PROVE  /\ r \in Calls /\ r \in Tasks /\ r \notin Unary /\ r \notin Synth
         /\ given[r] \in Nat /\ Len(out[r]) \in Nat /\ Passed(r) \in Nat
         /\ InHand(r) \in {0, 1} /\ InCarried(r) \in {0, 1}
         /\ Len(chan[r]) \in Nat /\ InChan(r) \in Nat /\ Base(r) \in Nat
         /\ chunks[r] \in 0 .. MaxChunks /\ MaxChunks \in Nat /\ Made(r) \in Int
  <1>1. given[r] \in Nat /\ Len(out[r]) \in Nat /\ chunks[r] \in 0 .. MaxChunks /\ MaxChunks \in Nat
    BY CapFacts DEF Typed, OutTyped, TaskTyped
  <1>2. r \in Calls /\ r \in Tasks /\ r \notin Unary /\ r \notin Synth  BY CallFacts
  <1>3. chan[r] \in Seq(Answers)  BY <1>2 DEF Typed, WayTyped
  <1>4. Len(chan[r]) \in Nat /\ (chan[r] = <<>> <=> Len(chan[r]) = 0)  BY <1>3, EmptyFacts
  <1>5. InChan(r) \in Nat  BY <1>4 DEF InChan
  <1>6. InHand(r) \in {0, 1} /\ InCarried(r) \in {0, 1}  BY DEF InHand, InCarried
  <1>7. Passed(r) \in Nat  BY <1>1 DEF Passed
  <1>8. Base(r) \in Nat  BY <1>5, <1>6, <1>7 DEF Base
  <1>9. Made(r) \in Int  BY <1>1 DEF Made
  <1> QED  BY <1>1, <1>2, <1>4, <1>5, <1>6, <1>7, <1>8, <1>9

NoEnd(r) == \A i \in 1 .. Len(chan[r]) : chan[r][i].type \notin Terminal

LEMMA NoEndFacts ==
  ASSUME Typed, LastInv, NEW r \in Streams
  PROVE  /\ r \in pending \/ carried.id = r => NoEnd(r)
         /\ NoEnd(r) => InChan(r) = Len(chan[r])
  <1>1. r \in pending \/ carried.id = r => NoEnd(r)
    BY CountFacts DEF LastInv, LastIsLast, NoEnd
  <1>2. chan[r] # <<>> => Len(chan[r]) \in 1 .. Len(chan[r])
    BY CountFacts, EmptyFacts DEF Typed, WayTyped
  <1> QED  BY <1>1, <1>2 DEF NoEnd, InChan

LEMMA TookCount ==
  ASSUME Typed, LastInv, NEW r \in Streams, Took(r)
  PROVE  /\ chan[r][1].type = "chunk" => InChan(r)' = InChan(r) - 1
         /\ chan[r][1].type \in Terminal => InChan(r) = 0 /\ InChan(r)' = 0 /\ Len(chan'[r]) = 0
  <1>1. /\ r \in Calls /\ LastIsLast(r) /\ chan'[r] \in Seq(Answers) /\ 1 \in 1 .. Len(chan[r])
        /\ Len(chan[r]) \in Nat \ {0} /\ Len(chan'[r]) = Len(chan[r]) - 1 /\ chan[r] # <<>>
    BY CallFacts DEF LastInv, Took
  <1>6. chan'[r] = <<>> <=> Len(chan'[r]) = 0  BY <1>1, EmptyFacts
  <1>2. chan'[r] = <<>> <=> Len(chan[r]) = 1  BY <1>1, <1>6
  <1>8. /\ Len(chan[r]) \in Int /\ Len(chan[r]) >= 1
        /\ Len(chan'[r]) \in Int /\ Len(chan'[r]) = Len(chan[r]) - 1
    BY <1>1
  <1>7. Len(chan[r]) > 1 => Len(chan'[r]) \in 1 .. Len(chan'[r]) /\ Len(chan'[r]) + 1 = Len(chan[r])
    BY <1>8
  <1>3. Len(chan[r]) > 1 => chan'[r][Len(chan'[r])] = chan[r][Len(chan[r])]
    <2>1. \A i \in 1 .. Len(chan'[r]) : chan'[r][i] = chan[r][i + 1]  BY DEF Took
    <2> QED  BY <1>7, <2>1
  <1>4. ASSUME chan[r][1].type = "chunk" PROVE InChan(r)' = InChan(r) - 1
    <2>1. CASE Len(chan[r]) = 1  BY <1>1, <1>2, <1>4, <2>1 DEF InChan
    <2>2. CASE Len(chan[r]) > 1  BY <1>1, <1>2, <1>3, <2>2 DEF InChan
    <2>3. \A n \in Int : n >= 1 => n = 1 \/ n > 1  OBVIOUS
    <2>4. Len(chan[r]) = 1 \/ Len(chan[r]) > 1  BY <1>8, <2>3
    <2> QED  BY <2>1, <2>2, <2>4
  <1>5. ASSUME chan[r][1].type \in Terminal
        PROVE  InChan(r) = 0 /\ InChan(r)' = 0 /\ Len(chan'[r]) = 0
    <2>1. Len(chan[r]) = 1  BY <1>1, <1>5 DEF LastIsLast
    <2> QED  BY <1>1, <1>2, <1>5, <2>1 DEF InChan
  <1> QED  BY <1>4, <1>5

LEMMA PutCount ==
  ASSUME Typed, LastInv, NEW r \in Streams, NEW a, Put(r, a), NoEnd(r)
  PROVE  /\ InChan(r) = Len(chan[r])
         /\ a.type \in Terminal => InChan(r)' = InChan(r)
         /\ a.type \notin Terminal => InChan(r)' = InChan(r) + 1
  <1>1. r \in Calls  BY CallFacts
  <1>2. chan'[r] \in Seq(Answers) /\ Len(chan[r]) \in Nat /\ Len(chan'[r]) = Len(chan[r]) + 1
        /\ chan'[r][Len(chan[r]) + 1] = a
    BY <1>1 DEF Put
  <1>3. chan'[r] # <<>>  BY <1>2, EmptyFacts
  <1>4. InChan(r) = Len(chan[r])  BY NoEndFacts
  <1> QED  BY <1>2, <1>3, <1>4 DEF InChan

(* Passing a chunk on does not change how many were passed. *)
LEMMA PassKeeps ==
  ASSUME Typed, PlaceInv, NEW r \in Streams, Pass(r), NEW q \in Streams
  PROVE  Passed(q)' = Passed(q)
  <1>1. CASE q # r
    <2>1. out'[q] = out[q] /\ given'[q] = given[q]  BY <1>1 DEF Pass, Typed, OutTyped
    <2> QED  BY <2>1 DEF Passed
  <1>2. CASE q = r
    <2>1. out[r] \in Seq(1 .. MaxChunks) /\ out[r] # <<>>  BY DEF Pass, Typed, OutTyped
    <2>2. /\ Len(out'[r]) = Len(out[r]) - 1 /\ given'[r] = out[r][1] /\ 1 \in 1 .. Len(out[r])
      BY <2>1, TailFacts DEF Pass, Typed, OutTyped
    <2>3. out[r][1] = given[r] + 1  BY <2>2 DEF PlaceInv, Placed
    <2>4. given[r] \in Nat /\ Len(out[r]) \in Nat  BY CountFacts
    <2>5. given[r] + 1 + (Len(out[r]) - 1) = given[r] + Len(out[r])  BY <2>4
    <2> QED  BY <1>2, <2>2, <2>3, <2>5 DEF Passed
  <1> QED  BY <1>1, <1>2

(* The count goes up when readLoop takes a chunk from the connection, and only then. *)
Rise(r) == IF ~Chunk(carried, r) /\ Chunk(carried', r) THEN 1 ELSE 0
BaseMoves == \A q \in Streams : Base(q)' = Base(q) + Rise(q)

LEMMA BaseCounts == ASSUME Typed, FormInv, CallInv, PlaceInv, Next PROVE BaseMoves
  <1>1. CASE UNCHANGED <<out, given, held, chan, carried>>
    <2> SUFFICES ASSUME NEW q \in Streams PROVE Base(q)' = Base(q) + Rise(q)  BY DEF BaseMoves
    <2>1. Base(q) \in Nat /\ Rise(q) = 0  BY <1>1, CountFacts DEF Rise
    <2>2. Base(q)' = Base(q)  BY <1>1 DEF Base, Passed, InHand, InChan, InCarried
    <2> QED  BY <2>1, <2>2
  <1>2. ASSUME NEW r \in Calls, Receive(r) PROVE BaseMoves
    <2> SUFFICES ASSUME NEW q \in Streams PROVE Base(q)' = Base(q) + Rise(q)  BY DEF BaseMoves
    <2>0. /\ q \in Calls /\ Passed(q) \in Nat /\ InHand(q) \in {0, 1} /\ InCarried(q) \in {0, 1}
          /\ InChan(q) \in Nat /\ Len(out[q]) \in Nat /\ given[q] \in Nat
      BY CountFacts
    <2>1. r \in Calls /\ chan[r] # <<>> /\ q # r  BY <1>2, CountFacts DEF Receive
    <2>2. Took(r)  BY <1>2, <2>1, TookFacts DEF Receive, Typed
    <2>3. chan'[q] = chan[q]  BY <2>0, <2>1, <2>2 DEF Took
    <2>5. UNCHANGED <<held, out, given, carried>>  BY <1>2 DEF Receive, linkVars
    <2>6. InChan(q)' = InChan(q)  BY <2>3 DEF InChan
    <2>4. /\ Passed(q)' = Passed(q) /\ InHand(q)' = InHand(q) /\ InCarried(q)' = InCarried(q)
          /\ Rise(q) = 0 /\ InChan(q)' = InChan(q)
      BY <2>5, <2>6 DEF Passed, InHand, InCarried, Rise
    <2> QED  BY <2>0, <2>4 DEF Base
  <1>3. ASSUME NEW r \in Streams, StreamTake(r) PROVE BaseMoves
    <2> SUFFICES ASSUME NEW q \in Streams PROVE Base(q)' = Base(q) + Rise(q)  BY DEF BaseMoves
    <2>0. /\ q \in Calls /\ Passed(q) \in Nat /\ InHand(q) \in {0, 1} /\ InCarried(q) \in {0, 1}
          /\ InChan(q) \in Nat /\ Len(out[q]) \in Nat /\ given[q] \in Nat
      BY CountFacts
    <2>1. r \in Calls /\ chan[r] # <<>>  BY <1>3, CallFacts DEF StreamTake
    <2>2. Took(r) /\ Head(chan[r]) = chan[r][1] /\ chan[r][1] \in Answers
      BY <1>3, <2>1, TookFacts DEF StreamTake, Typed
    <2>3. Passed(q)' = Passed(q) /\ InCarried(q)' = InCarried(q) /\ Rise(q) = 0
      BY <1>3 DEF StreamTake, Passed, InCarried, Rise, linkVars
    <2>4. CASE q # r
      <3>1. chan'[q] = chan[q] /\ held'[q] = held[q]
        BY <1>3, <2>0, <2>2, <2>4 DEF Took, StreamTake, Typed, WayTyped
      <3> QED  BY <2>0, <2>3, <3>1 DEF Base, InHand, InChan
    <2>5. CASE q = r
      <3>1. held'[r] = chan[r][1] /\ held[r] = Nothing
        BY <1>3, <2>2 DEF StreamTake, Typed, WayTyped, FormInv, HeldInv
      <3>2. InHand(q) = 0  BY <2>5, <3>1, NothingFacts, None4 DEF InHand
      <3>3. chan[r][1].type \in Terminal \/ chan[r][1].type = "chunk"  BY <2>2, NothingFacts
      <3>4. CASE chan[r][1].type = "chunk"
        <4>1. InHand(q)' = 1  BY <2>5, <3>1, <3>4 DEF InHand
        <4>2. InChan(q)' = InChan(q) - 1  BY <2>2, <2>5, <3>4, TookCount DEF CallInv
        <4>3. /\ InChan(q)' \in Int  BY <2>0, <4>2
        <4> HIDE DEF InHand, InChan
        <4> QED  BY <2>0, <2>3, <3>2, <4>1, <4>2 DEF Base
      <3>5. CASE chan[r][1].type \in Terminal
        <4>1. InHand(q)' = 0  BY <2>5, <3>1, <3>5 DEF InHand
        <4>2. InChan(q)' = 0 /\ InChan(q) = 0  BY <2>2, <2>5, <3>5, TookCount DEF CallInv
        <4> QED  BY <2>0, <2>3, <3>2, <4>1, <4>2 DEF Base
      <3> QED  BY <3>3, <3>4, <3>5
    <2> QED  BY <2>4, <2>5
  <1>4. ASSUME NEW r \in Streams, StreamSend(r) PROVE BaseMoves
    <2> SUFFICES ASSUME NEW q \in Streams PROVE Base(q)' = Base(q) + Rise(q)  BY DEF BaseMoves
    <2>0. /\ q \in Calls /\ Passed(q) \in Nat /\ InHand(q) \in {0, 1} /\ InCarried(q) \in {0, 1}
          /\ InChan(q) \in Nat /\ Len(out[q]) \in Nat /\ given[q] \in Nat
      BY CountFacts
    <2>1. InChan(q)' = InChan(q) /\ InCarried(q)' = InCarried(q) /\ Rise(q) = 0
      BY <1>4 DEF StreamSend, InChan, InCarried, Rise, linkVars
    <2>2. CASE q # r
      <3>1. out'[q] = out[q] /\ held'[q] = held[q] /\ given'[q] = given[q]
        BY <1>4, <2>2 DEF StreamSend, Typed, OutTyped, WayTyped
      <3> QED  BY <2>0, <2>1, <3>1 DEF Base, InHand, Passed
    <2>3. CASE q = r
      <3>1. InHand(q)' = 0  BY <1>4, <2>3, NothingFacts, None4 DEF StreamSend, InHand, Typed, WayTyped
      <3>2. CASE held[r].type = "chunk"
        <4>1. out' = [out EXCEPT ![r] = Append(@, held[r].n)] /\ given' = given  BY <1>4, <3>2 DEF StreamSend
        <4>2. held[r].n \in 1 .. MaxChunks /\ out[r] \in Seq(1 .. MaxChunks)
          BY <3>2, NothingFacts DEF FormInv, HeldInv, Typed, WayTyped, OutTyped
        <4>3. Len(out'[r]) = Len(out[r]) + 1  BY <4>1, <4>2, AddFacts DEF Typed, OutTyped
        <4>4. Passed(q)' = Passed(q) + 1 /\ InHand(q) = 1  BY <2>0, <2>3, <3>2, <4>1, <4>3 DEF Passed, InHand
        <4> QED  BY <2>0, <2>1, <3>1, <4>4 DEF Base
      <3>3. CASE held[r].type # "chunk"
        <4>1. out' = out /\ given' = given  BY <1>4, <3>3 DEF StreamSend
        <4>2. Passed(q)' = Passed(q) /\ InHand(q) = 0  BY <2>3, <3>3, <4>1 DEF Passed, InHand
        <4> QED  BY <2>0, <2>1, <3>1, <4>2 DEF Base
      <3> QED  BY <3>2, <3>3
    <2> QED  BY <2>2, <2>3
  <1>5. ASSUME NEW r \in Streams, Pass(r) PROVE BaseMoves
    <2> SUFFICES ASSUME NEW q \in Streams PROVE Base(q)' = Base(q) + Rise(q)  BY DEF BaseMoves
    <2>0. /\ q \in Calls /\ Passed(q) \in Nat /\ InHand(q) \in {0, 1} /\ InCarried(q) \in {0, 1}
          /\ InChan(q) \in Nat /\ Len(out[q]) \in Nat /\ given[q] \in Nat
      BY CountFacts
    <2>1. /\ InChan(q)' = InChan(q) /\ InCarried(q)' = InCarried(q) /\ Rise(q) = 0
          /\ InHand(q)' = InHand(q)
      BY <1>5 DEF Pass, InChan, InCarried, InHand, Rise, linkVars
    <2>2. Passed(q)' = Passed(q)  BY <1>5, PassKeeps
    <2> QED  BY <2>0, <2>1, <2>2 DEF Base
  <1>6. ASSUME ReadAnswer PROVE BaseMoves
    <2> SUFFICES ASSUME NEW q \in Streams PROVE Base(q)' = Base(q) + Rise(q)  BY DEF BaseMoves
    <2>0. /\ q \in Calls /\ Passed(q) \in Nat /\ InHand(q) \in {0, 1} /\ InCarried(q) \in {0, 1}
          /\ InChan(q) \in Nat /\ Len(out[q]) \in Nat /\ given[q] \in Nat
      BY CountFacts
    <2>1. /\ InChan(q)' = InChan(q) /\ Passed(q)' = Passed(q) /\ InHand(q)' = InHand(q)
      BY <1>6 DEF ReadAnswer, InChan, Passed, InHand
    <2>2. InCarried(q) = 0 /\ ~Chunk(carried, q)
      BY <1>6, NothingFacts, None4 DEF ReadAnswer, FormInv, ReaderInv, InCarried, Chunk
    <2>3. InCarried(q)' = Rise(q)  BY <2>2 DEF InCarried, Rise
    <2>4. Rise(q) \in {0, 1}  BY DEF Rise
    <2> QED  BY <2>0, <2>1, <2>2, <2>3, <2>4 DEF Base
  <1>7. ASSUME PutAnswer PROVE BaseMoves
    <2> SUFFICES ASSUME NEW q \in Streams PROVE Base(q)' = Base(q) + Rise(q)  BY DEF BaseMoves
    <2>0. /\ q \in Calls /\ Passed(q) \in Nat /\ InHand(q) \in {0, 1} /\ InCarried(q) \in {0, 1}
          /\ InChan(q) \in Nat /\ Len(out[q]) \in Nat /\ given[q] \in Nat
      BY CountFacts
    <2>1. carried \in Answers /\ carried.id \in Calls  BY <1>7 DEF PutAnswer, FormInv, ReaderInv, Typed, WayTyped
    <2>2. Put(carried.id, carried)  BY <1>7, <2>1, PutFacts DEF PutAnswer, Typed
    <2>3. /\ Passed(q)' = Passed(q) /\ InHand(q)' = InHand(q) /\ InCarried(q)' = 0 /\ Rise(q) = 0
      BY <1>7, NothingFacts, None4 DEF PutAnswer, Passed, InHand, InCarried, Chunk, Rise
    <2>4. CASE q # carried.id
      <3>1. chan'[q] = chan[q] /\ InCarried(q) = 0  BY <2>0, <2>2, <2>4 DEF Put, InCarried, Chunk
      <3> QED  BY <2>0, <2>3, <3>1 DEF Base, InChan
    <2>5. CASE q = carried.id
      <3>1. NoEnd(q) /\ Put(q, carried)  BY <2>2, <2>5, NoEndFacts DEF CallInv
      <3>2. carried.type \in Terminal \/ carried.type = "chunk"  BY <2>1, NothingFacts
      <3>3. CASE carried.type = "chunk"
        <4>1. InCarried(q) = 1 /\ InChan(q)' = InChan(q) + 1
          BY <2>5, <3>1, <3>3, PutCount DEF InCarried, Chunk, CallInv
        <4> QED  BY <2>0, <2>3, <4>1 DEF Base
      <3>4. CASE carried.type \in Terminal
        <4>1. InCarried(q) = 0 /\ InChan(q)' = InChan(q)
          BY <2>5, <3>1, <3>4, PutCount DEF InCarried, Chunk, CallInv
        <4> QED  BY <2>0, <2>3, <4>1 DEF Base
      <3> QED  BY <3>2, <3>3, <3>4
    <2> QED  BY <2>4, <2>5
  <1>8. ASSUME ClosePending PROVE BaseMoves
    <2> SUFFICES ASSUME NEW q \in Streams PROVE Base(q)' = Base(q) + Rise(q)  BY DEF BaseMoves
    <2>0. /\ q \in Calls /\ Passed(q) \in Nat /\ InHand(q) \in {0, 1} /\ InCarried(q) \in {0, 1}
          /\ InChan(q) \in Nat /\ Len(out[q]) \in Nat /\ given[q] \in Nat
      BY CountFacts
    <2>1. PICK p \in Calls : p \in pending /\ Put(p, Answer("error", p, 0))  BY <1>8, ClosingFacts
    <2>2. /\ Passed(q)' = Passed(q) /\ InHand(q)' = InHand(q) /\ InCarried(q)' = InCarried(q) /\ Rise(q) = 0
      BY <1>8 DEF ClosePending, Passed, InHand, InCarried, Rise, linkVars
    <2>3. CASE q # p
      <3>1. chan'[q] = chan[q]  BY <2>0, <2>1, <2>3 DEF Put
      <3> QED  BY <2>0, <2>2, <3>1 DEF Base, InChan
    <2>4. CASE q = p
      <3>1. NoEnd(q) /\ Put(q, Answer("error", q, 0)) /\ Answer("error", q, 0).type \in Terminal
        BY <2>1, <2>4, NoEndFacts DEF CallInv, Answer
      <3>2. InChan(q)' = InChan(q)  BY <3>1, PutCount DEF CallInv
      <3> QED  BY <2>0, <2>2, <3>2 DEF Base
    <2> QED  BY <2>3, <2>4
  <1>9. ASSUME NEW r \in Calls, Start(r) \/ StartClosed(r) \/ Register(r) \/ Write(r) \/ WriteFails(r) \/
           TimeOut(r) \/ GiveUp(r) \/ Leave(r) \/ Cancel(r)
        PROVE  BaseMoves
    BY <1>1, <1>9 DEF Start, StartClosed, Register, Write, WriteFails, TimeOut, GiveUp, Leave, Cancel,
        callVars, linkVars, netVars, workVars
  <1>10. ASSUME NEW r \in Streams, StreamCancel(r) \/ TaskChunk(r) \/ ClientGone(r)
        PROVE  BaseMoves
    BY <1>1, <1>10 DEF StreamCancel, TaskChunk, ClientGone, callVars, linkVars, netVars, workVars
  <1>11. ASSUME NEW r \in Tasks, TaskRegister(r) \/ TaskOverride(r) \/ TaskPickUp(r) \/ TaskGenerate(r) \/
           TaskFails(r) \/ TaskDiscards(r) \/ TaskSucceeds(r) \/ TaskUnlock(r) \/
           TaskWrite(r)
        PROVE  BaseMoves
    BY <1>1, <1>11 DEF TaskRegister, TaskOverride, TaskPickUp, TaskGenerate, TaskFails, TaskDiscards,
        TaskSucceeds, TaskUnlock, TaskWrite, callVars, linkVars, netVars, workVars
  <1>12. ASSUME ReadFails \/ ClosePendingEnd \/ Close \/ ReadInline \/ ReadSynth \/ ReadCancel \/
           WorkerDies
        PROVE  BaseMoves
    BY <1>1, <1>12 DEF ReadFails, ClosePendingEnd, Close, ReadInline, ReadSynth, ReadCancel, WorkerDies,
        callVars, linkVars, netVars, workVars
  <1> QED
    BY <1>1, <1>2, <1>3, <1>4, <1>5, <1>6, <1>7, <1>8, <1>9, <1>10, <1>11, <1>12
    DEF Next, CallStep, StreamStep, ReaderStep, WorkerLoop, TaskStep

(* The places of the chunks between the connection and the client. *)
LEMMA PlacedKept ==
  ASSUME NEW q \in Streams, Placed(q), out'[q] = out[q], given'[q] = given[q], held'[q] = held[q],
         chan'[q] = chan[q], Chunk(carried', q) => carried' = carried
  PROVE  Placed(q)'
  <1>1. Passed(q)' = Passed(q) /\ InHand(q)' = InHand(q)  BY DEF Passed, InHand
  <1> QED  BY <1>1 DEF Placed

(* The chunks of a stream that calls for them are not thrown away by readLoop. *)
LEMMA HeadIsTaken ==
  ASSUME Typed, QuietInv, ReadAnswer, NEW q \in Streams, Chunk(toParent[1], q)
  PROVE  q \in pending /\ carried' = toParent[1]
  <1>1. /\ Head(toParent) = toParent[1] /\ Len(toParent) \in Nat \ {0} /\ toParent # <<>> /\ reader = "read"
    BY ReadFacts DEF ReadAnswer
  <1>2. q \in Tasks /\ ~Early(q)  BY CountFacts DEF Early
  <1>3. q \in pending
    <2> SUFFICES ASSUME q \notin pending PROVE FALSE  OBVIOUS
    <2> QED  BY <1>1, <1>2, QuietMeans DEF QuietInv, Over, Chunk
  <1> QED  BY <1>1, <1>3 DEF ReadAnswer, Chunk

LEMMA PlaceStep == ASSUME Typed, FormInv, CallInv, QuietInv, PlaceInv, NetInv, Next PROVE PlaceInv'
  <1> USE DEF CallInv
  <1>1. CASE UNCHANGED <<out, given, held, chan, carried>>
    BY <1>1 DEF PlaceInv, Placed, Passed, InHand
  <1>2. ASSUME NEW r \in Calls, Receive(r) PROVE PlaceInv'
    <2> SUFFICES ASSUME NEW q \in Streams PROVE Placed(q)'  BY DEF PlaceInv
    <2>0. /\ Placed(q) /\ q \in Calls /\ Passed(q) \in Nat /\ InHand(q) \in {0, 1}
          /\ Len(chan[q]) \in Nat /\ Len(out[q]) \in Nat /\ given[q] \in Nat /\ LastIsLast(q)
      BY CountFacts DEF PlaceInv, LastInv
    <2>1. r \in Calls /\ chan[r] # <<>> /\ q # r  BY <1>2, CountFacts DEF Receive
    <2>2. Took(r)  BY <1>2, <2>1, TookFacts DEF Receive, Typed
    <2>3. chan'[q] = chan[q]  BY <2>0, <2>1, <2>2 DEF Took
    <2> QED  BY <1>2, <2>0, <2>3, PlacedKept DEF Receive, linkVars
  <1>3. ASSUME NEW r \in Streams, StreamTake(r) PROVE PlaceInv'
    <2> SUFFICES ASSUME NEW q \in Streams PROVE Placed(q)'  BY DEF PlaceInv
    <2>0. /\ Placed(q) /\ q \in Calls /\ Passed(q) \in Nat /\ InHand(q) \in {0, 1}
          /\ Len(chan[q]) \in Nat /\ Len(out[q]) \in Nat /\ given[q] \in Nat /\ LastIsLast(q)
      BY CountFacts DEF PlaceInv, LastInv
    <2>1. r \in Calls /\ chan[r] # <<>>  BY <1>3, CallFacts DEF StreamTake
    <2>2. Took(r) /\ Head(chan[r]) = chan[r][1] /\ chan[r][1] \in Answers
      BY <1>3, <2>1, TookFacts DEF StreamTake, Typed
    <2>3. UNCHANGED <<out, given, carried>>  BY <1>3 DEF StreamTake, linkVars
    <2>4. CASE q # r
      <3>1. chan'[q] = chan[q] /\ held'[q] = held[q]
        BY <1>3, <2>0, <2>2, <2>4 DEF Took, StreamTake, Typed, WayTyped
      <3> QED  BY <2>0, <2>3, <3>1, PlacedKept
    <2>5. CASE q = r
      <3>1. held'[r] = chan[r][1] /\ held[r] = Nothing
        BY <1>3, <2>2 DEF StreamTake, Typed, WayTyped, FormInv, HeldInv
      <3>2. InHand(q) = 0 /\ Passed(q)' = Passed(q)
        BY <2>3, <2>5, <3>1, NothingFacts, None4 DEF InHand, Passed
      <3>3. chan[r][1].type \in Terminal \/ chan[r][1].type = "chunk"  BY <2>2, NothingFacts
      <3>4. 1 \in 1 .. Len(chan[q])  BY <2>2, <2>5 DEF Took
      <3>5. CASE chan[r][1].type = "chunk"
        <4>1. InHand(q)' = 1  BY <2>5, <3>1, <3>5 DEF InHand
        <4>2. held'[q].n = Passed(q)' + 1  BY <2>0, <2>5, <3>1, <3>2, <3>4, <3>5 DEF Placed
        <4>3. ASSUME NEW i \in 1 .. Len(chan'[q]), chan'[q][i].type = "chunk"
              PROVE  chan'[q][i].n = Passed(q)' + InHand(q)' + i
          <5>1. i + 1 \in 1 .. Len(chan[q]) /\ chan'[q][i] = chan[q][i + 1]  BY <2>2, <2>5, <4>3 DEF Took
          <5>2. chan[q][i + 1].n = Passed(q) + InHand(q) + (i + 1)  BY <2>0, <4>3, <5>1 DEF Placed
          <5> QED  BY <2>0, <3>2, <4>1, <5>1, <5>2
        <4>4. Chunk(carried', q) => carried'.n = Passed(q)' + InHand(q)' + Len(chan'[q]) + 1
          <5>1. Len(chan'[q]) = Len(chan[q]) - 1  BY <2>2, <2>5 DEF Took
          <5> QED  BY <2>0, <2>3, <3>2, <4>1, <5>1 DEF Placed
        <4>5. \A i \in 1 .. Len(out'[q]) : out'[q][i] = given'[q] + i  BY <2>0, <2>3 DEF Placed
        <4> QED  BY <4>2, <4>3, <4>4, <4>5 DEF Placed
      <3>6. CASE chan[r][1].type \in Terminal
        <4>1. InHand(q)' = 0 /\ held'[q].type # "chunk"  BY <2>5, <3>1, <3>6 DEF InHand
        <4>2. Len(chan'[q]) = 0  BY <2>2, <2>5, <3>6, TookCount DEF CallInv
        <4>3. ~Chunk(carried', q)  BY <2>0, <2>3, <2>5, <3>4, <3>6 DEF LastIsLast, Chunk
        <4>4. \A i \in 1 .. Len(out'[q]) : out'[q][i] = given'[q] + i  BY <2>0, <2>3 DEF Placed
        <4> QED  BY <4>1, <4>2, <4>3, <4>4 DEF Placed
      <3> QED  BY <3>3, <3>5, <3>6
    <2> QED  BY <2>4, <2>5
  <1>4. ASSUME NEW r \in Streams, StreamSend(r) PROVE PlaceInv'
    <2> SUFFICES ASSUME NEW q \in Streams PROVE Placed(q)'  BY DEF PlaceInv
    <2>0. /\ Placed(q) /\ q \in Calls /\ Passed(q) \in Nat /\ InHand(q) \in {0, 1}
          /\ Len(chan[q]) \in Nat /\ Len(out[q]) \in Nat /\ given[q] \in Nat /\ LastIsLast(q)
      BY CountFacts DEF PlaceInv, LastInv
    <2>1. UNCHANGED <<chan, given, carried>>  BY <1>4 DEF StreamSend, linkVars
    <2>2. CASE q # r
      <3>1. out'[q] = out[q] /\ held'[q] = held[q]
        BY <1>4, <2>2 DEF StreamSend, Typed, OutTyped, WayTyped
      <3> QED  BY <2>0, <2>1, <3>1, PlacedKept
    <2>3. CASE q = r
      <3>1. InHand(q)' = 0 /\ held'[q].type # "chunk"
        BY <1>4, <2>3, NothingFacts, None4 DEF StreamSend, InHand, Typed, WayTyped
      <3>2. CASE held[r].type = "chunk"
        <4>1. out' = [out EXCEPT ![r] = Append(@, held[r].n)]  BY <1>4, <3>2 DEF StreamSend
        <4>2. held[r].n \in 1 .. MaxChunks /\ out[r] \in Seq(1 .. MaxChunks)
          BY <3>2, NothingFacts DEF FormInv, HeldInv, Typed, WayTyped, OutTyped
        <4>3. /\ Len(out'[q]) = Len(out[q]) + 1 /\ out'[q][Len(out[q]) + 1] = held[q].n
              /\ \A i \in 1 .. Len(out[q]) : out'[q][i] = out[q][i]
          BY <2>3, <4>1, <4>2, AddFacts DEF Typed, OutTyped
        <4>4. Passed(q)' = Passed(q) + 1 /\ InHand(q) = 1  BY <2>0, <2>1, <2>3, <3>2, <4>3 DEF Passed, InHand
        <4>5. ASSUME NEW i \in 1 .. Len(out'[q]) PROVE out'[q][i] = given'[q] + i
          <5>1. CASE i = Len(out[q]) + 1
            <6>1. held[q].n = given[q] + Len(out[q]) + 1  BY <2>0, <2>3, <3>2 DEF Placed, Passed
            <6>2. out'[q][i] = held[q].n /\ given'[q] = given[q]  BY <2>1, <4>3, <5>1
            <6>3. given[q] + i = given[q] + Len(out[q]) + 1  BY <2>0, <5>1
            <6> QED  BY <6>1, <6>2, <6>3
          <5>2. CASE i # Len(out[q]) + 1
            <6>1. i \in 1 .. Len(out[q])  BY <2>0, <4>3, <4>5, <5>2
            <6> QED  BY <2>0, <2>1, <4>3, <6>1 DEF Placed
          <5> QED  BY <5>1, <5>2
        <4>6. \A i \in 1 .. Len(chan'[q]) :
                chan'[q][i].type = "chunk" => chan'[q][i].n = Passed(q)' + InHand(q)' + i
          BY <2>0, <2>1, <3>1, <4>4 DEF Placed
        <4>7. Chunk(carried', q) => carried'.n = Passed(q)' + InHand(q)' + Len(chan'[q]) + 1
          BY <2>0, <2>1, <3>1, <4>4 DEF Placed
        <4> QED  BY <3>1, <4>5, <4>6, <4>7 DEF Placed
      <3>3. CASE held[r].type # "chunk"
        <4>1. out' = out  BY <1>4, <3>3 DEF StreamSend
        <4>2. Passed(q)' = Passed(q) /\ InHand(q)' = InHand(q)  BY <2>1, <2>3, <3>1, <3>3, <4>1 DEF Passed, InHand
        <4> QED  BY <2>0, <2>1, <3>1, <4>1, <4>2 DEF Placed
      <3> QED  BY <3>2, <3>3
    <2> QED  BY <2>2, <2>3
  <1>5. ASSUME NEW r \in Streams, Pass(r) PROVE PlaceInv'
    <2> SUFFICES ASSUME NEW q \in Streams PROVE Placed(q)'  BY DEF PlaceInv
    <2>0. /\ Placed(q) /\ q \in Calls /\ Passed(q) \in Nat /\ InHand(q) \in {0, 1}
          /\ Len(chan[q]) \in Nat /\ Len(out[q]) \in Nat /\ given[q] \in Nat /\ LastIsLast(q)
      BY CountFacts DEF PlaceInv, LastInv
    <2>1. UNCHANGED <<chan, held, carried>>  BY <1>5 DEF Pass, linkVars
    <2>2. CASE q # r
      <3>1. out'[q] = out[q] /\ given'[q] = given[q]  BY <1>5, <2>2 DEF Pass, Typed, OutTyped
      <3> QED  BY <2>0, <2>1, <3>1, PlacedKept
    <2>3. CASE q = r
      <3>1. out[r] \in Seq(1 .. MaxChunks) /\ out[r] # <<>>  BY <1>5 DEF Pass, Typed, OutTyped
      <3>2. /\ Len(out'[q]) = Len(out[q]) - 1 /\ given'[q] = out[q][1] /\ 1 \in 1 .. Len(out[q])
            /\ \A i \in 1 .. Len(out'[q]) : out'[q][i] = out[q][i + 1]
        BY <1>5, <2>3, <3>1, TailFacts DEF Pass, Typed, OutTyped
      <3>3. given'[q] = given[q] + 1  BY <2>0, <3>2 DEF Placed
      <3>6. given[q] + 1 + (Len(out[q]) - 1) = given[q] + Len(out[q])  BY <2>0
      <3>7. Passed(q)' = Passed(q)  BY <3>2, <3>3, <3>6 DEF Passed
      <3>4. Passed(q)' = Passed(q) /\ InHand(q)' = InHand(q)  BY <2>1, <3>7 DEF InHand
      <3>5. ASSUME NEW i \in 1 .. Len(out'[q]) PROVE out'[q][i] = given'[q] + i
        <4>1. i + 1 \in 1 .. Len(out[q])  BY <2>0, <3>2, <3>5
        <4>2. out[q][i + 1] = given[q] + (i + 1)  BY <2>0, <4>1 DEF Placed
        <4>3. given[q] + (i + 1) = given[q] + 1 + i  BY <2>0
        <4> QED  BY <3>2, <3>3, <3>5, <4>2, <4>3
      <3> QED  BY <2>0, <2>1, <3>4, <3>5 DEF Placed
    <2> QED  BY <2>2, <2>3
  <1>6. ASSUME ReadAnswer PROVE PlaceInv'
    <2> SUFFICES ASSUME NEW q \in Streams PROVE Placed(q)'  BY DEF PlaceInv
    <2>0. /\ Placed(q) /\ q \in Calls /\ Passed(q) \in Nat /\ InHand(q) \in {0, 1}
          /\ Len(chan[q]) \in Nat /\ Len(out[q]) \in Nat /\ given[q] \in Nat /\ LastIsLast(q)
      BY CountFacts DEF PlaceInv, LastInv
    <2>1. /\ UNCHANGED <<out, given, held, chan>> /\ carried = Nothing
          /\ Head(toParent) = toParent[1] /\ toParent # <<>> /\ Len(toParent) \in Nat \ {0}
          /\ carried' = toParent[1] \/ carried' = carried
      BY <1>6, ReadFacts DEF ReadAnswer, FormInv, ReaderInv
    <2>2. CASE ~Chunk(carried', q)  BY <2>0, <2>1, <2>2, PlacedKept
    <2>3. CASE Chunk(carried', q)
      <3>1. Chunk(toParent[1], q) /\ carried' = toParent[1]
        BY <2>1, <2>3, NothingFacts, None4 DEF Chunk
      <3>2. q \in pending  BY <1>6, <3>1, HeadIsTaken
      <3>3. InChan(q) = Len(chan[q]) /\ InCarried(q) = 0
        BY <2>1, <3>2, NoEndFacts, NothingFacts, None4 DEF CallInv, InCarried, Chunk
      <3>4. 1 \in 1 .. Len(toParent) /\ 1 .. (1 - 1) = {}  BY <2>1
      <3>5. toParent[1].n = Base(q) + 1  BY <3>1, <3>4 DEF NetInv, Sent, Follow
      <3>6. Base(q) = Passed(q) + InHand(q) + Len(chan[q])  BY <2>0, <3>3 DEF Base
      <3>7. carried'.n = Passed(q) + InHand(q) + Len(chan[q]) + 1  BY <3>1, <3>5, <3>6
      <3>8. Passed(q)' = Passed(q) /\ InHand(q)' = InHand(q)  BY <2>1 DEF Passed, InHand
      <3> QED  BY <2>0, <2>1, <3>7, <3>8 DEF Placed
    <2> QED  BY <2>2, <2>3
  <1>7. ASSUME PutAnswer PROVE PlaceInv'
    <2> SUFFICES ASSUME NEW q \in Streams PROVE Placed(q)'  BY DEF PlaceInv
    <2>0. /\ Placed(q) /\ q \in Calls /\ Passed(q) \in Nat /\ InHand(q) \in {0, 1}
          /\ Len(chan[q]) \in Nat /\ Len(out[q]) \in Nat /\ given[q] \in Nat /\ LastIsLast(q)
      BY CountFacts DEF PlaceInv, LastInv
    <2>1. carried \in Answers /\ carried.id \in Calls  BY <1>7 DEF PutAnswer, FormInv, ReaderInv, Typed, WayTyped
    <2>2. Put(carried.id, carried)  BY <1>7, <2>1, PutFacts DEF PutAnswer, Typed
    <2>3. /\ UNCHANGED <<out, given, held>> /\ ~Chunk(carried', q)
      BY <1>7, NothingFacts, None4 DEF PutAnswer, Chunk
    <2>4. CASE q # carried.id
      <3>1. chan'[q] = chan[q]  BY <2>0, <2>2, <2>4 DEF Put
      <3> QED  BY <2>0, <2>3, <3>1, PlacedKept
    <2>5. CASE q = carried.id
      <3>1. Passed(q)' = Passed(q) /\ InHand(q)' = InHand(q)  BY <2>3 DEF Passed, InHand
      <3>2. carried.type = "chunk" => carried.n = Passed(q) + InHand(q) + (Len(chan[q]) + 1)
        <4>1. carried.type = "chunk" => carried.n = Passed(q) + InHand(q) + Len(chan[q]) + 1
          BY <2>0, <2>5 DEF Placed, Chunk
        <4>2. Passed(q) + InHand(q) + Len(chan[q]) + 1 = Passed(q) + InHand(q) + (Len(chan[q]) + 1)  BY <2>0
        <4> QED  BY <4>1, <4>2
      <3>3. ASSUME NEW i \in 1 .. Len(chan'[q]), chan'[q][i].type = "chunk"
            PROVE  chan'[q][i].n = Passed(q) + InHand(q) + i
        <4>1. CASE i = Len(chan[q]) + 1  BY <2>2, <2>5, <3>2, <3>3, <4>1 DEF Put
        <4>2. CASE i # Len(chan[q]) + 1
          <5>1. i \in 1 .. Len(chan[q]) /\ chan'[q][i] = chan[q][i]  BY <2>2, <2>5, <4>2 DEF Put
          <5> QED  BY <2>0, <3>3, <5>1 DEF Placed
        <4> QED  BY <4>1, <4>2
      <3> QED  BY <2>0, <2>3, <3>1, <3>3 DEF Placed
    <2> QED  BY <2>4, <2>5
  <1>8. ASSUME ClosePending PROVE PlaceInv'
    <2> SUFFICES ASSUME NEW q \in Streams PROVE Placed(q)'  BY DEF PlaceInv
    <2>0. /\ Placed(q) /\ q \in Calls /\ Passed(q) \in Nat /\ InHand(q) \in {0, 1}
          /\ Len(chan[q]) \in Nat /\ Len(out[q]) \in Nat /\ given[q] \in Nat /\ LastIsLast(q)
      BY CountFacts DEF PlaceInv, LastInv
    <2>1. PICK p \in Calls : p \in pending /\ Put(p, Answer("error", p, 0))  BY <1>8, ClosingFacts
    <2>2. UNCHANGED <<out, given, held, carried>> /\ carried = Nothing
      BY <1>8 DEF ClosePending, FormInv, ReaderInv, linkVars
    <2>3. CASE q # p
      <3>1. chan'[q] = chan[q]  BY <2>0, <2>1, <2>3 DEF Put
      <3> QED  BY <2>0, <2>2, <3>1, PlacedKept
    <2>4. CASE q = p
      <3>1. Passed(q)' = Passed(q) /\ InHand(q)' = InHand(q) /\ ~Chunk(carried', q)
        BY <2>2, NothingFacts, None4 DEF Passed, InHand, Chunk
      <3>2. ASSUME NEW i \in 1 .. Len(chan'[q]), chan'[q][i].type = "chunk"
            PROVE  chan'[q][i].n = Passed(q) + InHand(q) + i
        <4>1. i # Len(chan[q]) + 1  BY <2>1, <2>4, <3>2 DEF Put, Answer
        <4>2. i \in 1 .. Len(chan[q]) /\ chan'[q][i] = chan[q][i]  BY <2>1, <2>4, <4>1 DEF Put
        <4> QED  BY <2>0, <3>2, <4>2 DEF Placed
      <3> QED  BY <2>0, <2>2, <3>1, <3>2 DEF Placed
    <2> QED  BY <2>3, <2>4
  <1>9. ASSUME NEW r \in Calls, Start(r) \/ StartClosed(r) \/ Register(r) \/ Write(r) \/ WriteFails(r) \/
           TimeOut(r) \/ GiveUp(r) \/ Leave(r) \/ Cancel(r)
        PROVE  PlaceInv'
    BY <1>1, <1>9 DEF Start, StartClosed, Register, Write, WriteFails, TimeOut, GiveUp, Leave, Cancel,
        callVars, linkVars, netVars, workVars
  <1>10. ASSUME NEW r \in Streams, StreamCancel(r) \/ TaskChunk(r) \/ ClientGone(r)
        PROVE  PlaceInv'
    BY <1>1, <1>10 DEF StreamCancel, TaskChunk, ClientGone, callVars, linkVars, netVars, workVars
  <1>11. ASSUME NEW r \in Tasks, TaskRegister(r) \/ TaskOverride(r) \/ TaskPickUp(r) \/ TaskGenerate(r) \/
           TaskFails(r) \/ TaskDiscards(r) \/ TaskSucceeds(r) \/ TaskUnlock(r) \/
           TaskWrite(r)
        PROVE  PlaceInv'
    BY <1>1, <1>11 DEF TaskRegister, TaskOverride, TaskPickUp, TaskGenerate, TaskFails, TaskDiscards,
        TaskSucceeds, TaskUnlock, TaskWrite, callVars, linkVars, netVars, workVars
  <1>12. ASSUME ReadFails \/ ClosePendingEnd \/ Close \/ ReadInline \/ ReadSynth \/ ReadCancel \/
           WorkerDies
        PROVE  PlaceInv'
    BY <1>1, <1>12 DEF ReadFails, ClosePendingEnd, Close, ReadInline, ReadSynth, ReadCancel, WorkerDies,
        callVars, linkVars, netVars, workVars
  <1> QED
    BY <1>1, <1>2, <1>3, <1>4, <1>5, <1>6, <1>7, <1>8, <1>9, <1>10, <1>11, <1>12
    DEF Next, CallStep, StreamStep, ReaderStep, WorkerLoop, TaskStep

(* The connection after a step: the numbers on it still follow one another. *)
LEMMA NumberFacts ==
  ASSUME Typed
  PROVE  Len(toParent) \in Nat /\ \A i \in 1 .. Len(toParent) : toParent[i].n \in Nat
  <1>1. toParent \in Seq(Answers) /\ MaxChunks \in Nat  BY CapFacts DEF Typed, NetTyped
  <1>2. \A i \in 1 .. Len(toParent) : toParent[i] \in Answers  BY <1>1
  <1> QED  BY <1>1, <1>2, NothingFacts

LEMMA ReadFollow ==
  ASSUME Typed, toParent # <<>>, toParent' = Tail(toParent),
         NEW q \in Streams, NEW b \in Nat, Follow(toParent, q, b)
  PROVE  /\ ~Chunk(toParent[1], q) => Follow(toParent', q, b)
         /\ Chunk(toParent[1], q) =>
              /\ toParent[1].n = b + 1 /\ Follow(toParent', q, b + 1)
              /\ \A i \in 1 .. Len(toParent') : Chunk(toParent'[i], q) => b + 1 < toParent'[i].n
  <1>0. Len(toParent) \in Nat \ {0} /\ Len(toParent') = Len(toParent) - 1  BY ReadFacts
  <1>1. \A i \in 1 .. Len(toParent') : i + 1 \in 1 .. Len(toParent) /\ toParent'[i] = toParent[i + 1]
    BY <1>0, ReadFacts
  <1>2. ASSUME NEW i \in 1 .. Len(toParent'), Chunk(toParent'[i], q)
        PROVE  /\ \/ toParent'[i].n = b + 1
                  \/ Chunk(toParent[1], q) /\ toParent[1].n = toParent'[i].n - 1
                  \/ \E j \in 1 .. i - 1 : Chunk(toParent'[j], q) /\ toParent'[j].n = toParent'[i].n - 1
               /\ \A j \in 1 .. i - 1 : Chunk(toParent'[j], q) => toParent'[j].n < toParent'[i].n
               /\ Chunk(toParent[1], q) => toParent[1].n < toParent'[i].n
    <2>1. i + 1 \in 1 .. Len(toParent) /\ toParent'[i] = toParent[i + 1] /\ (i + 1) - 1 = i /\ i \in Nat
      BY <1>0, <1>1
    <2>2. /\ \/ toParent'[i].n = b + 1
             \/ \E j \in 1 .. i : Chunk(toParent[j], q) /\ toParent[j].n = toParent'[i].n - 1
          /\ \A j \in 1 .. i : Chunk(toParent[j], q) => toParent[j].n < toParent'[i].n
      BY <1>2, <2>1 DEF Follow
    <2>3. \A j \in 1 .. i : j = 1 \/ (j - 1 \in 1 .. i - 1 /\ toParent'[j - 1] = toParent[j])
      <3> TAKE j \in 1 .. i
      <3>1. j # 1 => j - 1 \in 1 .. i - 1 /\ j - 1 \in 1 .. Len(toParent') /\ (j - 1) + 1 = j
        BY <1>0, <2>1
      <3> QED  BY <1>1, <3>1
    <2>4. \A j \in 1 .. i - 1 : j + 1 \in 1 .. i /\ toParent'[j] = toParent[j + 1]
      BY <1>0, <1>1, <2>1
    <2>5. \A j \in 1 .. i - 1 : Chunk(toParent'[j], q) => toParent'[j].n < toParent'[i].n
      BY <2>2, <2>4
    <2>6. 1 \in 1 .. i  BY <2>1
    <2> QED  BY <2>2, <2>3, <2>5, <2>6
  <1>3. ASSUME ~Chunk(toParent[1], q) PROVE Follow(toParent', q, b)
    BY <1>2, <1>3 DEF Follow
  <1>4. ASSUME Chunk(toParent[1], q)
        PROVE  /\ toParent[1].n = b + 1 /\ Follow(toParent', q, b + 1)
               /\ \A i \in 1 .. Len(toParent') : Chunk(toParent'[i], q) => b + 1 < toParent'[i].n
    <2>1. 1 \in 1 .. Len(toParent) /\ 1 .. (1 - 1) = {}  BY <1>0
    <2>2. toParent[1].n = b + 1  BY <1>4, <2>1 DEF Follow
    <2> SUFFICES ASSUME NEW i \in 1 .. Len(toParent'), Chunk(toParent'[i], q)
                 PROVE  /\ b + 1 < toParent'[i].n
                        /\ \/ toParent'[i].n = b + 1 + 1
                           \/ \E j \in 1 .. i - 1 : Chunk(toParent'[j], q) /\ toParent'[j].n = toParent'[i].n - 1
                        /\ \A j \in 1 .. i - 1 : Chunk(toParent'[j], q) => toParent'[j].n < toParent'[i].n
      BY <2>2 DEF Follow
    <2>3. toParent'[i].n \in Nat  BY <1>1, NumberFacts
    <2>4. b + 1 < toParent'[i].n  BY <1>2, <1>4, <2>2
    <2>5. b + 1 = toParent'[i].n - 1 => toParent'[i].n = b + 1 + 1  BY <2>3
    <2>6. toParent'[i].n # b + 1  BY <2>3, <2>4
    <2> QED  BY <1>2, <1>4, <2>2, <2>4, <2>5, <2>6
  <1> QED  BY <1>3, <1>4

LEMMA ReadReach ==
  ASSUME Typed, toParent # <<>>, toParent' = Tail(toParent),
         NEW q \in Streams, NEW b, NEW m, Reach(toParent, q, b, m)
  PROVE  \/ Reach(toParent', q, b, m)
         \/ Chunk(toParent[1], q) /\ toParent[1].n = m
  <1>0. Len(toParent) \in Nat \ {0} /\ Len(toParent') = Len(toParent) - 1  BY ReadFacts
  <1> SUFFICES ASSUME NEW i \in 1 .. Len(toParent), Chunk(toParent[i], q), toParent[i].n = m, i # 1
               PROVE  Reach(toParent', q, b, m)
    BY DEF Reach
  <1>1. i - 1 \in 1 .. Len(toParent') /\ (i - 1) + 1 = i  BY <1>0
  <1>2. toParent'[i - 1] = toParent[i]  BY <1>1, ReadFacts
  <1> QED  BY <1>1, <1>2 DEF Reach

LEMMA SaidFollow ==
  ASSUME NEW a, Said(a), NEW q \in Streams, NEW b,
         Follow(toParent, q, b),
         Chunk(a, q) => /\ a.n = b + 1 \/ \E j \in 1 .. Len(toParent) : Chunk(toParent[j], q) /\ toParent[j].n = a.n - 1
                        /\ \A j \in 1 .. Len(toParent) : Chunk(toParent[j], q) => toParent[j].n < a.n
  PROVE  Follow(toParent', q, b)
  <1> SUFFICES ASSUME NEW i \in 1 .. Len(toParent'), Chunk(toParent'[i], q)
               PROVE  /\ \/ toParent'[i].n = b + 1
                         \/ \E j \in 1 .. i - 1 : Chunk(toParent'[j], q) /\ toParent'[j].n = toParent'[i].n - 1
                      /\ \A j \in 1 .. i - 1 : Chunk(toParent'[j], q) => toParent'[j].n < toParent'[i].n
    BY DEF Follow
  <1>0. \A j \in 1 .. Len(toParent) : toParent'[j] = toParent[j]  BY DEF Said
  <1>1. CASE i = Len(toParent) + 1
    <2>1. toParent'[i] = a /\ i - 1 = Len(toParent)  BY <1>1 DEF Said
    <2> QED  BY <1>0, <2>1
  <1>2. CASE i # Len(toParent) + 1
    <2>1. i \in 1 .. Len(toParent) /\ \A j \in 1 .. i - 1 : j \in 1 .. Len(toParent)  BY <1>2 DEF Said
    <2> QED  BY <1>0, <2>1 DEF Follow
  <1> QED  BY <1>1, <1>2

LEMMA SaidReach ==
  ASSUME NEW a, Said(a), NEW q \in Streams, NEW b, NEW m
  PROVE  /\ Reach(toParent, q, b, m) => Reach(toParent', q, b, m)
         /\ Chunk(a, q) => Reach(toParent', q, b, a.n)
         /\ ~DoneFor(a, q) => (DoneComes(q)' => DoneComes(q))
  <1>1. \A i \in 1 .. Len(toParent) : i \in 1 .. Len(toParent') /\ toParent'[i] = toParent[i]  BY DEF Said
  <1>2. Len(toParent) + 1 \in 1 .. Len(toParent') /\ toParent'[Len(toParent) + 1] = a  BY DEF Said
  <1>3. \A i \in 1 .. Len(toParent') : i = Len(toParent) + 1 \/ i \in 1 .. Len(toParent)  BY DEF Said
  <1> QED  BY <1>1, <1>2, <1>3 DEF Reach, DoneComes

LEMMA SentKept ==
  ASSUME NEW q \in Streams, Sent(q), Base(q)' = Base(q), Made(q)' = Made(q), toParent' = toParent, alive' => alive
  PROVE  Sent(q)'
  BY DEF Sent, DoneComes

(* Another answer than a chunk or "done" of the stream is added. *)
LEMMA SentOther ==
  ASSUME NEW q \in Streams, Sent(q), Base(q)' = Base(q), Made(q)' = Made(q), alive' = alive,
         NEW a, Said(a), ~Chunk(a, q), alive \/ ~DoneFor(a, q)
  PROVE  Sent(q)'
  <1>1. Follow(toParent', q, Base(q))  BY SaidFollow DEF Sent
  <1>2. \A i \in 1 .. Len(toParent') : Chunk(toParent'[i], q) =>
          Base(q) < toParent'[i].n /\ toParent'[i].n <= Made(q)
    <2>1. \A i \in 1 .. Len(toParent') :
            \/ i \in 1 .. Len(toParent) /\ toParent'[i] = toParent[i]
            \/ toParent'[i] = a
      BY DEF Said
    <2> QED  BY <2>1 DEF Sent
  <1>3. alive \/ DoneComes(q)' => Reach(toParent', q, Base(q), Made(q))  BY SaidReach DEF Sent
  <1> QED  BY <1>1, <1>2, <1>3 DEF Sent

LEMMA NetStep == ASSUME Typed, FormInv, CallInv, QuietInv, NumberInv, Next PROVE NetInv'
  <1> USE DEF NumberInv
  <1>1. CASE UNCHANGED <<out, given, held, chan, carried, toParent, reply, chunks, alive>>
    <2> SUFFICES ASSUME NEW q \in Streams PROVE Sent(q)'  BY DEF NetInv
    <2>1. Base(q)' = Base(q) /\ Made(q)' = Made(q)
      BY <1>1 DEF Base, Passed, InHand, InChan, InCarried, Made
    <2> QED  BY <1>1, <2>1, SentKept DEF NetInv
  <1>2. ASSUME NEW r \in Calls, Receive(r) PROVE NetInv'
    <2> SUFFICES ASSUME NEW q \in Streams PROVE Sent(q)'  BY DEF NetInv
    <2>0. Sent(q) /\ Base(q) \in Nat /\ Made(q) \in Int /\ Base(q)' = Base(q) + Rise(q) /\ q \in Calls /\ q \in Tasks
      BY BaseCounts, CountFacts DEF NetInv, BaseMoves, NumberInv
    <2>1. Rise(q) = 0  BY <1>2, NothingFacts, None4 DEF Receive, Rise, Chunk, linkVars, callVars
    <2>2. Base(q)' = Base(q)  BY <2>0, <2>1
    <2>3. Made(q)' = Made(q)  BY <1>2 DEF Receive, Made, workVars
    <2> QED  BY <1>2, <2>0, <2>2, <2>3, SentKept DEF Receive, netVars, workVars
  <1>3. ASSUME NEW r \in Streams, StreamTake(r) PROVE NetInv'
    <2> SUFFICES ASSUME NEW q \in Streams PROVE Sent(q)'  BY DEF NetInv
    <2>0. Sent(q) /\ Base(q) \in Nat /\ Made(q) \in Int /\ Base(q)' = Base(q) + Rise(q) /\ q \in Calls /\ q \in Tasks
      BY BaseCounts, CountFacts DEF NetInv, BaseMoves, NumberInv
    <2>1. Rise(q) = 0  BY <1>3, NothingFacts, None4 DEF StreamTake, Rise, Chunk, linkVars, callVars
    <2>2. Base(q)' = Base(q)  BY <2>0, <2>1
    <2>3. Made(q)' = Made(q)  BY <1>3 DEF StreamTake, Made, workVars
    <2> QED  BY <1>3, <2>0, <2>2, <2>3, SentKept DEF StreamTake, netVars, workVars
  <1>4. ASSUME NEW r \in Streams, StreamSend(r) PROVE NetInv'
    <2> SUFFICES ASSUME NEW q \in Streams PROVE Sent(q)'  BY DEF NetInv
    <2>0. Sent(q) /\ Base(q) \in Nat /\ Made(q) \in Int /\ Base(q)' = Base(q) + Rise(q) /\ q \in Calls /\ q \in Tasks
      BY BaseCounts, CountFacts DEF NetInv, BaseMoves, NumberInv
    <2>1. Rise(q) = 0  BY <1>4, NothingFacts, None4 DEF StreamSend, Rise, Chunk, linkVars, callVars
    <2>2. Base(q)' = Base(q)  BY <2>0, <2>1
    <2>3. Made(q)' = Made(q)  BY <1>4 DEF StreamSend, Made, workVars
    <2> QED  BY <1>4, <2>0, <2>2, <2>3, SentKept DEF StreamSend, netVars, workVars
  <1>5. ASSUME NEW r \in Streams, Pass(r) PROVE NetInv'
    <2> SUFFICES ASSUME NEW q \in Streams PROVE Sent(q)'  BY DEF NetInv
    <2>0. Sent(q) /\ Base(q) \in Nat /\ Made(q) \in Int /\ Base(q)' = Base(q) + Rise(q) /\ q \in Calls /\ q \in Tasks
      BY BaseCounts, CountFacts DEF NetInv, BaseMoves, NumberInv
    <2>1. Rise(q) = 0  BY <1>5, NothingFacts, None4 DEF Pass, Rise, Chunk, linkVars, callVars
    <2>2. Base(q)' = Base(q)  BY <2>0, <2>1
    <2>3. Made(q)' = Made(q)  BY <1>5 DEF Pass, Made, workVars
    <2> QED  BY <1>5, <2>0, <2>2, <2>3, SentKept DEF Pass, netVars, workVars
  <1>6. ASSUME ReadAnswer PROVE NetInv'
    <2> SUFFICES ASSUME NEW q \in Streams PROVE Sent(q)'  BY DEF NetInv
    <2>0. Sent(q) /\ Base(q) \in Nat /\ Made(q) \in Int /\ Base(q)' = Base(q) + Rise(q) /\ q \in Calls /\ q \in Tasks
      BY BaseCounts, CountFacts DEF NetInv, BaseMoves, NumberInv
    <2>1. /\ toParent # <<>> /\ toParent' = Tail(toParent) /\ Head(toParent) = toParent[1] /\ alive' = alive
          /\ Made(q)' = Made(q) /\ carried = Nothing
          /\ carried' = toParent[1] \/ carried' = carried
      BY <1>6, ReadFacts DEF ReadAnswer, FormInv, ReaderInv, Made, workVars
    <2>2. /\ Len(toParent) \in Nat \ {0} /\ Len(toParent') = Len(toParent) - 1
          /\ \A i \in 1 .. Len(toParent') : i + 1 \in 1 .. Len(toParent) /\ toParent'[i] = toParent[i + 1]
      BY <2>1, ReadFacts
    <2>3. \A i \in 1 .. Len(toParent') : Chunk(toParent'[i], q) =>
            Base(q) < toParent'[i].n /\ toParent'[i].n <= Made(q)
      BY <2>0, <2>2 DEF Sent
    <2>4. DoneComes(q)' => DoneComes(q)  BY <2>2 DEF DoneComes
    <2>5. ~Chunk(carried, q)  BY <2>1, NothingFacts, None4 DEF Chunk
    <2>6. CASE ~Chunk(toParent[1], q)
      <3>1. Rise(q) = 0  BY <2>1, <2>5, <2>6 DEF Rise
      <3>2. Base(q)' = Base(q)  BY <2>0, <3>1
      <3>3. Follow(toParent', q, Base(q))  BY <2>0, <2>1, <2>6, ReadFollow DEF Sent
      <3>4. Reach(toParent, q, Base(q), Made(q)) => Reach(toParent', q, Base(q), Made(q))
        BY <2>1, <2>6, ReadReach
      <3> QED  BY <2>0, <2>1, <2>3, <2>4, <3>2, <3>3, <3>4 DEF Sent
    <2>7. CASE Chunk(toParent[1], q)
      <3>1. carried' = toParent[1]  BY <1>6, <2>7, HeadIsTaken
      <3>2. Rise(q) = 1  BY <2>5, <2>7, <3>1 DEF Rise
      <3>3. Base(q)' = Base(q) + 1  BY <2>0, <3>2
      <3>4. /\ Follow(toParent', q, Base(q) + 1) /\ toParent[1].n = Base(q) + 1
            /\ \A i \in 1 .. Len(toParent') : Chunk(toParent'[i], q) => Base(q) + 1 < toParent'[i].n
        BY <2>0, <2>1, <2>7, ReadFollow DEF Sent
      <3>5. 1 \in 1 .. Len(toParent)  BY <2>2
      <3>6. Base(q) + 1 <= Made(q)  BY <2>0, <2>7, <3>4, <3>5 DEF Sent
      <3>7. ASSUME Reach(toParent, q, Base(q), Made(q)) PROVE Reach(toParent', q, Base(q) + 1, Made(q))
        <4>1. Made(q) # Base(q)  BY <2>0, <3>6
        <4>2. \/ Reach(toParent', q, Base(q), Made(q))
              \/ toParent[1].n = Made(q)
          BY <2>1, <3>7, ReadReach
        <4> QED  BY <3>4, <4>1, <4>2 DEF Reach
      <3> QED  BY <2>0, <2>1, <2>3, <2>4, <3>3, <3>4, <3>6, <3>7 DEF Sent
    <2> QED  BY <2>6, <2>7
  <1>7. ASSUME PutAnswer PROVE NetInv'
    <2> SUFFICES ASSUME NEW q \in Streams PROVE Sent(q)'  BY DEF NetInv
    <2>0. Sent(q) /\ Base(q) \in Nat /\ Made(q) \in Int /\ Base(q)' = Base(q) + Rise(q) /\ q \in Calls /\ q \in Tasks
      BY BaseCounts, CountFacts DEF NetInv, BaseMoves, NumberInv
    <2>1. Rise(q) = 0  BY <1>7, NothingFacts, None4 DEF PutAnswer, Rise, Chunk, linkVars, callVars
    <2>2. Base(q)' = Base(q)  BY <2>0, <2>1
    <2>3. Made(q)' = Made(q)  BY <1>7 DEF PutAnswer, Made, workVars
    <2> QED  BY <1>7, <2>0, <2>2, <2>3, SentKept DEF PutAnswer, netVars, workVars
  <1>8. ASSUME ClosePending PROVE NetInv'
    <2> SUFFICES ASSUME NEW q \in Streams PROVE Sent(q)'  BY DEF NetInv
    <2>0. Sent(q) /\ Base(q) \in Nat /\ Made(q) \in Int /\ Base(q)' = Base(q) + Rise(q) /\ q \in Calls /\ q \in Tasks
      BY BaseCounts, CountFacts DEF NetInv, BaseMoves, NumberInv
    <2>1. Rise(q) = 0  BY <1>8, NothingFacts, None4 DEF ClosePending, Rise, Chunk, linkVars, callVars
    <2>2. Base(q)' = Base(q)  BY <2>0, <2>1
    <2>3. Made(q)' = Made(q)  BY <1>8 DEF ClosePending, Made, workVars
    <2> QED  BY <1>8, <2>0, <2>2, <2>3, SentKept DEF ClosePending, netVars, workVars
  <1>9. ASSUME ReadInline PROVE NetInv'
    <2> SUFFICES ASSUME NEW q \in Streams PROVE Sent(q)'  BY DEF NetInv
    <2>0. Sent(q) /\ Base(q) \in Nat /\ Made(q) \in Int /\ Base(q)' = Base(q) + Rise(q) /\ q \in Calls /\ q \in Tasks
      BY BaseCounts, CountFacts DEF NetInv, BaseMoves, NumberInv
    <2>1. Rise(q) = 0 /\ Made(q)' = Made(q) /\ alive' = alive  BY <1>9 DEF ReadInline, Rise, linkVars, Made, workVars
    <2>2. Base(q)' = Base(q)  BY <2>0, <2>1
    <2>3. PICK a \in Answers : Said(a) /\ ~Chunk(a, q) /\ ~DoneFor(a, q)
      BY <1>9, InlineFacts, CountFacts, CallFacts DEF Chunk, DoneFor
    <2> QED  BY <2>0, <2>1, <2>2, <2>3, SentOther
  <1>10. ASSUME ReadCancel PROVE NetInv'
    <2> SUFFICES ASSUME NEW q \in Streams PROVE Sent(q)'  BY DEF NetInv
    <2>0. Sent(q) /\ Base(q) \in Nat /\ Made(q) \in Int /\ Base(q)' = Base(q) + Rise(q) /\ q \in Calls /\ q \in Tasks
      BY BaseCounts, CountFacts DEF NetInv, BaseMoves, NumberInv
    <2>1. Rise(q) = 0 /\ Made(q)' = Made(q) /\ alive' = alive  BY <1>10 DEF ReadCancel, Rise, linkVars, Made, workVars
    <2>2. Base(q)' = Base(q)  BY <2>0, <2>1
    <2>3. PICK a \in Answers : Said(a) /\ ~Chunk(a, q) /\ ~DoneFor(a, q)
      BY <1>10, CancelFacts, CountFacts, CallFacts DEF Chunk, DoneFor
    <2> QED  BY <2>0, <2>1, <2>2, <2>3, SentOther
  <1>11. ASSUME NEW r \in Streams, TaskChunk(r) PROVE NetInv'
    <2> SUFFICES ASSUME NEW q \in Streams PROVE Sent(q)'  BY DEF NetInv
    <2>0. Sent(q) /\ Base(q) \in Nat /\ Made(q) \in Int /\ Base(q)' = Base(q) + Rise(q) /\ q \in Calls /\ q \in Tasks
      BY BaseCounts, CountFacts DEF NetInv, BaseMoves, NumberInv
    <2>1. Rise(q) = 0 /\ toParent' = toParent /\ alive' = alive  BY <1>11 DEF TaskChunk, Rise, linkVars, netVars
    <2>2. Base(q)' = Base(q)  BY <2>0, <2>1
    <2>3. reply[r] # "chunk"  BY <1>11, CountFacts DEF TaskChunk, FormInv, ReplyInv, None
    <2>4. CASE q = r
      <3>1. chunks'[r] = chunks[r] + 1 /\ reply'[r] = "chunk" /\ chunks[r] \in Nat
        BY <1>11, CountFacts DEF TaskChunk, Typed, TaskTyped
      <3>2. Made(q)' = Made(q)  BY <2>3, <2>4, <3>1 DEF Made
      <3> QED  BY <2>0, <2>1, <2>2, <3>2, SentKept
    <2>5. CASE q # r
      <3>1. chunks'[q] = chunks[q] /\ reply'[q] = reply[q]  BY <1>11, <2>0, <2>5 DEF TaskChunk, Typed, TaskTyped
      <3>2. Made(q)' = Made(q)  BY <3>1 DEF Made
      <3> QED  BY <2>0, <2>1, <2>2, <3>2, SentKept
    <2> QED  BY <2>4, <2>5
  <1>12. ASSUME NEW r \in Tasks, TaskFails(r) PROVE NetInv'
    <2> SUFFICES ASSUME NEW q \in Streams PROVE Sent(q)'  BY DEF NetInv
    <2>0. Sent(q) /\ Base(q) \in Nat /\ Made(q) \in Int /\ Base(q)' = Base(q) + Rise(q) /\ q \in Calls /\ q \in Tasks
      BY BaseCounts, CountFacts DEF NetInv, BaseMoves, NumberInv
    <2>1. Rise(q) = 0 /\ toParent' = toParent /\ alive' = alive /\ chunks' = chunks
      BY <1>12 DEF TaskFails, Rise, linkVars, netVars
    <2>2. Base(q)' = Base(q)  BY <2>0, <2>1
    <2>3. reply[r] # "chunk" /\ reply'[r] # "chunk"
      BY <1>12 DEF TaskFails, FormInv, ReplyInv, None, Typed, TaskTyped
    <2>4. q # r => reply'[q] = reply[q]  BY <1>12, <2>0 DEF TaskFails, Typed, TaskTyped
    <2>5. Made(q)' = Made(q)  BY <2>1, <2>3, <2>4 DEF Made
    <2> QED  BY <2>0, <2>1, <2>2, <2>5, SentKept
  <1>13. ASSUME NEW r \in Tasks, TaskSucceeds(r) PROVE NetInv'
    <2> SUFFICES ASSUME NEW q \in Streams PROVE Sent(q)'  BY DEF NetInv
    <2>0. Sent(q) /\ Base(q) \in Nat /\ Made(q) \in Int /\ Base(q)' = Base(q) + Rise(q) /\ q \in Calls /\ q \in Tasks
      BY BaseCounts, CountFacts DEF NetInv, BaseMoves, NumberInv
    <2>1. Rise(q) = 0 /\ toParent' = toParent /\ alive' = alive /\ chunks' = chunks
      BY <1>13 DEF TaskSucceeds, Rise, linkVars, netVars
    <2>2. Base(q)' = Base(q)  BY <2>0, <2>1
    <2>3. reply[r] # "chunk" /\ reply'[r] # "chunk"
      BY <1>13 DEF TaskSucceeds, FormInv, ReplyInv, None, Typed, TaskTyped
    <2>4. q # r => reply'[q] = reply[q]  BY <1>13, <2>0 DEF TaskSucceeds, Typed, TaskTyped
    <2>5. Made(q)' = Made(q)  BY <2>1, <2>3, <2>4 DEF Made
    <2> QED  BY <2>0, <2>1, <2>2, <2>5, SentKept
  <1>14. ASSUME NEW r \in Tasks, TaskWrite(r) PROVE NetInv'
    <2> SUFFICES ASSUME NEW q \in Streams PROVE Sent(q)'  BY DEF NetInv
    <2>0. Sent(q) /\ Base(q) \in Nat /\ Made(q) \in Int /\ Base(q)' = Base(q) + Rise(q) /\ q \in Calls /\ q \in Tasks
      BY BaseCounts, CountFacts DEF NetInv, BaseMoves, NumberInv
    <2>1. /\ Rise(q) = 0 /\ alive' = alive /\ alive /\ chunks' = chunks
          /\ Said(Written(r)) /\ Written(r).id = r /\ Written(r).type = reply[r]
          /\ (r \in Streams => Written(r).n = chunks[r])
          /\ reply'[r] = None /\ \A x \in Tasks : x # r => reply'[x] = reply[x]
      BY <1>14, WrittenFacts, SaidFacts
      DEF FormInv, TaskWrite, Typed, TaskTyped, Written, Rise, linkVars
    <2>2. Base(q)' = Base(q)  BY <2>0, <2>1
    <2>3. CASE ~(q = r /\ reply[r] = "chunk")
      <3>1. Made(q)' = Made(q)  BY <2>0, <2>1, <2>3, None4 DEF Made
      <3>2. ~Chunk(Written(r), q)  BY <2>1, <2>3 DEF Chunk
      <3> QED  BY <2>0, <2>1, <2>2, <3>1, <3>2, SentOther
    <2>4. CASE q = r /\ reply[r] = "chunk"
      <3>1. Made(q) = chunks[q] - 1 /\ Made(q)' = chunks[q] /\ chunks[q] \in Nat /\ Written(r).n = chunks[q]
        BY <2>1, <2>4, CountFacts, None4 DEF Made
      <3>2. Chunk(Written(r), q)  BY <2>1, <2>4 DEF Chunk
      <3>3. Reach(toParent, q, Base(q), Made(q))  BY <2>0, <2>1 DEF Sent
      <3>4. Made(q) = Base(q) => Written(r).n = Base(q) + 1  BY <2>0, <3>1
      <3>5. \A j \in 1 .. Len(toParent) : Chunk(toParent[j], q) => toParent[j].n < Written(r).n
        <4> SUFFICES ASSUME NEW j \in 1 .. Len(toParent), Chunk(toParent[j], q) PROVE toParent[j].n < Written(r).n
          OBVIOUS
        <4>1. toParent[j].n \in Nat /\ toParent[j].n <= Made(q)  BY <2>0, NumberFacts DEF Sent
        <4> QED  BY <3>1, <4>1
      <3>6. Follow(toParent', q, Base(q))
        BY <2>0, <2>1, <3>1, <3>3, <3>4, <3>5, SaidFollow DEF Sent, Reach
      <3>7. ASSUME NEW i \in 1 .. Len(toParent'), Chunk(toParent'[i], q) PROVE Base(q) < toParent'[i].n /\ toParent'[i].n <= chunks[q]
        <4>1. CASE i = Len(toParent) + 1
          <5>1. toParent'[i] = Written(r) /\ Base(q) <= Made(q)  BY <2>0, <2>1, <4>1 DEF Said, Sent
          <5> QED  BY <2>0, <3>1, <5>1
        <4>2. CASE i # Len(toParent) + 1
          <5>1. i \in 1 .. Len(toParent) /\ toParent'[i] = toParent[i]  BY <2>1, <4>2 DEF Said
          <5>2. toParent[i].n \in Nat /\ toParent[i].n < chunks[q] /\ Base(q) < toParent[i].n
            BY <2>0, <3>1, <3>5, <3>7, <5>1, NumberFacts DEF Sent
          <5> QED  BY <3>1, <5>1, <5>2
        <4> QED  BY <4>1, <4>2
      <3>8. Reach(toParent', q, Base(q), chunks[q])  BY <2>1, <3>1, <3>2, SaidReach
      <3>9. Base(q) <= chunks[q]  BY <2>0, <3>1 DEF Sent
      <3> QED  BY <2>2, <3>1, <3>6, <3>7, <3>8, <3>9 DEF Sent
    <2> QED  BY <2>3, <2>4
  <1>15. ASSUME WorkerDies PROVE NetInv'
    <2> SUFFICES ASSUME NEW q \in Streams PROVE Sent(q)'  BY DEF NetInv
    <2>0. Sent(q) /\ Base(q) \in Nat /\ Made(q) \in Int /\ Base(q)' = Base(q) + Rise(q) /\ q \in Calls /\ q \in Tasks
      BY BaseCounts, CountFacts DEF NetInv, BaseMoves, NumberInv
    <2>1. Rise(q) = 0 /\ Made(q)' = Made(q) /\ ~alive'  BY <1>15 DEF WorkerDies, Rise, linkVars, Made
    <2>2. Base(q)' = Base(q)  BY <2>0, <2>1
    <2>3. /\ Len(toParent) \in Nat /\ Len(toParent') \in Nat /\ Len(toParent') <= Len(toParent)
          /\ \A i \in 1 .. Len(toParent') : i \in 1 .. Len(toParent) /\ toParent'[i] = toParent[i]
      BY <1>15, DiesFacts
    <2>4. Follow(toParent', q, Base(q))
      <3> SUFFICES ASSUME NEW i \in 1 .. Len(toParent'), Chunk(toParent'[i], q)
                   PROVE  /\ \/ toParent'[i].n = Base(q) + 1
                             \/ \E j \in 1 .. i - 1 : Chunk(toParent'[j], q) /\ toParent'[j].n = toParent'[i].n - 1
                          /\ \A j \in 1 .. i - 1 : Chunk(toParent'[j], q) => toParent'[j].n < toParent'[i].n
        BY DEF Follow
      <3>1. \A j \in 1 .. i - 1 : j \in 1 .. Len(toParent')  BY <2>3
      <3> QED  BY <2>0, <2>3, <3>1 DEF Sent, Follow
    <2>5. \A i \in 1 .. Len(toParent') : Chunk(toParent'[i], q) =>
            Base(q) < toParent'[i].n /\ toParent'[i].n <= Made(q)
      BY <2>0, <2>3 DEF Sent
    <2>6. ASSUME DoneComes(q)' PROVE Reach(toParent', q, Base(q), Made(q))
      <3>1. PICK i \in 1 .. Len(toParent') : DoneFor(toParent'[i], q)  BY <2>6 DEF DoneComes
      <3>2. i \in 1 .. Len(toParent) /\ DoneFor(toParent[i], q)  BY <2>3, <3>1
      <3>3. Reach(toParent, q, Base(q), Made(q))  BY <2>0, <3>2 DEF Sent, DoneComes
      <3>4. \A j \in (i + 1) .. Len(toParent) : toParent[j].id # q
        BY <2>0, <3>2 DEF QuietInv, LastOfTask, EndsTask, DoneFor
      <3>5. \A j \in 1 .. Len(toParent) : Chunk(toParent[j], q) => j \in 1 .. Len(toParent')
        <4> SUFFICES ASSUME NEW j \in 1 .. Len(toParent), toParent[j].id = q PROVE j <= Len(toParent')
          BY <2>3 DEF Chunk
        <4> QED  BY <2>3, <3>1, <3>4
      <3> QED  BY <2>3, <3>3, <3>5 DEF Reach
    <2> QED  BY <2>1, <2>2, <2>4, <2>5, <2>6, <2>0 DEF Sent
  <1>16. ASSUME NEW r \in Calls, Start(r) \/ StartClosed(r) \/ Register(r) \/ Write(r) \/ WriteFails(r) \/
           TimeOut(r) \/ GiveUp(r) \/ Leave(r) \/ Cancel(r)
        PROVE  NetInv'
    BY <1>1, <1>16 DEF Start, StartClosed, Register, Write, WriteFails, TimeOut, GiveUp, Leave, Cancel,
        callVars, linkVars, netVars, workVars
  <1>17. ASSUME NEW r \in Streams, StreamCancel(r) \/ ClientGone(r)
        PROVE  NetInv'
    BY <1>1, <1>17 DEF StreamCancel, ClientGone, callVars, linkVars, netVars, workVars
  <1>18. ASSUME NEW r \in Tasks, TaskRegister(r) \/ TaskOverride(r) \/ TaskPickUp(r) \/ TaskGenerate(r) \/
           TaskDiscards(r) \/ TaskUnlock(r)
        PROVE  NetInv'
    BY <1>1, <1>18 DEF TaskRegister, TaskOverride, TaskPickUp, TaskGenerate, TaskDiscards, TaskUnlock,
        callVars, linkVars, netVars, workVars
  <1>19. ASSUME ReadFails \/ ClosePendingEnd \/ Close \/ ReadSynth
        PROVE  NetInv'
    BY <1>1, <1>19 DEF ReadFails, ClosePendingEnd, Close, ReadSynth, callVars, linkVars, netVars, workVars
  <1> QED
    BY <1>1, <1>2, <1>3, <1>4, <1>5, <1>6, <1>7, <1>8, <1>9, <1>10, <1>11, <1>12, <1>13, <1>14,
       <1>15, <1>16, <1>17, <1>18, <1>19
    DEF Next, CallStep, StreamStep, ReaderStep, WorkerLoop, TaskStep

(* A task that has ended is not begun again. *)
EndedStays ==
  \A q \in Tasks :
    /\ task[q] = "ended" => task'[q] = "ended" /\ (q \in Streams => chunks'[q] = chunks[q])
    /\ task[q] \in Begun => task'[q] \in Begun

LEMMA EndedKept == ASSUME Typed, AskInv, Next PROVE EndedStays
  <1>1. CASE UNCHANGED <<task, chunks>>
    BY <1>1 DEF EndedStays, Begun
  <1>2. ASSUME ReadSynth PROVE EndedStays
    <2>1. /\ Heard /\ toWorker[1].id \in Tasks /\ Asks(toWorker[1], toWorker[1].id)
          /\ 1 \in 1 .. Len(toWorker)
      BY <1>2, HeardFacts DEF ReadSynth, Typed, Heard, Asks
    <2>2. task[toWorker[1].id] = "none"  BY <2>1 DEF AskInv, Waiting, Asked
    <2>3. \A p \in Tasks : p # toWorker[1].id => task'[p] = task[p]
      BY <1>2, <2>1 DEF ReadSynth, Heard, Typed, TaskTyped
    <2> QED  BY <1>2, <2>2, <2>3, CallFacts DEF ReadSynth, EndedStays, Begun
  <1>3. ASSUME NEW r \in Tasks, TaskRegister(r) PROVE EndedStays
    BY <1>3, CallFacts DEF TaskRegister, EndedStays, Begun, Typed, TaskTyped
  <1>4. ASSUME NEW r \in Tasks, TaskOverride(r) PROVE EndedStays
    BY <1>4, CallFacts DEF TaskOverride, EndedStays, Begun, Typed, TaskTyped
  <1>5. ASSUME NEW r \in Tasks, TaskPickUp(r) PROVE EndedStays
    BY <1>5, CallFacts DEF TaskPickUp, EndedStays, Begun, Typed, TaskTyped
  <1>6. ASSUME NEW r \in Tasks, TaskGenerate(r) PROVE EndedStays
    BY <1>6, CallFacts DEF TaskGenerate, EndedStays, Begun, Typed, TaskTyped
  <1>7. ASSUME NEW r \in Streams, TaskChunk(r) PROVE EndedStays
    BY <1>7, CallFacts DEF TaskChunk, EndedStays, Begun, Typed, TaskTyped
  <1>8. ASSUME NEW r \in Tasks, TaskFails(r) PROVE EndedStays
    BY <1>8, CallFacts DEF TaskFails, EndedStays, Begun, Typed, TaskTyped
  <1>9. ASSUME NEW r \in Tasks, TaskDiscards(r) PROVE EndedStays
    BY <1>9, CallFacts DEF TaskDiscards, EndedStays, Begun, Typed, TaskTyped
  <1>10. ASSUME NEW r \in Tasks, TaskSucceeds(r) PROVE EndedStays
    BY <1>10, CallFacts DEF TaskSucceeds, EndedStays, Begun, Typed, TaskTyped
  <1>11. ASSUME NEW r \in Tasks, TaskWrite(r) PROVE EndedStays
    BY <1>11, CallFacts DEF TaskWrite, EndedStays, Begun, Typed, TaskTyped
  <1>12. ASSUME NEW r \in Calls, Start(r) \/ StartClosed(r) \/ Register(r) \/ Write(r) \/ WriteFails(r) \/
           Receive(r) \/ TimeOut(r) \/ GiveUp(r) \/ Leave(r) \/ Cancel(r)
        PROVE  EndedStays
    BY <1>1, <1>12 DEF Start, StartClosed, Register, Write, WriteFails, Receive, TimeOut, GiveUp, Leave,
        Cancel, callVars, linkVars, netVars, workVars
  <1>13. ASSUME NEW r \in Streams, StreamTake(r) \/ StreamSend(r) \/ StreamCancel(r) \/ Pass(r) \/ ClientGone(r)
        PROVE  EndedStays
    BY <1>1, <1>13 DEF StreamTake, StreamSend, StreamCancel, Pass, ClientGone, callVars, linkVars, netVars,
        workVars
  <1>14. ASSUME NEW r \in Tasks, TaskUnlock(r)
        PROVE  EndedStays
    BY <1>1, <1>14 DEF TaskUnlock, callVars, linkVars, netVars, workVars
  <1>15. ASSUME ReadAnswer \/ PutAnswer \/ ReadFails \/ ClosePending \/ ClosePendingEnd \/ Close
           \/ ReadInline \/ ReadCancel \/ WorkerDies
        PROVE  EndedStays
    BY <1>1, <1>15 DEF ReadAnswer, PutAnswer, ReadFails, ClosePending, ClosePendingEnd, Close, ReadInline,
        ReadCancel, WorkerDies, callVars, linkVars, netVars, workVars
  <1> QED
    BY <1>1, <1>2, <1>3, <1>4, <1>5, <1>6, <1>7, <1>8, <1>9, <1>10, <1>11, <1>12, <1>13, <1>14,
       <1>15
    DEF Next, CallStep, StreamStep, ReaderStep, WorkerLoop, TaskStep

LEMMA AllMadeKept ==
  ASSUME Typed, FormInv, CallInv, QuietInv, NumberInv, Next, NEW q \in Streams, Rise(q) = 0
  PROVE  Base(q)' = Base(q) /\ (AllMade(q) => AllMade(q)')
  <1>1. Base(q)' = Base(q)  BY BaseCounts, CountFacts DEF BaseMoves, NumberInv
  <1>2. task[q] = "ended" => task'[q] = "ended" /\ chunks'[q] = chunks[q]
    BY EndedKept, CallFacts DEF QuietInv, EndedStays
  <1> QED  BY <1>1, <1>2 DEF AllMade

(* A call that ends with "done" has nothing left on its way. *)
LEMMA DoneReached ==
  ASSUME Typed, FormInv, LastOfTask, NEW q \in Streams, Sent(q), toParent # <<>>,
         Len(toParent) \in Nat \ {0}, DoneFor(toParent[1], q)
  PROVE  AllMade(q)
  <1>1. 1 \in 1 .. Len(toParent) /\ 1 + 1 = 2 /\ q \in Tasks  BY CountFacts
  <1>2. task[q] = "ended" /\ \A j \in 2 .. Len(toParent) : toParent[j].id # q
    BY <1>1 DEF LastOfTask, EndsTask, DoneFor
  <1>3. ASSUME NEW j \in 1 .. Len(toParent), Chunk(toParent[j], q) PROVE FALSE
    <2>1. j = 1 \/ j \in 2 .. Len(toParent)  OBVIOUS
    <2> QED  BY <1>2, <1>3, <2>1 DEF Chunk, DoneFor
  <1>4. Reach(toParent, q, Base(q), Made(q))  BY <1>1 DEF Sent, DoneComes
  <1>5. Made(q) = Base(q)  BY <1>3, <1>4 DEF Reach
  <1>6. Made(q) = chunks[q]  BY <1>1, <1>2, None4 DEF Made, FormInv, ReplyInv
  <1> QED  BY <1>2, <1>5, <1>6 DEF AllMade

LEMMA DoneKept ==
  ASSUME NEW q \in Streams, AllMade(q) => AllMade(q)', held'[q].type = "done" => AllMade(q),
         \A i \in 1 .. Len(chan'[q]) : chan'[q][i].type = "done" => AllMade(q),
         DoneFor(carried', q) => AllMade(q), outcome'[q] = "done" => AllMade(q) /\ Base(q)' = Passed(q)'
  PROVE  DoneLast(q)'
  BY DEF DoneLast

LEMMA DoneStep == ASSUME Typed, FormInv, CallInv, QuietInv, NumberInv, Next PROVE DoneInv'
  <1> USE DEF CallInv, QuietInv, NumberInv
  <1>1. CASE UNCHANGED <<held, chan, carried, outcome, out, given, task, chunks>>
    <2> SUFFICES ASSUME NEW q \in Streams PROVE DoneLast(q)'  BY DEF DoneInv
    <2>1. Base(q)' = Base(q) /\ Passed(q)' = Passed(q)  BY <1>1 DEF Base, Passed, InHand, InChan, InCarried
    <2> QED  BY <1>1, <2>1 DEF DoneInv, DoneLast, AllMade
  <1>2. ASSUME NEW r \in Calls, StartClosed(r) PROVE DoneInv'
    <2> SUFFICES ASSUME NEW q \in Streams PROVE DoneLast(q)'  BY DEF DoneInv
    <2>0. /\ DoneLast(q) /\ LastIsLast(q) /\ Tabled(q) /\ q \in Calls /\ q \in Tasks /\ q \notin Unary
          /\ held[q].type = "done" => AllMade(q)
          /\ \A i \in 1 .. Len(chan[q]) : chan[q][i].type = "done" => AllMade(q)
          /\ DoneFor(carried, q) => AllMade(q)
          /\ outcome[q] = "done" => AllMade(q) /\ Base(q) = Passed(q)
      BY CountFacts DEF DoneInv, DoneLast, LastInv, TableInv
    <2>1. /\ Rise(q) = 0 /\ UNCHANGED <<held, chan, carried, out, given>>
          /\ outcome'[q] = "done" => outcome[q] = "done"
      BY <1>2, <2>0 DEF StartClosed, Rise, linkVars, Typed, CallTyped
    <2>9. Base(q)' = Base(q) /\ (AllMade(q) => AllMade(q)')  BY <2>1, AllMadeKept DEF NumberInv
    <2>2. Passed(q)' = Passed(q)  BY <2>1 DEF Passed
    <2> QED  BY <2>0, <2>1, <2>2, <2>9, DoneKept
  <1>3. ASSUME NEW r \in Calls, WriteFails(r) PROVE DoneInv'
    <2> SUFFICES ASSUME NEW q \in Streams PROVE DoneLast(q)'  BY DEF DoneInv
    <2>0. /\ DoneLast(q) /\ LastIsLast(q) /\ Tabled(q) /\ q \in Calls /\ q \in Tasks /\ q \notin Unary
          /\ held[q].type = "done" => AllMade(q)
          /\ \A i \in 1 .. Len(chan[q]) : chan[q][i].type = "done" => AllMade(q)
          /\ DoneFor(carried, q) => AllMade(q)
          /\ outcome[q] = "done" => AllMade(q) /\ Base(q) = Passed(q)
      BY CountFacts DEF DoneInv, DoneLast, LastInv, TableInv
    <2>1. /\ Rise(q) = 0 /\ UNCHANGED <<held, chan, carried, out, given>>
          /\ outcome'[q] = "done" => outcome[q] = "done"
      BY <1>3, <2>0 DEF WriteFails, Rise, linkVars, Typed, CallTyped
    <2>9. Base(q)' = Base(q) /\ (AllMade(q) => AllMade(q)')  BY <2>1, AllMadeKept DEF NumberInv
    <2>2. Passed(q)' = Passed(q)  BY <2>1 DEF Passed
    <2> QED  BY <2>0, <2>1, <2>2, <2>9, DoneKept
  <1>4. ASSUME NEW r \in Calls, Receive(r) PROVE DoneInv'
    <2> SUFFICES ASSUME NEW q \in Streams PROVE DoneLast(q)'  BY DEF DoneInv
    <2>0. /\ DoneLast(q) /\ LastIsLast(q) /\ Tabled(q) /\ q \in Calls /\ q \in Tasks /\ q \notin Unary
          /\ held[q].type = "done" => AllMade(q)
          /\ \A i \in 1 .. Len(chan[q]) : chan[q][i].type = "done" => AllMade(q)
          /\ DoneFor(carried, q) => AllMade(q)
          /\ outcome[q] = "done" => AllMade(q) /\ Base(q) = Passed(q)
      BY CountFacts DEF DoneInv, DoneLast, LastInv, TableInv
    <2>2. r \in Calls /\ chan[r] # <<>> /\ q # r  BY <1>4, <2>0, CallFacts DEF Receive
    <2>3. Took(r)  BY <1>4, <2>2, TookFacts DEF Receive, Typed
    <2>4. chan'[q] = chan[q] /\ outcome'[q] = outcome[q]  BY <1>4, <2>0, <2>2, <2>3 DEF Took, Receive, Typed, CallTyped
    <2>1. Rise(q) = 0 /\ UNCHANGED <<held, carried, out, given>>  BY <1>4 DEF Receive, Rise, linkVars
    <2>9. Base(q)' = Base(q) /\ (AllMade(q) => AllMade(q)')  BY <2>1, AllMadeKept DEF NumberInv
    <2>5. Passed(q)' = Passed(q)  BY <2>1 DEF Passed
    <2> QED  BY <2>0, <2>1, <2>4, <2>5, <2>9, DoneKept
  <1>5. ASSUME NEW r \in Calls, TimeOut(r) PROVE DoneInv'
    <2> SUFFICES ASSUME NEW q \in Streams PROVE DoneLast(q)'  BY DEF DoneInv
    <2>0. /\ DoneLast(q) /\ LastIsLast(q) /\ Tabled(q) /\ q \in Calls /\ q \in Tasks /\ q \notin Unary
          /\ held[q].type = "done" => AllMade(q)
          /\ \A i \in 1 .. Len(chan[q]) : chan[q][i].type = "done" => AllMade(q)
          /\ DoneFor(carried, q) => AllMade(q)
          /\ outcome[q] = "done" => AllMade(q) /\ Base(q) = Passed(q)
      BY CountFacts DEF DoneInv, DoneLast, LastInv, TableInv
    <2>1. /\ Rise(q) = 0 /\ UNCHANGED <<held, chan, carried, out, given>>
          /\ outcome'[q] = "done" => outcome[q] = "done"
      BY <1>5, <2>0 DEF TimeOut, Rise, linkVars, Typed, CallTyped
    <2>9. Base(q)' = Base(q) /\ (AllMade(q) => AllMade(q)')  BY <2>1, AllMadeKept DEF NumberInv
    <2>2. Passed(q)' = Passed(q)  BY <2>1 DEF Passed
    <2> QED  BY <2>0, <2>1, <2>2, <2>9, DoneKept
  <1>6. ASSUME NEW r \in Calls, GiveUp(r) PROVE DoneInv'
    <2> SUFFICES ASSUME NEW q \in Streams PROVE DoneLast(q)'  BY DEF DoneInv
    <2>0. /\ DoneLast(q) /\ LastIsLast(q) /\ Tabled(q) /\ q \in Calls /\ q \in Tasks /\ q \notin Unary
          /\ held[q].type = "done" => AllMade(q)
          /\ \A i \in 1 .. Len(chan[q]) : chan[q][i].type = "done" => AllMade(q)
          /\ DoneFor(carried, q) => AllMade(q)
          /\ outcome[q] = "done" => AllMade(q) /\ Base(q) = Passed(q)
      BY CountFacts DEF DoneInv, DoneLast, LastInv, TableInv
    <2>1. /\ Rise(q) = 0 /\ UNCHANGED <<held, chan, carried, out, given>>
          /\ outcome'[q] = "done" => outcome[q] = "done"
      BY <1>6, <2>0 DEF GiveUp, Rise, linkVars, Typed, CallTyped
    <2>9. Base(q)' = Base(q) /\ (AllMade(q) => AllMade(q)')  BY <2>1, AllMadeKept DEF NumberInv
    <2>2. Passed(q)' = Passed(q)  BY <2>1 DEF Passed
    <2> QED  BY <2>0, <2>1, <2>2, <2>9, DoneKept
  <1>7. ASSUME NEW r \in Streams, StreamTake(r) PROVE DoneInv'
    <2> SUFFICES ASSUME NEW q \in Streams PROVE DoneLast(q)'  BY DEF DoneInv
    <2>0. /\ DoneLast(q) /\ LastIsLast(q) /\ Tabled(q) /\ q \in Calls /\ q \in Tasks /\ q \notin Unary
          /\ held[q].type = "done" => AllMade(q)
          /\ \A i \in 1 .. Len(chan[q]) : chan[q][i].type = "done" => AllMade(q)
          /\ DoneFor(carried, q) => AllMade(q)
          /\ outcome[q] = "done" => AllMade(q) /\ Base(q) = Passed(q)
      BY CountFacts DEF DoneInv, DoneLast, LastInv, TableInv
    <2>2. r \in Calls /\ chan[r] # <<>>  BY <1>7, CallFacts DEF StreamTake
    <2>3. Took(r) /\ Head(chan[r]) = chan[r][1]  BY <1>7, <2>2, TookFacts DEF StreamTake, Typed
    <2>1. Rise(q) = 0 /\ UNCHANGED <<carried, out, given, outcome>>  BY <1>7 DEF StreamTake, Rise, linkVars
    <2>9. Base(q)' = Base(q) /\ (AllMade(q) => AllMade(q)')  BY <2>1, AllMadeKept DEF NumberInv
    <2>5. Passed(q)' = Passed(q)  BY <2>1 DEF Passed
    <2>6. CASE q # r
      <3>1. chan'[q] = chan[q] /\ held'[q] = held[q]
        BY <1>7, <2>0, <2>3, <2>6 DEF Took, StreamTake, Typed, WayTyped
      <3> QED  BY <2>0, <2>1, <2>5, <2>9, <3>1, DoneKept
    <2>7. CASE q = r
      <3>1. held'[q] = chan[q][1] /\ 1 \in 1 .. Len(chan[q])
        BY <1>7, <2>3, <2>7 DEF Took, StreamTake, Typed, WayTyped
      <3>2. \A i \in 1 .. Len(chan'[q]) : i + 1 \in 1 .. Len(chan[q]) /\ chan'[q][i] = chan[q][i + 1]
        BY <2>3, <2>7 DEF Took
      <3> QED  BY <2>0, <2>1, <2>5, <2>9, <3>1, <3>2, DoneKept
    <2> QED  BY <2>6, <2>7
  <1>8. ASSUME NEW r \in Streams, StreamSend(r) PROVE DoneInv'
    <2> SUFFICES ASSUME NEW q \in Streams PROVE DoneLast(q)'  BY DEF DoneInv
    <2>0. /\ DoneLast(q) /\ LastIsLast(q) /\ Tabled(q) /\ q \in Calls /\ q \in Tasks /\ q \notin Unary
          /\ held[q].type = "done" => AllMade(q)
          /\ \A i \in 1 .. Len(chan[q]) : chan[q][i].type = "done" => AllMade(q)
          /\ DoneFor(carried, q) => AllMade(q)
          /\ outcome[q] = "done" => AllMade(q) /\ Base(q) = Passed(q)
      BY CountFacts DEF DoneInv, DoneLast, LastInv, TableInv
    <2>1. Rise(q) = 0 /\ UNCHANGED <<carried, chan, given>>  BY <1>8 DEF StreamSend, Rise, linkVars
    <2>9. Base(q)' = Base(q) /\ (AllMade(q) => AllMade(q)')  BY <2>1, AllMadeKept DEF NumberInv
    <2>2. CASE q # r
      <3>1. out'[q] = out[q] /\ held'[q] = held[q] /\ outcome'[q] = outcome[q]
        BY <1>8, <2>0, <2>2 DEF StreamSend, Typed, OutTyped, WayTyped, CallTyped
      <3>2. Passed(q)' = Passed(q)  BY <2>1, <3>1 DEF Passed
      <3> QED  BY <2>0, <2>1, <2>9, <3>1, <3>2, DoneKept
    <2>3. CASE q = r
      <3>1. /\ held'[q].type # "done" /\ outcome[q] = None /\ call[r] = "send"
        BY <1>8, <2>0, <2>3, NothingFacts, None4 DEF StreamSend, Tabled, Typed, WayTyped
      <3>2. outcome'[q] = "done" => held[q].type = "done" /\ out' = out
        BY <1>8, <2>0, <2>3, <3>1, None4 DEF StreamSend, Typed, CallTyped
      <3>3. ASSUME outcome'[q] = "done" PROVE Base(q)' = Passed(q)'
        <4>1. chan[q] = <<>> /\ carried.id # q  BY <2>0, <3>2, <3>3 DEF LastIsLast
        <4>2. InHand(q) = 0 /\ InCarried(q) = 0 /\ Passed(q)' = Passed(q)
          BY <2>1, <3>2, <3>3, <4>1 DEF InHand, InCarried, Chunk, Passed
        <4>3. InChan(q) = 0  BY <2>0, <4>1, EmptyFacts DEF InChan, Typed, WayTyped
        <4> QED  BY <2>9, <4>2, <4>3, CountFacts DEF Base
      <3> QED  BY <2>0, <2>1, <2>9, <3>1, <3>2, <3>3, DoneKept
    <2> QED  BY <2>2, <2>3
  <1>9. ASSUME NEW r \in Streams, Pass(r) PROVE DoneInv'
    <2> SUFFICES ASSUME NEW q \in Streams PROVE DoneLast(q)'  BY DEF DoneInv
    <2>0. /\ DoneLast(q) /\ LastIsLast(q) /\ Tabled(q) /\ q \in Calls /\ q \in Tasks /\ q \notin Unary
          /\ held[q].type = "done" => AllMade(q)
          /\ \A i \in 1 .. Len(chan[q]) : chan[q][i].type = "done" => AllMade(q)
          /\ DoneFor(carried, q) => AllMade(q)
          /\ outcome[q] = "done" => AllMade(q) /\ Base(q) = Passed(q)
      BY CountFacts DEF DoneInv, DoneLast, LastInv, TableInv
    <2>1. Rise(q) = 0 /\ UNCHANGED <<carried, chan, held, outcome>>  BY <1>9 DEF Pass, Rise, linkVars
    <2>9. Base(q)' = Base(q) /\ (AllMade(q) => AllMade(q)')  BY <2>1, AllMadeKept DEF NumberInv
    <2>2. Passed(q)' = Passed(q)  BY <1>9, PassKeeps
    <2> QED  BY <2>0, <2>1, <2>2, <2>9, DoneKept
  <1>10. ASSUME ReadAnswer PROVE DoneInv'
    <2> SUFFICES ASSUME NEW q \in Streams PROVE DoneLast(q)'  BY DEF DoneInv
    <2>0. /\ DoneLast(q) /\ LastIsLast(q) /\ Tabled(q) /\ q \in Calls /\ q \in Tasks /\ q \notin Unary
          /\ held[q].type = "done" => AllMade(q)
          /\ \A i \in 1 .. Len(chan[q]) : chan[q][i].type = "done" => AllMade(q)
          /\ DoneFor(carried, q) => AllMade(q)
          /\ outcome[q] = "done" => AllMade(q) /\ Base(q) = Passed(q)
      BY CountFacts DEF DoneInv, DoneLast, LastInv, TableInv
    <2>2. /\ toParent # <<>> /\ Head(toParent) = toParent[1] /\ Len(toParent) \in Nat \ {0} /\ reader = "read"
          /\ UNCHANGED <<held, chan, out, given, outcome>> /\ carried = Nothing
          /\ carried' = toParent[1] \/ carried' = carried
      BY <1>10, ReadFacts DEF ReadAnswer, FormInv, ReaderInv
    <2>3. Passed(q)' = Passed(q)  BY <2>2 DEF Passed
    <2>4. ~Chunk(carried, q) /\ ~DoneFor(carried, q)  BY <2>2, NothingFacts, None4 DEF Chunk, DoneFor
    <2>5. CASE Chunk(carried', q)
      <3>1. Chunk(toParent[1], q)  BY <2>2, <2>4, <2>5
      <3>2. q \in pending  BY <1>10, <3>1, HeadIsTaken
      <3>3. held'[q].type # "done" /\ \A i \in 1 .. Len(chan'[q]) : chan'[q][i].type # "done"
        BY <2>0, <2>2, <3>2 DEF LastIsLast
      <3>4. ~DoneFor(carried', q)  BY <2>5 DEF Chunk, DoneFor
      <3>5. outcome'[q] # "done"
        <4> SUFFICES ASSUME outcome[q] = "done" PROVE FALSE  BY <2>2
        <4>1. Over(q) /\ ~Early(q)  BY <2>0, CountFacts, None4 DEF Tabled, Over, Early
        <4> QED  BY <2>0, <2>2, <3>1, <4>1, QuietMeans DEF Chunk
      <3> QED  BY <3>3, <3>4, <3>5 DEF DoneLast
    <2>6. CASE ~Chunk(carried', q)
      <3>1. Rise(q) = 0  BY <2>6 DEF Rise
      <3>2. Base(q)' = Base(q) /\ (AllMade(q) => AllMade(q)')  BY <3>1, AllMadeKept DEF NumberInv
      <3>3. DoneFor(carried', q) => AllMade(q)
        BY <2>2, <2>4, DoneReached DEF NumberInv, NetInv
      <3> QED  BY <2>0, <2>2, <2>3, <3>2, <3>3, DoneKept
    <2> QED  BY <2>5, <2>6
  <1>11. ASSUME PutAnswer PROVE DoneInv'
    <2> SUFFICES ASSUME NEW q \in Streams PROVE DoneLast(q)'  BY DEF DoneInv
    <2>0. /\ DoneLast(q) /\ LastIsLast(q) /\ Tabled(q) /\ q \in Calls /\ q \in Tasks /\ q \notin Unary
          /\ held[q].type = "done" => AllMade(q)
          /\ \A i \in 1 .. Len(chan[q]) : chan[q][i].type = "done" => AllMade(q)
          /\ DoneFor(carried, q) => AllMade(q)
          /\ outcome[q] = "done" => AllMade(q) /\ Base(q) = Passed(q)
      BY CountFacts DEF DoneInv, DoneLast, LastInv, TableInv
    <2>2. carried \in Answers /\ carried.id \in Calls  BY <1>11 DEF PutAnswer, FormInv, ReaderInv, Typed, WayTyped
    <2>3. Put(carried.id, carried)  BY <1>11, <2>2, PutFacts DEF PutAnswer, Typed
    <2>1. /\ Rise(q) = 0 /\ ~DoneFor(carried', q) /\ UNCHANGED <<held, out, given, outcome>>
      BY <1>11, NothingFacts, None4 DEF PutAnswer, Rise, Chunk, DoneFor
    <2>9. Base(q)' = Base(q) /\ (AllMade(q) => AllMade(q)')  BY <2>1, AllMadeKept DEF NumberInv
    <2>4. Passed(q)' = Passed(q)  BY <2>1 DEF Passed
    <2>5. \A i \in 1 .. Len(chan'[q]) : chan'[q][i].type = "done" => AllMade(q)
      <3>1. CASE q # carried.id  BY <2>0, <2>3, <3>1 DEF Put
      <3>2. CASE q = carried.id
        <4>1. \A i \in 1 .. Len(chan'[q]) :
                \/ i \in 1 .. Len(chan[q]) /\ chan'[q][i] = chan[q][i]
                \/ chan'[q][i] = carried
          BY <2>3, <3>2 DEF Put
        <4> QED  BY <2>0, <3>2, <4>1 DEF DoneFor
      <3> QED  BY <3>1, <3>2
    <2> QED  BY <2>0, <2>1, <2>4, <2>5, <2>9, DoneKept
  <1>12. ASSUME ClosePending PROVE DoneInv'
    <2> SUFFICES ASSUME NEW q \in Streams PROVE DoneLast(q)'  BY DEF DoneInv
    <2>0. /\ DoneLast(q) /\ LastIsLast(q) /\ Tabled(q) /\ q \in Calls /\ q \in Tasks /\ q \notin Unary
          /\ held[q].type = "done" => AllMade(q)
          /\ \A i \in 1 .. Len(chan[q]) : chan[q][i].type = "done" => AllMade(q)
          /\ DoneFor(carried, q) => AllMade(q)
          /\ outcome[q] = "done" => AllMade(q) /\ Base(q) = Passed(q)
      BY CountFacts DEF DoneInv, DoneLast, LastInv, TableInv
    <2>2. PICK p \in Calls : p \in pending /\ Put(p, Answer("error", p, 0))  BY <1>12, ClosingFacts
    <2>1. Rise(q) = 0 /\ UNCHANGED <<held, out, given, carried, outcome>>
      BY <1>12 DEF ClosePending, Rise, linkVars
    <2>9. Base(q)' = Base(q) /\ (AllMade(q) => AllMade(q)')  BY <2>1, AllMadeKept DEF NumberInv
    <2>4. Passed(q)' = Passed(q)  BY <2>1 DEF Passed
    <2>5. \A i \in 1 .. Len(chan'[q]) : chan'[q][i].type = "done" => AllMade(q)
      <3>1. CASE q # p  BY <2>0, <2>2, <3>1 DEF Put
      <3>2. CASE q = p
        <4>1. \A i \in 1 .. Len(chan'[q]) :
                \/ i \in 1 .. Len(chan[q]) /\ chan'[q][i] = chan[q][i]
                \/ chan'[q][i].type = "error"
          BY <2>2, <3>2 DEF Put, Answer
        <4> QED  BY <2>0, <4>1
      <3> QED  BY <3>1, <3>2
    <2> QED  BY <2>0, <2>1, <2>4, <2>5, <2>9, DoneKept
  <1>13. ASSUME ReadSynth PROVE DoneInv'
    <2> SUFFICES ASSUME NEW q \in Streams PROVE DoneLast(q)'  BY DEF DoneInv
    <2>0. /\ DoneLast(q) /\ LastIsLast(q) /\ Tabled(q) /\ q \in Calls /\ q \in Tasks /\ q \notin Unary
          /\ held[q].type = "done" => AllMade(q)
          /\ \A i \in 1 .. Len(chan[q]) : chan[q][i].type = "done" => AllMade(q)
          /\ DoneFor(carried, q) => AllMade(q)
          /\ outcome[q] = "done" => AllMade(q) /\ Base(q) = Passed(q)
      BY CountFacts DEF DoneInv, DoneLast, LastInv, TableInv
    <2>1. Rise(q) = 0 /\ UNCHANGED <<held, chan, carried, out, given, outcome>>
      BY <1>13 DEF ReadSynth, Rise, linkVars, callVars
    <2>9. Base(q)' = Base(q) /\ (AllMade(q) => AllMade(q)')  BY <2>1, AllMadeKept DEF NumberInv
    <2>2. Passed(q)' = Passed(q)  BY <2>1 DEF Passed
    <2> QED  BY <2>0, <2>1, <2>2, <2>9, DoneKept
  <1>14. ASSUME NEW r \in Tasks, TaskRegister(r) PROVE DoneInv'
    <2> SUFFICES ASSUME NEW q \in Streams PROVE DoneLast(q)'  BY DEF DoneInv
    <2>0. /\ DoneLast(q) /\ LastIsLast(q) /\ Tabled(q) /\ q \in Calls /\ q \in Tasks /\ q \notin Unary
          /\ held[q].type = "done" => AllMade(q)
          /\ \A i \in 1 .. Len(chan[q]) : chan[q][i].type = "done" => AllMade(q)
          /\ DoneFor(carried, q) => AllMade(q)
          /\ outcome[q] = "done" => AllMade(q) /\ Base(q) = Passed(q)
      BY CountFacts DEF DoneInv, DoneLast, LastInv, TableInv
    <2>1. Rise(q) = 0 /\ UNCHANGED <<held, chan, carried, out, given, outcome>>
      BY <1>14 DEF TaskRegister, Rise, linkVars, callVars
    <2>9. Base(q)' = Base(q) /\ (AllMade(q) => AllMade(q)')  BY <2>1, AllMadeKept DEF NumberInv
    <2>2. Passed(q)' = Passed(q)  BY <2>1 DEF Passed
    <2> QED  BY <2>0, <2>1, <2>2, <2>9, DoneKept
  <1>15. ASSUME NEW r \in Tasks, TaskOverride(r) PROVE DoneInv'
    <2> SUFFICES ASSUME NEW q \in Streams PROVE DoneLast(q)'  BY DEF DoneInv
    <2>0. /\ DoneLast(q) /\ LastIsLast(q) /\ Tabled(q) /\ q \in Calls /\ q \in Tasks /\ q \notin Unary
          /\ held[q].type = "done" => AllMade(q)
          /\ \A i \in 1 .. Len(chan[q]) : chan[q][i].type = "done" => AllMade(q)
          /\ DoneFor(carried, q) => AllMade(q)
          /\ outcome[q] = "done" => AllMade(q) /\ Base(q) = Passed(q)
      BY CountFacts DEF DoneInv, DoneLast, LastInv, TableInv
    <2>1. Rise(q) = 0 /\ UNCHANGED <<held, chan, carried, out, given, outcome>>
      BY <1>15 DEF TaskOverride, Rise, linkVars, callVars
    <2>9. Base(q)' = Base(q) /\ (AllMade(q) => AllMade(q)')  BY <2>1, AllMadeKept DEF NumberInv
    <2>2. Passed(q)' = Passed(q)  BY <2>1 DEF Passed
    <2> QED  BY <2>0, <2>1, <2>2, <2>9, DoneKept
  <1>16. ASSUME NEW r \in Tasks, TaskPickUp(r) PROVE DoneInv'
    <2> SUFFICES ASSUME NEW q \in Streams PROVE DoneLast(q)'  BY DEF DoneInv
    <2>0. /\ DoneLast(q) /\ LastIsLast(q) /\ Tabled(q) /\ q \in Calls /\ q \in Tasks /\ q \notin Unary
          /\ held[q].type = "done" => AllMade(q)
          /\ \A i \in 1 .. Len(chan[q]) : chan[q][i].type = "done" => AllMade(q)
          /\ DoneFor(carried, q) => AllMade(q)
          /\ outcome[q] = "done" => AllMade(q) /\ Base(q) = Passed(q)
      BY CountFacts DEF DoneInv, DoneLast, LastInv, TableInv
    <2>1. Rise(q) = 0 /\ UNCHANGED <<held, chan, carried, out, given, outcome>>
      BY <1>16 DEF TaskPickUp, Rise, linkVars, callVars
    <2>9. Base(q)' = Base(q) /\ (AllMade(q) => AllMade(q)')  BY <2>1, AllMadeKept DEF NumberInv
    <2>2. Passed(q)' = Passed(q)  BY <2>1 DEF Passed
    <2> QED  BY <2>0, <2>1, <2>2, <2>9, DoneKept
  <1>17. ASSUME NEW r \in Tasks, TaskGenerate(r) PROVE DoneInv'
    <2> SUFFICES ASSUME NEW q \in Streams PROVE DoneLast(q)'  BY DEF DoneInv
    <2>0. /\ DoneLast(q) /\ LastIsLast(q) /\ Tabled(q) /\ q \in Calls /\ q \in Tasks /\ q \notin Unary
          /\ held[q].type = "done" => AllMade(q)
          /\ \A i \in 1 .. Len(chan[q]) : chan[q][i].type = "done" => AllMade(q)
          /\ DoneFor(carried, q) => AllMade(q)
          /\ outcome[q] = "done" => AllMade(q) /\ Base(q) = Passed(q)
      BY CountFacts DEF DoneInv, DoneLast, LastInv, TableInv
    <2>1. Rise(q) = 0 /\ UNCHANGED <<held, chan, carried, out, given, outcome>>
      BY <1>17 DEF TaskGenerate, Rise, linkVars, callVars
    <2>9. Base(q)' = Base(q) /\ (AllMade(q) => AllMade(q)')  BY <2>1, AllMadeKept DEF NumberInv
    <2>2. Passed(q)' = Passed(q)  BY <2>1 DEF Passed
    <2> QED  BY <2>0, <2>1, <2>2, <2>9, DoneKept
  <1>18. ASSUME NEW r \in Streams, TaskChunk(r) PROVE DoneInv'
    <2> SUFFICES ASSUME NEW q \in Streams PROVE DoneLast(q)'  BY DEF DoneInv
    <2>0. /\ DoneLast(q) /\ LastIsLast(q) /\ Tabled(q) /\ q \in Calls /\ q \in Tasks /\ q \notin Unary
          /\ held[q].type = "done" => AllMade(q)
          /\ \A i \in 1 .. Len(chan[q]) : chan[q][i].type = "done" => AllMade(q)
          /\ DoneFor(carried, q) => AllMade(q)
          /\ outcome[q] = "done" => AllMade(q) /\ Base(q) = Passed(q)
      BY CountFacts DEF DoneInv, DoneLast, LastInv, TableInv
    <2>1. Rise(q) = 0 /\ UNCHANGED <<held, chan, carried, out, given, outcome>>
      BY <1>18 DEF TaskChunk, Rise, linkVars, callVars
    <2>9. Base(q)' = Base(q) /\ (AllMade(q) => AllMade(q)')  BY <2>1, AllMadeKept DEF NumberInv
    <2>2. Passed(q)' = Passed(q)  BY <2>1 DEF Passed
    <2> QED  BY <2>0, <2>1, <2>2, <2>9, DoneKept
  <1>19. ASSUME NEW r \in Tasks, TaskFails(r) PROVE DoneInv'
    <2> SUFFICES ASSUME NEW q \in Streams PROVE DoneLast(q)'  BY DEF DoneInv
    <2>0. /\ DoneLast(q) /\ LastIsLast(q) /\ Tabled(q) /\ q \in Calls /\ q \in Tasks /\ q \notin Unary
          /\ held[q].type = "done" => AllMade(q)
          /\ \A i \in 1 .. Len(chan[q]) : chan[q][i].type = "done" => AllMade(q)
          /\ DoneFor(carried, q) => AllMade(q)
          /\ outcome[q] = "done" => AllMade(q) /\ Base(q) = Passed(q)
      BY CountFacts DEF DoneInv, DoneLast, LastInv, TableInv
    <2>1. Rise(q) = 0 /\ UNCHANGED <<held, chan, carried, out, given, outcome>>
      BY <1>19 DEF TaskFails, Rise, linkVars, callVars
    <2>9. Base(q)' = Base(q) /\ (AllMade(q) => AllMade(q)')  BY <2>1, AllMadeKept DEF NumberInv
    <2>2. Passed(q)' = Passed(q)  BY <2>1 DEF Passed
    <2> QED  BY <2>0, <2>1, <2>2, <2>9, DoneKept
  <1>20. ASSUME NEW r \in Tasks, TaskDiscards(r) PROVE DoneInv'
    <2> SUFFICES ASSUME NEW q \in Streams PROVE DoneLast(q)'  BY DEF DoneInv
    <2>0. /\ DoneLast(q) /\ LastIsLast(q) /\ Tabled(q) /\ q \in Calls /\ q \in Tasks /\ q \notin Unary
          /\ held[q].type = "done" => AllMade(q)
          /\ \A i \in 1 .. Len(chan[q]) : chan[q][i].type = "done" => AllMade(q)
          /\ DoneFor(carried, q) => AllMade(q)
          /\ outcome[q] = "done" => AllMade(q) /\ Base(q) = Passed(q)
      BY CountFacts DEF DoneInv, DoneLast, LastInv, TableInv
    <2>1. Rise(q) = 0 /\ UNCHANGED <<held, chan, carried, out, given, outcome>>
      BY <1>20 DEF TaskDiscards, Rise, linkVars, callVars
    <2>9. Base(q)' = Base(q) /\ (AllMade(q) => AllMade(q)')  BY <2>1, AllMadeKept DEF NumberInv
    <2>2. Passed(q)' = Passed(q)  BY <2>1 DEF Passed
    <2> QED  BY <2>0, <2>1, <2>2, <2>9, DoneKept
  <1>21. ASSUME NEW r \in Tasks, TaskSucceeds(r) PROVE DoneInv'
    <2> SUFFICES ASSUME NEW q \in Streams PROVE DoneLast(q)'  BY DEF DoneInv
    <2>0. /\ DoneLast(q) /\ LastIsLast(q) /\ Tabled(q) /\ q \in Calls /\ q \in Tasks /\ q \notin Unary
          /\ held[q].type = "done" => AllMade(q)
          /\ \A i \in 1 .. Len(chan[q]) : chan[q][i].type = "done" => AllMade(q)
          /\ DoneFor(carried, q) => AllMade(q)
          /\ outcome[q] = "done" => AllMade(q) /\ Base(q) = Passed(q)
      BY CountFacts DEF DoneInv, DoneLast, LastInv, TableInv
    <2>1. Rise(q) = 0 /\ UNCHANGED <<held, chan, carried, out, given, outcome>>
      BY <1>21 DEF TaskSucceeds, Rise, linkVars, callVars
    <2>9. Base(q)' = Base(q) /\ (AllMade(q) => AllMade(q)')  BY <2>1, AllMadeKept DEF NumberInv
    <2>2. Passed(q)' = Passed(q)  BY <2>1 DEF Passed
    <2> QED  BY <2>0, <2>1, <2>2, <2>9, DoneKept
  <1>22. ASSUME NEW r \in Tasks, TaskWrite(r) PROVE DoneInv'
    <2> SUFFICES ASSUME NEW q \in Streams PROVE DoneLast(q)'  BY DEF DoneInv
    <2>0. /\ DoneLast(q) /\ LastIsLast(q) /\ Tabled(q) /\ q \in Calls /\ q \in Tasks /\ q \notin Unary
          /\ held[q].type = "done" => AllMade(q)
          /\ \A i \in 1 .. Len(chan[q]) : chan[q][i].type = "done" => AllMade(q)
          /\ DoneFor(carried, q) => AllMade(q)
          /\ outcome[q] = "done" => AllMade(q) /\ Base(q) = Passed(q)
      BY CountFacts DEF DoneInv, DoneLast, LastInv, TableInv
    <2>1. Rise(q) = 0 /\ UNCHANGED <<held, chan, carried, out, given, outcome>>
      BY <1>22 DEF TaskWrite, Rise, linkVars, callVars
    <2>9. Base(q)' = Base(q) /\ (AllMade(q) => AllMade(q)')  BY <2>1, AllMadeKept DEF NumberInv
    <2>2. Passed(q)' = Passed(q)  BY <2>1 DEF Passed
    <2> QED  BY <2>0, <2>1, <2>2, <2>9, DoneKept
  <1>23. ASSUME NEW r \in Calls, Start(r) \/ Register(r) \/ Write(r) \/ Leave(r) \/ Cancel(r)
        PROVE  DoneInv'
    BY <1>1, <1>23 DEF Start, Register, Write, Leave, Cancel, callVars, linkVars, netVars, workVars
  <1>24. ASSUME NEW r \in Streams, StreamCancel(r) \/ ClientGone(r)
        PROVE  DoneInv'
    BY <1>1, <1>24 DEF StreamCancel, ClientGone, callVars, linkVars, netVars, workVars
  <1>25. ASSUME NEW r \in Tasks, TaskUnlock(r)
        PROVE  DoneInv'
    BY <1>1, <1>25 DEF TaskUnlock, callVars, linkVars, netVars, workVars
  <1>26. ASSUME ReadFails \/ ClosePendingEnd \/ Close \/ ReadInline \/ ReadCancel \/ WorkerDies
        PROVE  DoneInv'
    BY <1>1, <1>26 DEF ReadFails, ClosePendingEnd, Close, ReadInline, ReadCancel, WorkerDies, callVars,
        linkVars, netVars, workVars
  <1> QED
    BY <1>1, <1>2, <1>3, <1>4, <1>5, <1>6, <1>7, <1>8, <1>9, <1>10, <1>11, <1>12, <1>13, <1>14,
       <1>15, <1>16, <1>17, <1>18, <1>19, <1>20, <1>21, <1>22, <1>23, <1>24, <1>25, <1>26
    DEF Next, CallStep, StreamStep, ReaderStep, WorkerLoop, TaskStep

----------------------------------------------------------------------------
(* Taking turns *)

LEMMA FailStep == ASSUME FailInv, Next PROVE FailInv'
  <1>1. CASE UNCHANGED <<reader, closed, alive>>
    BY <1>1 DEF FailInv
  <1>2. ASSUME ReadAnswer PROVE FailInv'  BY <1>2 DEF ReadAnswer, FailInv, linkVars, workVars
  <1>3. ASSUME PutAnswer PROVE FailInv'  BY <1>3 DEF PutAnswer, FailInv, linkVars, workVars
  <1>4. ASSUME ReadFails PROVE FailInv'  BY <1>4 DEF ReadFails, FailInv, linkVars, workVars
  <1>5. ASSUME ClosePendingEnd PROVE FailInv'
    BY <1>5 DEF ClosePendingEnd, FailInv, linkVars, workVars
  <1>6. ASSUME Close PROVE FailInv'  BY <1>6 DEF Close, FailInv, linkVars, workVars
  <1>7. ASSUME WorkerDies PROVE FailInv'  BY <1>7 DEF WorkerDies, FailInv, linkVars, workVars
  <1>8. ASSUME NEW r \in Calls, Start(r) \/ StartClosed(r) \/ Register(r) \/ Write(r) \/ WriteFails(r) \/
           Receive(r) \/ TimeOut(r) \/ GiveUp(r) \/ Leave(r) \/ Cancel(r)
        PROVE  FailInv'
    BY <1>1, <1>8 DEF Start, StartClosed, Register, Write, WriteFails, Receive, TimeOut, GiveUp, Leave,
        Cancel, callVars, linkVars, netVars, workVars
  <1>9. ASSUME NEW r \in Streams, StreamTake(r) \/ StreamSend(r) \/ StreamCancel(r) \/ Pass(r) \/ TaskChunk(r) \/
           ClientGone(r)
        PROVE  FailInv'
    BY <1>1, <1>9 DEF StreamTake, StreamSend, StreamCancel, Pass, TaskChunk, ClientGone, callVars, linkVars,
        netVars, workVars
  <1>10. ASSUME NEW r \in Tasks, TaskRegister(r) \/ TaskOverride(r) \/ TaskPickUp(r) \/ TaskGenerate(r) \/
           TaskFails(r) \/ TaskDiscards(r) \/ TaskSucceeds(r) \/ TaskUnlock(r) \/
           TaskWrite(r)
        PROVE  FailInv'
    BY <1>1, <1>10 DEF TaskRegister, TaskOverride, TaskPickUp, TaskGenerate, TaskFails, TaskDiscards,
        TaskSucceeds, TaskUnlock, TaskWrite, callVars, linkVars, netVars, workVars
  <1>11. ASSUME ClosePending \/ ReadInline \/ ReadSynth \/ ReadCancel
        PROVE  FailInv'
    BY <1>1, <1>11 DEF ClosePending, ReadInline, ReadSynth, ReadCancel, callVars, linkVars, netVars, workVars
  <1> QED
    BY <1>1, <1>2, <1>3, <1>4, <1>5, <1>6, <1>7, <1>8, <1>9, <1>10, <1>11
    DEF Next, CallStep, StreamStep, ReaderStep, WorkerLoop, TaskStep

(* A call that has ended has ended: who was not patient will not be. *)
LEMMA PatientStep == ASSUME Typed, CallInv, ~Patient, Next PROVE ~Patient'
  <1>1. CASE UNCHANGED outcome
    BY <1>1 DEF Patient
  <1>2. ASSUME NEW r \in Calls, StartClosed(r) PROVE ~Patient'
    <2>1. CASE Exclusive
      <3>1. PICK q \in Calls : outcome[q] \in {"timeout", "cancelled"}  BY <2>1 DEF Patient
      <3>2. r \in Calls /\ outcome[r] = None  BY <1>2, CallFacts DEF StartClosed, CallInv, TableInv, Tabled
      <3>3. q # r  BY <3>1, <3>2, ReplyAt
      <3> QED  BY <1>2, <3>1, <3>2, <3>3 DEF StartClosed, Typed, CallTyped, Patient
    <2> QED  BY <2>1 DEF Patient
  <1>3. ASSUME NEW r \in Calls, WriteFails(r) PROVE ~Patient'
    <2>1. CASE Exclusive
      <3>1. PICK q \in Calls : outcome[q] \in {"timeout", "cancelled"}  BY <2>1 DEF Patient
      <3>2. r \in Calls /\ outcome[r] = None  BY <1>3, CallFacts DEF WriteFails, CallInv, TableInv, Tabled
      <3>3. q # r  BY <3>1, <3>2, ReplyAt
      <3> QED  BY <1>3, <3>1, <3>2, <3>3 DEF WriteFails, Typed, CallTyped, Patient
    <2> QED  BY <2>1 DEF Patient
  <1>4. ASSUME NEW r \in Calls, Receive(r) PROVE ~Patient'
    <2>1. CASE Exclusive
      <3>1. PICK q \in Calls : outcome[q] \in {"timeout", "cancelled"}  BY <2>1 DEF Patient
      <3>2. r \in Calls /\ outcome[r] = None  BY <1>4, CallFacts DEF Receive, CallInv, TableInv, Tabled
      <3>3. q # r  BY <3>1, <3>2, ReplyAt
      <3> QED  BY <1>4, <3>1, <3>2, <3>3 DEF Receive, Typed, CallTyped, Patient
    <2> QED  BY <2>1 DEF Patient
  <1>5. ASSUME NEW r \in Calls, TimeOut(r) PROVE ~Patient'
    <2>1. CASE Exclusive
      <3>1. PICK q \in Calls : outcome[q] \in {"timeout", "cancelled"}  BY <2>1 DEF Patient
      <3>2. r \in Calls /\ outcome[r] = None  BY <1>5, CallFacts DEF TimeOut, CallInv, TableInv, Tabled
      <3>3. q # r  BY <3>1, <3>2, ReplyAt
      <3> QED  BY <1>5, <3>1, <3>2, <3>3 DEF TimeOut, Typed, CallTyped, Patient
    <2> QED  BY <2>1 DEF Patient
  <1>6. ASSUME NEW r \in Calls, GiveUp(r) PROVE ~Patient'
    <2>1. CASE Exclusive
      <3>1. PICK q \in Calls : outcome[q] \in {"timeout", "cancelled"}  BY <2>1 DEF Patient
      <3>2. r \in Calls /\ outcome[r] = None  BY <1>6, CallFacts DEF GiveUp, CallInv, TableInv, Tabled
      <3>3. q # r  BY <3>1, <3>2, ReplyAt
      <3> QED  BY <1>6, <3>1, <3>2, <3>3 DEF GiveUp, Typed, CallTyped, Patient
    <2> QED  BY <2>1 DEF Patient
  <1>7. ASSUME NEW r \in Streams, StreamSend(r) PROVE ~Patient'
    <2>1. CASE Exclusive
      <3>1. PICK q \in Calls : outcome[q] \in {"timeout", "cancelled"}  BY <2>1 DEF Patient
      <3>2. r \in Calls /\ outcome[r] = None  BY <1>7, CallFacts DEF StreamSend, CallInv, TableInv, Tabled
      <3>3. q # r  BY <3>1, <3>2, ReplyAt
      <3> QED  BY <1>7, <3>1, <3>2, <3>3 DEF StreamSend, Typed, CallTyped, Patient
    <2> QED  BY <2>1 DEF Patient
  <1>8. ASSUME NEW r \in Calls, Start(r) \/ Register(r) \/ Write(r) \/ Leave(r) \/ Cancel(r)
        PROVE  ~Patient'
    BY <1>1, <1>8 DEF Start, Register, Write, Leave, Cancel, callVars, linkVars, netVars, workVars
  <1>9. ASSUME NEW r \in Streams, StreamTake(r) \/ StreamCancel(r) \/ Pass(r) \/ TaskChunk(r) \/ ClientGone(r)
        PROVE  ~Patient'
    BY <1>1, <1>9 DEF StreamTake, StreamCancel, Pass, TaskChunk, ClientGone, callVars, linkVars, netVars,
        workVars
  <1>10. ASSUME NEW r \in Tasks, TaskRegister(r) \/ TaskOverride(r) \/ TaskPickUp(r) \/ TaskGenerate(r) \/
           TaskFails(r) \/ TaskDiscards(r) \/ TaskSucceeds(r) \/ TaskUnlock(r) \/
           TaskWrite(r)
        PROVE  ~Patient'
    BY <1>1, <1>10 DEF TaskRegister, TaskOverride, TaskPickUp, TaskGenerate, TaskFails, TaskDiscards,
        TaskSucceeds, TaskUnlock, TaskWrite, callVars, linkVars, netVars, workVars
  <1>11. ASSUME ReadAnswer \/ PutAnswer \/ ReadFails \/ ClosePending \/ ClosePendingEnd \/ Close
           \/ ReadInline \/ ReadSynth \/ ReadCancel \/ WorkerDies
        PROVE  ~Patient'
    BY <1>1, <1>11 DEF ReadAnswer, PutAnswer, ReadFails, ClosePending, ClosePendingEnd, Close, ReadInline,
        ReadSynth, ReadCancel, WorkerDies, callVars, linkVars, netVars, workVars
  <1> QED
    BY <1>1, <1>2, <1>3, <1>4, <1>5, <1>6, <1>7, <1>8, <1>9, <1>10, <1>11
    DEF Next, CallStep, StreamStep, ReaderStep, WorkerLoop, TaskStep

LEMMA EngagedStep == ASSUME Typed, CallInv, EngagedInv, Next PROVE EngagedInv'
  <1> USE DEF CallInv
  <1>1. CASE UNCHANGED <<call, out>>
    BY <1>1 DEF EngagedInv, Engaged, Released
  <1>2. ASSUME NEW r \in Calls, Start(r) PROVE EngagedInv'
    <2>1. CASE ~Exclusive  BY <2>1 DEF EngagedInv
    <2> SUFFICES ASSUME Exclusive, NEW p \in Tasks, NEW q \in Tasks, Engaged(p)', Engaged(q)' PROVE p = q
      BY <2>1 DEF EngagedInv
    <2>0. p \in Calls /\ q \in Calls /\ Tabled(p) /\ Tabled(q)  BY CallFacts DEF TableInv
    <2>2. \A x \in Tasks : x # r /\ Engaged(x)' => Engaged(x)  BY <1>2, CallFacts DEF Start, Engaged, Released, Typed, CallTyped
    <2>3. r \in Tasks => \A x \in Tasks : ~Engaged(x)  BY <1>2 DEF Start, Busy, Engaged
    <2> QED  BY <2>2, <2>3 DEF EngagedInv
  <1>3. ASSUME NEW r \in Calls, StartClosed(r) PROVE EngagedInv'
    <2>1. CASE ~Exclusive  BY <2>1 DEF EngagedInv
    <2> SUFFICES ASSUME Exclusive, NEW p \in Tasks, NEW q \in Tasks, Engaged(p)', Engaged(q)' PROVE p = q
      BY <2>1 DEF EngagedInv
    <2>0. p \in Calls /\ q \in Calls /\ Tabled(p) /\ Tabled(q)  BY CallFacts DEF TableInv
    <2>2. Engaged(p) /\ Engaged(q)  BY <1>3, <2>0 DEF StartClosed, Engaged, Released, Tabled, Typed, CallTyped, OutTyped
    <2> QED  BY <2>2 DEF EngagedInv
  <1>4. ASSUME NEW r \in Calls, Register(r) PROVE EngagedInv'
    <2>1. CASE ~Exclusive  BY <2>1 DEF EngagedInv
    <2> SUFFICES ASSUME Exclusive, NEW p \in Tasks, NEW q \in Tasks, Engaged(p)', Engaged(q)' PROVE p = q
      BY <2>1 DEF EngagedInv
    <2>0. p \in Calls /\ q \in Calls /\ Tabled(p) /\ Tabled(q)  BY CallFacts DEF TableInv
    <2>2. Engaged(p) /\ Engaged(q)  BY <1>4, <2>0 DEF Register, Engaged, Released, Tabled, Typed, CallTyped, OutTyped
    <2> QED  BY <2>2 DEF EngagedInv
  <1>5. ASSUME NEW r \in Calls, Write(r) PROVE EngagedInv'
    <2>1. CASE ~Exclusive  BY <2>1 DEF EngagedInv
    <2> SUFFICES ASSUME Exclusive, NEW p \in Tasks, NEW q \in Tasks, Engaged(p)', Engaged(q)' PROVE p = q
      BY <2>1 DEF EngagedInv
    <2>0. p \in Calls /\ q \in Calls /\ Tabled(p) /\ Tabled(q)  BY CallFacts DEF TableInv
    <2>2. Engaged(p) /\ Engaged(q)  BY <1>5, <2>0 DEF Write, Engaged, Released, Tabled, Typed, CallTyped, OutTyped
    <2> QED  BY <2>2 DEF EngagedInv
  <1>6. ASSUME NEW r \in Calls, WriteFails(r) PROVE EngagedInv'
    <2>1. CASE ~Exclusive  BY <2>1 DEF EngagedInv
    <2> SUFFICES ASSUME Exclusive, NEW p \in Tasks, NEW q \in Tasks, Engaged(p)', Engaged(q)' PROVE p = q
      BY <2>1 DEF EngagedInv
    <2>0. p \in Calls /\ q \in Calls /\ Tabled(p) /\ Tabled(q)  BY CallFacts DEF TableInv
    <2>2. Engaged(p) /\ Engaged(q)  BY <1>6, <2>0 DEF WriteFails, Engaged, Released, Tabled, Typed, CallTyped, OutTyped
    <2> QED  BY <2>2 DEF EngagedInv
  <1>7. ASSUME NEW r \in Calls, Receive(r) PROVE EngagedInv'
    <2>1. CASE ~Exclusive  BY <2>1 DEF EngagedInv
    <2> SUFFICES ASSUME Exclusive, NEW p \in Tasks, NEW q \in Tasks, Engaged(p)', Engaged(q)' PROVE p = q
      BY <2>1 DEF EngagedInv
    <2>0. p \in Calls /\ q \in Calls /\ Tabled(p) /\ Tabled(q)  BY CallFacts DEF TableInv
    <2>2. Engaged(p) /\ Engaged(q)  BY <1>7, <2>0 DEF Receive, Engaged, Released, Tabled, Typed, CallTyped, OutTyped
    <2> QED  BY <2>2 DEF EngagedInv
  <1>8. ASSUME NEW r \in Calls, TimeOut(r) PROVE EngagedInv'
    <2>1. CASE ~Exclusive  BY <2>1 DEF EngagedInv
    <2> SUFFICES ASSUME Exclusive, NEW p \in Tasks, NEW q \in Tasks, Engaged(p)', Engaged(q)' PROVE p = q
      BY <2>1 DEF EngagedInv
    <2>0. p \in Calls /\ q \in Calls /\ Tabled(p) /\ Tabled(q)  BY CallFacts DEF TableInv
    <2>2. Engaged(p) /\ Engaged(q)  BY <1>8, <2>0 DEF TimeOut, Engaged, Released, Tabled, Typed, CallTyped, OutTyped
    <2> QED  BY <2>2 DEF EngagedInv
  <1>9. ASSUME NEW r \in Calls, GiveUp(r) PROVE EngagedInv'
    <2>1. CASE ~Exclusive  BY <2>1 DEF EngagedInv
    <2> SUFFICES ASSUME Exclusive, NEW p \in Tasks, NEW q \in Tasks, Engaged(p)', Engaged(q)' PROVE p = q
      BY <2>1 DEF EngagedInv
    <2>0. p \in Calls /\ q \in Calls /\ Tabled(p) /\ Tabled(q)  BY CallFacts DEF TableInv
    <2>2. Engaged(p) /\ Engaged(q)  BY <1>9, <2>0 DEF GiveUp, Engaged, Released, Tabled, Typed, CallTyped, OutTyped
    <2> QED  BY <2>2 DEF EngagedInv
  <1>10. ASSUME NEW r \in Calls, Leave(r) PROVE EngagedInv'
    <2>1. CASE ~Exclusive  BY <2>1 DEF EngagedInv
    <2> SUFFICES ASSUME Exclusive, NEW p \in Tasks, NEW q \in Tasks, Engaged(p)', Engaged(q)' PROVE p = q
      BY <2>1 DEF EngagedInv
    <2>0. p \in Calls /\ q \in Calls /\ Tabled(p) /\ Tabled(q)  BY CallFacts DEF TableInv
    <2>2. Engaged(p) /\ Engaged(q)  BY <1>10, <2>0 DEF Leave, Engaged, Released, Tabled, Typed, CallTyped, OutTyped
    <2> QED  BY <2>2 DEF EngagedInv
  <1>11. ASSUME NEW r \in Streams, StreamTake(r) PROVE EngagedInv'
    <2>1. CASE ~Exclusive  BY <2>1 DEF EngagedInv
    <2> SUFFICES ASSUME Exclusive, NEW p \in Tasks, NEW q \in Tasks, Engaged(p)', Engaged(q)' PROVE p = q
      BY <2>1 DEF EngagedInv
    <2>0. p \in Calls /\ q \in Calls /\ Tabled(p) /\ Tabled(q)  BY CallFacts DEF TableInv
    <2>2. Engaged(p) /\ Engaged(q)  BY <1>11, <2>0 DEF StreamTake, Engaged, Released, Tabled, Typed, CallTyped, OutTyped
    <2> QED  BY <2>2 DEF EngagedInv
  <1>12. ASSUME NEW r \in Streams, StreamSend(r) PROVE EngagedInv'
    <2>1. CASE ~Exclusive  BY <2>1 DEF EngagedInv
    <2> SUFFICES ASSUME Exclusive, NEW p \in Tasks, NEW q \in Tasks, Engaged(p)', Engaged(q)' PROVE p = q
      BY <2>1 DEF EngagedInv
    <2>0. p \in Calls /\ q \in Calls /\ Tabled(p) /\ Tabled(q)  BY CallFacts DEF TableInv
    <2>2. Engaged(p) /\ Engaged(q)  BY <1>12, <2>0 DEF StreamSend, Engaged, Released, Tabled, Typed, CallTyped, OutTyped
    <2> QED  BY <2>2 DEF EngagedInv
  <1>13. ASSUME NEW r \in Streams, Pass(r) PROVE EngagedInv'
    <2>1. CASE ~Exclusive  BY <2>1 DEF EngagedInv
    <2> SUFFICES ASSUME Exclusive, NEW p \in Tasks, NEW q \in Tasks, Engaged(p)', Engaged(q)' PROVE p = q
      BY <2>1 DEF EngagedInv
    <2>0. p \in Calls /\ q \in Calls /\ Tabled(p) /\ Tabled(q)  BY CallFacts DEF TableInv
    <2>2. Engaged(p) /\ Engaged(q)  BY <1>13, <2>0 DEF Pass, Engaged, Released, Tabled, Typed, CallTyped, OutTyped
    <2> QED  BY <2>2 DEF EngagedInv
  <1>14. ASSUME NEW r \in Calls, Cancel(r)
        PROVE  EngagedInv'
    BY <1>1, <1>14 DEF Cancel, callVars, linkVars, netVars, workVars
  <1>15. ASSUME NEW r \in Streams, StreamCancel(r) \/ TaskChunk(r) \/ ClientGone(r)
        PROVE  EngagedInv'
    BY <1>1, <1>15 DEF StreamCancel, TaskChunk, ClientGone, callVars, linkVars, netVars, workVars
  <1>16. ASSUME NEW r \in Tasks, TaskRegister(r) \/ TaskOverride(r) \/ TaskPickUp(r) \/ TaskGenerate(r) \/
           TaskFails(r) \/ TaskDiscards(r) \/ TaskSucceeds(r) \/ TaskUnlock(r) \/
           TaskWrite(r)
        PROVE  EngagedInv'
    BY <1>1, <1>16 DEF TaskRegister, TaskOverride, TaskPickUp, TaskGenerate, TaskFails, TaskDiscards,
        TaskSucceeds, TaskUnlock, TaskWrite, callVars, linkVars, netVars, workVars
  <1>17. ASSUME ReadAnswer \/ PutAnswer \/ ReadFails \/ ClosePending \/ ClosePendingEnd \/ Close
           \/ ReadInline \/ ReadSynth \/ ReadCancel \/ WorkerDies
        PROVE  EngagedInv'
    BY <1>1, <1>17 DEF ReadAnswer, PutAnswer, ReadFails, ClosePending, ClosePendingEnd, Close, ReadInline,
        ReadSynth, ReadCancel, WorkerDies, callVars, linkVars, netVars, workVars
  <1> QED
    BY <1>1, <1>2, <1>3, <1>4, <1>5, <1>6, <1>7, <1>8, <1>9, <1>10, <1>11, <1>12, <1>13, <1>14,
       <1>15, <1>16, <1>17
    DEF Next, CallStep, StreamStep, ReaderStep, WorkerLoop, TaskStep

LEMMA AloneStep == ASSUME Typed, FormInv, CallInv, QuietInv, FailInv, EngagedInv, AloneInv, Next PROVE AloneInv'
  <1> USE DEF CallInv, QuietInv
  <1>1. CASE UNCHANGED <<outcome, alive, toWorker, task>>
    BY <1>1 DEF AloneInv, InWorker, Asked, Patient
  <1>2. ASSUME NEW r \in Calls, StartClosed(r) PROVE AloneInv'
    <2>1. CASE ~(Patient' /\ alive')  BY <2>1 DEF AloneInv
    <2> SUFFICES ASSUME Patient, alive', NEW p \in Tasks, NEW q \in Tasks, InWorker(p)', InWorker(q)' PROVE p = q
      BY <2>1, PatientStep DEF AloneInv
    <2>2. alive /\ InWorker(p) /\ InWorker(q)
      BY <1>2 DEF StartClosed, InWorker, Asked, Typed, TaskTyped, netVars, workVars
    <2> QED  BY <2>2 DEF AloneInv
  <1>3. ASSUME NEW r \in Calls, Write(r) PROVE AloneInv'
    <2>1. CASE ~(Patient' /\ alive')  BY <2>1 DEF AloneInv
    <2> SUFFICES ASSUME Patient, alive', NEW p \in Tasks, NEW q \in Tasks, InWorker(p)', InWorker(q)' PROVE p = q
      BY <2>1, PatientStep DEF AloneInv
    <2>0. Waiting(p) /\ Waiting(q)  BY DEF AskInv
    <2>2. /\ r \in Calls /\ Send([type |-> "call", id |-> r]) /\ call[r] = "write" /\ ~closed
          /\ [type |-> "call", id |-> r] \in Requests /\ alive /\ UNCHANGED task
      BY <1>3, RequestFacts DEF Write, MayPass, workVars
    <2>3. \A x \in Tasks : x # r => ~Asks([type |-> "call", id |-> r], x)  BY DEF Asks
    <2>4. p # r => InWorker(p)  BY <2>0, <2>2, <2>3, SendAsks DEF InWorker, Waiting
    <2>5. q # r => InWorker(q)  BY <2>0, <2>2, <2>3, SendAsks DEF InWorker, Waiting
    <2>6. ASSUME NEW x \in Tasks, InWorker(x), x # r, r \in Tasks PROVE FALSE
      <3>1. x \in Calls /\ Settled(x) /\ Exclusive /\ outcome[x] \notin {"timeout", "cancelled"}
        BY CallFacts DEF OverInv, Patient
      <3>2. reader \in {"read", "send"}  BY <2>2 DEF FailInv, FormInv, ReaderInv
      <3>3. ~Quiet(x)  BY <2>6 DEF Quiet, InWorker
      <3>4. ~Over(x)  BY <3>1, <3>2, <3>3 DEF Settled, Early
      <3>5. call[x] \notin {"idle", "ended"}  BY <3>4 DEF Over
      <3>6. Engaged(x) /\ Engaged(r)  BY <2>2, <3>5 DEF Engaged, Released
      <3> QED  BY <2>6, <3>1, <3>6 DEF EngagedInv
    <2> QED  BY <2>2, <2>4, <2>5, <2>6 DEF AloneInv
  <1>4. ASSUME NEW r \in Calls, WriteFails(r) PROVE AloneInv'
    <2>1. CASE ~(Patient' /\ alive')  BY <2>1 DEF AloneInv
    <2> SUFFICES ASSUME Patient, alive', NEW p \in Tasks, NEW q \in Tasks, InWorker(p)', InWorker(q)' PROVE p = q
      BY <2>1, PatientStep DEF AloneInv
    <2>2. alive /\ InWorker(p) /\ InWorker(q)
      BY <1>4 DEF WriteFails, InWorker, Asked, Typed, TaskTyped, netVars, workVars
    <2> QED  BY <2>2 DEF AloneInv
  <1>5. ASSUME NEW r \in Calls, Receive(r) PROVE AloneInv'
    <2>1. CASE ~(Patient' /\ alive')  BY <2>1 DEF AloneInv
    <2> SUFFICES ASSUME Patient, alive', NEW p \in Tasks, NEW q \in Tasks, InWorker(p)', InWorker(q)' PROVE p = q
      BY <2>1, PatientStep DEF AloneInv
    <2>2. alive /\ InWorker(p) /\ InWorker(q)
      BY <1>5 DEF Receive, InWorker, Asked, Typed, TaskTyped, netVars, workVars
    <2> QED  BY <2>2 DEF AloneInv
  <1>6. ASSUME NEW r \in Calls, TimeOut(r) PROVE AloneInv'
    <2>1. CASE ~(Patient' /\ alive')  BY <2>1 DEF AloneInv
    <2> SUFFICES ASSUME Patient, alive', NEW p \in Tasks, NEW q \in Tasks, InWorker(p)', InWorker(q)' PROVE p = q
      BY <2>1, PatientStep DEF AloneInv
    <2>2. alive /\ InWorker(p) /\ InWorker(q)
      BY <1>6 DEF TimeOut, InWorker, Asked, Typed, TaskTyped, netVars, workVars
    <2> QED  BY <2>2 DEF AloneInv
  <1>7. ASSUME NEW r \in Calls, GiveUp(r) PROVE AloneInv'
    <2>1. CASE ~(Patient' /\ alive')  BY <2>1 DEF AloneInv
    <2> SUFFICES ASSUME Patient, alive', NEW p \in Tasks, NEW q \in Tasks, InWorker(p)', InWorker(q)' PROVE p = q
      BY <2>1, PatientStep DEF AloneInv
    <2>0. Waiting(p) /\ Waiting(q)  BY DEF AskInv
    <2>2. r \in Calls /\ [type |-> "cancel", id |-> r] \in Requests /\ alive /\ UNCHANGED task
          /\ \A x : ~Asks([type |-> "cancel", id |-> r], x)
      BY <1>7, CallFacts, RequestFacts DEF GiveUp, Asks, workVars
    <2>3. CASE UNCHANGED toWorker  BY <2>2, <2>3 DEF InWorker, Asked, AloneInv
    <2>4. CASE Send([type |-> "cancel", id |-> r])
      <3>1. InWorker(p) /\ InWorker(q)  BY <2>0, <2>2, <2>4, SendAsks DEF InWorker, Waiting
      <3> QED  BY <2>2, <3>1 DEF AloneInv
    <2> QED  BY <1>7, <2>3, <2>4 DEF GiveUp
  <1>8. ASSUME NEW r \in Streams, StreamSend(r) PROVE AloneInv'
    <2>1. CASE ~(Patient' /\ alive')  BY <2>1 DEF AloneInv
    <2> SUFFICES ASSUME Patient, alive', NEW p \in Tasks, NEW q \in Tasks, InWorker(p)', InWorker(q)' PROVE p = q
      BY <2>1, PatientStep DEF AloneInv
    <2>2. alive /\ InWorker(p) /\ InWorker(q)
      BY <1>8 DEF StreamSend, InWorker, Asked, Typed, TaskTyped, netVars, workVars
    <2> QED  BY <2>2 DEF AloneInv
  <1>9. ASSUME NEW r \in Streams, StreamCancel(r) PROVE AloneInv'
    <2>1. CASE ~(Patient' /\ alive')  BY <2>1 DEF AloneInv
    <2> SUFFICES ASSUME Patient, alive', NEW p \in Tasks, NEW q \in Tasks, InWorker(p)', InWorker(q)' PROVE p = q
      BY <2>1, PatientStep DEF AloneInv
    <2>0. Waiting(p) /\ Waiting(q)  BY DEF AskInv
    <2>2. r \in Calls /\ [type |-> "cancel", id |-> r] \in Requests /\ alive /\ UNCHANGED task
          /\ \A x : ~Asks([type |-> "cancel", id |-> r], x)
      BY <1>9, CallFacts, RequestFacts DEF StreamCancel, Asks, workVars
    <2>3. CASE UNCHANGED toWorker  BY <2>2, <2>3 DEF InWorker, Asked, AloneInv
    <2>4. CASE Send([type |-> "cancel", id |-> r])
      <3>1. InWorker(p) /\ InWorker(q)  BY <2>0, <2>2, <2>4, SendAsks DEF InWorker, Waiting
      <3> QED  BY <2>2, <3>1 DEF AloneInv
    <2> QED  BY <1>9, <2>3, <2>4 DEF StreamCancel
  <1>10. ASSUME ReadInline PROVE AloneInv'
    <2>1. CASE ~(Patient' /\ alive')  BY <2>1 DEF AloneInv
    <2> SUFFICES ASSUME Patient, alive', NEW p \in Tasks, NEW q \in Tasks, InWorker(p)', InWorker(q)' PROVE p = q
      BY <2>1, PatientStep DEF AloneInv
    <2>0. Waiting(p) /\ Waiting(q)  BY DEF AskInv
    <2>3. Heard /\ alive /\ UNCHANGED task  BY <1>10, InlineFacts DEF ReadInline, workVars
    <2>2. alive /\ InWorker(p) /\ InWorker(q)  BY <2>0, <2>3, HeardAsks DEF Waiting, InWorker
    <2> QED  BY <2>2 DEF AloneInv
  <1>11. ASSUME ReadSynth PROVE AloneInv'
    <2>1. CASE ~(Patient' /\ alive')  BY <2>1 DEF AloneInv
    <2> SUFFICES ASSUME Patient, alive', NEW p \in Tasks, NEW q \in Tasks, InWorker(p)', InWorker(q)' PROVE p = q
      BY <2>1, PatientStep DEF AloneInv
    <2>0. Waiting(p) /\ Waiting(q)  BY DEF AskInv
    <2>3. Heard /\ alive /\ toWorker[1].id \in Tasks /\ Asks(toWorker[1], toWorker[1].id)
      BY <1>11, HeardFacts DEF ReadSynth, Typed, Heard, Asks
    <2>4. \A x \in Tasks : x # toWorker[1].id => task'[x] = task[x]
      BY <1>11, <2>3 DEF ReadSynth, Heard, Typed, TaskTyped
    <2>5. 1 \in 1 .. Len(toWorker)  BY <2>3 DEF Heard
    <2>6. \A x \in Tasks : x = toWorker[1].id => Asked(x)  BY <2>3, <2>5 DEF Asked
    <2>2. alive /\ InWorker(p) /\ InWorker(q)  BY <2>0, <2>3, <2>4, <2>6, HeardAsks DEF Waiting, InWorker
    <2> QED  BY <2>2 DEF AloneInv
  <1>12. ASSUME ReadCancel PROVE AloneInv'
    <2>1. CASE ~(Patient' /\ alive')  BY <2>1 DEF AloneInv
    <2> SUFFICES ASSUME Patient, alive', NEW p \in Tasks, NEW q \in Tasks, InWorker(p)', InWorker(q)' PROVE p = q
      BY <2>1, PatientStep DEF AloneInv
    <2>0. Waiting(p) /\ Waiting(q)  BY DEF AskInv
    <2>3. Heard /\ alive /\ UNCHANGED task  BY <1>12, CancelFacts DEF ReadCancel, workVars
    <2>2. alive /\ InWorker(p) /\ InWorker(q)  BY <2>0, <2>3, HeardAsks DEF Waiting, InWorker
    <2> QED  BY <2>2 DEF AloneInv
  <1>13. ASSUME NEW r \in Tasks, TaskRegister(r) PROVE AloneInv'
    <2>1. CASE ~(Patient' /\ alive')  BY <2>1 DEF AloneInv
    <2> SUFFICES ASSUME Patient, alive', NEW p \in Tasks, NEW q \in Tasks, InWorker(p)', InWorker(q)' PROVE p = q
      BY <2>1, PatientStep DEF AloneInv
    <2>2. alive /\ InWorker(p) /\ InWorker(q)
      BY <1>13 DEF TaskRegister, InWorker, Asked, Typed, TaskTyped, netVars, workVars
    <2> QED  BY <2>2 DEF AloneInv
  <1>14. ASSUME NEW r \in Tasks, TaskOverride(r) PROVE AloneInv'
    <2>1. CASE ~(Patient' /\ alive')  BY <2>1 DEF AloneInv
    <2> SUFFICES ASSUME Patient, alive', NEW p \in Tasks, NEW q \in Tasks, InWorker(p)', InWorker(q)' PROVE p = q
      BY <2>1, PatientStep DEF AloneInv
    <2>2. alive /\ InWorker(p) /\ InWorker(q)
      BY <1>14 DEF TaskOverride, InWorker, Asked, Typed, TaskTyped, netVars, workVars
    <2> QED  BY <2>2 DEF AloneInv
  <1>15. ASSUME NEW r \in Tasks, TaskPickUp(r) PROVE AloneInv'
    <2>1. CASE ~(Patient' /\ alive')  BY <2>1 DEF AloneInv
    <2> SUFFICES ASSUME Patient, alive', NEW p \in Tasks, NEW q \in Tasks, InWorker(p)', InWorker(q)' PROVE p = q
      BY <2>1, PatientStep DEF AloneInv
    <2>2. alive /\ InWorker(p) /\ InWorker(q)
      BY <1>15 DEF TaskPickUp, InWorker, Asked, Typed, TaskTyped, netVars, workVars
    <2> QED  BY <2>2 DEF AloneInv
  <1>16. ASSUME NEW r \in Tasks, TaskGenerate(r) PROVE AloneInv'
    <2>1. CASE ~(Patient' /\ alive')  BY <2>1 DEF AloneInv
    <2> SUFFICES ASSUME Patient, alive', NEW p \in Tasks, NEW q \in Tasks, InWorker(p)', InWorker(q)' PROVE p = q
      BY <2>1, PatientStep DEF AloneInv
    <2>2. alive /\ InWorker(p) /\ InWorker(q)
      BY <1>16 DEF TaskGenerate, InWorker, Asked, Typed, TaskTyped, netVars, workVars
    <2> QED  BY <2>2 DEF AloneInv
  <1>17. ASSUME NEW r \in Streams, TaskChunk(r) PROVE AloneInv'
    <2>1. CASE ~(Patient' /\ alive')  BY <2>1 DEF AloneInv
    <2> SUFFICES ASSUME Patient, alive', NEW p \in Tasks, NEW q \in Tasks, InWorker(p)', InWorker(q)' PROVE p = q
      BY <2>1, PatientStep DEF AloneInv
    <2>2. alive /\ InWorker(p) /\ InWorker(q)
      BY <1>17 DEF TaskChunk, InWorker, Asked, Typed, TaskTyped, netVars, workVars
    <2> QED  BY <2>2 DEF AloneInv
  <1>18. ASSUME NEW r \in Tasks, TaskFails(r) PROVE AloneInv'
    <2>1. CASE ~(Patient' /\ alive')  BY <2>1 DEF AloneInv
    <2> SUFFICES ASSUME Patient, alive', NEW p \in Tasks, NEW q \in Tasks, InWorker(p)', InWorker(q)' PROVE p = q
      BY <2>1, PatientStep DEF AloneInv
    <2>2. alive /\ InWorker(p) /\ InWorker(q)
      BY <1>18 DEF TaskFails, InWorker, Asked, Typed, TaskTyped, netVars, workVars
    <2> QED  BY <2>2 DEF AloneInv
  <1>19. ASSUME NEW r \in Tasks, TaskDiscards(r) PROVE AloneInv'
    <2>1. CASE ~(Patient' /\ alive')  BY <2>1 DEF AloneInv
    <2> SUFFICES ASSUME Patient, alive', NEW p \in Tasks, NEW q \in Tasks, InWorker(p)', InWorker(q)' PROVE p = q
      BY <2>1, PatientStep DEF AloneInv
    <2>2. alive /\ InWorker(p) /\ InWorker(q)
      BY <1>19 DEF TaskDiscards, InWorker, Asked, Typed, TaskTyped, netVars, workVars
    <2> QED  BY <2>2 DEF AloneInv
  <1>20. ASSUME NEW r \in Tasks, TaskSucceeds(r) PROVE AloneInv'
    <2>1. CASE ~(Patient' /\ alive')  BY <2>1 DEF AloneInv
    <2> SUFFICES ASSUME Patient, alive', NEW p \in Tasks, NEW q \in Tasks, InWorker(p)', InWorker(q)' PROVE p = q
      BY <2>1, PatientStep DEF AloneInv
    <2>2. alive /\ InWorker(p) /\ InWorker(q)
      BY <1>20 DEF TaskSucceeds, InWorker, Asked, Typed, TaskTyped, netVars, workVars
    <2> QED  BY <2>2 DEF AloneInv
  <1>21. ASSUME NEW r \in Tasks, TaskWrite(r) PROVE AloneInv'
    <2>1. CASE ~(Patient' /\ alive')  BY <2>1 DEF AloneInv
    <2> SUFFICES ASSUME Patient, alive', NEW p \in Tasks, NEW q \in Tasks, InWorker(p)', InWorker(q)' PROVE p = q
      BY <2>1, PatientStep DEF AloneInv
    <2>2. alive /\ InWorker(p) /\ InWorker(q)
      BY <1>21 DEF TaskWrite, InWorker, Asked, Typed, TaskTyped, netVars, workVars
    <2> QED  BY <2>2 DEF AloneInv
  <1>22. ASSUME WorkerDies PROVE AloneInv'  BY <1>22 DEF WorkerDies, AloneInv
  <1>23. ASSUME NEW r \in Calls, Start(r) \/ Register(r) \/ Leave(r) \/ Cancel(r)
        PROVE  AloneInv'
    BY <1>1, <1>23 DEF Start, Register, Leave, Cancel, callVars, linkVars, netVars, workVars
  <1>24. ASSUME NEW r \in Streams, StreamTake(r) \/ Pass(r) \/ ClientGone(r)
        PROVE  AloneInv'
    BY <1>1, <1>24 DEF StreamTake, Pass, ClientGone, callVars, linkVars, netVars, workVars
  <1>25. ASSUME NEW r \in Tasks, TaskUnlock(r)
        PROVE  AloneInv'
    BY <1>1, <1>25 DEF TaskUnlock, callVars, linkVars, netVars, workVars
  <1>26. ASSUME ReadAnswer \/ PutAnswer \/ ReadFails \/ ClosePending \/ ClosePendingEnd \/ Close
        PROVE  AloneInv'
    BY <1>1, <1>26 DEF ReadAnswer, PutAnswer, ReadFails, ClosePending, ClosePendingEnd, Close, callVars,
        linkVars, netVars, workVars
  <1> QED
    BY <1>1, <1>2, <1>3, <1>4, <1>5, <1>6, <1>7, <1>8, <1>9, <1>10, <1>11, <1>12, <1>13, <1>14,
       <1>15, <1>16, <1>17, <1>18, <1>19, <1>20, <1>21, <1>22, <1>23, <1>24, <1>25, <1>26
    DEF Next, CallStep, StreamStep, ReaderStep, WorkerLoop, TaskStep

LEMMA OwnStep == ASSUME Typed, FormInv, CallInv, QuietInv, AloneInv, OwnInv, Next PROVE OwnInv'
  <1> USE DEF CallInv, QuietInv
  <1>1. CASE UNCHANGED <<outcome, task, overrides, params>>
    BY <1>1 DEF OwnInv, OwnParameters, Patient
  <1>2. ASSUME NEW r \in Calls, StartClosed(r) PROVE OwnInv'
    <2>1. CASE ~Patient'  BY <2>1 DEF OwnInv
    <2> SUFFICES ASSUME Patient, NEW q \in Tasks
                 PROVE  /\ task'[q] = "set" => overrides' = OwnParameters(q)
                        /\ task'[q] = "prepare" => params'[q] = OwnParameters(q)
      BY <2>1, PatientStep DEF OwnInv, OwnParameters
    <2>2. /\ task[q] = "set" => overrides = OwnParameters(q)
          /\ task[q] = "prepare" => params[q] = OwnParameters(q)
      BY DEF OwnInv
    <2> QED  BY <1>2, <2>2 DEF StartClosed, Typed, TaskTyped, workVars
  <1>3. ASSUME NEW r \in Calls, WriteFails(r) PROVE OwnInv'
    <2>1. CASE ~Patient'  BY <2>1 DEF OwnInv
    <2> SUFFICES ASSUME Patient, NEW q \in Tasks
                 PROVE  /\ task'[q] = "set" => overrides' = OwnParameters(q)
                        /\ task'[q] = "prepare" => params'[q] = OwnParameters(q)
      BY <2>1, PatientStep DEF OwnInv, OwnParameters
    <2>2. /\ task[q] = "set" => overrides = OwnParameters(q)
          /\ task[q] = "prepare" => params[q] = OwnParameters(q)
      BY DEF OwnInv
    <2> QED  BY <1>3, <2>2 DEF WriteFails, Typed, TaskTyped, workVars
  <1>4. ASSUME NEW r \in Calls, Receive(r) PROVE OwnInv'
    <2>1. CASE ~Patient'  BY <2>1 DEF OwnInv
    <2> SUFFICES ASSUME Patient, NEW q \in Tasks
                 PROVE  /\ task'[q] = "set" => overrides' = OwnParameters(q)
                        /\ task'[q] = "prepare" => params'[q] = OwnParameters(q)
      BY <2>1, PatientStep DEF OwnInv, OwnParameters
    <2>2. /\ task[q] = "set" => overrides = OwnParameters(q)
          /\ task[q] = "prepare" => params[q] = OwnParameters(q)
      BY DEF OwnInv
    <2> QED  BY <1>4, <2>2 DEF Receive, Typed, TaskTyped, workVars
  <1>5. ASSUME NEW r \in Calls, TimeOut(r) PROVE OwnInv'
    <2>1. CASE ~Patient'  BY <2>1 DEF OwnInv
    <2> SUFFICES ASSUME Patient, NEW q \in Tasks
                 PROVE  /\ task'[q] = "set" => overrides' = OwnParameters(q)
                        /\ task'[q] = "prepare" => params'[q] = OwnParameters(q)
      BY <2>1, PatientStep DEF OwnInv, OwnParameters
    <2>2. /\ task[q] = "set" => overrides = OwnParameters(q)
          /\ task[q] = "prepare" => params[q] = OwnParameters(q)
      BY DEF OwnInv
    <2> QED  BY <1>5, <2>2 DEF TimeOut, Typed, TaskTyped, workVars
  <1>6. ASSUME NEW r \in Calls, GiveUp(r) PROVE OwnInv'
    <2>1. CASE ~Patient'  BY <2>1 DEF OwnInv
    <2> SUFFICES ASSUME Patient, NEW q \in Tasks
                 PROVE  /\ task'[q] = "set" => overrides' = OwnParameters(q)
                        /\ task'[q] = "prepare" => params'[q] = OwnParameters(q)
      BY <2>1, PatientStep DEF OwnInv, OwnParameters
    <2>2. /\ task[q] = "set" => overrides = OwnParameters(q)
          /\ task[q] = "prepare" => params[q] = OwnParameters(q)
      BY DEF OwnInv
    <2> QED  BY <1>6, <2>2 DEF GiveUp, Typed, TaskTyped, workVars
  <1>7. ASSUME NEW r \in Streams, StreamSend(r) PROVE OwnInv'
    <2>1. CASE ~Patient'  BY <2>1 DEF OwnInv
    <2> SUFFICES ASSUME Patient, NEW q \in Tasks
                 PROVE  /\ task'[q] = "set" => overrides' = OwnParameters(q)
                        /\ task'[q] = "prepare" => params'[q] = OwnParameters(q)
      BY <2>1, PatientStep DEF OwnInv, OwnParameters
    <2>2. /\ task[q] = "set" => overrides = OwnParameters(q)
          /\ task[q] = "prepare" => params[q] = OwnParameters(q)
      BY DEF OwnInv
    <2> QED  BY <1>7, <2>2 DEF StreamSend, Typed, TaskTyped, workVars
  <1>8. ASSUME ReadSynth PROVE OwnInv'
    <2>1. CASE ~Patient'  BY <2>1 DEF OwnInv
    <2> SUFFICES ASSUME Patient, NEW q \in Tasks
                 PROVE  /\ task'[q] = "set" => overrides' = OwnParameters(q)
                        /\ task'[q] = "prepare" => params'[q] = OwnParameters(q)
      BY <2>1, PatientStep DEF OwnInv, OwnParameters
    <2>2. /\ task[q] = "set" => overrides = OwnParameters(q)
          /\ task[q] = "prepare" => params[q] = OwnParameters(q)
      BY DEF OwnInv
    <2>3. Heard /\ toWorker[1].id \in Tasks  BY <1>8, HeardFacts DEF ReadSynth, Typed, Heard
    <2> QED  BY <1>8, <2>2, <2>3 DEF ReadSynth, Heard, Typed, TaskTyped
  <1>9. ASSUME NEW r \in Tasks, TaskRegister(r) PROVE OwnInv'
    <2>1. CASE ~Patient'  BY <2>1 DEF OwnInv
    <2> SUFFICES ASSUME Patient, NEW q \in Tasks
                 PROVE  /\ task'[q] = "set" => overrides' = OwnParameters(q)
                        /\ task'[q] = "prepare" => params'[q] = OwnParameters(q)
      BY <2>1, PatientStep DEF OwnInv, OwnParameters
    <2>2. /\ task[q] = "set" => overrides = OwnParameters(q)
          /\ task[q] = "prepare" => params[q] = OwnParameters(q)
      BY DEF OwnInv
    <2> QED  BY <1>9, <2>2 DEF TaskRegister, Typed, TaskTyped, workVars
  <1>10. ASSUME NEW r \in Tasks, TaskOverride(r) PROVE OwnInv'
    <2>1. CASE ~Patient'  BY <2>1 DEF OwnInv
    <2> SUFFICES ASSUME Patient, NEW q \in Tasks
                 PROVE  /\ task'[q] = "set" => overrides' = OwnParameters(q)
                        /\ task'[q] = "prepare" => params'[q] = OwnParameters(q)
      BY <2>1, PatientStep DEF OwnInv, OwnParameters
    <2>2. /\ task[q] = "set" => overrides = OwnParameters(q)
          /\ task[q] = "prepare" => params[q] = OwnParameters(q)
      BY DEF OwnInv
    <2>3. task[r] = "registered" /\ alive /\ overrides' = OwnParameters(r) /\ task'[r] = "set"
          /\ \A x \in Tasks : x # r => task'[x] = task[x]
          /\ UNCHANGED params
      BY <1>10 DEF TaskOverride, OwnParameters, Typed, TaskTyped
    <2>4. q # r => task[q] \in {"none", "ended"}  BY <2>3 DEF AloneInv, InWorker
    <2> QED  BY <2>2, <2>3, <2>4
  <1>11. ASSUME NEW r \in Tasks, TaskPickUp(r) PROVE OwnInv'
    <2>1. CASE ~Patient'  BY <2>1 DEF OwnInv
    <2> SUFFICES ASSUME Patient, NEW q \in Tasks
                 PROVE  /\ task'[q] = "set" => overrides' = OwnParameters(q)
                        /\ task'[q] = "prepare" => params'[q] = OwnParameters(q)
      BY <2>1, PatientStep DEF OwnInv, OwnParameters
    <2>2. /\ task[q] = "set" => overrides = OwnParameters(q)
          /\ task[q] = "prepare" => params[q] = OwnParameters(q)
      BY DEF OwnInv
    <2> QED  BY <1>11, <2>2 DEF TaskPickUp, Typed, TaskTyped, ParamTyped
  <1>12. ASSUME NEW r \in Tasks, TaskGenerate(r) PROVE OwnInv'
    <2>1. CASE ~Patient'  BY <2>1 DEF OwnInv
    <2> SUFFICES ASSUME Patient, NEW q \in Tasks
                 PROVE  /\ task'[q] = "set" => overrides' = OwnParameters(q)
                        /\ task'[q] = "prepare" => params'[q] = OwnParameters(q)
      BY <2>1, PatientStep DEF OwnInv, OwnParameters
    <2>2. /\ task[q] = "set" => overrides = OwnParameters(q)
          /\ task[q] = "prepare" => params[q] = OwnParameters(q)
      BY DEF OwnInv
    <2> QED  BY <1>12, <2>2 DEF TaskGenerate, Typed, TaskTyped, ParamTyped
  <1>13. ASSUME NEW r \in Streams, TaskChunk(r) PROVE OwnInv'
    <2>1. CASE ~Patient'  BY <2>1 DEF OwnInv
    <2> SUFFICES ASSUME Patient, NEW q \in Tasks
                 PROVE  /\ task'[q] = "set" => overrides' = OwnParameters(q)
                        /\ task'[q] = "prepare" => params'[q] = OwnParameters(q)
      BY <2>1, PatientStep DEF OwnInv, OwnParameters
    <2>2. /\ task[q] = "set" => overrides = OwnParameters(q)
          /\ task[q] = "prepare" => params[q] = OwnParameters(q)
      BY DEF OwnInv
    <2> QED  BY <1>13, <2>2 DEF TaskChunk, Typed, TaskTyped, workVars
  <1>14. ASSUME NEW r \in Tasks, TaskFails(r) PROVE OwnInv'
    <2>1. CASE ~Patient'  BY <2>1 DEF OwnInv
    <2> SUFFICES ASSUME Patient, NEW q \in Tasks
                 PROVE  /\ task'[q] = "set" => overrides' = OwnParameters(q)
                        /\ task'[q] = "prepare" => params'[q] = OwnParameters(q)
      BY <2>1, PatientStep DEF OwnInv, OwnParameters
    <2>2. /\ task[q] = "set" => overrides = OwnParameters(q)
          /\ task[q] = "prepare" => params[q] = OwnParameters(q)
      BY DEF OwnInv
    <2> QED  BY <1>14, <2>2 DEF TaskFails, Typed, TaskTyped, workVars
  <1>15. ASSUME NEW r \in Tasks, TaskDiscards(r) PROVE OwnInv'
    <2>1. CASE ~Patient'  BY <2>1 DEF OwnInv
    <2> SUFFICES ASSUME Patient, NEW q \in Tasks
                 PROVE  /\ task'[q] = "set" => overrides' = OwnParameters(q)
                        /\ task'[q] = "prepare" => params'[q] = OwnParameters(q)
      BY <2>1, PatientStep DEF OwnInv, OwnParameters
    <2>2. /\ task[q] = "set" => overrides = OwnParameters(q)
          /\ task[q] = "prepare" => params[q] = OwnParameters(q)
      BY DEF OwnInv
    <2> QED  BY <1>15, <2>2 DEF TaskDiscards, Typed, TaskTyped, workVars
  <1>16. ASSUME NEW r \in Tasks, TaskSucceeds(r) PROVE OwnInv'
    <2>1. CASE ~Patient'  BY <2>1 DEF OwnInv
    <2> SUFFICES ASSUME Patient, NEW q \in Tasks
                 PROVE  /\ task'[q] = "set" => overrides' = OwnParameters(q)
                        /\ task'[q] = "prepare" => params'[q] = OwnParameters(q)
      BY <2>1, PatientStep DEF OwnInv, OwnParameters
    <2>2. /\ task[q] = "set" => overrides = OwnParameters(q)
          /\ task[q] = "prepare" => params[q] = OwnParameters(q)
      BY DEF OwnInv
    <2> QED  BY <1>16, <2>2 DEF TaskSucceeds, Typed, TaskTyped, workVars
  <1>17. ASSUME NEW r \in Tasks, TaskWrite(r) PROVE OwnInv'
    <2>1. CASE ~Patient'  BY <2>1 DEF OwnInv
    <2> SUFFICES ASSUME Patient, NEW q \in Tasks
                 PROVE  /\ task'[q] = "set" => overrides' = OwnParameters(q)
                        /\ task'[q] = "prepare" => params'[q] = OwnParameters(q)
      BY <2>1, PatientStep DEF OwnInv, OwnParameters
    <2>2. /\ task[q] = "set" => overrides = OwnParameters(q)
          /\ task[q] = "prepare" => params[q] = OwnParameters(q)
      BY DEF OwnInv
    <2>3. task'[q] \in {"set", "prepare"} => task'[q] = task[q]
      BY <1>17 DEF TaskWrite, Typed, TaskTyped
    <2> QED  BY <1>17, <2>2, <2>3 DEF TaskWrite
  <1>18. ASSUME NEW r \in Calls, Start(r) \/ Register(r) \/ Write(r) \/ Leave(r) \/ Cancel(r)
        PROVE  OwnInv'
    BY <1>1, <1>18 DEF Start, Register, Write, Leave, Cancel, callVars, linkVars, netVars, workVars
  <1>19. ASSUME NEW r \in Streams, StreamTake(r) \/ StreamCancel(r) \/ Pass(r) \/ ClientGone(r)
        PROVE  OwnInv'
    BY <1>1, <1>19 DEF StreamTake, StreamCancel, Pass, ClientGone, callVars, linkVars, netVars, workVars
  <1>20. ASSUME NEW r \in Tasks, TaskUnlock(r)
        PROVE  OwnInv'
    BY <1>1, <1>20 DEF TaskUnlock, callVars, linkVars, netVars, workVars
  <1>21. ASSUME ReadAnswer \/ PutAnswer \/ ReadFails \/ ClosePending \/ ClosePendingEnd \/ Close
           \/ ReadInline \/ ReadCancel \/ WorkerDies
        PROVE  OwnInv'
    BY <1>1, <1>21 DEF ReadAnswer, PutAnswer, ReadFails, ClosePending, ClosePendingEnd, Close, ReadInline,
        ReadCancel, WorkerDies, callVars, linkVars, netVars, workVars
  <1> QED
    BY <1>1, <1>2, <1>3, <1>4, <1>5, <1>6, <1>7, <1>8, <1>9, <1>10, <1>11, <1>12, <1>13, <1>14,
       <1>15, <1>16, <1>17, <1>18, <1>19, <1>20, <1>21
    DEF Next, CallStep, StreamStep, ReaderStep, WorkerLoop, TaskStep

(* Only generation takes the session and writes the defaults. *)
LEMMA DefaultsMove ==
  ASSUME Typed, Next
  PROVE  \/ UNCHANGED <<session, defaults>>
         \/ session' = None /\ UNCHANGED defaults
         \/ \E r \in Tasks : TaskGenerate(r)
  <1> DEFINE G == \/ UNCHANGED <<session, defaults>>
                  \/ session' = None /\ UNCHANGED defaults
                  \/ \E r \in Tasks : TaskGenerate(r)
  <1>1. ASSUME NEW r \in Calls, CallStep(r) \/ Cancel(r) PROVE G
    BY <1>1 DEF CallStep, Start, StartClosed, Register, Write, WriteFails, Receive, TimeOut, GiveUp, Leave,
        Cancel, workVars
  <1>2. ASSUME NEW r \in Streams, StreamStep(r) \/ TaskChunk(r) \/ ClientGone(r) PROVE G
    BY <1>2 DEF StreamStep, StreamTake, StreamSend, StreamCancel, Pass, TaskChunk, ClientGone, workVars
  <1>3. ASSUME NEW r \in Tasks, TaskStep(r) PROVE G
    BY <1>3 DEF TaskStep, TaskRegister, TaskOverride, TaskPickUp, TaskFails, TaskDiscards, TaskSucceeds,
        TaskUnlock, TaskWrite
  <1>4. ASSUME ReaderStep \/ WorkerLoop \/ Close \/ WorkerDies PROVE G
    BY <1>4 DEF ReaderStep, ReadAnswer, PutAnswer, ReadFails, ClosePending, ClosePendingEnd, WorkerLoop,
        ReadInline, ReadSynth, ReadCancel, Close, WorkerDies, workVars
  <1> HIDE DEF G
  <1>5. G  BY <1>1, <1>2, <1>3, <1>4 DEF Next
  <1> QED  BY <1>5 DEF G

LEMMA SharedStep ==
  ASSUME Typed, CallInv, QuietInv, AloneInv, OwnInv, BegunInv, SharedInv, Next
  PROVE  BegunInv' /\ SharedInv'
  <1> USE DEF Begun
  <1>1. EndedStays  BY EndedKept DEF QuietInv
  <1>2. defaults # None => defaults \in Tasks  BY LinkAssumption DEF Typed, ParamTyped
  <1>3. CASE UNCHANGED <<session, defaults>> \/ (session' = None /\ UNCHANGED defaults)
    <2>1. Patient' => Patient  BY PatientStep
    <2>2. BegunInv'  BY <1>1, <1>2, <1>3, <2>1 DEF BegunInv, EndedStays
    <2>3. SharedInv'  BY <1>1, <1>2, <1>3, <2>1 DEF SharedInv, EndedStays
    <2> QED  BY <2>2, <2>3
  <1>4. CASE \E r \in Tasks : TaskGenerate(r)
    <2> PICK r \in Tasks : TaskGenerate(r)  BY <1>4
    <2>1. /\ alive /\ task[r] = "prepare" /\ session' = r /\ r # None
          /\ defaults' = IF params[r] # None THEN params[r] ELSE defaults
          /\ task'[r] = "generate"
          /\ outcome' = outcome
      BY CallFacts, LinkAssumption DEF TaskGenerate, callVars, Typed, TaskTyped
    <2>2. params[r] \in Overriding \cup {None}  BY DEF Typed, ParamTyped
    <2>3. Patient' => Patient  BY <2>1 DEF Patient
    <2>4. Patient => params[r] = OwnParameters(r)  BY <2>1 DEF OwnInv
    <2>5. Patient /\ defaults # None /\ defaults # r => task[defaults] = "ended"
      BY <1>2, <2>1 DEF BegunInv, AloneInv, InWorker
    <2> SUFFICES ASSUME Patient PROVE BegunInv' /\ SharedInv'  BY <2>3 DEF BegunInv, SharedInv
    <2>6. params[r] = IF r \in Overriding THEN r ELSE None  BY <2>4 DEF OwnParameters
    <2>7. CASE r \in Overriding  BY <2>1, <2>6, <2>7 DEF BegunInv, SharedInv
    <2>8. CASE r \notin Overriding
      <3>1. defaults' = defaults  BY <2>1, <2>6, <2>8
      <3>2. defaults # None => defaults # r  BY <2>8 DEF Typed, ParamTyped
      <3>3. defaults # None => task[defaults] = "ended" /\ task'[defaults] = "ended"
        BY <1>1, <1>2, <2>5, <3>2 DEF EndedStays
      <3> QED  BY <2>1, <2>8, <3>1, <3>3 DEF BegunInv, SharedInv
    <2> QED  BY <2>7, <2>8
  <1> QED  BY <1>3, <1>4, DefaultsMove

----------------------------------------------------------------------------
(* The invariant *)

LEMMA FirstInv == Init => IInv
  <1> SUFFICES ASSUME Init PROVE IInv  OBVIOUS
  <1>0. /\ \A S : <<>> \in Seq(S)
        /\ Len(<<>>) = 0 /\ 1 .. Len(<<>>) = {}
        /\ \A r \in Calls : chan[r] = <<>> /\ call[r] = "idle" /\ outcome[r] = None
        /\ \A r \in Streams : held[r] = Nothing /\ out[r] = <<>> /\ given[r] = 0 /\ chunks[r] = 0
        /\ \A r \in Tasks : task[r] = "none" /\ reply[r] = None
        /\ toWorker = <<>> /\ toParent = <<>> /\ carried = Nothing /\ reader = "read" /\ pending = {}
    BY DEF Init
  <1>1. CallTyped  BY DEF Init, CallTyped
  <1>2. WayTyped  BY <1>0, CapFacts DEF Init, WayTyped
  <1>3. OutTyped
    <2>1. OutCap \in Nat /\ MaxChunks \in Nat  BY LinkAssumption
    <2> QED  BY <1>0, <2>1 DEF Init, OutTyped
  <1>4. NetTyped
    <2>1. NetCap \in Nat  BY LinkAssumption
    <2> QED  BY <1>0, <2>1 DEF NetTyped
  <1>5. TaskTyped  BY CapFacts DEF Init, TaskTyped
  <1>6. ParamTyped /\ Flags  BY DEF Init, ParamTyped, Flags
  <1>7. FormInv
    BY <1>0, CallFacts, NothingFacts, None4
    DEF FormInv, ReplyInv, ParentInv, ReaderInv, ChanInv, HeldInv
  <1>8. CallInv
    BY <1>0, CallFacts, NothingFacts, None4
    DEF CallInv, TableInv, Tabled, LastInv, LastIsLast, LeftInv, LeftAlone
  <1>9. QuietInv
    BY <1>0, CallFacts
    DEF QuietInv, AskInv, Waiting, Asked, AskedOnce, LastOfTask, EndsTask, OverInv, Settled, Quiet, Mentioned
  <1>10. NumberInv
    <2> SUFFICES ASSUME NEW r \in Streams PROVE Placed(r) /\ Sent(r) /\ DoneLast(r)
      BY DEF NumberInv, PlaceInv, NetInv, DoneInv
    <2>0. r \in Calls /\ r \in Tasks  BY CallFacts
    <2>1. InHand(r) = 0 /\ InChan(r) = 0 /\ InCarried(r) = 0 /\ Passed(r) = 0
      BY <1>0, <2>0, NothingFacts, None4 DEF InHand, InChan, InCarried, Passed, Chunk
    <2>2. Base(r) = 0 /\ Made(r) = 0  BY <1>0, <2>0, <2>1, None4 DEF Base, Made
    <2>3. Placed(r)  BY <1>0, <2>0, NothingFacts, None4 DEF Placed, Chunk
    <2>4. Sent(r)  BY <1>0, <2>2 DEF Sent, Follow, Reach
    <2>5. DoneLast(r)  BY <1>0, <2>0, NothingFacts, None4 DEF DoneLast, DoneFor
    <2> QED  BY <2>3, <2>4, <2>5
  <1>11. TurnInv
    <2>1. BegunInv /\ SharedInv  BY DEF Init, BegunInv, SharedInv
    <2> QED
      BY <1>0, <2>1, CallFacts DEF TurnInv, FailInv, EngagedInv, Engaged, AloneInv, InWorker, Asked, OwnInv
  <1> QED  BY <1>1, <1>2, <1>3, <1>4, <1>5, <1>6, <1>7, <1>8, <1>9, <1>10, <1>11 DEF IInv, Typed

LEMMA NextInv == IInv /\ Next => IInv'
  <1> SUFFICES ASSUME IInv, Next PROVE IInv'  OBVIOUS
  <1> USE DEF IInv
  <1>1. Typed'
    BY CallTypedStep, WayTypedStep, OutTypedStep, NetTypedStep, TaskTypedStep, ParamTypedStep
    DEF Typed, FormInv
  <1>2. Flags'  BY FlagsStep
  <1>3. FormInv'  BY ReplyStep, ParentStep, ReaderStepInv, ChanStep, HeldStep DEF FormInv, QuietInv
  <1>4. CallInv'  BY TableStep, LastStep, LeftStep DEF CallInv, QuietInv
  <1>5. QuietInv'  BY AskStep, EndsStep, OverStep DEF QuietInv
  <1>6. NumberInv'  BY PlaceStep, NetStep, DoneStep DEF NumberInv
  <1>7. TurnInv'  BY FailStep, EngagedStep, AloneStep, OwnStep, SharedStep DEF TurnInv
  <1> QED  BY <1>1, <1>2, <1>3, <1>4, <1>5, <1>6, <1>7

LEMMA StillInv == IInv /\ UNCHANGED vars => IInv'
  <1> SUFFICES ASSUME IInv, UNCHANGED vars PROVE IInv'  OBVIOUS
  <1>0. /\ UNCHANGED <<call, outcome, pending, chan, held, out, given, cancelled, told, gone>>
        /\ UNCHANGED <<closed, reader, carried, toWorker, toParent>>
        /\ UNCHANGED <<alive, task, reply, chunks, active, stop, overrides, params, defaults, session>>
    BY DEF vars, callVars, linkVars, netVars, workVars
  <1>1. Typed' /\ Flags'
    BY <1>0 DEF IInv, Typed, CallTyped, WayTyped, OutTyped, NetTyped, TaskTyped, ParamTyped, Flags
  <1>2. FormInv'  BY <1>0 DEF IInv, FormInv, ReplyInv, ParentInv, ReaderInv, ChanInv, HeldInv
  <1>3. CallInv'
    BY <1>0 DEF IInv, CallInv, TableInv, Tabled, LastAnswerComes, LastInv, LastIsLast, LeftInv, LeftAlone
  <1>4. QuietInv'
    BY <1>0 DEF IInv, QuietInv, AskInv, Waiting, Asked, AskedOnce, LastOfTask, EndsTask, OverInv, Settled,
                Early, Over, Quiet, Mentioned
  <1>5. NumberInv'
    <2> SUFFICES ASSUME NEW r \in Streams PROVE Placed(r)' /\ Sent(r)' /\ DoneLast(r)'
      BY DEF NumberInv, PlaceInv, NetInv, DoneInv
    <2>0. Placed(r) /\ Sent(r) /\ DoneLast(r)  BY DEF IInv, NumberInv, PlaceInv, NetInv, DoneInv
    <2>1. Base(r)' = Base(r) /\ Made(r)' = Made(r) /\ Passed(r)' = Passed(r)
      BY <1>0 DEF Base, Passed, InHand, InChan, InCarried, Made
    <2>2. Placed(r)'  BY <1>0, <2>0, PlacedKept
    <2>3. Sent(r)'  BY <1>0, <2>0, <2>1, SentKept
    <2>4. DoneLast(r)'  BY <1>0, <2>0, <2>1 DEF DoneLast, AllMade
    <2> QED  BY <2>2, <2>3, <2>4
  <1>6. TurnInv'
    BY <1>0 DEF IInv, TurnInv, FailInv, EngagedInv, Engaged, Released, AloneInv, Patient, InWorker, Asked,
                OwnInv, OwnParameters, BegunInv, SharedInv
  <1> QED  BY <1>1, <1>2, <1>3, <1>4, <1>5, <1>6 DEF IInv

(* IInv holds in every state that the link and the worker reach. *)
THEOREM Invariance == Spec => []IInv
  <1>1. IInv /\ [Next]_vars => IInv'  BY NextInv, StillInv
  <1> QED  BY <1>1, FirstInv, PTL DEF Spec

----------------------------------------------------------------------------
(* What follows from it *)

(* The variables keep their values in range, and no channel exceeds its capacity. *)
THEOREM TypeCorrect == Spec => []TypeOK
  <1>1. IInv => TypeOK
    BY DEF IInv, Typed, CallTyped, WayTyped, OutTyped, NetTyped, TaskTyped, ParamTyped, Flags,
           FormInv, ReaderInv, TypeOK
  <1> QED  BY <1>1, Invariance, PTL

(* The table of pending calls is exact: see TableExact. *)
THEOREM TableIsExact == Spec => []TableExact
  <1>1. IInv => TableExact  BY DEF IInv, CallInv, TableInv, Tabled, TableExact
  <1> QED  BY <1>1, Invariance, PTL

(* readLoop and closePending never wait for a caller that does not receive. *)
THEOREM ReaderIsFree == Spec => []ReaderNeverWaits
  <1>1. IInv => ReaderNeverWaits
    <2> SUFFICES ASSUME IInv, NEW r \in Calls,
                        (reader = "send" /\ carried.id = r) \/ (reader = "closing" /\ r \in pending)
                 PROVE  /\ r \in Unary => chan[r] = <<>>
                        /\ r \in Streams /\ call[r] \in {"leave", "ended"} => Len(chan[r]) < StreamCap
      BY DEF ReaderNeverWaits
    <2>1. chan[r] \in Seq(Answers)  BY DEF IInv, Typed, WayTyped
    <2>2. ASSUME r \in Unary PROVE chan[r] = <<>>
      <3>1. \A i \in 1 .. Len(chan[r]) : chan[r][i] \in Answers /\ chan[r][i].type # "chunk"
        BY <2>1, <2>2, CallFacts DEF IInv, FormInv, ChanInv
      <3>2. \A i \in 1 .. Len(chan[r]) : chan[r][i].type \notin Terminal
        BY DEF IInv, CallInv, LastInv, LastIsLast
      <3>3. Len(chan[r]) = 0
        <4>1. Len(chan[r]) \in Nat  BY <2>1
        <4>2. 1 \notin 1 .. Len(chan[r])  BY <3>1, <3>2, NothingFacts
        <4> QED  BY <4>1, <4>2
      <3> QED  BY <2>1, <3>3, EmptyFacts
    <2>3. ASSUME r \in Streams, call[r] \in {"leave", "ended"} PROVE Len(chan[r]) < StreamCap
      <3>1. chan[r] = <<>>  BY <2>3 DEF IInv, CallInv, LeftInv, LeftAlone
      <3>2. StreamCap \in Nat \ {0}  BY LinkAssumption
      <3> QED  BY <3>1, <3>2
    <2> QED  BY <2>2, <2>3
  <1> QED  BY <1>1, Invariance, PTL

(* While calls are made one at a time and wait for their answers, a task that was sent a   *)
(* sampling parameter generates with it, and one that was sent none with the manifest's or *)
(* with what an ended task has left: see AnsweredCallsKeepParameters.                      *)
THEOREM ParametersKept == Spec => []AnsweredCallsKeepParameters
  <1>1. IInv => AnsweredCallsKeepParameters
    <2> SUFFICES ASSUME IInv, Patient, NEW r \in Tasks
                 PROVE  /\ task[r] = "prepare" => params[r] = OwnParameters(r)
                        /\ session = r /\ r \in Overriding => defaults = r
                        /\ session = r /\ r \notin Overriding /\ defaults # None => task[defaults] = "ended"
      BY DEF Patient, AnsweredCallsKeepParameters
    <2>1. r # None  BY CallFacts, LinkAssumption
    <2> QED  BY <2>1 DEF IInv, TurnInv, OwnInv, SharedInv
  <1> QED  BY <1>1, Invariance, PTL

LEMMA ConcatFacts ==
  ASSUME NEW S, NEW s \in Seq(S), NEW t \in Seq(S)
  PROVE  /\ s \o t \in Seq(S) /\ Len(s) \in Nat /\ Len(t) \in Nat /\ Len(s \o t) = Len(s) + Len(t)
         /\ \A k \in 1 .. Len(s) : (s \o t)[k] = s[k]
         /\ \A k \in 1 .. Len(t) : (s \o t)[Len(s) + k] = t[k]
  <1>1. Len(s) \in Nat /\ Len(t) \in Nat  OBVIOUS
  <1>2. \A k \in 1 .. Len(t) : /\ Len(s) + k \in 1 .. Len(s) + Len(t) /\ ~(Len(s) + k <= Len(s))
                              /\ (Len(s) + k) - Len(s) = k
    BY <1>1
  <1>3. \A k \in 1 .. Len(s) : k \in 1 .. Len(s) + Len(t) /\ k <= Len(s)  BY <1>1
  <1> QED  BY <1>1, <1>2, <1>3, ConcatProperties

(* Where the answers stand in the line between a task and the client. *)
LEMMA LineFacts ==
  ASSUME Typed, NEW r \in Streams
  PROVE  LET c == Len(chan[r]) IN
         /\ c \in Nat /\ Len(toParent) \in Nat /\ Len(Line(r)) = c + 2 + Len(toParent)
         /\ Line(r)[1] = held[r]
         /\ \A k \in 1 .. c : Line(r)[k + 1] = chan[r][k]
         /\ Line(r)[c + 2] = carried
         /\ \A k \in 1 .. Len(toParent) : Line(r)[c + 2 + k] = toParent[k]
  <1> DEFINE A == Answers \cup {Nothing}
  <1>1. r \in Calls  BY CallFacts
  <1>2. chan[r] \in Seq(A) /\ toParent \in Seq(A) /\ <<held[r]>> \in Seq(A) /\ <<carried>> \in Seq(A)
    BY <1>1 DEF Typed, WayTyped, NetTyped
  <1>3. /\ Len(<<held[r]>>) = 1 /\ <<held[r]>>[1] = held[r]
        /\ Len(<<carried>>) = 1 /\ <<carried>>[1] = carried
    OBVIOUS
  <1> DEFINE u == <<held[r]>> \o chan[r]
  <1>4. /\ u \in Seq(A) /\ Len(u) = 1 + Len(chan[r]) /\ Len(chan[r]) \in Nat
        /\ u[1] = held[r] /\ \A k \in 1 .. Len(chan[r]) : u[k + 1] = chan[r][k]
    BY <1>2, <1>3, ConcatFacts
  <1> HIDE DEF u, A
  <1> DEFINE v == u \o <<carried>>
  <1>5. /\ v \in Seq(A) /\ Len(v) = Len(u) + 1 /\ v[Len(u) + 1] = carried
        /\ \A k \in 1 .. Len(u) : v[k] = u[k]
    BY <1>2, <1>3, <1>4, ConcatFacts
  <1> HIDE DEF v
  <1>6. /\ Len(v \o toParent) = Len(v) + Len(toParent) /\ Len(toParent) \in Nat
        /\ \A k \in 1 .. Len(v) : (v \o toParent)[k] = v[k]
        /\ \A k \in 1 .. Len(toParent) : (v \o toParent)[Len(v) + k] = toParent[k]
    <2>1. v \in Seq(A) /\ toParent \in Seq(A)  BY <1>2, <1>5
    <2> QED  BY <2>1, ConcatFacts
  <1>7. Line(r) = v \o toParent  BY DEF Line, u, v
  <1>8. Len(v) = Len(chan[r]) + 2  BY <1>4, <1>5
  <1>9. /\ \A k \in 1 .. Len(chan[r]) : k + 1 \in 1 .. Len(u) /\ k + 1 \in 1 .. Len(v)
        /\ 1 \in 1 .. Len(u) /\ 1 \in 1 .. Len(v)
        /\ Len(u) + 1 = Len(chan[r]) + 2 /\ Len(u) + 1 \in 1 .. Len(v)
    BY <1>4, <1>5
  <1>10. /\ Line(r)[1] = held[r] /\ Line(r)[Len(chan[r]) + 2] = carried
         /\ \A k \in 1 .. Len(chan[r]) : Line(r)[k + 1] = chan[r][k]
    <2>1. Len(u) + 1 = Len(chan[r]) + 2  BY <1>9
    <2>2. Line(r)[Len(u) + 1] = carried  BY <1>5, <1>6, <1>7, <1>9
    <2>3. Line(r)[1] = held[r]  BY <1>4, <1>5, <1>6, <1>7, <1>9
    <2>4. \A k \in 1 .. Len(chan[r]) : Line(r)[k + 1] = chan[r][k]  BY <1>4, <1>5, <1>6, <1>7, <1>9
    <2> QED  BY <2>1, <2>2, <2>3, <2>4
  <1>11. \A k \in 1 .. Len(toParent) : Line(r)[Len(chan[r]) + 2 + k] = toParent[k]
    BY <1>6, <1>7, <1>8
  <1> QED  BY <1>4, <1>6, <1>7, <1>8, <1>10, <1>11

LEMMA Apart ==
  /\ \A x, y \in Int : x # y /\ x <= y => x < y
  /\ \A x, y \in Int : x < y => x <= y - 1
  /\ \A x \in Int : ~(x < x - 1) /\ x - 1 # x /\ (x + 1) - 1 = x
  /\ \A x, y, z \in Int : x <= y /\ y < z => x < z
  OBVIOUS

(* Every chunk in the line finds the one before it in front of it. *)
LEMMA LineFollows ==
  ASSUME IInv, NEW r \in Streams
  PROVE  Follow(Line(r), r, Passed(r))
  <1> DEFINE c == Len(chan[r])
             p == Passed(r)
             h == InHand(r)
             b == Base(r)
             L == Line(r)
  <1>0. /\ Typed /\ Placed(r) /\ Sent(r) /\ LastIsLast(r) /\ LastInv /\ ChanInv /\ HeldInv
        /\ r \in Calls
    BY CountFacts DEF IInv, NumberInv, PlaceInv, NetInv, CallInv, LastInv, FormInv
  <1>1. /\ c \in Nat /\ p \in Nat /\ h \in {0, 1} /\ b \in Nat /\ InChan(r) \in Nat
        /\ InCarried(r) \in {0, 1} /\ b = p + h + InChan(r) + InCarried(r)
    BY <1>0, CountFacts DEF Base
  <1>2. /\ Len(L) = c + 2 + Len(toParent) /\ Len(toParent) \in Nat
        /\ L[1] = held[r] /\ L[c + 2] = carried
        /\ \A k \in 1 .. c : L[k + 1] = chan[r][k]
        /\ \A k \in 1 .. Len(toParent) : L[c + 2 + k] = toParent[k]
    BY <1>0, LineFacts
  <1>3. Chunk(held[r], r) => h = 1 /\ held[r].n = p + 1
    BY <1>0 DEF Chunk, InHand, Placed
  <1>4. h = 1 => Chunk(held[r], r) /\ held[r].n = p + 1
    BY <1>0, NothingFacts, None4 DEF Chunk, InHand, Placed, HeldInv
  <1>5. \A k \in 1 .. c : Chunk(chan[r][k], r) => chan[r][k].n = p + h + k
    BY <1>0 DEF Chunk, Placed
  <1>6. \A k \in 1 .. InChan(r) : k \in 1 .. c /\ Chunk(chan[r][k], r)
    <2> SUFFICES ASSUME NEW k \in 1 .. InChan(r) PROVE k \in 1 .. c /\ Chunk(chan[r][k], r)
      OBVIOUS
    <2>1. chan[r] \in Seq(Answers)  BY <1>0 DEF Typed, WayTyped
    <2>2. InChan(r) = c \/ (c >= 1 /\ InChan(r) = c - 1)
      BY <1>1, <2>1, EmptyFacts DEF InChan
    <2>3. k \in 1 .. c  BY <1>1, <2>2
    <2>4. chan[r][k].type \notin Terminal
      <3> SUFFICES ASSUME chan[r][k].type \in Terminal PROVE FALSE  OBVIOUS
      <3>1. k = c  BY <1>0, <2>3 DEF LastIsLast
      <3>2. c >= 1 /\ chan[r] # <<>> /\ chan[r][c].type \in Terminal  BY <1>1, <2>1, <2>3, <3>1, EmptyFacts
      <3>3. InChan(r) = c - 1  BY <3>2 DEF InChan
      <3> QED  BY <1>1, <3>1, <3>3
    <2>5. chan[r][k] \in Answers /\ chan[r][k].id = r  BY <1>0, <2>1, <2>3 DEF ChanInv
    <2> QED  BY <2>3, <2>4, <2>5, NothingFacts DEF Chunk
  <1>7. \A k \in 1 .. c : Chunk(chan[r][k], r) => k \in 1 .. InChan(r)
    <2> SUFFICES ASSUME NEW k \in 1 .. c, chan[r][k].type = "chunk" PROVE k \in 1 .. InChan(r)
      BY DEF Chunk
    <2>1. k = c => InChan(r) = c  BY DEF InChan
    <2>2. k < c => InChan(r) >= c - 1  BY <1>1 DEF InChan
    <2> QED  BY <1>1, <2>1, <2>2
  <1>8. Chunk(carried, r) => InChan(r) = c /\ InCarried(r) = 1 /\ carried.n = b
    <2> SUFFICES ASSUME Chunk(carried, r) PROVE InChan(r) = c /\ InCarried(r) = 1 /\ carried.n = b
      OBVIOUS
    <2>1. InChan(r) = c  BY <1>0, NoEndFacts DEF Chunk
    <2>2. InCarried(r) = 1 /\ carried.n = p + h + c + 1  BY <1>0 DEF InCarried, Placed
    <2> QED  BY <1>1, <2>1, <2>2
  <1>9. InCarried(r) = 1 => Chunk(carried, r)  BY DEF InCarried
  <1> HIDE DEF c, p, h, b, L
  <1>10. \A j \in 1 .. c + 2 :
          \/ j = 1 /\ L[j] = held[r]
          \/ j - 1 \in 1 .. c /\ L[j] = chan[r][j - 1]
          \/ j = c + 2 /\ L[j] = carried
    <2> SUFFICES ASSUME NEW j \in 1 .. c + 2, j # 1, j # c + 2
                 PROVE  j - 1 \in 1 .. c /\ L[j] = chan[r][j - 1]
      BY <1>1, <1>2
    <2>1. j - 1 \in 1 .. c /\ (j - 1) + 1 = j  BY <1>1
    <2> QED  BY <1>2, <2>1 DEF c
  <1>11. \A j \in 1 .. c + 2 : Chunk(L[j], r) =>
          \/ j = 1 /\ h = 1 /\ L[j].n = p + 1
          \/ j - 1 \in 1 .. InChan(r) /\ L[j].n = p + h + (j - 1)
          \/ j = c + 2 /\ InChan(r) = c /\ InCarried(r) = 1 /\ L[j].n = b
    <2> SUFFICES ASSUME NEW j \in 1 .. c + 2, Chunk(L[j], r)
                 PROVE  \/ j = 1 /\ h = 1 /\ L[j].n = p + 1
                        \/ j - 1 \in 1 .. InChan(r) /\ L[j].n = p + h + (j - 1)
                        \/ j = c + 2 /\ InChan(r) = c /\ InCarried(r) = 1 /\ L[j].n = b
      OBVIOUS
    <2>1. CASE j = 1 /\ L[j] = held[r]  BY <1>3, <2>1
    <2>2. CASE j - 1 \in 1 .. c /\ L[j] = chan[r][j - 1]  BY <1>5, <1>7, <2>2
    <2>3. CASE j = c + 2 /\ L[j] = carried  BY <1>8, <2>3
    <2> QED  BY <1>10, <2>1, <2>2, <2>3
  <1>12. \A j \in 1 .. c + 2 : Chunk(L[j], r) => L[j].n \in p + 1 .. b  BY <1>1, <1>11
  <1>13. \A i, j \in 1 .. c + 2 : i < j /\ Chunk(L[i], r) /\ Chunk(L[j], r) => L[i].n < L[j].n
    <2> SUFFICES ASSUME NEW i \in 1 .. c + 2, NEW j \in 1 .. c + 2, i < j, Chunk(L[i], r), Chunk(L[j], r)
                 PROVE  L[i].n < L[j].n
      OBVIOUS
    <2>1. CASE j - 1 \in 1 .. InChan(r) /\ L[j].n = p + h + (j - 1)  BY <1>1, <1>11, <2>1
    <2>2. CASE j = c + 2 /\ InCarried(r) = 1 /\ InChan(r) = c /\ L[j].n = b
      <3>1. b = p + h + c + 1  BY <1>1, <2>2
      <3> QED  BY <1>1, <1>11, <2>2, <3>1
    <2>3. j # 1  OBVIOUS
    <2> QED  BY <1>11, <2>1, <2>2, <2>3
  <1>14. \A m \in p + 1 .. b : \E j \in 1 .. c + 2 : Chunk(L[j], r) /\ L[j].n = m
    <2> SUFFICES ASSUME NEW m \in p + 1 .. b PROVE \E j \in 1 .. c + 2 : Chunk(L[j], r) /\ L[j].n = m
      OBVIOUS
    <2>1. CASE m = p + 1 /\ h = 1
      <3>1. 1 \in 1 .. c + 2 /\ Chunk(L[1], r) /\ L[1].n = m  BY <1>1, <1>2, <1>4, <2>1
      <3> QED  BY <3>1
    <2>2. CASE m - p - h \in 1 .. InChan(r)
      <3> DEFINE k == m - p - h
      <3>1. k \in 1 .. c /\ Chunk(chan[r][k], r)  BY <1>6, <2>2
      <3>2. chan[r][k].n = p + h + k  BY <1>5, <3>1
      <3>3. p + h + k = m  BY <1>1
      <3>4. k + 1 \in 1 .. c + 2  BY <1>1, <3>1
      <3>5. L[k + 1] = chan[r][k]  BY <1>2, <3>1 DEF c
      <3> HIDE DEF k
      <3> QED  BY <3>1, <3>2, <3>3, <3>4, <3>5
    <2>3. CASE m = b /\ InCarried(r) = 1
      <3>1. c + 2 \in 1 .. c + 2 /\ Chunk(L[c + 2], r) /\ L[c + 2].n = m  BY <1>1, <1>2, <1>8, <1>9, <2>3
      <3> QED  BY <3>1
    <2> QED  BY <1>1, <2>1, <2>2, <2>3
  <1>15. \A i \in 1 .. Len(L) :
          i \in 1 .. c + 2 \/ (i - (c + 2) \in 1 .. Len(toParent) /\ L[i] = toParent[i - (c + 2)])
    <2> SUFFICES ASSUME NEW i \in 1 .. Len(L), i \notin 1 .. c + 2
                 PROVE  i - (c + 2) \in 1 .. Len(toParent) /\ L[i] = toParent[i - (c + 2)]
      OBVIOUS
    <2>1. i - (c + 2) \in 1 .. Len(toParent) /\ c + 2 + (i - (c + 2)) = i  BY <1>1, <1>2
    <2> QED  BY <1>2, <2>1
  <1> SUFFICES ASSUME NEW i \in 1 .. Len(L), Chunk(L[i], r)
               PROVE  /\ L[i].n = p + 1 \/ \E j \in 1 .. i - 1 : Chunk(L[j], r) /\ L[j].n = L[i].n - 1
                      /\ \A j \in 1 .. i - 1 : Chunk(L[j], r) => L[j].n < L[i].n
    BY DEF Follow, L, p
  <1>16. CASE i \in 1 .. c + 2
    <2>1. \A j \in 1 .. i - 1 : j \in 1 .. c + 2 /\ j < i  BY <1>1, <1>16
    <2>2. L[i].n \in p + 1 .. b  BY <1>12, <1>16
    <2>3. ASSUME L[i].n # p + 1
          PROVE  \E j \in 1 .. i - 1 : Chunk(L[j], r) /\ L[j].n = L[i].n - 1
      <3>0. L[i].n \in Int /\ p + 1 <= L[i].n /\ L[i].n <= b /\ p + 1 \in Int /\ b \in Int  BY <1>1, <2>2
      <3>1. L[i].n - 1 \in p + 1 .. b
        <4>1. p + 1 < L[i].n  BY <2>3, <3>0, Apart
        <4> QED  BY <3>0, <4>1
      <3>2. PICK j \in 1 .. c + 2 : Chunk(L[j], r) /\ L[j].n = L[i].n - 1  BY <1>14, <3>1
      <3>3. ~(L[i].n < L[j].n) /\ L[j].n # L[i].n  BY <3>0, <3>2, Apart
      <3>4. ~(i < j) /\ i # j  BY <1>13, <1>16, <3>2, <3>3
      <3>5. j \in 1 .. i - 1  BY <1>1, <1>16, <3>4
      <3> QED  BY <3>2, <3>5
    <2> QED  BY <1>13, <1>16, <2>1, <2>3
  <1>17. CASE i - (c + 2) \in 1 .. Len(toParent) /\ L[i] = toParent[i - (c + 2)]
    <2> DEFINE k == i - (c + 2)
    <2>1. /\ k \in 1 .. Len(toParent) /\ L[i] = toParent[k] /\ Chunk(toParent[k], r) /\ i = c + 2 + k
          /\ \A j \in 1 .. c + 2 : j \in 1 .. i - 1
          /\ \A j \in 1 .. k - 1 : /\ c + 2 + j \in 1 .. i - 1 /\ j \in 1 .. Len(toParent)
          /\ \A j \in 1 .. i - 1 : j \in 1 .. c + 2 \/ (j - (c + 2) \in 1 .. k - 1 /\ c + 2 + (j - (c + 2)) = j)
      BY <1>1, <1>2, <1>17
    <2> HIDE DEF k
    <2>2. /\ \/ L[i].n = b + 1
             \/ \E j \in 1 .. k - 1 : Chunk(toParent[j], r) /\ toParent[j].n = L[i].n - 1
          /\ \A j \in 1 .. k - 1 : Chunk(toParent[j], r) => toParent[j].n < L[i].n
          /\ b < L[i].n /\ L[i].n \in Nat
      BY <1>0, <2>1, NumberFacts DEF Sent, Follow, b
    <2>3. \A j \in 1 .. i - 1 : Chunk(L[j], r) => L[j].n < L[i].n
      <3> SUFFICES ASSUME NEW j \in 1 .. i - 1, Chunk(L[j], r) PROVE L[j].n < L[i].n  OBVIOUS
      <3>1. CASE j \in 1 .. c + 2
        <4>1. L[j].n \in p + 1 .. b  BY <1>12, <3>1
        <4>2. p + 1 \in Int /\ b \in Int  BY <1>1
        <4>3. L[j].n \in Int /\ L[j].n <= b  BY <4>1, <4>2
        <4>4. L[i].n \in Int /\ b < L[i].n  BY <2>2
        <4> QED  BY <4>2, <4>3, <4>4, Apart
      <3>2. CASE j - (c + 2) \in 1 .. k - 1 /\ c + 2 + (j - (c + 2)) = j
        <4>1. L[j] = toParent[j - (c + 2)]  BY <1>2, <2>1, <3>2
        <4> QED  BY <2>2, <3>2, <4>1
      <3> QED  BY <2>1, <3>1, <3>2
    <2>4. CASE L[i].n = b + 1
      <3>1. CASE b = p  BY <2>3, <2>4, <3>1
      <3>2. CASE b # p
        <4>0. b \in Int /\ p \in Int /\ p <= b  BY <1>1
        <4>3. p < b  BY <3>2, <4>0, Apart
        <4>1. b \in p + 1 .. b /\ b = (b + 1) - 1  BY <4>0, <4>3
        <4>2. PICK j \in 1 .. c + 2 : Chunk(L[j], r) /\ L[j].n = b  BY <1>14, <4>1
        <4> QED  BY <2>1, <2>3, <2>4, <4>1, <4>2
      <3> QED  BY <3>1, <3>2
    <2>5. ASSUME NEW j \in 1 .. k - 1, Chunk(toParent[j], r), toParent[j].n = L[i].n - 1
          PROVE  \E x \in 1 .. i - 1 : Chunk(L[x], r) /\ L[x].n = L[i].n - 1
      <3>1. c + 2 + j \in 1 .. i - 1 /\ L[c + 2 + j] = toParent[j]  BY <1>2, <2>1
      <3> QED  BY <2>5, <3>1
    <2> QED  BY <2>2, <2>3, <2>4, <2>5
  <1> QED  BY <1>15, <1>16, <1>17

(* A client gets the chunks of its stream in order, none is missing, and "done" comes last. *)
THEOREM StreamsAreWhole == Spec => []StreamWhole
  <1>1. IInv => StreamWhole
    <2> SUFFICES ASSUME IInv, NEW r \in Streams
                 PROVE  /\ \A i \in 1 .. Len(out[r]) : out[r][i] = given[r] + i
                        /\ Follow(Line(r), r, given[r] + Len(out[r]))
                        /\ outcome[r] = "done" => given[r] + Len(out[r]) = chunks[r]
      BY DEF StreamWhole
    <2>1. Placed(r) /\ DoneLast(r)  BY DEF IInv, NumberInv, PlaceInv, DoneInv
    <2>2. Follow(Line(r), r, given[r] + Len(out[r]))  BY LineFollows DEF Passed
    <2> QED  BY <2>1, <2>2 DEF Placed, DoneLast, AllMade, Passed
  <1> QED  BY <1>1, Invariance, PTL

----------------------------------------------------------------------------
(* Where answers come from. *)

(* The task of call r may give an answer of type t when the calls in S were to be stopped. *)
MayAnswer(t, r, S) ==
  \/ t = "cancelled" /\ r \in S
  \/ t = "done" /\ r \in Streams
  \/ t \in {"result", "error"} /\ r \in Synth

(* A last answer comes from its task, which is over, or says that the connection failed. *)
CausedBy(a, S, T, failed) ==
  a.id \in Tasks /\ a.type \in Terminal =>
    \/ failed /\ a.type = "error"
    \/ T[a.id] = "ended" /\ MayAnswer(a.type, a.id, S)

Caused(a) == CausedBy(a, told, task, MayFail)
CausedThen(a) == CausedBy(a, told', task', MayFail')

(* A task is only told to stop if the client has left. *)
StopInv ==
  /\ stop \subseteq told
  /\ \A i \in 1 .. Len(toWorker) : toWorker[i].type = "cancel" => toWorker[i].id \in told

TaskCause == \A r \in Tasks : reply[r] \in Terminal => MayAnswer(reply[r], r, told)

NetCause ==
  \A i \in 1 .. Len(toParent) :
    toParent[i].id \in Tasks /\ toParent[i].type \in Terminal =>
      MayAnswer(toParent[i].type, toParent[i].id, told)

WayCause ==
  /\ Caused(carried)
  /\ \A r \in Calls : \A i \in 1 .. Len(chan[r]) : Caused(chan[r][i])
  /\ \A r \in Streams : Caused(held[r])

CauseInv == StopInv /\ TaskCause /\ NetCause /\ WayCause

LEMMA Grows == ASSUME Typed, Next PROVE told \subseteq told' /\ (MayFail => MayFail')
  <1>1. CASE UNCHANGED <<told, closed, alive>>
    BY <1>1 DEF MayFail
  <1>2. ASSUME NEW r \in Calls, GiveUp(r) PROVE told \subseteq told' /\ (MayFail => MayFail')
    BY <1>2 DEF GiveUp, MayFail, linkVars, workVars
  <1>3. ASSUME NEW r \in Streams, StreamCancel(r) PROVE told \subseteq told' /\ (MayFail => MayFail')
    BY <1>3 DEF StreamCancel, MayFail, linkVars, workVars
  <1>4. ASSUME Close \/ WorkerDies PROVE told \subseteq told' /\ (MayFail => MayFail')
    BY <1>4 DEF Close, WorkerDies, MayFail, callVars, linkVars
  <1>5. ASSUME NEW r \in Calls, Start(r) \/ StartClosed(r) \/ Register(r) \/ Write(r) \/ WriteFails(r) \/
           Receive(r) \/ TimeOut(r) \/ Leave(r) \/ Cancel(r)
        PROVE  told \subseteq told' /\ (MayFail => MayFail')
    BY <1>1, <1>5 DEF Start, StartClosed, Register, Write, WriteFails, Receive, TimeOut, Leave, Cancel,
        callVars, linkVars, netVars, workVars
  <1>6. ASSUME NEW r \in Streams, StreamTake(r) \/ StreamSend(r) \/ Pass(r) \/ TaskChunk(r) \/ ClientGone(r)
        PROVE  told \subseteq told' /\ (MayFail => MayFail')
    BY <1>1, <1>6 DEF StreamTake, StreamSend, Pass, TaskChunk, ClientGone, callVars, linkVars, netVars,
        workVars
  <1>7. ASSUME NEW r \in Tasks, TaskRegister(r) \/ TaskOverride(r) \/ TaskPickUp(r) \/ TaskGenerate(r) \/
           TaskFails(r) \/ TaskDiscards(r) \/ TaskSucceeds(r) \/ TaskUnlock(r) \/ TaskWrite(r)
        PROVE  told \subseteq told' /\ (MayFail => MayFail')
    BY <1>1, <1>7 DEF TaskRegister, TaskOverride, TaskPickUp, TaskGenerate, TaskFails, TaskDiscards,
        TaskSucceeds, TaskUnlock, TaskWrite, callVars, linkVars, netVars, workVars
  <1>8. ASSUME ReadAnswer \/ PutAnswer \/ ReadFails \/ ClosePending \/ ClosePendingEnd \/ ReadInline \/
           ReadSynth \/ ReadCancel
        PROVE  told \subseteq told' /\ (MayFail => MayFail')
    BY <1>1, <1>8 DEF ReadAnswer, PutAnswer, ReadFails, ClosePending, ClosePendingEnd, ReadInline,
        ReadSynth, ReadCancel, callVars, linkVars, netVars, workVars
  <1> QED
    BY <1>1, <1>2, <1>3, <1>4, <1>5, <1>6, <1>7, <1>8
    DEF Next, CallStep, StreamStep, ReaderStep, WorkerLoop, TaskStep

LEMMA CausedStays ==
  ASSUME EndedStays, told \subseteq told', MayFail => MayFail', NEW a, Caused(a)
  PROVE  CausedThen(a)
  BY DEF Caused, CausedThen, CausedBy, MayAnswer, EndedStays

(* A message that is added to the connection. *)
LEMMA StopSend ==
  ASSUME StopInv, NetTyped, NEW m \in Requests, Send(m), told \subseteq told', stop' = stop,
         m.type = "cancel" => m.id \in told'
  PROVE  StopInv'
  <1> SUFFICES ASSUME NEW i \in 1 .. Len(toWorker'), toWorker'[i].type = "cancel"
               PROVE  toWorker'[i].id \in told'
    BY DEF StopInv
  <1>1. CASE toWorker' = toWorker  BY <1>1 DEF StopInv
  <1>2. CASE /\ Len(toWorker') = Len(toWorker) + 1 /\ Len(toWorker) \in Nat
             /\ \A j \in 1 .. Len(toWorker) : toWorker'[j] = toWorker[j]
             /\ toWorker'[Len(toWorker) + 1] = m
    <2>1. i \in 1 .. Len(toWorker) \/ i = Len(toWorker) + 1  BY <1>2
    <2> QED  BY <1>2, <2>1 DEF StopInv
  <1> QED  BY <1>1, <1>2, SendFacts

(* What the worker has read of the connection is gone from it. *)
LEMMA StopHeard == ASSUME StopInv, Heard, told' = told, stop' \subseteq told PROVE StopInv'
  <1> SUFFICES ASSUME NEW i \in 1 .. Len(toWorker'), toWorker'[i].type = "cancel"
               PROVE  toWorker'[i].id \in told
    BY DEF StopInv
  <1>1. i + 1 \in 1 .. Len(toWorker) /\ toWorker'[i] = toWorker[i + 1]  BY DEF Heard
  <1> QED  BY <1>1 DEF StopInv

LEMMA StopStep == ASSUME Typed, StopInv, Next PROVE StopInv'
  <1>1. CASE UNCHANGED <<told, stop, toWorker>>
    BY <1>1 DEF StopInv
  <1>2. ASSUME NEW r \in Calls, Write(r) PROVE StopInv'
    <2> DEFINE m == [type |-> "call", id |-> r]
    <2>1. m \in Requests /\ m.type # "cancel"  BY DEF Requests
    <2>2. Send(m) /\ told' = told /\ stop' = stop  BY <1>2 DEF Write, workVars
    <2> HIDE DEF m
    <2> QED  BY <2>1, <2>2, StopSend DEF Typed
  <1>3. ASSUME NEW r \in Calls, GiveUp(r) PROVE StopInv'
    <2> DEFINE m == [type |-> "cancel", id |-> r]
    <2>1. m \in Requests /\ m.id = r  BY DEF Requests
    <2>2. told' = told \cup {r} /\ stop' = stop  BY <1>3 DEF GiveUp, workVars
    <2>3. Send(m) \/ toWorker' = toWorker  BY <1>3 DEF GiveUp
    <2> HIDE DEF m
    <2>4. CASE toWorker' = toWorker  BY <2>2, <2>4 DEF StopInv
    <2> QED  BY <2>1, <2>2, <2>3, <2>4, StopSend DEF Typed
  <1>4. ASSUME NEW r \in Streams, StreamCancel(r) PROVE StopInv'
    <2> DEFINE m == [type |-> "cancel", id |-> r]
    <2>1. m \in Requests /\ m.id = r  BY CallFacts DEF Requests
    <2>2. told' = told \cup {r} /\ stop' = stop  BY <1>4 DEF StreamCancel, workVars
    <2>3. Send(m) \/ toWorker' = toWorker  BY <1>4 DEF StreamCancel
    <2> HIDE DEF m
    <2>4. CASE toWorker' = toWorker  BY <2>2, <2>4 DEF StopInv
    <2> QED  BY <2>1, <2>2, <2>3, <2>4, StopSend DEF Typed
  <1>5. ASSUME ReadInline PROVE StopInv'
    BY <1>5, InlineFacts, StopHeard DEF ReadInline, callVars, workVars, StopInv
  <1>6. ASSUME ReadSynth PROVE StopInv'
    <2>1. Heard  BY <1>6, HeardFacts DEF ReadSynth, Typed
    <2> QED  BY <1>6, <2>1, StopHeard DEF ReadSynth, callVars, StopInv
  <1>7. ASSUME ReadCancel PROVE StopInv'
    <2>1. Heard /\ toWorker[1].type = "cancel" /\ 1 \in 1 .. Len(toWorker)
      BY <1>7, CancelFacts DEF Heard
    <2>2. toWorker[1].id \in told  BY <2>1 DEF StopInv
    <2>3. stop' \subseteq told /\ told' = told
      BY <1>7, <2>1, <2>2 DEF ReadCancel, callVars, StopInv, Heard
    <2> QED  BY <2>1, <2>3, StopHeard
  <1>8. ASSUME NEW r \in Tasks, TaskDiscards(r) \/ TaskWrite(r) PROVE StopInv'
    BY <1>8 DEF TaskDiscards, TaskWrite, StopInv, callVars, netVars
  <1>9. ASSUME WorkerDies PROVE StopInv'
    <2>1. toWorker' = <<>> /\ told' = told /\ stop' = stop
      BY <1>9, DiesFacts DEF WorkerDies, callVars
    <2> QED  BY <2>1 DEF StopInv
  <1>10. ASSUME NEW r \in Calls, Start(r) \/ StartClosed(r) \/ Register(r) \/ WriteFails(r) \/ Receive(r) \/
           TimeOut(r) \/ Leave(r) \/ Cancel(r)
        PROVE  StopInv'
    BY <1>1, <1>10 DEF Start, StartClosed, Register, WriteFails, Receive, TimeOut, Leave, Cancel, callVars,
        linkVars, netVars, workVars
  <1>11. ASSUME NEW r \in Streams, StreamTake(r) \/ StreamSend(r) \/ Pass(r) \/ TaskChunk(r) \/
           ClientGone(r)
        PROVE  StopInv'
    BY <1>1, <1>11 DEF StreamTake, StreamSend, Pass, TaskChunk, ClientGone, callVars, linkVars, netVars,
        workVars
  <1>12. ASSUME NEW r \in Tasks, TaskRegister(r) \/ TaskOverride(r) \/ TaskPickUp(r) \/ TaskGenerate(r) \/
           TaskFails(r) \/ TaskSucceeds(r) \/ TaskUnlock(r)
        PROVE  StopInv'
    BY <1>1, <1>12 DEF TaskRegister, TaskOverride, TaskPickUp, TaskGenerate, TaskFails, TaskSucceeds,
        TaskUnlock, callVars, linkVars, netVars, workVars
  <1>13. ASSUME ReadAnswer \/ PutAnswer \/ ReadFails \/ ClosePending \/ ClosePendingEnd \/ Close
        PROVE  StopInv'
    BY <1>1, <1>13 DEF ReadAnswer, PutAnswer, ReadFails, ClosePending, ClosePendingEnd, Close, callVars,
        linkVars, netVars, workVars
  <1> QED
    BY <1>1, <1>2, <1>3, <1>4, <1>5, <1>6, <1>7, <1>8, <1>9, <1>10, <1>11, <1>12, <1>13
    DEF Next, CallStep, StreamStep, ReaderStep, WorkerLoop, TaskStep

LEMMA TaskCauseStep == ASSUME Typed, ReplyInv, StopInv, TaskCause, Next PROVE TaskCause'
  <1>1. CASE UNCHANGED <<told, reply>>
    BY <1>1 DEF TaskCause, MayAnswer
  <1>2. ASSUME NEW r \in Calls, GiveUp(r) PROVE TaskCause'
    BY <1>2 DEF GiveUp, TaskCause, MayAnswer, workVars
  <1>3. ASSUME NEW r \in Streams, StreamCancel(r) PROVE TaskCause'
    BY <1>3 DEF StreamCancel, TaskCause, MayAnswer, workVars
  <1>4. ASSUME NEW r \in Streams, TaskChunk(r) PROVE TaskCause'
    <2>1. r \in Tasks /\ told' = told  BY <1>4, CallFacts DEF TaskChunk, callVars
    <2>2. reply'[r] = "chunk" /\ \A q \in Tasks : q # r => reply'[q] = reply[q]
      BY <1>4, <2>1 DEF TaskChunk, Typed, TaskTyped
    <2> SUFFICES ASSUME NEW q \in Tasks, reply'[q] \in Terminal PROVE MayAnswer(reply'[q], q, told')
      BY DEF TaskCause
    <2>3. q # r /\ reply'[q] = reply[q]  BY <2>2
    <2> QED  BY <2>1, <2>3 DEF TaskCause
  <1>5. ASSUME NEW r \in Tasks, TaskFails(r) PROVE TaskCause'
    BY <1>5, CallFacts DEF TaskFails, TaskCause, MayAnswer, callVars, Typed, TaskTyped, StopInv
  <1>6. ASSUME NEW r \in Tasks, TaskSucceeds(r) PROVE TaskCause'
    BY <1>6, CallFacts DEF TaskSucceeds, TaskCause, MayAnswer, callVars, Typed, TaskTyped, StopInv
  <1>7. ASSUME NEW r \in Tasks, TaskWrite(r) PROVE TaskCause'
    BY <1>7, CallFacts, None4 DEF TaskWrite, TaskCause, MayAnswer, callVars, Typed, TaskTyped
  <1>8. ASSUME NEW r \in Calls, Start(r) \/ StartClosed(r) \/ Register(r) \/ Write(r) \/ WriteFails(r) \/
           Receive(r) \/ TimeOut(r) \/ Leave(r) \/ Cancel(r)
        PROVE  TaskCause'
    BY <1>1, <1>8 DEF Start, StartClosed, Register, Write, WriteFails, Receive, TimeOut, Leave, Cancel,
        callVars, linkVars, netVars, workVars
  <1>9. ASSUME NEW r \in Streams, StreamTake(r) \/ StreamSend(r) \/ Pass(r) \/ ClientGone(r)
        PROVE  TaskCause'
    BY <1>1, <1>9 DEF StreamTake, StreamSend, Pass, ClientGone, callVars, linkVars, netVars, workVars
  <1>10. ASSUME NEW r \in Tasks, TaskRegister(r) \/ TaskOverride(r) \/ TaskPickUp(r) \/ TaskGenerate(r) \/
           TaskDiscards(r) \/ TaskUnlock(r)
        PROVE  TaskCause'
    BY <1>1, <1>10 DEF TaskRegister, TaskOverride, TaskPickUp, TaskGenerate, TaskDiscards, TaskUnlock,
        callVars, linkVars, netVars, workVars
  <1>11. ASSUME ReadAnswer \/ PutAnswer \/ ReadFails \/ ClosePending \/ ClosePendingEnd \/ Close \/
           ReadInline \/ ReadSynth \/ ReadCancel \/ WorkerDies
        PROVE  TaskCause'
    BY <1>1, <1>11 DEF ReadAnswer, PutAnswer, ReadFails, ClosePending, ClosePendingEnd, Close, ReadInline,
        ReadSynth, ReadCancel, WorkerDies, callVars, linkVars, netVars, workVars
  <1> QED
    BY <1>1, <1>2, <1>3, <1>4, <1>5, <1>6, <1>7, <1>8, <1>9, <1>10, <1>11
    DEF Next, CallStep, StreamStep, ReaderStep, WorkerLoop, TaskStep

(* An answer that is added to the connection. *)
LEMMA NetSaid ==
  ASSUME NetCause, told \subseteq told', NEW a \in Answers, Said(a),
         a.id \in Tasks /\ a.type \in Terminal => MayAnswer(a.type, a.id, told)
  PROVE  NetCause'
  <1> SUFFICES ASSUME NEW i \in 1 .. Len(toParent'), toParent'[i].id \in Tasks, toParent'[i].type \in Terminal
               PROVE  MayAnswer(toParent'[i].type, toParent'[i].id, told')
    BY DEF NetCause
  <1>1. CASE i = Len(toParent) + 1  BY <1>1 DEF Said, MayAnswer
  <1>2. CASE i # Len(toParent) + 1
    <2>1. i \in 1 .. Len(toParent) /\ toParent'[i] = toParent[i]  BY <1>2 DEF Said
    <2> QED  BY <2>1 DEF NetCause, MayAnswer
  <1> QED  BY <1>1, <1>2

LEMMA NetCauseStep == ASSUME Typed, ReplyInv, TaskCause, NetCause, Next PROVE NetCause'
  <1>1. CASE UNCHANGED <<told, toParent>>
    BY <1>1 DEF NetCause, MayAnswer
  <1>2. ASSUME NEW r \in Calls, GiveUp(r) PROVE NetCause'
    BY <1>2 DEF GiveUp, NetCause, MayAnswer, workVars
  <1>3. ASSUME NEW r \in Streams, StreamCancel(r) PROVE NetCause'
    BY <1>3 DEF StreamCancel, NetCause, MayAnswer, workVars
  <1>4. ASSUME ReadAnswer PROVE NetCause'
    <2>1. /\ Len(toParent') = Len(toParent) - 1 /\ Len(toParent) \in Nat /\ told' = told
          /\ \A i \in 1 .. Len(toParent') : toParent'[i] = toParent[i + 1]
      BY <1>4, ReadFacts DEF ReadAnswer
    <2> SUFFICES ASSUME NEW i \in 1 .. Len(toParent'), toParent'[i].id \in Tasks,
                        toParent'[i].type \in Terminal
                 PROVE  MayAnswer(toParent'[i].type, toParent'[i].id, told')
      BY DEF NetCause
    <2>2. i + 1 \in 1 .. Len(toParent) /\ toParent'[i] = toParent[i + 1]  BY <2>1
    <2> QED  BY <2>1, <2>2 DEF NetCause, MayAnswer
  <1>5. ASSUME ReadInline PROVE NetCause'
    <2>1. told' = told  BY <1>5 DEF ReadInline, callVars
    <2> QED  BY <1>5, <2>1, CallFacts, InlineFacts, NetSaid
  <1>6. ASSUME ReadCancel PROVE NetCause'
    <2>1. told' = told  BY <1>6 DEF ReadCancel, callVars
    <2> QED  BY <1>6, <2>1, CallFacts, CancelFacts, NetSaid
  <1>7. ASSUME NEW r \in Tasks, TaskWrite(r) PROVE NetCause'
    <2>1. /\ Said(Written(r)) /\ Written(r) \in Answers
          /\ Written(r).type = reply[r] /\ Written(r).id = r /\ told' = told
      BY <1>7, WrittenFacts, SaidFacts DEF TaskWrite, Typed, Written, callVars
    <2>2. Written(r).type \in Terminal => MayAnswer(Written(r).type, Written(r).id, told)
      BY <2>1 DEF TaskCause
    <2> QED  BY <2>1, <2>2, NetSaid
  <1>8. ASSUME WorkerDies PROVE NetCause'
    <2>1. told' = told  BY <1>8 DEF WorkerDies, callVars
    <2> SUFFICES ASSUME NEW i \in 1 .. Len(toParent'), toParent'[i].id \in Tasks,
                        toParent'[i].type \in Terminal
                 PROVE  MayAnswer(toParent'[i].type, toParent'[i].id, told')
      BY DEF NetCause
    <2>2. i \in 1 .. Len(toParent) /\ toParent'[i] = toParent[i]  BY <1>8, DiesFacts
    <2> QED  BY <2>1, <2>2 DEF NetCause, MayAnswer
  <1>9. ASSUME NEW r \in Calls, Start(r) \/ StartClosed(r) \/ Register(r) \/ Write(r) \/ WriteFails(r) \/
           Receive(r) \/ TimeOut(r) \/ Leave(r) \/ Cancel(r)
        PROVE  NetCause'
    BY <1>1, <1>9 DEF Start, StartClosed, Register, Write, WriteFails, Receive, TimeOut, Leave, Cancel,
        callVars, linkVars, netVars, workVars
  <1>10. ASSUME NEW r \in Streams, StreamTake(r) \/ StreamSend(r) \/ Pass(r) \/ TaskChunk(r) \/
           ClientGone(r)
        PROVE  NetCause'
    BY <1>1, <1>10 DEF StreamTake, StreamSend, Pass, TaskChunk, ClientGone, callVars, linkVars, netVars,
        workVars
  <1>11. ASSUME NEW r \in Tasks, TaskRegister(r) \/ TaskOverride(r) \/ TaskPickUp(r) \/ TaskGenerate(r) \/
           TaskFails(r) \/ TaskDiscards(r) \/ TaskSucceeds(r) \/ TaskUnlock(r)
        PROVE  NetCause'
    BY <1>1, <1>11 DEF TaskRegister, TaskOverride, TaskPickUp, TaskGenerate, TaskFails, TaskDiscards,
        TaskSucceeds, TaskUnlock, callVars, linkVars, netVars, workVars
  <1>12. ASSUME PutAnswer \/ ReadFails \/ ClosePending \/ ClosePendingEnd \/ Close \/ ReadSynth
        PROVE  NetCause'
    BY <1>1, <1>12 DEF PutAnswer, ReadFails, ClosePending, ClosePendingEnd, Close, ReadSynth, callVars,
        linkVars, netVars, workVars
  <1> QED
    BY <1>1, <1>2, <1>3, <1>4, <1>5, <1>6, <1>7, <1>8, <1>9, <1>10, <1>11, <1>12
    DEF Next, CallStep, StreamStep, ReaderStep, WorkerLoop, TaskStep

(* The channel of a call after something was taken from it, or put into it. *)
LEMMA ChanTook ==
  ASSUME WayCause, NEW r \in Calls, Took(r), \A a : Caused(a) => CausedThen(a)
  PROVE  \A q \in Calls : \A i \in 1 .. Len(chan'[q]) : CausedThen(chan'[q][i])
  <1> SUFFICES ASSUME NEW q \in Calls, NEW i \in 1 .. Len(chan'[q]) PROVE CausedThen(chan'[q][i])
    OBVIOUS
  <1>1. CASE q # r  BY <1>1 DEF Took, WayCause
  <1>2. CASE q = r
    <2>1. i + 1 \in 1 .. Len(chan[q]) /\ chan'[q][i] = chan[q][i + 1]  BY <1>2 DEF Took
    <2> QED  BY <2>1 DEF WayCause
  <1> QED  BY <1>1, <1>2

LEMMA ChanPut ==
  ASSUME WayCause, NEW r \in Calls, NEW a, Put(r, a), CausedThen(a), \A b : Caused(b) => CausedThen(b)
  PROVE  \A q \in Calls : \A i \in 1 .. Len(chan'[q]) : CausedThen(chan'[q][i])
  <1> SUFFICES ASSUME NEW q \in Calls, NEW i \in 1 .. Len(chan'[q]) PROVE CausedThen(chan'[q][i])
    OBVIOUS
  <1>1. CASE q # r  BY <1>1 DEF Put, WayCause
  <1>2. CASE q = r /\ i = Len(chan[r]) + 1  BY <1>2 DEF Put
  <1>3. CASE q = r /\ i # Len(chan[r]) + 1
    <2>1. i \in 1 .. Len(chan[q]) /\ chan'[q][i] = chan[q][i]  BY <1>3 DEF Put
    <2> QED  BY <2>1 DEF WayCause
  <1> QED  BY <1>1, <1>2, <1>3

LEMMA WayCauseStep == ASSUME Typed, FormInv, QuietInv, FailInv, NetCause, WayCause, Next PROVE WayCause'
  <1>0. \A a : Caused(a) => CausedThen(a)
    BY EndedKept, Grows, CausedStays DEF QuietInv
  <1>1. CASE UNCHANGED <<carried, chan, held>>
    BY <1>0, <1>1 DEF WayCause, Caused, CausedThen
  <1>2. ASSUME NEW r \in Calls, Receive(r) PROVE WayCause'
    <2>1. Took(r) /\ UNCHANGED <<carried, held>>
      BY <1>2, TookFacts DEF Receive, Typed, linkVars
    <2> QED  BY <1>0, <2>1, ChanTook DEF WayCause, Caused, CausedThen
  <1>3. ASSUME NEW r \in Streams, StreamTake(r) PROVE WayCause'
    <2>1. r \in Calls /\ Took(r) /\ carried' = carried /\ Head(chan[r]) = chan[r][1]
      BY <1>3, CallFacts, TookFacts DEF StreamTake, Typed, linkVars
    <2>2. Caused(chan[r][1])
      <3>1. 1 \in 1 .. Len(chan[r])  BY <2>1 DEF Took
      <3> QED  BY <2>1, <3>1 DEF WayCause
    <2>3. held'[r] = chan[r][1] /\ \A q \in Streams : q # r => held'[q] = held[q]
      BY <1>3, <2>1 DEF StreamTake, Typed, WayTyped
    <2>4. \A q \in Streams : CausedThen(held'[q])  BY <1>0, <2>2, <2>3 DEF WayCause
    <2> QED  BY <1>0, <2>1, <2>4, ChanTook DEF WayCause, Caused, CausedThen
  <1>4. ASSUME NEW r \in Streams, StreamSend(r) PROVE WayCause'
    <2>1. held'[r] = Nothing /\ \A q \in Streams : q # r => held'[q] = held[q]
      BY <1>4 DEF StreamSend, Typed, WayTyped
    <2>2. UNCHANGED <<carried, chan>>  BY <1>4 DEF StreamSend, linkVars
    <2>3. CausedThen(Nothing)  BY NothingFacts, None4 DEF CausedThen, CausedBy
    <2> QED  BY <1>0, <2>1, <2>2, <2>3 DEF WayCause, Caused, CausedThen
  <1>5. ASSUME ReadAnswer PROVE WayCause'
    <2>1. /\ Head(toParent) = toParent[1] /\ 1 \in 1 .. Len(toParent)
      BY <1>5, ReadFacts DEF ReadAnswer
    <2>2. UNCHANGED <<chan, held>> /\ (carried' = carried \/ carried' = toParent[1])
      BY <1>5, <2>1 DEF ReadAnswer
    <2>3. Caused(toParent[1])
      BY <2>1 DEF Caused, CausedBy, NetCause, QuietInv, LastOfTask, EndsTask
    <2> QED  BY <1>0, <2>2, <2>3 DEF WayCause, Caused, CausedThen
  <1>6. ASSUME PutAnswer PROVE WayCause'
    <2>1. carried \in Answers /\ carried.id \in Calls
      BY <1>6 DEF PutAnswer, FormInv, ReaderInv, Typed, WayTyped
    <2>2. Put(carried.id, carried) /\ carried' = Nothing /\ held' = held
      BY <1>6, <2>1, PutFacts DEF PutAnswer, Typed
    <2>3. CausedThen(Nothing)  BY NothingFacts, None4 DEF CausedThen, CausedBy
    <2>4. Caused(carried)  BY DEF WayCause
    <2>5. \A q \in Calls : \A i \in 1 .. Len(chan'[q]) : CausedThen(chan'[q][i])
      BY <1>0, <2>1, <2>2, <2>4, ChanPut
    <2> QED  BY <1>0, <2>2, <2>3, <2>5 DEF WayCause, Caused, CausedThen
  <1>7. ASSUME ClosePending PROVE WayCause'
    <2>1. PICK r \in Calls : Put(r, Answer("error", r, 0))  BY <1>7, ClosingFacts
    <2>2. UNCHANGED <<carried, held, closed, alive, reader>> /\ reader = "closing"
      BY <1>7 DEF ClosePending, linkVars, workVars
    <2>3. MayFail'  BY <2>2 DEF FailInv, MayFail
    <2>4. Answer("error", r, 0).type = "error"  BY DEF Answer
    <2>5. CausedThen(Answer("error", r, 0))  BY <2>3, <2>4 DEF CausedThen, CausedBy
    <2>6. \A q \in Calls : \A i \in 1 .. Len(chan'[q]) : CausedThen(chan'[q][i])
      BY <1>0, <2>1, <2>5, ChanPut
    <2> QED  BY <1>0, <2>2, <2>6 DEF WayCause, Caused, CausedThen
  <1>8. ASSUME NEW r \in Calls, Start(r) \/ StartClosed(r) \/ Register(r) \/ Write(r) \/ WriteFails(r) \/
           TimeOut(r) \/ GiveUp(r) \/ Leave(r) \/ Cancel(r)
        PROVE  WayCause'
    BY <1>1, <1>8 DEF Start, StartClosed, Register, Write, WriteFails, TimeOut, GiveUp, Leave, Cancel,
        callVars, linkVars, netVars, workVars
  <1>9. ASSUME NEW r \in Streams, StreamCancel(r) \/ Pass(r) \/ TaskChunk(r) \/ ClientGone(r)
        PROVE  WayCause'
    BY <1>1, <1>9 DEF StreamCancel, Pass, TaskChunk, ClientGone, callVars, linkVars, netVars, workVars
  <1>10. ASSUME NEW r \in Tasks, TaskRegister(r) \/ TaskOverride(r) \/ TaskPickUp(r) \/ TaskGenerate(r) \/
           TaskFails(r) \/ TaskDiscards(r) \/ TaskSucceeds(r) \/ TaskUnlock(r) \/ TaskWrite(r)
        PROVE  WayCause'
    BY <1>1, <1>10 DEF TaskRegister, TaskOverride, TaskPickUp, TaskGenerate, TaskFails, TaskDiscards,
        TaskSucceeds, TaskUnlock, TaskWrite, callVars, linkVars, netVars, workVars
  <1>11. ASSUME ReadFails \/ ClosePendingEnd \/ Close \/ ReadInline \/ ReadSynth \/ ReadCancel \/ WorkerDies
        PROVE  WayCause'
    BY <1>1, <1>11 DEF ReadFails, ClosePendingEnd, Close, ReadInline, ReadSynth, ReadCancel, WorkerDies,
        callVars, linkVars, netVars, workVars
  <1> QED
    BY <1>1, <1>2, <1>3, <1>4, <1>5, <1>6, <1>7, <1>8, <1>9, <1>10, <1>11
    DEF Next, CallStep, StreamStep, ReaderStep, WorkerLoop, TaskStep

LEMMA FirstCause == Init => CauseInv
  <1> SUFFICES ASSUME Init PROVE CauseInv  OBVIOUS
  <1>1. /\ Len(<<>>) = 0 /\ 1 .. Len(<<>>) = {}
        /\ \A r \in Calls : chan[r] = <<>>
        /\ \A r \in Streams : held[r] = Nothing
        /\ \A r \in Tasks : reply[r] = None
        /\ toWorker = <<>> /\ toParent = <<>> /\ carried = Nothing /\ stop = {} /\ told = {}
    BY DEF Init
  <1>2. Caused(Nothing)  BY NothingFacts, None4 DEF Caused, CausedBy
  <1> QED  BY <1>1, <1>2, None4 DEF CauseInv, StopInv, TaskCause, NetCause, WayCause

LEMMA NextCause == IInv /\ CauseInv /\ [Next]_vars => CauseInv'
  <1>1. ASSUME IInv, CauseInv, Next PROVE CauseInv'
    BY <1>1, StopStep, TaskCauseStep, NetCauseStep, WayCauseStep DEF IInv, CauseInv, FormInv, TurnInv
  <1>2. ASSUME CauseInv, UNCHANGED vars PROVE CauseInv'
    BY <1>2 DEF vars, callVars, linkVars, netVars, workVars, CauseInv, StopInv, TaskCause, NetCause,
                WayCause, Caused, MayFail
  <1> QED  BY <1>1, <1>2

LEMMA CauseInvariance == Spec => []CauseInv
  BY FirstCause, NextCause, Invariance, PTL DEF Spec

----------------------------------------------------------------------------
(* WorkerLink implements RemoteCall. *)

LEMMA Updated ==
  ASSUME NEW S, NEW f, NEW g, f = [q \in S |-> f[q]], g = [q \in S |-> g[q]],
         NEW r \in S, \A q \in S : q # r => g[q] = f[q]
  PROVE  g = [f EXCEPT ![r] = g[r]]
  OBVIOUS

LEMMA Kept ==
  ASSUME NEW S, NEW f, NEW g, f = [q \in S |-> f[q]], g = [q \in S |-> g[q]],
         \A q \in S : g[q] = f[q]
  PROVE  g = f
  OBVIOUS

LEMMA ViewFacts ==
  /\ Phases = [q \in Tasks |-> Phases[q]] /\ Works = [q \in Tasks |-> Works[q]]
  /\ Outcomes = [q \in Tasks |-> Outcomes[q]] /\ Arrived = [q \in Streams |-> Arrived[q]]
  BY DEF Phases, Works, Outcomes, Arrived

LEMMA ViewFactsThen ==
  /\ Phases' = [q \in Tasks |-> Phases'[q]] /\ Works' = [q \in Tasks |-> Works'[q]]
  /\ Outcomes' = [q \in Tasks |-> Outcomes'[q]] /\ Arrived' = [q \in Streams |-> Arrived'[q]]
  BY DEF Phases, Works, Outcomes, Arrived

(* What a step does to the goroutine of call r, seen from outside. *)
LEMMA PhaseMoves ==
  ASSUME Typed, NEW r \in Calls, NEW l, call' = [call EXCEPT ![r] = l]
  PROVE  /\ r \in Tasks => /\ Phases' = [Phases EXCEPT ![r] = Phases'[r]]
                           /\ Phases'[r] = IF l = "idle" THEN "idle"
                                           ELSE IF l \in {"leave", "ended"} THEN "over" ELSE "asked"
                           /\ Phases[r] = IF call[r] = "idle" THEN "idle"
                                          ELSE IF call[r] \in {"leave", "ended"} THEN "over" ELSE "asked"
         /\ r \notin Tasks => Phases' = Phases
  <1>1. \A q \in Tasks : q # r => call'[q] = call[q]  BY CallFacts DEF Typed, CallTyped
  <1>2. call'[r] = l  BY DEF Typed, CallTyped
  <1>3. \A q \in Tasks : q # r => Phases'[q] = Phases[q]  BY <1>1 DEF Phases
  <1>4. r \in Tasks => Phases' = [Phases EXCEPT ![r] = Phases'[r]]
    BY <1>3, ViewFacts, ViewFactsThen, Updated
  <1>5. r \notin Tasks => Phases' = Phases
    BY <1>3, ViewFacts, ViewFactsThen, Kept
  <1> QED  BY <1>2, <1>4, <1>5 DEF Phases

LEMMA OutcomeMoves ==
  ASSUME Typed, NEW r \in Calls, NEW o, outcome' = [outcome EXCEPT ![r] = o]
  PROVE  /\ r \in Tasks => Outcomes' = [Outcomes EXCEPT ![r] = o]
         /\ r \notin Tasks => Outcomes' = Outcomes
  <1>1. \A q \in Tasks : q # r => Outcomes'[q] = Outcomes[q]
    BY CallFacts DEF Typed, CallTyped, Outcomes
  <1>2. r \in Tasks => Outcomes'[r] = o  BY DEF Typed, CallTyped, Outcomes
  <1>3. r \in Tasks => Outcomes' = [Outcomes EXCEPT ![r] = Outcomes'[r]]
    BY <1>1, ViewFacts, ViewFactsThen, Updated
  <1>4. r \notin Tasks => Outcomes' = Outcomes
    BY <1>1, ViewFacts, ViewFactsThen, Kept
  <1> QED  BY <1>2, <1>3, <1>4

LEMMA WorkMoves ==
  ASSUME Typed, NEW r \in Tasks, \A q \in Tasks : q # r => task'[q] = task[q] /\ reply'[q] = reply[q]
  PROVE  Works' = [Works EXCEPT ![r] = Works'[r]]
  <1>1. \A q \in Tasks : q # r => Works'[q] = Works[q]  BY DEF Works
  <1> QED  BY <1>1, ViewFacts, ViewFactsThen, Updated

(* A step that no caller notices, and a step that is one of RemoteCall or none. *)
CallSame == UNCHANGED <<Phases, Outcomes, Works, chunks, Arrived, cancelled, MayFail>>
CallMoves == Caller!CallNext \/ CallSame

LEMMA OutsideSame == ASSUME UNCHANGED <<call, outcome>> PROVE Phases' = Phases /\ Outcomes' = Outcomes
  BY DEF Phases, Outcomes

LEMMA InsideSame == ASSUME UNCHANGED <<task, reply, chunks>> PROVE Works' = Works /\ chunks' = chunks
  BY DEF Works

LEMMA RestSame ==
  ASSUME UNCHANGED <<given, out, cancelled, closed, alive>>
  PROVE  Arrived' = Arrived /\ cancelled' = cancelled /\ MayFail' = MayFail
  BY DEF Arrived, MayFail

LEMMA Unseen ==
  ASSUME UNCHANGED <<call, outcome, task, reply, chunks, given, out, cancelled, closed, alive>>
  PROVE  CallSame
  BY OutsideSame, InsideSame, RestSame DEF CallSame

Open == {"register", "write", "wait", "send"}

(* A call goes on, or leaves for good. *)
LEMMA PhaseKept ==
  ASSUME Typed, NEW r \in Calls, NEW l, call' = [call EXCEPT ![r] = l],
         (call[r] \in Open /\ l \in Open) \/ (call[r] = "leave" /\ l = "ended")
  PROVE  Phases' = Phases
  <1>1. /\ r \in Tasks => Phases' = [Phases EXCEPT ![r] = Phases'[r]] /\ Phases'[r] = Phases[r]
        /\ r \notin Tasks => Phases' = Phases
    BY PhaseMoves DEF Open
  <1> QED  BY <1>1, ViewFacts

LEMMA EndMoves ==
  ASSUME Typed, NEW r \in Calls, NEW o, call[r] \in Open,
         call' = [call EXCEPT ![r] = "leave"], outcome' = [outcome EXCEPT ![r] = o],
         UNCHANGED <<task, reply, chunks, given, out, cancelled, closed, alive>>
  PROVE  /\ r \in Tasks => Caller!EndWith(r, o)
         /\ r \notin Tasks => CallSame
  <1>1. UNCHANGED <<Works, chunks, Arrived, cancelled, MayFail>>  BY InsideSame, RestSame
  <1>2. ASSUME r \in Tasks PROVE Caller!EndWith(r, o)
    <2>1. Phases[r] = "asked" /\ Phases'[r] = "over" /\ Phases' = [Phases EXCEPT ![r] = Phases'[r]]
      BY <1>2, PhaseMoves DEF Open
    <2>2. Outcomes' = [Outcomes EXCEPT ![r] = o]  BY <1>2, OutcomeMoves
    <2> QED  BY <1>1, <2>1, <2>2 DEF Caller!EndWith
  <1>3. ASSUME r \notin Tasks PROVE CallSame
    BY <1>1, <1>3, PhaseMoves, OutcomeMoves DEF CallSame
  <1> QED  BY <1>2, <1>3

LEMMA OverWhenEnded == ASSUME NEW r \in Tasks, task[r] = "ended" PROVE Works[r] = "over"
  BY DEF Works

LEMMA StartMaps == ASSUME Typed, NEW r \in Calls, Start(r) PROVE CallMoves
  <1>1. /\ call[r] = "idle" /\ call' = [call EXCEPT ![r] = "register"] /\ outcome' = outcome
        /\ UNCHANGED <<task, reply, chunks, given, out, cancelled, closed, alive>>
    BY DEF Start, linkVars, workVars
  <1>2. UNCHANGED <<Works, chunks, Arrived, cancelled, MayFail>> /\ Outcomes' = Outcomes
    BY <1>1, InsideSame, RestSame DEF Outcomes
  <1>3. CASE r \in Tasks
    <2>1. Phases' = [Phases EXCEPT ![r] = Phases'[r]]  BY <1>1, <1>3, PhaseMoves
    <2>2. Phases[r] = "idle"  BY <1>1, <1>3 DEF Phases
    <2>3. call'[r] = "register"  BY <1>1 DEF Typed, CallTyped
    <2>4. Phases'[r] = "asked"  BY <1>3, <2>3 DEF Phases
    <2>5. Phases[r] = "idle" /\ Phases' = [Phases EXCEPT ![r] = "asked"]  BY <2>1, <2>2, <2>4
    <2>6. Caller!Ask(r)  BY <1>2, <2>5 DEF Caller!Ask
    <2> QED  BY <1>3, <2>6 DEF CallMoves, Caller!CallNext
  <1>4. CASE r \notin Tasks
    BY <1>1, <1>2, <1>4, PhaseMoves DEF CallMoves, CallSame
  <1> QED  BY <1>3, <1>4

LEMMA RefuseMaps == ASSUME Typed, NEW r \in Calls, StartClosed(r) PROVE CallMoves
  <1>1. /\ call[r] = "idle" /\ closed /\ call' = [call EXCEPT ![r] = "ended"]
        /\ outcome' = [outcome EXCEPT ![r] = "error"]
        /\ UNCHANGED <<task, reply, chunks, given, out, cancelled, closed, alive>>
    BY DEF StartClosed, linkVars, workVars
  <1>2. UNCHANGED <<Works, chunks, Arrived, cancelled, MayFail>> /\ MayFail
    BY <1>1, InsideSame, RestSame DEF MayFail
  <1>3. CASE r \in Tasks
    <2>1. Phases' = [Phases EXCEPT ![r] = Phases'[r]]  BY <1>1, <1>3, PhaseMoves
    <2>2. Phases[r] = "idle"  BY <1>1, <1>3 DEF Phases
    <2>3. call'[r] = "ended"  BY <1>1 DEF Typed, CallTyped
    <2>4. Phases'[r] = "over"  BY <1>3, <2>3 DEF Phases
    <2>5. Phases[r] = "idle" /\ Phases' = [Phases EXCEPT ![r] = "over"]  BY <2>1, <2>2, <2>4
    <2>6. Outcomes' = [Outcomes EXCEPT ![r] = "error"]  BY <1>1, <1>3, OutcomeMoves
    <2>7. Caller!Refuse(r)  BY <1>2, <2>5, <2>6 DEF Caller!Refuse
    <2> QED  BY <1>3, <2>7 DEF CallMoves, Caller!CallNext
  <1>4. CASE r \notin Tasks
    BY <1>1, <1>2, <1>4, PhaseMoves, OutcomeMoves DEF CallMoves, CallSame
  <1> QED  BY <1>3, <1>4

LEMMA GoesOnMaps ==
  ASSUME Typed, NEW r \in Calls, Register(r) \/ Write(r) \/ Leave(r) PROVE CallMoves
  <1>1. UNCHANGED <<outcome, task, reply, chunks, given, out, cancelled, closed, alive>>
    BY DEF Register, Write, Leave, linkVars, workVars
  <1>2. Phases' = Phases
    BY PhaseKept DEF Register, Write, Leave, Open
  <1> QED  BY <1>1, <1>2, InsideSame, RestSame DEF CallMoves, CallSame, Outcomes

LEMMA WriteFailsMaps == ASSUME Typed, NEW r \in Calls, WriteFails(r) PROVE CallMoves
  <1>1. /\ call[r] \in Open /\ MayFail /\ call' = [call EXCEPT ![r] = "leave"]
        /\ outcome' = [outcome EXCEPT ![r] = "error"]
        /\ UNCHANGED <<task, reply, chunks, given, out, cancelled, closed, alive>>
    BY DEF WriteFails, MayFail, Open, linkVars, workVars
  <1>2. r \in Tasks => Caller!Fail(r)  BY <1>1, EndMoves DEF Caller!Fail
  <1> QED  BY <1>1, <1>2, EndMoves DEF CallMoves, Caller!CallNext

LEMMA ReceiveMaps ==
  ASSUME Typed, FormInv, CauseInv, NEW r \in Calls, Receive(r) PROVE CallMoves
  <1> DEFINE o == Head(chan[r]).type
  <1>1. /\ r \notin Streams /\ call[r] \in Open /\ call' = [call EXCEPT ![r] = "leave"]
        /\ outcome' = [outcome EXCEPT ![r] = o]
        /\ UNCHANGED <<task, reply, chunks, given, out, cancelled, closed, alive>>
    BY CallFacts DEF Receive, Open, linkVars, workVars
  <1>2. Took(r) /\ Head(chan[r]) = chan[r][1]
    BY TookFacts DEF Receive, Typed
  <1>3. /\ 1 \in 1 .. Len(chan[r]) /\ chan[r][1] \in Answers /\ chan[r][1].id = r
        /\ Caused(chan[r][1]) /\ chan[r][1].type # "chunk"
    BY <1>1, <1>2 DEF Took, FormInv, ChanInv, CauseInv, WayCause, Typed, WayTyped
  <1>4. o \in Terminal /\ chan[r][1].type = o  BY <1>2, <1>3, NothingFacts
  <1> HIDE DEF o
  <1>5. CASE r \notin Tasks  BY <1>1, <1>5, EndMoves DEF CallMoves
  <1>6. CASE r \in Tasks
    <2>1. Caller!EndWith(r, o)  BY <1>1, <1>6, EndMoves
    <2>2. \/ MayFail /\ o = "error"
          \/ task[r] = "ended" /\ MayAnswer(o, r, told)
      BY <1>3, <1>4, <1>6 DEF Caused, CausedBy
    <2>3. CASE MayFail /\ o = "error"
      BY <1>6, <2>1, <2>3 DEF CallMoves, Caller!CallNext, Caller!Fail
    <2>4. CASE task[r] = "ended" /\ o = "error"
      BY <1>1, <1>6, <2>1, <2>4, OverWhenEnded DEF CallMoves, Caller!CallNext, Caller!Fail
    <2>5. CASE task[r] = "ended" /\ o = "result"
      BY <1>1, <1>6, <2>1, <2>5, OverWhenEnded DEF CallMoves, Caller!CallNext, Caller!Succeed
    <2>6. CASE o = "cancelled" /\ r \in told
      <3>1. r \in cancelled  BY <2>6 DEF Typed, CallTyped
      <3> QED  BY <1>1, <1>6, <2>1, <2>6, <3>1 DEF CallMoves, Caller!CallNext, Caller!Abandon
    <2> QED  BY <1>1, <2>2, <2>3, <2>4, <2>5, <2>6 DEF MayAnswer
  <1> QED  BY <1>5, <1>6

LEMMA TimeOutMaps == ASSUME Typed, NEW r \in Calls, TimeOut(r) PROVE CallMoves
  <1>1. /\ r \notin Streams /\ call[r] \in Open /\ call' = [call EXCEPT ![r] = "leave"]
        /\ outcome' = [outcome EXCEPT ![r] = "timeout"]
        /\ UNCHANGED <<task, reply, chunks, given, out, cancelled, closed, alive>>
    BY CallFacts, LinkAssumption DEF TimeOut, Open, linkVars, workVars
  <1>2. r \in Tasks => Caller!TimesOut(r)  BY <1>1, EndMoves DEF Caller!TimesOut
  <1> QED  BY <1>1, <1>2, EndMoves DEF CallMoves, Caller!CallNext

LEMMA GiveUpMaps == ASSUME Typed, NEW r \in Calls, GiveUp(r) PROVE CallMoves
  <1>1. /\ r \notin Streams /\ r \in cancelled
        /\ call[r] \in Open /\ call' = [call EXCEPT ![r] = "leave"]
        /\ outcome' = [outcome EXCEPT ![r] = "cancelled"]
        /\ UNCHANGED <<task, reply, chunks, given, out, cancelled, closed, alive>>
    BY CallFacts DEF GiveUp, Open, linkVars, workVars
  <1>2. r \in Tasks => Caller!Abandon(r)  BY <1>1, EndMoves DEF Caller!Abandon
  <1> QED  BY <1>1, <1>2, EndMoves DEF CallMoves, Caller!CallNext

LEMMA LeaveMaps == ASSUME Typed, NEW r \in Calls, Cancel(r) PROVE CallMoves
  <1>1. /\ r \in Tasks /\ cancelled' = cancelled \cup {r}
        /\ UNCHANGED <<call, outcome, task, reply, chunks, given, out, closed, alive>>
    BY CallFacts DEF Cancel, linkVars, workVars
  <1>2. UNCHANGED <<Phases, Outcomes, Works, chunks, Arrived, MayFail>>
    BY <1>1, OutsideSame, InsideSame DEF Arrived, MayFail
  <1> QED  BY <1>1, <1>2 DEF CallMoves, Caller!CallNext, Caller!LeaveCall

(* The goroutine of a stream. *)
LEMMA TakeMaps == ASSUME Typed, NEW r \in Streams, StreamTake(r) PROVE CallMoves
  <1>1. r \in Calls  BY CallFacts
  <1>2. UNCHANGED <<outcome, task, reply, chunks, given, out, cancelled, closed, alive>>
    BY DEF StreamTake, linkVars, workVars
  <1>3. Phases' = Phases  BY <1>1, PhaseKept DEF StreamTake, Open
  <1> QED  BY <1>2, <1>3, InsideSame, RestSame DEF CallMoves, CallSame, Outcomes

LEMMA PassMaps == ASSUME Typed, PlaceInv, NEW r \in Streams, Pass(r) PROVE CallMoves
  <1>1. UNCHANGED <<call, outcome, task, reply, chunks, cancelled, closed, alive>>
    BY DEF Pass, linkVars, workVars
  <1>2. \A q \in Streams : Arrived'[q] = Arrived[q]  BY PassKeeps DEF Passed, Arrived
  <1>3. Arrived' = Arrived  BY <1>2, ViewFacts, ViewFactsThen, Kept
  <1> QED  BY <1>1, <1>3, OutsideSame, InsideSame DEF CallMoves, CallSame, MayFail

LEMMA SendMaps ==
  ASSUME Typed, FormInv, CallInv, NumberInv, CauseInv, NEW r \in Streams, StreamSend(r)
  PROVE  CallMoves
  <1>0. r \in Calls /\ r \in Tasks  BY CallFacts
  <1>1. UNCHANGED <<task, reply, chunks, given, cancelled, closed, alive>> /\ call[r] \in Open
    BY DEF StreamSend, Open, linkVars, workVars
  <1>2. CASE held[r].type = "chunk"
    <2>1. /\ call' = [call EXCEPT ![r] = "wait"] /\ outcome' = outcome
          /\ out' = [out EXCEPT ![r] = Append(@, held[r].n)]
      BY <1>2 DEF StreamSend
    <2>2. UNCHANGED <<Phases, Outcomes, Works, cancelled, MayFail>>
      BY <1>0, <1>1, <2>1, PhaseKept, InsideSame DEF Outcomes, MayFail, Open, StreamSend
    <2>3. held[r].n \in 1 .. MaxChunks /\ out[r] \in Seq(1 .. MaxChunks)
      BY <1>2, NothingFacts, CapFacts DEF Typed, WayTyped, OutTyped, FormInv, HeldInv
    <2>4. Len(out'[r]) = Len(out[r]) + 1
      BY <2>1, <2>3, AddFacts DEF Typed, OutTyped
    <2>5. Arrived'[r] = Arrived[r] + 1 /\ \A q \in Streams : q # r => Arrived'[q] = Arrived[q]
      BY <1>1, <2>1, <2>4, CountFacts DEF Arrived, Typed, OutTyped
    <2>6. Arrived' = [Arrived EXCEPT ![r] = Arrived[r] + 1]
      BY <2>5, ViewFacts, ViewFactsThen, Updated
    <2>7. Arrived[r] < chunks[r]
      <3>1. Base(r) <= Made(r)  BY DEF NumberInv, NetInv, Sent
      <3>2. Made(r) <= chunks[r]  BY CountFacts DEF Made
      <3>3. Arrived[r] + 1 <= Base(r)  BY <1>2, CountFacts DEF Base, InHand, Passed, Arrived
      <3>4. Arrived[r] \in Int  BY CountFacts DEF Arrived
      <3> QED  BY <3>1, <3>2, <3>3, <3>4, CountFacts
    <2>8. Phases[r] = "asked"  BY <1>0 DEF StreamSend, Phases
    <2>9. Caller!Get(r)  BY <1>1, <2>2, <2>6, <2>7, <2>8 DEF Caller!Get
    <2> QED  BY <2>9 DEF CallMoves, Caller!CallNext
  <1>3. CASE held[r].type \in Terminal
    <2> DEFINE o == held[r].type
    <2>1. /\ call' = [call EXCEPT ![r] = "leave"] /\ outcome' = [outcome EXCEPT ![r] = o]
          /\ out' = out /\ call[r] = "send" /\ o \in Terminal
      BY <1>3 DEF StreamSend
    <2> HIDE DEF o
    <2>2. Caller!EndWith(r, o)
      BY <1>0, <1>1, <2>1, EndMoves
    <2>3. held[r] # Nothing /\ held[r].id = r
      BY <2>1 DEF FormInv, HeldInv
    <2>4. \/ MayFail /\ o = "error"
          \/ task[r] = "ended" /\ MayAnswer(o, r, told)
      BY <1>0, <1>3, <2>3 DEF CauseInv, WayCause, Caused, CausedBy, o
    <2>5. CASE MayFail /\ o = "error"
      BY <1>0, <2>2, <2>5 DEF CallMoves, Caller!CallNext, Caller!Fail
    <2>6. CASE o = "done"
      <3>1. Base(r) = chunks[r] /\ task[r] = "ended"
        BY <2>6 DEF NumberInv, DoneInv, DoneLast, AllMade, o
      <3>2. chan[r] = <<>> /\ carried.id # r
        BY <1>0, <1>3 DEF CallInv, LastInv, LastIsLast
      <3>3. InHand(r) = 0 /\ InChan(r) = 0 /\ InCarried(r) = 0
        BY <2>6, <3>2 DEF InHand, InChan, InCarried, Chunk, o
      <3>4. Arrived[r] = chunks[r]  BY <3>1, <3>3, CountFacts DEF Base, Passed, Arrived
      <3>5. Works[r] = "over"  BY <1>0, <3>1, OverWhenEnded
      <3> QED  BY <1>0, <2>2, <2>6, <3>4, <3>5 DEF CallMoves, Caller!CallNext, Caller!Succeed
    <2>7. CASE task[r] = "ended" /\ o = "cancelled" /\ r \in told
      <3>1. r \in cancelled  BY <2>7 DEF Typed, CallTyped
      <3> QED  BY <1>0, <2>2, <2>7, <3>1, OverWhenEnded DEF CallMoves, Caller!CallNext, Caller!Abandon
    <2>8. r \notin Synth  BY CountFacts
    <2> QED  BY <2>4, <2>5, <2>6, <2>7, <2>8 DEF MayAnswer
  <1> QED  BY <1>2, <1>3 DEF StreamSend

----------------------------------------------------------------------------
(* What the worker does, seen from outside. *)

LEMMA TaskEnds ==
  ASSUME NEW r \in Tasks, Works[r] = "going", Works' = [Works EXCEPT ![r] = "over"],
         UNCHANGED <<call, outcome, chunks, given, out, cancelled, closed, alive>>
  PROVE  CallMoves
  <1>1. UNCHANGED <<Phases, Outcomes, chunks, Arrived, cancelled, MayFail>>  BY OutsideSame, RestSame
  <1>2. Caller!Finish(r)  BY <1>1 DEF Caller!Finish
  <1> QED  BY <1>2 DEF CallMoves, Caller!CallNext

LEMMA WorkKept ==
  ASSUME NEW r \in Tasks, \A q \in Tasks : q # r => task'[q] = task[q] /\ reply'[q] = reply[q],
         Works'[r] = Works[r],
         UNCHANGED <<call, outcome, chunks, given, out, cancelled, closed, alive>>
  PROVE  CallMoves
  <1>1. UNCHANGED <<Phases, Outcomes, chunks, Arrived, cancelled, MayFail>>  BY OutsideSame, RestSame
  <1>2. \A q \in Tasks : Works'[q] = Works[q]  BY DEF Works
  <1>3. Works' = Works  BY <1>2, ViewFacts, ViewFactsThen, Kept
  <1> QED  BY <1>1, <1>3 DEF CallMoves, CallSame

LEMMA SpawnMaps == ASSUME Typed, AskInv, ReadSynth PROVE CallMoves
  <1> DEFINE r == toWorker[1].id
  <1>1. /\ Heard /\ r \in Tasks /\ Asks(toWorker[1], r) /\ 1 \in 1 .. Len(toWorker)
    BY HeardFacts DEF ReadSynth, Typed, Heard, Asks
  <1>2. task[r] = "none"  BY <1>1 DEF AskInv, Waiting, Asked
  <1>3. task' = [task EXCEPT ![r] = "spawned"] /\ reply' = reply
        /\ UNCHANGED <<call, outcome, chunks, given, out, cancelled, closed, alive>>
    BY <1>1 DEF ReadSynth, Heard, callVars, linkVars
  <1> HIDE DEF r
  <1>4. task'[r] = "spawned" /\ \A q \in Tasks : q # r => task'[q] = task[q] /\ reply'[q] = reply[q]
    BY <1>1, <1>3 DEF Typed, TaskTyped
  <1>5. Works'[r] = Works[r]  BY <1>1, <1>2, <1>4 DEF Works
  <1> QED  BY <1>1, <1>3, <1>4, <1>5, WorkKept

LEMMA BeginMaps == ASSUME Typed, AskInv, NEW r \in Tasks, TaskRegister(r) PROVE CallMoves
  <1>1. /\ task[r] = "spawned" /\ task' = [task EXCEPT ![r] = "registered"] /\ reply' = reply
        /\ UNCHANGED <<call, outcome, chunks, given, out, cancelled, closed, alive>>
    BY DEF TaskRegister, callVars, linkVars
  <1>2. UNCHANGED <<Phases, Outcomes, chunks, Arrived, cancelled, MayFail>>
    BY <1>1, OutsideSame, RestSame
  <1>3. task'[r] = "registered" /\ \A q \in Tasks : q # r => task'[q] = task[q] /\ reply'[q] = reply[q]
    BY <1>1 DEF Typed, TaskTyped
  <1>4. Works[r] = "none" /\ Works'[r] = "going"  BY <1>1, <1>3 DEF Works
  <1>5. Works' = [Works EXCEPT ![r] = "going"]  BY <1>3, <1>4, WorkMoves
  <1>6. call[r] # "idle"  BY <1>1 DEF AskInv, Waiting
  <1>7. Phases[r] # "idle"  BY <1>6 DEF Phases
  <1>8. Caller!Begin(r)  BY <1>2, <1>4, <1>5, <1>7 DEF Caller!Begin
  <1> QED  BY <1>8 DEF CallMoves, Caller!CallNext

LEMMA PrepareMaps ==
  ASSUME Typed, NEW r \in Tasks, TaskOverride(r) \/ TaskPickUp(r) \/ TaskGenerate(r)
  PROVE  CallMoves
  <1>1. /\ task[r] \in {"registered", "set", "prepare"} /\ reply' = reply
        /\ \E l \in {"set", "prepare", "generate"} : task' = [task EXCEPT ![r] = l]
        /\ UNCHANGED <<call, outcome, chunks, given, out, cancelled, closed, alive>>
    BY DEF TaskOverride, TaskPickUp, TaskGenerate, callVars, linkVars
  <1>2. /\ task'[r] \in {"set", "prepare", "generate"}
        /\ \A q \in Tasks : q # r => task'[q] = task[q] /\ reply'[q] = reply[q]
    BY <1>1 DEF Typed, TaskTyped
  <1>3. Works'[r] = Works[r]  BY <1>1, <1>2 DEF Works
  <1> QED  BY <1>1, <1>2, <1>3, WorkKept

LEMMA MakeMaps == ASSUME Typed, NEW r \in Streams, TaskChunk(r) PROVE CallMoves
  <1>0. r \in Tasks  BY CallFacts
  <1>1. /\ task[r] = "generate" /\ task' = [task EXCEPT ![r] = "write"]
        /\ reply' = [reply EXCEPT ![r] = "chunk"] /\ chunks' = [chunks EXCEPT ![r] = @ + 1]
        /\ UNCHANGED <<call, outcome, given, out, cancelled, closed, alive>>
    BY DEF TaskChunk, callVars, linkVars
  <1>2. UNCHANGED <<Phases, Outcomes, Arrived, cancelled, MayFail>>
    BY <1>1, OutsideSame, RestSame
  <1>3. /\ task'[r] = "write" /\ reply'[r] = "chunk"
        /\ \A q \in Tasks : q # r => task'[q] = task[q] /\ reply'[q] = reply[q]
    BY <1>0, <1>1 DEF Typed, TaskTyped
  <1>4. Works[r] = "going" /\ Works'[r] = "going"  BY <1>0, <1>1, <1>3 DEF Works
  <1>5. Works' = Works
    BY <1>0, <1>3, <1>4, WorkMoves, ViewFacts
  <1>6. Caller!Make(r)  BY <1>1, <1>2, <1>4, <1>5 DEF Caller!Make
  <1> QED  BY <1>6 DEF CallMoves, Caller!CallNext

LEMMA FinishMaps ==
  ASSUME Typed, ReplyInv, NEW r \in Tasks, TaskFails(r) \/ TaskSucceeds(r) \/ TaskDiscards(r)
  PROVE  CallMoves
  <1>1. /\ task[r] \in {"prepare", "generate"}
        /\ \/ task' = [task EXCEPT ![r] = "ended"] /\ reply' = reply
           \/ /\ task' = [task EXCEPT ![r] = "write"]
              /\ \E t \in Terminal : reply' = [reply EXCEPT ![r] = t]
        /\ UNCHANGED <<call, outcome, chunks, given, out, cancelled, closed, alive>>
    BY DEF TaskFails, TaskSucceeds, TaskDiscards, callVars, linkVars
  <1>2. /\ task'[r] = "ended" \/ (task'[r] = "write" /\ reply'[r] \in Terminal)
        /\ \A q \in Tasks : q # r => task'[q] = task[q] /\ reply'[q] = reply[q]
    BY <1>1 DEF Typed, TaskTyped
  <1>3. Works[r] = "going" /\ Works'[r] = "over"  BY <1>1, <1>2 DEF Works
  <1>4. Works' = [Works EXCEPT ![r] = "over"]  BY <1>2, <1>3, WorkMoves
  <1> QED  BY <1>1, <1>3, <1>4, TaskEnds

LEMMA WriteMaps == ASSUME Typed, ReplyInv, NEW r \in Tasks, TaskWrite(r) PROVE CallMoves
  <1>1. /\ task[r] = "write" /\ reply' = [reply EXCEPT ![r] = None]
        /\ \/ reply[r] = "chunk" /\ task' = [task EXCEPT ![r] = "generate"]
           \/ reply[r] \in Terminal /\ task' = [task EXCEPT ![r] = "ended"]
        /\ UNCHANGED <<call, outcome, chunks, given, out, cancelled, closed, alive>>
    BY DEF TaskWrite, callVars, linkVars
  <1>2. /\ \/ reply[r] = "chunk" /\ task'[r] = "generate"
           \/ reply[r] \in Terminal /\ task'[r] = "ended"
        /\ \A q \in Tasks : q # r => task'[q] = task[q] /\ reply'[q] = reply[q]
    BY <1>1 DEF Typed, TaskTyped
  <1>3. Works'[r] = Works[r]  BY <1>1, <1>2 DEF Works
  <1> QED  BY <1>1, <1>2, <1>3, WorkKept

LEMMA BreakMaps == ASSUME Flags, Close \/ WorkerDies PROVE CallMoves
  <1>1. MayFail' = TRUE /\ UNCHANGED <<call, outcome, task, reply, chunks, given, out, cancelled>>
    BY DEF Close, WorkerDies, MayFail, callVars, linkVars, workVars
  <1>2. UNCHANGED <<Phases, Outcomes, Works, chunks, Arrived, cancelled>>
    BY <1>1, OutsideSame, InsideSame DEF Arrived
  <1> QED  BY <1>1, <1>2 DEF CallMoves, Caller!CallNext, Caller!Break

LEMMA InitMaps == Init => Caller!CallInit
  <1> SUFFICES ASSUME Init PROVE Caller!CallInit  OBVIOUS
  <1>1. Phases = [r \in Tasks |-> "idle"]  BY CallFacts DEF Init, Phases
  <1>2. Outcomes = [r \in Tasks |-> None]  BY CallFacts DEF Init, Outcomes
  <1>3. Works = [r \in Tasks |-> "none"]  BY DEF Init, Works
  <1>4. Arrived = [r \in Streams |-> 0]
    <2>1. \A r \in Streams : given[r] + Len(out[r]) = 0  BY DEF Init
    <2> QED  BY <2>1 DEF Arrived
  <1> QED  BY <1>1, <1>2, <1>3, <1>4 DEF Init, MayFail, Caller!CallInit

(* Every step of the link is a step of RemoteCall, or none. *)
LEMMA StepMaps ==
  IInv /\ CauseInv /\ [Next]_vars => [Caller!CallNext]_(Caller!callerVars)
  <1> SUFFICES ASSUME IInv, CauseInv, [Next]_vars PROVE CallMoves
    BY DEF CallMoves, CallSame, Caller!callerVars
  <1> USE DEF IInv, QuietInv, FormInv, NumberInv
  <1>1. ASSUME NEW r \in Calls, CallStep(r) \/ Cancel(r) PROVE CallMoves
    BY <1>1, StartMaps, RefuseMaps, GoesOnMaps, WriteFailsMaps, ReceiveMaps, TimeOutMaps, GiveUpMaps,
       LeaveMaps DEF CallStep
  <1>2. ASSUME NEW r \in Streams, StreamStep(r) \/ TaskChunk(r) \/ ClientGone(r) PROVE CallMoves
    <2>1. ASSUME StreamCancel(r) \/ ClientGone(r) PROVE CallMoves
      BY <2>1, Unseen DEF StreamCancel, ClientGone, CallMoves, linkVars, netVars, workVars
    <2> QED  BY <1>2, <2>1, TakeMaps, SendMaps, PassMaps, MakeMaps DEF StreamStep
  <1>3. ASSUME NEW r \in Tasks, TaskStep(r) PROVE CallMoves
    <2>1. ASSUME TaskUnlock(r) PROVE CallMoves
      BY <2>1, Unseen DEF TaskUnlock, CallMoves, callVars, linkVars
    <2> QED  BY <1>3, <2>1, BeginMaps, PrepareMaps, FinishMaps, WriteMaps DEF TaskStep
  <1>4. ASSUME ReaderStep \/ ReadInline \/ ReadCancel \/ UNCHANGED vars PROVE CallMoves
    BY <1>4, Unseen DEF ReaderStep, ReadAnswer, PutAnswer, ReadFails, ClosePending, ClosePendingEnd,
       ReadInline, ReadCancel, CallMoves, vars, callVars, linkVars, netVars, workVars
  <1> QED
    BY <1>1, <1>2, <1>3, <1>4, SpawnMaps, BreakMaps DEF Next, WorkerLoop

(* Every behaviour of the link is one of RemoteCall (ImplementsCall): a call ends once *)
(* and with a cause, its task is begun once, and a stream that ends with "done" has    *)
(* all chunks of a task that is over.                                                  *)
THEOREM LinkImplements == Spec => ImplementsCall
  <1>1. Init => Caller!CallInit  BY InitMaps
  <1>2. IInv /\ CauseInv /\ [Next]_vars => [Caller!CallNext]_(Caller!callerVars)  BY StepMaps
  <1> QED
    BY <1>1, <1>2, Invariance, CauseInvariance, PTL DEF Spec, ImplementsCall, Caller!CallSpec
=============================================================================

------------------------------ MODULE CorePool ------------------------------
(***************************************************************************)
(* The pool of inference cores (src/pkg/ttsruntime/pool.go).               *)
(*                                                                         *)
(* A core is a worker process with a mutex and a counter of active         *)
(* requests.  Requests acquire a core in four attempts, made one after the *)
(* other without a lock across them: an idle resident core, an idle        *)
(* reserve core, a new reserve core, the queue.  Each Release starts a     *)
(* goroutine that dispatches queued requests; a monitor stops reserve      *)
(* cores that have been idle for a minute; Close stops everything.         *)
(*                                                                         *)
(* A step of the model is the code between two points where another        *)
(* goroutine can be told apart: taking a lock, an atomic counter, a        *)
(* channel.  Critical sections whose data no one else touches are one      *)
(* step.                                                                   *)
(***************************************************************************)
EXTENDS Integers, SequencesExt, FiniteSets

CONSTANTS
  SynthRequests,  \* goroutines that call Acquire, once each
  ReadRequests,   \* goroutines that call AcquireForRead, once each
  Cancellable,    \* the synthesis requests whose context may be cancelled
  NumWork,        \* resident cores
  MaxReserve,     \* bound of the pool on reserve cores
  MaxStarts,      \* bound of the model on reserve cores started in all
  CloseAllowed    \* whether Close may be called

Dispatcher == "dispatcher"  \* the goroutine of dispatchPending that has pendingMu
Monitor    == "monitor"     \* the goroutine of reserveIdleMonitor
Closer     == "closer"      \* the goroutine that calls Close
None       == "none"        \* no holder of a lock

Requests  == SynthRequests \cup ReadRequests
Acquirers == SynthRequests \cup {Dispatcher}
Holders   == Requests \cup {Dispatcher}
Procs     == Holders \cup {Monitor, Closer}

NoCore == 0    \* also an empty channel of a queued request
Closed == -1   \* the channel of a queued request, closed by Close

WorkCores    == 1 .. NumWork
ReserveCores == NumWork + 1 .. NumWork + MaxStarts
Cores        == WorkCores \cup ReserveCores

ASSUME PoolAssumption ==
  /\ SynthRequests \cap ReadRequests = {}
  /\ Requests \cap {"dispatcher", "monitor", "closer", "none"} = {}
  /\ IsFiniteSet(Requests)
  /\ Cancellable \subseteq SynthRequests
  /\ NumWork \in Nat \ {0}   \* NewPool raises workCores to 1
  /\ MaxReserve \in Nat      \* NewPool raises a negative number to 0
  /\ MaxStarts \in Nat
  /\ CloseAllowed \in BOOLEAN

VARIABLES
  pc,        \* [Procs -> label]: where each goroutine is
  at,        \* [Holders -> core or NoCore]: last core looked at by a scan
  hand,      \* [Holders -> core or NoCore]: the core the goroutine has locked
  ready,     \* Pool.ready
  work,      \* Pool.workCores, scanned by increasing core
  reserve,   \* Pool.reserveCores; it grows at the end, so it is scanned by increasing core
  started,   \* reserve cores started so far; the next one is NumWork + started + 1
  readers,   \* goroutines that hold Pool.mu for reading
  writer,    \* goroutine that called Pool.mu.Lock; it has the lock once readers = {}
  pendingMu, \* holder of Pool.pendingMu
  queue,     \* Pool.pendingQueue
  chan,      \* [Requests -> core, NoCore or Closed]: pendingRequest.core, of capacity 1
  cancelled, \* requests whose context is done
  dispatches,\* goroutines of dispatchPending that wait for pendingMu
  active,    \* [Cores -> Nat]: WorkCore.ActiveReqs
  coreMu,    \* [Cores -> Holders or None]: for whom WorkCore.mu is locked
  expired,   \* reserve cores with lastActiveTime older than ReserveIdleTimeout
  stopped    \* cores whose worker process was closed

poolVars == <<ready, work, reserve, started, stopped>>
coreVars == <<active, coreMu, expired>>
queueVars == <<pendingMu, queue, chan, cancelled, dispatches>>
vars == <<pc, at, hand, readers, writer, poolVars, coreVars, queueVars>>

Terminal == {"done", "failed", "nil"}
Labels == Terminal \cup
  {"work", "workScan", "workLock", "reserve", "reserveScan", "start", "startCore",
   "enqueue", "waiting", "unqueue", "leased", "relStamp", "relUnlock",
   "read", "readPick",
   "off", "dispatchLoop", "deliver", "handBack", "dispatchEnd",
   "ticked", "cleanup", "closeCores", "closeQueue", "closed"}

----------------------------------------------------------------------------
(* Helpers *)

Go(p, l) == pc' = [pc EXCEPT ![p] = l]

(* sync.RWMutex: RLock waits for a writer, also for one that still waits for readers. *)
RLock(p) == writer = None /\ readers' = readers \cup {p}
RUnlock(p) == readers' = readers \ {p}
WLock(p) == writer = None /\ writer' = p

(* c is the first core of S after the last one p looked at; there is none. *)
NextCore(S, p, c) == c > at[p] /\ \A d \in S : d > at[p] => c <= d
NoNext(S, p) == \A c \in S : c <= at[p]

(* Where Acquire goes on, and where dispatchPending does, with a core and without one. *)
Got(p)  == IF p = Dispatcher THEN "deliver" ELSE "leased"
Miss(p) == IF p = Dispatcher THEN "dispatchEnd" ELSE "enqueue"

(* core.mu.Lock(); core.ActiveReqs.Add(1) *)
TakeCore(p, c) ==
  /\ coreMu' = [coreMu EXCEPT ![c] = p]
  /\ active' = [active EXCEPT ![c] = @ + 1]
  /\ hand' = [hand EXCEPT ![p] = c]
  /\ at' = [at EXCEPT ![p] = NoCore]
  /\ Go(p, Got(p))

----------------------------------------------------------------------------
Init ==
  /\ pc = [p \in Procs |-> IF p \in SynthRequests THEN "work"
                           ELSE IF p \in ReadRequests THEN "read" ELSE "off"]
  /\ at = [p \in Holders |-> NoCore]
  /\ hand = [p \in Holders |-> NoCore]
  /\ ready = TRUE
  /\ work = WorkCores
  /\ reserve = {}
  /\ started = 0
  /\ stopped = {}
  /\ readers = {}
  /\ writer = None
  /\ pendingMu = None
  /\ queue = <<>>
  /\ chan = [r \in Requests |-> NoCore]
  /\ cancelled = {}
  /\ dispatches = 0
  /\ active = [c \in Cores |-> 0]
  /\ coreMu = [c \in Cores |-> None]
  /\ expired = {}

----------------------------------------------------------------------------
(* acquireFromWorkCores: first attempt of Acquire and of dispatchPending *)

WorkSkip(p) ==
  /\ pc[p] = "work" /\ writer = None
  /\ ~ready \/ work = {}
  /\ Go(p, "reserve")
  /\ UNCHANGED <<at, hand, readers, writer, poolVars, coreVars, queueVars>>

WorkEnter(p) ==
  /\ pc[p] = "work"
  /\ ready /\ work # {}
  /\ RLock(p)
  /\ Go(p, "workScan")
  /\ UNCHANGED <<at, hand, writer, poolVars, coreVars, queueVars>>

WorkProbeBusy(p) ==
  /\ pc[p] = "workScan"
  /\ \E c \in work :
       /\ NextCore(work, p, c) /\ active[c] > 0
       /\ at' = [at EXCEPT ![p] = c]
  /\ UNCHANGED <<pc, hand, readers, writer, poolVars, coreVars, queueVars>>

WorkProbeIdle(p) ==
  /\ pc[p] = "workScan"
  /\ \E c \in work :
       /\ NextCore(work, p, c) /\ active[c] = 0
       /\ at' = [at EXCEPT ![p] = c]
  /\ Go(p, "workLock")
  /\ UNCHANGED <<hand, readers, writer, poolVars, coreVars, queueVars>>

(* Mutant: the early return forgets RUnlock. *)
WorkScanEndLocked(p) ==
  /\ pc[p] = "workScan" /\ NoNext(work, p)
  /\ at' = [at EXCEPT ![p] = NoCore]
  /\ Go(p, "reserve")
  /\ UNCHANGED <<hand, readers, writer, poolVars, coreVars, queueVars>>

WorkScanEnd(p) ==
  /\ pc[p] = "workScan" /\ NoNext(work, p)
  /\ at' = [at EXCEPT ![p] = NoCore]
  /\ RUnlock(p)
  /\ Go(p, "reserve")
  /\ UNCHANGED <<hand, writer, poolVars, coreVars, queueVars>>

(* Mutant: the counter read by the scan is trusted and the mutex is not waited for. *)
WorkLockUnchecked(p) ==
  /\ pc[p] = "workLock"
  /\ TakeCore(p, at[p])
  /\ RUnlock(p)
  /\ UNCHANGED <<writer, poolVars, expired, queueVars>>

(* The core chosen by the scan is locked while Pool.mu is held for reading: *)
(* who finds the core locked waits here for the whole lease of another.     *)
WorkLock(p) ==
  /\ pc[p] = "workLock"
  /\ coreMu[at[p]] = None
  /\ TakeCore(p, at[p])
  /\ RUnlock(p)
  /\ UNCHANGED <<writer, poolVars, expired, queueVars>>

----------------------------------------------------------------------------
(* acquireFromReserveCores: second attempt *)

ReserveEnter(p) ==
  /\ pc[p] = "reserve"
  /\ RLock(p)
  /\ Go(p, "reserveScan")
  /\ UNCHANGED <<at, hand, writer, poolVars, coreVars, queueVars>>

ReserveTake(p) ==
  /\ pc[p] = "reserveScan"
  /\ \E c \in reserve :
       /\ NextCore(reserve, p, c)
       /\ active[c] = 0 /\ coreMu[c] = None
       /\ TakeCore(p, c)
       /\ expired' = expired \ {c}
  /\ RUnlock(p)
  /\ UNCHANGED <<writer, poolVars, queueVars>>

ReserveProbeBusy(p) ==
  /\ pc[p] = "reserveScan"
  /\ \E c \in reserve :
       /\ NextCore(reserve, p, c)
       /\ active[c] > 0 \/ coreMu[c] # None
       /\ at' = [at EXCEPT ![p] = c]
  /\ UNCHANGED <<pc, hand, readers, writer, poolVars, coreVars, queueVars>>

ReserveScanEnd(p) ==
  /\ pc[p] = "reserveScan" /\ NoNext(reserve, p)
  /\ at' = [at EXCEPT ![p] = NoCore]
  /\ RUnlock(p)
  /\ Go(p, "start")
  /\ UNCHANGED <<hand, writer, poolVars, coreVars, queueVars>>

----------------------------------------------------------------------------
(* tryStartReserveCore: third attempt, under Pool.mu for writing *)

StartLock(p) ==
  /\ pc[p] = "start"
  /\ WLock(p)
  /\ Go(p, "startCore")
  /\ UNCHANGED <<at, hand, readers, poolVars, coreVars, queueVars>>

(* The pool has its bound of reserve cores, or NewWorkerProcess failed. *)
StartNone(p) ==
  /\ pc[p] = "startCore" /\ readers = {}
  /\ writer' = None
  /\ Go(p, Miss(p))
  /\ UNCHANGED <<at, hand, readers, poolVars, coreVars, queueVars>>

(* Mutant: the number of reserve cores is not checked again under the lock. *)
StartCoreUnbounded(p) ==
  /\ pc[p] = "startCore" /\ readers = {}
  /\ started < MaxStarts
  /\ LET c == NumWork + started + 1 IN
       /\ TakeCore(p, c)
       /\ reserve' = reserve \cup {c}
  /\ started' = started + 1
  /\ writer' = None
  /\ UNCHANGED <<readers, ready, work, stopped, expired, queueVars>>

(* started < MaxStarts bounds the model, not the code. *)
StartCore(p) ==
  /\ pc[p] = "startCore" /\ readers = {}
  /\ Cardinality(reserve) < MaxReserve
  /\ started < MaxStarts
  /\ LET c == NumWork + started + 1 IN
       /\ TakeCore(p, c)
       /\ reserve' = reserve \cup {c}
  /\ started' = started + 1
  /\ writer' = None
  /\ UNCHANGED <<readers, ready, work, stopped, expired, queueVars>>

----------------------------------------------------------------------------
(* enqueueWait: last attempt of Acquire *)

Enqueue(r) ==
  /\ pc[r] = "enqueue" /\ pendingMu = None
  /\ queue' = Append(queue, r)
  /\ Go(r, "waiting")
  /\ UNCHANGED <<at, hand, readers, writer, poolVars, coreVars,
                 pendingMu, chan, cancelled, dispatches>>

Receive(r) ==
  /\ pc[r] = "waiting" /\ chan[r] \in Cores
  /\ hand' = [hand EXCEPT ![r] = chan[r]]
  /\ chan' = [chan EXCEPT ![r] = NoCore]
  /\ Go(r, "leased")
  /\ UNCHANGED <<at, readers, writer, poolVars, coreVars,
                 pendingMu, queue, cancelled, dispatches>>

(* A receive from the channel that Close closed: Acquire returns no core and no error. *)
ReceiveClosed(r) ==
  /\ pc[r] = "waiting" /\ chan[r] = Closed
  /\ Go(r, "nil")
  /\ UNCHANGED <<at, hand, readers, writer, poolVars, coreVars, queueVars>>

GiveUp(r) ==
  /\ pc[r] = "waiting" /\ r \in cancelled
  /\ Go(r, "unqueue")
  /\ UNCHANGED <<at, hand, readers, writer, poolVars, coreVars, queueVars>>

(* Mutant: the queue is changed without pendingMu. *)
UnqueueUnlocked(r) ==
  /\ pc[r] = "unqueue"
  /\ \/ \E i \in 1 .. Len(queue) : queue[i] = r /\ queue' = RemoveAt(queue, i)
     \/ ~Contains(queue, r) /\ UNCHANGED queue
  /\ Go(r, "failed")
  /\ UNCHANGED <<at, hand, readers, writer, poolVars, coreVars,
                 pendingMu, chan, cancelled, dispatches>>

Unqueue(r) ==
  /\ pc[r] = "unqueue" /\ pendingMu = None
  /\ \/ \E i \in 1 .. Len(queue) : queue[i] = r /\ queue' = RemoveAt(queue, i)
     \/ ~Contains(queue, r) /\ UNCHANGED queue
  /\ Go(r, "failed")
  /\ UNCHANGED <<at, hand, readers, writer, poolVars, coreVars,
                 pendingMu, chan, cancelled, dispatches>>

----------------------------------------------------------------------------
(* AcquireForRead *)

ReadSkip(r) ==
  /\ pc[r] = "read" /\ writer = None
  /\ ~ready \/ work = {}
  /\ Go(r, "failed")
  /\ UNCHANGED <<at, hand, readers, writer, poolVars, coreVars, queueVars>>

ReadEnter(r) ==
  /\ pc[r] = "read"
  /\ ready /\ work # {}
  /\ RLock(r)
  /\ Go(r, "readPick")
  /\ UNCHANGED <<at, hand, writer, poolVars, coreVars, queueVars>>

(* The first of the least loaded resident cores, then as WorkLock. *)
ReadPick(r) ==
  /\ pc[r] = "readPick"
  /\ \E c \in work :
       /\ \A d \in work : active[c] < active[d] \/ (active[c] = active[d] /\ c <= d)
       /\ at' = [at EXCEPT ![r] = c]
  /\ Go(r, "workLock")
  /\ UNCHANGED <<hand, readers, writer, poolVars, coreVars, queueVars>>

----------------------------------------------------------------------------
(* Release, by the user of the core or by dispatchPending *)

ReleaseCount(p) ==
  /\ pc[p] \in {"leased", "handBack"}
  /\ active' = [active EXCEPT ![hand[p]] = @ - 1]
  /\ Go(p, "relStamp")
  /\ UNCHANGED <<at, hand, readers, writer, poolVars, coreMu, expired, queueVars>>

ReleaseStamp(p) ==
  /\ pc[p] = "relStamp"
  /\ expired' = expired \ {hand[p]}
  /\ Go(p, "relUnlock")
  /\ UNCHANGED <<at, hand, readers, writer, poolVars, active, coreMu, queueVars>>

(* Mutant: nothing is dispatched after a release. *)
ReleaseUnlockSilent(p) ==
  /\ pc[p] = "relUnlock"
  /\ coreMu' = [coreMu EXCEPT ![hand[p]] = None]
  /\ hand' = [hand EXCEPT ![p] = NoCore]
  /\ Go(p, IF p = Dispatcher THEN "dispatchLoop" ELSE "done")
  /\ UNCHANGED <<at, readers, writer, poolVars, active, expired, queueVars>>

ReleaseUnlock(p) ==
  /\ pc[p] = "relUnlock"
  /\ coreMu' = [coreMu EXCEPT ![hand[p]] = None]
  /\ hand' = [hand EXCEPT ![p] = NoCore]
  /\ dispatches' = dispatches + 1
  /\ Go(p, IF p = Dispatcher THEN "dispatchLoop" ELSE "done")
  /\ UNCHANGED <<at, readers, writer, poolVars, active, expired,
                 pendingMu, queue, chan, cancelled>>

----------------------------------------------------------------------------
(* dispatchPending: its goroutines wait for pendingMu, one at a time runs *)

DispatchBegin ==
  /\ pc[Dispatcher] = "off" /\ dispatches > 0 /\ pendingMu = None
  /\ pendingMu' = Dispatcher
  /\ dispatches' = dispatches - 1
  /\ Go(Dispatcher, "dispatchLoop")
  /\ UNCHANGED <<at, hand, readers, writer, poolVars, coreVars, queue, chan, cancelled>>

DispatchNext ==
  /\ pc[Dispatcher] = "dispatchLoop"
  /\ Go(Dispatcher, IF queue = <<>> THEN "dispatchEnd" ELSE "work")
  /\ UNCHANGED <<at, hand, readers, writer, poolVars, coreVars, queueVars>>

(* The head of the queue leaves it and the select sends the core into its channel... *)
Deliver ==
  /\ pc[Dispatcher] = "deliver"
  /\ chan[Head(queue)] = NoCore
  /\ chan' = [chan EXCEPT ![Head(queue)] = hand[Dispatcher]]
  /\ coreMu' = [coreMu EXCEPT ![hand[Dispatcher]] = Head(queue)]
  /\ hand' = [hand EXCEPT ![Dispatcher] = NoCore]
  /\ queue' = Tail(queue)
  /\ Go(Dispatcher, "dispatchLoop")
  /\ UNCHANGED <<at, readers, writer, poolVars, active, expired,
                 pendingMu, cancelled, dispatches>>

(* Mutant: the core of a cancelled request is dropped, not released. *)
DeliverCancelledDrops ==
  /\ pc[Dispatcher] = "deliver"
  /\ Head(queue) \in cancelled
  /\ queue' = Tail(queue)
  /\ hand' = [hand EXCEPT ![Dispatcher] = NoCore]
  /\ Go(Dispatcher, "dispatchLoop")
  /\ UNCHANGED <<at, readers, writer, poolVars, coreVars,
                 pendingMu, chan, cancelled, dispatches>>

(* ... or sees that the request was cancelled and releases the core. *)
DeliverCancelled ==
  /\ pc[Dispatcher] = "deliver"
  /\ Head(queue) \in cancelled
  /\ queue' = Tail(queue)
  /\ Go(Dispatcher, "handBack")
  /\ UNCHANGED <<at, hand, readers, writer, poolVars, coreVars,
                 pendingMu, chan, cancelled, dispatches>>

DispatchEnd ==
  /\ pc[Dispatcher] = "dispatchEnd"
  /\ pendingMu' = None
  /\ Go(Dispatcher, "off")
  /\ UNCHANGED <<at, hand, readers, writer, poolVars, coreVars,
                 queue, chan, cancelled, dispatches>>

----------------------------------------------------------------------------
(* reserveIdleMonitor and cleanupIdleReserveCores *)

MonitorTick ==
  /\ pc[Monitor] = "off" /\ MaxReserve > 0
  /\ ready   \* stopCh is open
  /\ Go(Monitor, "ticked")
  /\ UNCHANGED <<at, hand, readers, writer, poolVars, coreVars, queueVars>>

MonitorLock ==
  /\ pc[Monitor] = "ticked"
  /\ WLock(Monitor)
  /\ Go(Monitor, "cleanup")
  /\ UNCHANGED <<at, hand, readers, poolVars, coreVars, queueVars>>

(* Mutant: the age of the last stamp decides alone. *)
IdleReserveByAge == {c \in reserve : c \in expired}

IdleReserve == {c \in reserve : active[c] = 0 /\ c \in expired}

MonitorCleanup ==
  /\ pc[Monitor] = "cleanup" /\ readers = {}
  /\ reserve' = reserve \ IdleReserve
  /\ stopped' = stopped \cup IdleReserve
  /\ writer' = None
  /\ Go(Monitor, "off")
  /\ UNCHANGED <<at, hand, readers, ready, work, started, coreVars, queueVars>>

----------------------------------------------------------------------------
(* Close: Pool.mu is held until the queue has been emptied under pendingMu *)

CloseLock ==
  /\ pc[Closer] = "off" /\ CloseAllowed
  /\ WLock(Closer)
  /\ Go(Closer, "closeCores")
  /\ UNCHANGED <<at, hand, readers, poolVars, coreVars, queueVars>>

CloseCores ==
  /\ pc[Closer] = "closeCores" /\ readers = {}
  /\ stopped' = stopped \cup work \cup reserve
  /\ work' = {}
  /\ reserve' = {}
  /\ ready' = FALSE
  /\ Go(Closer, "closeQueue")
  /\ UNCHANGED <<at, hand, readers, writer, started, coreVars, queueVars>>

CloseQueue ==
  /\ pc[Closer] = "closeQueue" /\ pendingMu = None
  /\ chan' = [r \in Requests |-> IF Contains(queue, r) THEN Closed ELSE chan[r]]
  /\ queue' = <<>>
  /\ writer' = None
  /\ Go(Closer, "closed")
  /\ UNCHANGED <<at, hand, readers, poolVars, coreVars, pendingMu, cancelled, dispatches>>

----------------------------------------------------------------------------
(* The environment: contexts are cancelled and time passes *)

Cancel(r) ==
  /\ r \in Cancellable \ cancelled
  /\ pc[r] \notin Terminal \cup {"leased", "relStamp", "relUnlock", "unqueue"}
  /\ cancelled' = cancelled \cup {r}
  /\ UNCHANGED <<pc, at, hand, readers, writer, poolVars, coreVars,
                 pendingMu, queue, chan, dispatches>>

Age(c) ==
  /\ c \in reserve \ expired
  /\ expired' = expired \cup {c}
  /\ UNCHANGED <<pc, at, hand, readers, writer, poolVars, active, coreMu, queueVars>>

----------------------------------------------------------------------------
AcquireStep(p) ==
  \/ WorkSkip(p) \/ WorkEnter(p) \/ WorkProbeBusy(p) \/ WorkProbeIdle(p)
  \/ WorkScanEnd(p)
  \/ ReserveEnter(p) \/ ReserveTake(p) \/ ReserveProbeBusy(p) \/ ReserveScanEnd(p)
  \/ StartLock(p) \/ StartNone(p) \/ StartCore(p)

ReleaseStep(p) == ReleaseCount(p) \/ ReleaseStamp(p) \/ ReleaseUnlock(p)

WaitStep(r) == Enqueue(r) \/ Receive(r) \/ ReceiveClosed(r) \/ GiveUp(r) \/ Unqueue(r)

ReadStep(r) == ReadSkip(r) \/ ReadEnter(r) \/ ReadPick(r)

DispatchStep ==
  DispatchBegin \/ DispatchNext \/ Deliver \/ DeliverCancelled \/ DispatchEnd

MonitorStep == MonitorTick \/ MonitorLock \/ MonitorCleanup

CloseStep == CloseLock \/ CloseCores \/ CloseQueue

Environment == (\E r \in SynthRequests : Cancel(r)) \/ (\E c \in ReserveCores : Age(c))

Next ==
  \/ \E p \in Acquirers : AcquireStep(p)
  \/ \E p \in Holders : WorkLock(p) \/ ReleaseStep(p)
  \/ \E r \in SynthRequests : WaitStep(r)
  \/ \E r \in ReadRequests : ReadStep(r)
  \/ DispatchStep
  \/ MonitorStep
  \/ CloseStep
  \/ Environment

Spec == Init /\ [][Next]_vars

(* Goroutines are scheduled, leases end, time passes: every step of a goroutine that *)
(* stays possible is taken.  The locks of package sync are handed to a goroutine     *)
(* that waits for more than a millisecond, so a lock that is free again and again    *)
(* is obtained: strong fairness.  Nothing is assumed of Cancel, Age and Close.       *)
LockStep(p) ==
  WorkEnter(p) \/ WorkSkip(p) \/ WorkLock(p) \/ ReserveEnter(p) \/ StartLock(p)
  \/ Enqueue(p) \/ Unqueue(p) \/ ReadEnter(p) \/ ReadSkip(p)

OtherStep(p) ==
  WorkProbeBusy(p) \/ WorkProbeIdle(p) \/ WorkScanEnd(p)
  \/ ReserveTake(p) \/ ReserveProbeBusy(p) \/ ReserveScanEnd(p)
  \/ StartNone(p) \/ StartCore(p) \/ ReleaseStep(p)
  \/ Receive(p) \/ ReceiveClosed(p) \/ GiveUp(p) \/ ReadPick(p)

Fairness ==
  /\ \A p \in Holders : SF_vars(LockStep(p)) /\ WF_vars(OtherStep(p))
  /\ SF_vars(DispatchBegin)
  /\ WF_vars(DispatchNext \/ Deliver \/ DeliverCancelled \/ DispatchEnd)
  /\ WF_vars(MonitorCleanup)

FairSpec == Spec /\ Fairness

----------------------------------------------------------------------------
(* Properties *)

(* The values the variables may have. *)
TypeOK ==
  /\ pc \in [Procs -> Labels]
  /\ at \in [Holders -> Cores \cup {NoCore}]
  /\ hand \in [Holders -> Cores \cup {NoCore}]
  /\ ready \in BOOLEAN
  /\ work \in SUBSET WorkCores
  /\ reserve \in SUBSET ReserveCores
  /\ started \in 0 .. MaxStarts
  /\ stopped \in SUBSET Cores
  /\ readers \in SUBSET Holders
  /\ writer \in Procs \cup {None}
  /\ pendingMu \in {Dispatcher, None}
  /\ queue \in Seq(SynthRequests)
  /\ chan \in [Requests -> Cores \cup {NoCore, Closed}]
  /\ cancelled \in SUBSET SynthRequests
  /\ dispatches \in Nat
  /\ active \in [Cores -> {0, 1}]
  /\ coreMu \in [Cores -> Holders \cup {None}]
  /\ expired \in SUBSET ReserveCores

(* Goroutine p has core c: it obtained it, or the core lies in its channel. *)
Has(p, c) == hand[p] = c \/ (p \in Requests /\ chan[p] = c)

(* p is done with the core in its hand and Release has yet to unlock it. *)
Releasing(p) == pc[p] \in {"relStamp", "relUnlock"}

(* A core is used by one request at a time (pool.go:30), whichever of Acquire,      *)
(* AcquireForRead and dispatchPending gave it, although each of them reads the      *)
(* counter of active requests first and locks the core later.                       *)
ExclusiveLease ==
  \A c \in Cores, p, q \in Holders : Has(p, c) /\ Has(q, c) => p = q

(* The counter that every scan and the monitor trust is one exactly while somebody  *)
(* has the core and is not yet releasing it, and a core is locked only for somebody *)
(* who has it: no hand-over between dispatchPending and a waiting request loses a   *)
(* core or counts it twice.                                                         *)
CountIsLease ==
  \A c \in Cores :
    /\ coreMu[c] # None => Has(coreMu[c], c)
    /\ active[c] = IF coreMu[c] # None /\ ~(hand[coreMu[c]] = c /\ Releasing(coreMu[c]))
                   THEN 1 ELSE 0

(* Until the pool is closed, nobody has a core whose worker process was stopped:    *)
(* the monitor, which looks at the counters only, never stops a core between the    *)
(* moment a scan finds it and the moment its request is done.  (ImplementsLease and *)
(* CountIsLease say as much together; the proof of both needs it first.)            *)
LeasedCoreRuns ==
  ready => \A c \in Cores, p \in Holders : Has(p, c) /\ ~Releasing(p) => c \notin stopped

(* Requests and dispatchPending that start reserve cores at the same time never run *)
(* more of their processes than reserveWorkCores allows.                            *)
ReserveBound ==
  Cardinality({c \in NumWork + 1 .. NumWork + started : c \notin stopped}) <= MaxReserve

(* A request is queued once, while it waits or removes itself, with an empty and    *)
(* open channel; and dispatchPending, which found the queue non-empty before it     *)
(* acquired a core, still finds a head to give it to (pendingQueue[0] would panic). *)
QueueConsistent ==
  /\ \A i, j \in 1 .. Len(queue) : queue[i] = queue[j] => i = j
  /\ \A i \in 1 .. Len(queue) :
        pc[queue[i]] \in {"waiting", "unqueue"} /\ chan[queue[i]] = NoCore
  /\ pc[Dispatcher] = "deliver" => queue # <<>>

(* The pool implements the abstract leases: a core is used by the goroutine it is   *)
(* locked for, until the counter of active requests says otherwise.                 *)
LeaseUser == [c \in Cores |-> IF active[c] > 0 THEN coreMu[c] ELSE None]

Abstract == INSTANCE CoreLease WITH
  Initial <- WorkCores, Users <- Holders, Free <- None,
  user <- LeaseUser, running <- work \cup reserve, retired <- stopped

ImplementsLease == Abstract!LeaseSpec

(* Acquire and AcquireForRead end: with a core, in the queue or without a core.  A  *)
(* goroutine blocked on a core's mutex keeps Pool.mu locked for reading and stops   *)
(* the writers, and these stop the other readers, but all get through.              *)
AcquireReturns ==
  \A r \in Requests :
    pc[r] \notin Terminal \cup {"waiting"} ~> pc[r] \in Terminal \cup {"leased", "waiting"}

(* A request that is queued while some core is in use leaves the queue: the Release *)
(* of that core, or of one acquired after it, dispatches it (pool.go:319).          *)
QueuedIsServed ==
  \A r \in SynthRequests :
    (pc[r] = "waiting" /\ \E c \in Cores : active[c] > 0) ~> pc[r] # "waiting"

----------------------------------------------------------------------------
(* What comments in the code say and the code does not do *)

(* pool.go:304 "the request was cancelled, release the core": no core stays locked  *)
(* for a request that has returned.                                                 *)
NoLeakedCore == \A r \in SynthRequests : pc[r] = "failed" => chan[r] \notin Cores

(* pool.go:49 "requests wait in the queue to be assigned a core": none waits while  *)
(* every core is free and no goroutine is left that would dispatch it.              *)
NoStrandedRequest ==
  ~ /\ \E r \in SynthRequests : pc[r] = "waiting"
    /\ \A r \in SynthRequests : pc[r] \in Terminal \cup {"waiting"}
    /\ \A r \in ReadRequests : pc[r] \in Terminal
    /\ queue # <<>> /\ ready
    /\ dispatches = 0 /\ pc[Dispatcher] = "off"

(* pool.go:144 "Acquire obtains a core": it does not return a nil core without an   *)
(* error, which its callers dereference.                                            *)
AcquireGivesCore == \A r \in SynthRequests : pc[r] # "nil"

(* pool.go:364 "Close closes all worker processes": it is not caught in a cycle     *)
(* with dispatchPending, each holding the mutex the other one waits for.            *)
CloseNotDeadlocked ==
  ~ /\ pc[Closer] = "closeQueue" /\ pendingMu = Dispatcher
    /\ pc[Dispatcher] \in {"work", "reserve", "start"}

(* pool.go:364: when Close has returned no worker process runs.                     *)
ClosedStopsAll ==
  pc[Closer] = "closed" => \A c \in Cores : c <= NumWork + started => c \in stopped

(* pool.go:57 "reserve cores are destroyed after one idle minute": a core whose     *)
(* lease ends at this moment is not.                                                *)
IdleMinuteRespected ==
  ready => \A p \in Holders : pc[p] = "relStamp" => hand[p] \notin stopped
=============================================================================

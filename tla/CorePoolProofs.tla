--------------------------- MODULE CorePoolProofs ---------------------------
(***************************************************************************)
(* Proofs about CorePool, for every number of requests and cores.          *)
(*                                                                         *)
(* The inductive invariant IInv has one part per reason why the pool is    *)
(* right: who has a core (HandInv, LeaseInv), what the dispatcher may rely *)
(* on (DispatchInv, QueueConsistent), what Pool.mu protects (ScanInv), and *)
(* which worker processes run (RunInv).  The last part proves that every   *)
(* step of the pool is a step of CoreLease or none.                        *)
(***************************************************************************)
EXTENDS CorePool, FiniteSetTheorems, TLAPS

(* Where a goroutine has a core in its hand. *)
HandLabels == {"leased", "deliver", "handBack", "relStamp", "relUnlock"}

HandInv == \A p \in Holders : hand[p] # NoCore <=> pc[p] \in HandLabels

(* A core that somebody has is locked for him, hence for nobody else. *)
LeaseInv == \A c \in Cores, p \in Holders : Has(p, c) => coreMu[c] = p

(* Only a goroutine that is or was queued has something in its channel. *)
ChanInv ==
  \A r \in Requests : chan[r] # NoCore => pc[r] \in {"waiting", "unqueue", "failed", "nil"}

(* Where dispatchPending has found the queue non-empty. *)
DispatchInv ==
  /\ pc[Dispatcher] # "off" <=> pendingMu = Dispatcher
  /\ pc[Dispatcher] \in {"work", "workScan", "workLock", "reserve", "reserveScan",
                         "start", "startCore", "deliver"} => queue # <<>>

(* The scans hold Pool.mu for reading, and the core chosen by one is still listed. *)
ScanInv ==
  \A p \in Holders :
    /\ pc[p] \in {"workScan", "workLock", "reserveScan", "readPick"} => p \in readers
    /\ pc[p] = "workLock" => at[p] \in work

(* The listed cores run, and a reserve core runs exactly if it is listed. *)
RunInv ==
  /\ ~ready => work = {}
  /\ work \cap stopped = {}
  /\ stopped \subseteq 1 .. NumWork + started
  /\ reserve = {c \in NumWork + 1 .. NumWork + started : c \notin stopped}
  /\ Cardinality(reserve) <= MaxReserve
  /\ \A c \in Cores : c > NumWork + started => coreMu[c] = None

IInv ==
  /\ TypeOK
  /\ HandInv
  /\ LeaseInv
  /\ CountIsLease
  /\ ChanInv
  /\ DispatchInv
  /\ QueueConsistent
  /\ ScanInv
  /\ RunInv
  /\ LeasedCoreRuns

----------------------------------------------------------------------------
(* Constants and labels are expanded everywhere; the invariants and the actions *)
(* only where they are cited.                                                   *)
USE PoolAssumption DEF IInv, Go, poolVars, coreVars, queueVars,
    Acquirers, Holders, Requests, Procs, Dispatcher, Monitor, Closer, None,
    NoCore, Closed, WorkCores, ReserveCores, Cores, Labels, Terminal

(* The invariant holds initially. *)
LEMMA InitInv == Init => IInv
<1> SUFFICES ASSUME Init PROVE IInv
  OBVIOUS
<1> USE DEF Init
<1>1. TypeOK
  BY DEF TypeOK
<1>2. HandInv /\ LeaseInv /\ CountIsLease
  BY DEF HandInv, HandLabels, LeaseInv, CountIsLease, Has, Releasing
<1>3. ChanInv /\ DispatchInv /\ QueueConsistent /\ ScanInv /\ LeasedCoreRuns
  BY DEF ChanInv, DispatchInv, QueueConsistent, ScanInv, LeasedCoreRuns
<1>4. RunInv
  BY FS_EmptySet DEF RunInv
<1> QED
  BY <1>1, <1>2, <1>3, <1>4

(* A step that touches no core and moves no goroutine to or from a place where it *)
(* has one leaves the parts of the invariant about cores alone.                   *)
LEMMA QuietStep ==
  ASSUME IInv,
         UNCHANGED <<hand, chan, active, coreMu, poolVars>>,
         pc' \in [Procs -> Labels],
         \A p \in Holders : pc'[p] = pc[p] \/ (pc[p] \notin HandLabels /\ pc'[p] \notin HandLabels)
  PROVE  HandInv' /\ LeaseInv' /\ CountIsLease' /\ RunInv' /\ LeasedCoreRuns'
<1>1. HandInv' /\ LeaseInv' /\ RunInv'
  BY DEF HandInv, LeaseInv, RunInv, Has
<1>2. \A p \in Holders : Releasing(p)' <=> Releasing(p)
  BY DEF Releasing, HandLabels
<1>3. CountIsLease'
  BY <1>2 DEF CountIsLease, TypeOK, Has
<1>4. LeasedCoreRuns'
  BY <1>2 DEF LeasedCoreRuns, Has
<1> QED
  BY <1>1, <1>3, <1>4

(* The scans and the writer section of Acquire that end without a core. *)
LEMMA ScanStepInv ==
  ASSUME IInv, NEW p \in Acquirers,
         \/ WorkSkip(p) \/ WorkEnter(p) \/ WorkProbeBusy(p) \/ WorkProbeIdle(p)
         \/ WorkScanEnd(p) \/ ReserveEnter(p) \/ ReserveProbeBusy(p) \/ ReserveScanEnd(p)
         \/ StartLock(p) \/ StartNone(p)
  PROVE  IInv'
<1> USE DEF WorkSkip, WorkEnter, WorkProbeBusy, WorkProbeIdle, WorkScanEnd, ReserveEnter,
            ReserveProbeBusy, ReserveScanEnd, StartLock, StartNone, RLock, RUnlock, WLock, Miss
<1>1. TypeOK'
  <2>1. pc' \in [Procs -> Labels]
    BY DEF TypeOK
  <2>2. at' \in [Holders -> Cores \cup {NoCore}]
    BY DEF TypeOK
  <2>3. readers' \in SUBSET Holders /\ writer' \in Procs \cup {None}
    BY DEF TypeOK
  <2>4. UNCHANGED <<hand, poolVars, coreVars, queueVars>>
    OBVIOUS
  <2> HIDE DEF WorkSkip, WorkEnter, WorkProbeBusy, WorkProbeIdle, WorkScanEnd, ReserveEnter,
               ReserveProbeBusy, ReserveScanEnd, StartLock, StartNone
  <2> QED
    BY <2>1, <2>2, <2>3, <2>4 DEF TypeOK
<1>2. HandInv' /\ LeaseInv' /\ CountIsLease' /\ RunInv' /\ LeasedCoreRuns'
  BY <1>1, QuietStep DEF TypeOK, HandLabels
<1>3. DispatchInv' /\ ChanInv'
  BY DEF TypeOK, DispatchInv, ChanInv
<1>4. QueueConsistent'
  BY DEF TypeOK, QueueConsistent
<1>5. ScanInv'
  BY DEF TypeOK, ScanInv
<1> QED
  BY <1>1, <1>2, <1>3, <1>4, <1>5

(* Removing one element of a sequence. *)
LEMMA RemoveProperties ==
  ASSUME NEW S, NEW s \in Seq(S), NEW i \in 1 .. Len(s)
  PROVE  /\ RemoveAt(s, i) \in Seq(S)
         /\ Len(RemoveAt(s, i)) = Len(s) - 1
         /\ \A j \in 1 .. Len(s) - 1 : RemoveAt(s, i)[j] = IF j < i THEN s[j] ELSE s[j + 1]
<1> DEFINE a == SubSeq(s, 1, i - 1)
           b == SubSeq(s, i + 1, Len(s))
<1>1. a \in Seq(S) /\ Len(a) = i - 1 /\ \A j \in 1 .. i - 1 : a[j] = s[j]
  OBVIOUS
<1>2. /\ b \in Seq(S) /\ Len(b) = Len(s) - i
      /\ \A j \in 1 .. Len(s) - i : b[j] = s[i + j]
  OBVIOUS
<1>3. RemoveAt(s, i) = a \o b
  BY DEF RemoveAt
<1>4. i \in Nat /\ Len(s) \in Nat /\ i >= 1 /\ i <= Len(s)
  OBVIOUS
<1> HIDE DEF a, b
<1>5. /\ a \o b \in Seq(S) /\ Len(a \o b) = Len(a) + Len(b)
      /\ \A j \in 1 .. Len(a) + Len(b) :
            (a \o b)[j] = IF j <= Len(a) THEN a[j] ELSE b[j - Len(a)]
  <2>1. a \in Seq(S) /\ b \in Seq(S)
    BY <1>1, <1>2
  <2>2. a \o b \in Seq(S)
    BY <2>1
  <2>3. Len(a \o b) = Len(a) + Len(b)
    BY <2>1
  <2>4. \A j \in 1 .. Len(a) + Len(b) : (a \o b)[j] = IF j <= Len(a) THEN a[j] ELSE b[j - Len(a)]
    BY <2>1
  <2> QED
    BY <2>2, <2>3, <2>4
<1>6. Len(a) + Len(b) = Len(s) - 1
  BY <1>1, <1>2, <1>4
<1>7. ASSUME NEW j \in 1 .. Len(s) - 1
      PROVE  (a \o b)[j] = IF j < i THEN s[j] ELSE s[j + 1]
  <2>1. j \in Int /\ j >= 1 /\ j <= Len(s) - 1 /\ Len(s) - 1 \in Int
    BY <1>4
  <2>2. CASE j < i
    <3>1. j \in 1 .. i - 1 /\ j <= Len(a)
      BY <1>1, <1>4, <2>1, <2>2
    <3> QED
      BY <1>1, <1>5, <1>6, <2>2, <3>1
  <2>3. CASE j >= i
    <3>1. /\ j - (i - 1) \in 1 .. Len(s) - i
          /\ i + (j - (i - 1)) = j + 1
          /\ ~(j < i) /\ ~(j <= i - 1)
      BY <1>4, <2>1, <2>3
    <3>2. (a \o b)[j] = b[j - (i - 1)]
      BY <1>1, <1>5, <1>6, <3>1
    <3>3. b[j - (i - 1)] = s[i + (j - (i - 1))]
      BY <1>2, <3>1
    <3> QED
      BY <3>1, <3>2, <3>3
  <2>4. j < i \/ j >= i
    BY <1>4, <2>1
  <2> QED
    BY <2>2, <2>3, <2>4
<1> QED
  BY <1>3, <1>5, <1>6, <1>7

(* A core that is free and listed, or new, is taken. *)
LEMMA TakeInv ==
  ASSUME IInv, NEW p \in Holders, NEW c \in Cores,
         TakeCore(p, c), coreMu[c] = None, hand[p] = NoCore,
         UNCHANGED chan
  PROVE  HandInv' /\ LeaseInv' /\ CountIsLease'
<1> USE DEF TakeCore, Got, TypeOK
<1>1. HandInv'
  BY DEF HandInv, HandLabels
<1>2. LeaseInv'
  BY DEF LeaseInv, Has
<1>3. CountIsLease'
  BY DEF LeaseInv, CountIsLease, Has, Releasing
<1> QED
  BY <1>1, <1>2, <1>3

LEMMA WorkLockInv ==
  ASSUME IInv, NEW p \in Holders, WorkLock(p)
  PROVE  IInv'
<1> USE DEF WorkLock, RUnlock
<1>1. at[p] \in work /\ at[p] \in Cores /\ hand[p] = NoCore
  BY DEF TypeOK, ScanInv, HandInv, HandLabels
<1>2. HandInv' /\ LeaseInv' /\ CountIsLease'
  BY <1>1, TakeInv
<1> USE DEF TakeCore, Got
<1>3. TypeOK'
  BY <1>1 DEF TypeOK, CountIsLease
<1>4. DispatchInv' /\ QueueConsistent' /\ ChanInv'
  BY DEF TypeOK, DispatchInv, QueueConsistent, ChanInv
<1>5. ScanInv'
  BY DEF TypeOK, ScanInv
<1>6. RunInv'
  BY <1>1 DEF TypeOK, RunInv
<1>7. LeasedCoreRuns'
  BY <1>1 DEF TypeOK, LeasedCoreRuns, Has, Releasing, RunInv
<1> QED
  BY <1>2, <1>3, <1>4, <1>5, <1>6, <1>7

LEMMA ReserveTakeInv ==
  ASSUME IInv, NEW p \in Acquirers, ReserveTake(p)
  PROVE  IInv'
<1> USE DEF RUnlock
<1>1. hand[p] = NoCore
  BY DEF ReserveTake, TypeOK, HandInv, HandLabels
<1>2. PICK c \in reserve : /\ coreMu[c] = None /\ active[c] = 0
                          /\ TakeCore(p, c)
                          /\ expired' = expired \ {c}
  BY DEF ReserveTake
<1>3. /\ pc[p] = "reserveScan"
      /\ readers' = readers \ {p}
      /\ UNCHANGED <<writer, poolVars, queueVars>>
      /\ c \in Cores
  BY DEF ReserveTake, TypeOK
<1>4. HandInv' /\ LeaseInv' /\ CountIsLease'
  BY <1>1, <1>2, <1>3, TakeInv
<1> USE DEF TakeCore, Got
<1>5. TypeOK'
  BY <1>2, <1>3 DEF TypeOK
<1>6. DispatchInv' /\ QueueConsistent' /\ ChanInv'
  BY <1>2, <1>3 DEF TypeOK, DispatchInv, QueueConsistent, ChanInv
<1>7. ScanInv'
  BY <1>2, <1>3 DEF TypeOK, ScanInv
<1>8. RunInv'
  BY <1>2, <1>3 DEF TypeOK, RunInv
<1>9. LeasedCoreRuns'
  BY <1>2, <1>3 DEF TypeOK, LeasedCoreRuns, Has, Releasing, RunInv
<1> QED
  BY <1>4, <1>5, <1>6, <1>7, <1>8, <1>9

LEMMA FiniteReserve ==
  ASSUME NEW S \in SUBSET ReserveCores
  PROVE  IsFiniteSet(S)
<1>1. IsFiniteSet(ReserveCores)
  BY FS_Interval
<1> QED
  BY <1>1, FS_Subset

LEMMA StartCoreInv ==
  ASSUME IInv, NEW p \in Acquirers, StartCore(p)
  PROVE  IInv'
<1> DEFINE c == NumWork + started + 1
<1>1. /\ c \in ReserveCores /\ c \in Cores /\ c \notin reserve /\ c \notin work
      /\ coreMu[c] = None /\ hand[p] = NoCore
  BY DEF StartCore, TypeOK, RunInv, HandInv, HandLabels
<1>2. /\ TakeCore(p, c)
      /\ reserve' = reserve \cup {c}
      /\ started' = started + 1
      /\ writer' = None
      /\ pc[p] = "startCore"
      /\ Cardinality(reserve) < MaxReserve
      /\ UNCHANGED <<readers, ready, work, stopped, expired, queueVars>>
  BY DEF StartCore
<1> HIDE DEF c
<1>3. HandInv' /\ LeaseInv' /\ CountIsLease'
  BY <1>1, <1>2, TakeInv
<1> USE DEF TakeCore, Got
<1>4. TypeOK'
  BY <1>1, <1>2 DEF TypeOK, CountIsLease, StartCore
<1>5. DispatchInv' /\ QueueConsistent' /\ ChanInv'
  BY <1>1, <1>2 DEF TypeOK, DispatchInv, QueueConsistent, ChanInv
<1>6. ScanInv'
  BY <1>1, <1>2 DEF TypeOK, ScanInv
<1>7. Cardinality(reserve') <= MaxReserve
  <2>1. IsFiniteSet(reserve)
    BY FiniteReserve DEF TypeOK
  <2>2. Cardinality(reserve \cup {c}) = Cardinality(reserve) + 1
    BY <1>1, <2>1, FS_AddElement
  <2>3. Cardinality(reserve) \in Nat
    BY <2>1, FS_CardinalityType
  <2> QED
    BY <1>2, <2>2, <2>3
<1>8. RunInv'
  <2>1. /\ ~ready' => work' = {}
        /\ work' \cap stopped' = {}
        /\ stopped' \subseteq 1 .. NumWork + started'
    BY <1>1, <1>2 DEF TypeOK, RunInv
  <2>2. reserve' = {d \in NumWork + 1 .. NumWork + started' : d \notin stopped'}
    <3>1. c \notin stopped /\ started \in Nat /\ NumWork \in Nat
      BY DEF TypeOK, RunInv, c
    <3>2. NumWork + 1 .. NumWork + started' = (NumWork + 1 .. NumWork + started) \cup {c}
      BY <1>2, <3>1 DEF c
    <3> QED
      BY <1>2, <3>1, <3>2 DEF RunInv
  <2>3. \A d \in Cores : d > NumWork + started' => coreMu'[d] = None
    BY <1>1, <1>2 DEF TypeOK, RunInv, c
  <2> QED
    BY <2>1, <2>2, <2>3, <1>7 DEF RunInv
<1>9. LeasedCoreRuns'
  BY <1>1, <1>2 DEF TypeOK, LeasedCoreRuns, Has, Releasing, RunInv, c
<1> QED
  BY <1>3, <1>4, <1>5, <1>6, <1>8, <1>9

(* Joining and leaving the queue. *)
LEMMA EnqueueInv ==
  ASSUME IInv, NEW r \in SynthRequests, Enqueue(r)
  PROVE  IInv'
<1> USE DEF Enqueue
<1>1. TypeOK'
  BY DEF TypeOK
<1>2. HandInv' /\ LeaseInv' /\ CountIsLease' /\ RunInv' /\ LeasedCoreRuns'
  BY <1>1, QuietStep DEF TypeOK, HandLabels
<1>3. DispatchInv' /\ ChanInv'
  BY DEF TypeOK, DispatchInv, ChanInv
<1>4. QueueConsistent'
  <2>1. chan[r] = NoCore
    BY DEF TypeOK, ChanInv
  <2>2. \A i \in 1 .. Len(queue) : queue[i] # r
    BY DEF QueueConsistent
  <2>3. /\ Len(queue') = Len(queue) + 1
        /\ \A i \in 1 .. Len(queue') : queue'[i] = IF i <= Len(queue) THEN queue[i] ELSE r
        /\ queue' # <<>>
    <3>1. queue \in Seq(SynthRequests) /\ queue' = Append(queue, r)
      BY DEF TypeOK
    <3> QED
      BY <3>1
  <2> QED
    BY <2>1, <2>2, <2>3 DEF TypeOK, QueueConsistent
<1>5. ScanInv'
  BY DEF TypeOK, ScanInv
<1> QED
  BY <1>1, <1>2, <1>3, <1>4, <1>5

LEMMA UnqueueInv ==
  ASSUME IInv, NEW r \in SynthRequests, Unqueue(r)
  PROVE  IInv'
<1>1. /\ pc[r] = "unqueue" /\ pendingMu = None
      /\ pc' = [pc EXCEPT ![r] = "failed"]
      /\ UNCHANGED <<at, hand, readers, writer, poolVars, coreVars,
                     pendingMu, chan, cancelled, dispatches>>
  BY DEF Unqueue
<1>2. /\ queue' \in Seq(SynthRequests)
      /\ \A i, j \in 1 .. Len(queue') : queue'[i] = queue'[j] => i = j
      /\ \A i \in 1 .. Len(queue') : queue'[i] # r /\ \E j \in 1 .. Len(queue) : queue'[i] = queue[j]
  <2>1. CASE ~Contains(queue, r) /\ UNCHANGED queue
    BY <2>1 DEF TypeOK, QueueConsistent, Contains
  <2>2. ASSUME NEW i \in 1 .. Len(queue), queue[i] = r, queue' = RemoveAt(queue, i)
        PROVE  <1>2!:
    <3>1. /\ queue' \in Seq(SynthRequests)
          /\ Len(queue') = Len(queue) - 1
          /\ \A j \in 1 .. Len(queue) - 1 : queue'[j] = IF j < i THEN queue[j] ELSE queue[j + 1]
      <4>1. queue \in Seq(SynthRequests)
        BY DEF TypeOK
      <4>2. /\ RemoveAt(queue, i) \in Seq(SynthRequests)
            /\ Len(RemoveAt(queue, i)) = Len(queue) - 1
            /\ \A j \in 1 .. Len(queue) - 1 :
                 RemoveAt(queue, i)[j] = IF j < i THEN queue[j] ELSE queue[j + 1]
        BY <4>1, RemoveProperties, Zenon
      <4> QED
        BY <2>2, <4>2
    <3>2. \A j, k \in 1 .. Len(queue) : queue[j] = queue[k] => j = k
      BY DEF QueueConsistent
    <3>3. Len(queue) \in Nat
      BY DEF TypeOK
    <3> DEFINE old(j) == IF j < i THEN j ELSE j + 1
    <3>4. \A j \in 1 .. Len(queue') :
            old(j) \in 1 .. Len(queue) /\ old(j) # i /\ queue'[j] = queue[old(j)]
      BY <3>1, <3>3
    <3>5. \A j \in 1 .. Len(queue') : queue'[j] # r /\ \E k \in 1 .. Len(queue) : queue'[j] = queue[k]
      BY <2>2, <3>2, <3>4
    <3>6. ASSUME NEW j \in 1 .. Len(queue'), NEW k \in 1 .. Len(queue'), queue'[j] = queue'[k]
          PROVE  j = k
      <4>1. old(j) = old(k)
        BY <3>2, <3>4, <3>6
      <4> QED
        BY <4>1, <3>1, <3>3
    <3> QED
      BY <3>1, <3>5, <3>6
  <2> QED
    BY <2>1, <2>2 DEF Unqueue
<1>3. pc[Dispatcher] = "off"
  BY <1>1 DEF DispatchInv, TypeOK
<1>4. TypeOK'
  BY <1>1, <1>2 DEF TypeOK
<1>5. HandInv' /\ LeaseInv' /\ CountIsLease' /\ RunInv' /\ LeasedCoreRuns'
  BY <1>1, <1>4, QuietStep DEF TypeOK, HandLabels
<1>6. DispatchInv' /\ ChanInv'
  BY <1>1, <1>3 DEF TypeOK, DispatchInv, ChanInv
<1>7. QueueConsistent'
  BY <1>1, <1>2, <1>3 DEF TypeOK, QueueConsistent
<1>8. ScanInv'
  BY <1>1 DEF TypeOK, ScanInv
<1> QED
  BY <1>4, <1>5, <1>6, <1>7, <1>8

(* The ends of a wait without a core. *)
LEMMA WaitEndInv ==
  ASSUME IInv, NEW r \in SynthRequests, ReceiveClosed(r) \/ GiveUp(r)
  PROVE  IInv'
<1> USE DEF ReceiveClosed, GiveUp
<1>1. TypeOK'
  <2>1. pc' \in [Procs -> Labels]
    BY DEF TypeOK
  <2>2. UNCHANGED <<at, hand, readers, writer, poolVars, coreVars, queueVars>>
    OBVIOUS
  <2> HIDE DEF ReceiveClosed, GiveUp
  <2> QED
    BY <2>1, <2>2 DEF TypeOK
<1>2. HandInv' /\ LeaseInv' /\ CountIsLease' /\ RunInv' /\ LeasedCoreRuns'
  BY <1>1, QuietStep DEF TypeOK, HandLabels
<1>3. DispatchInv' /\ ChanInv'
  BY DEF TypeOK, DispatchInv, ChanInv
<1>4. QueueConsistent'
  <2>1. CASE ReceiveClosed(r)
    BY <2>1 DEF TypeOK, QueueConsistent
  <2>2. CASE GiveUp(r)
    BY <2>2 DEF TypeOK, QueueConsistent
  <2> QED
    BY <2>1, <2>2
<1>5. ScanInv'
  BY DEF TypeOK, ScanInv
<1> QED
  BY <1>1, <1>2, <1>3, <1>4, <1>5

(* AcquireForRead until it waits for the core it picked. *)
LEMMA ReadStepInv ==
  ASSUME IInv, NEW r \in ReadRequests, ReadStep(r)
  PROVE  IInv'
<1>1. /\ pc[r] \in {"read", "readPick"}
      /\ \E l \in {"failed", "readPick", "workLock"} : pc' = [pc EXCEPT ![r] = l]
      /\ readers' = readers \/ readers' = readers \cup {r}
      /\ UNCHANGED <<hand, writer, poolVars, coreVars, queueVars>>
  BY DEF ReadStep, ReadSkip, ReadEnter, ReadPick, RLock
<1>2. at' \in [Holders -> Cores \cup {NoCore}]
  BY DEF TypeOK, ReadStep, ReadSkip, ReadEnter, ReadPick
<1>3. TypeOK'
  BY <1>1, <1>2 DEF TypeOK
<1>4. HandInv' /\ LeaseInv' /\ CountIsLease' /\ RunInv' /\ LeasedCoreRuns'
  BY <1>1, <1>3, QuietStep DEF TypeOK, HandLabels
<1>5. DispatchInv' /\ ChanInv'
  BY <1>1 DEF TypeOK, DispatchInv, ChanInv
<1>6. QueueConsistent'
  BY <1>1 DEF TypeOK, QueueConsistent
<1>7. ScanInv'
  BY DEF TypeOK, ScanInv, ReadStep, ReadSkip, ReadEnter, ReadPick, RLock
<1> QED
  BY <1>3, <1>4, <1>5, <1>6, <1>7

LEMMA ReceiveInv ==
  ASSUME IInv, NEW r \in SynthRequests, Receive(r)
  PROVE  IInv'
<1> USE DEF Receive
<1>1. hand[r] = NoCore /\ coreMu[chan[r]] = r
  BY DEF TypeOK, HandInv, HandLabels, LeaseInv, Has
<1>2. TypeOK'
  BY DEF TypeOK
<1>3. HandInv'
  BY DEF TypeOK, HandInv, HandLabels
<1>4. LeaseInv'
  BY <1>1 DEF TypeOK, LeaseInv, Has
<1>5. CountIsLease'
  BY <1>1 DEF TypeOK, CountIsLease, LeaseInv, Has, Releasing
<1>6. DispatchInv' /\ ChanInv'
  BY DEF TypeOK, DispatchInv, ChanInv
<1>7. QueueConsistent'
  BY DEF TypeOK, QueueConsistent
<1>8. ScanInv' /\ RunInv'
  BY DEF TypeOK, ScanInv, RunInv
<1>9. LeasedCoreRuns'
  BY DEF TypeOK, LeasedCoreRuns, Has, Releasing
<1> QED
  BY <1>2, <1>3, <1>4, <1>5, <1>6, <1>7, <1>8, <1>9

(* The three steps of Release. *)
LEMMA ReleaseCountInv ==
  ASSUME IInv, NEW p \in Holders, ReleaseCount(p)
  PROVE  IInv'
<1> USE DEF ReleaseCount
<1>1. hand[p] \in Cores /\ coreMu[hand[p]] = p /\ active[hand[p]] = 1
  BY DEF TypeOK, HandInv, HandLabels, LeaseInv, CountIsLease, Has, Releasing
<1>2. TypeOK'
  BY <1>1 DEF TypeOK
<1>3. HandInv' /\ LeaseInv'
  BY DEF TypeOK, HandInv, HandLabels, LeaseInv, Has
<1>4. CountIsLease'
  BY <1>1 DEF TypeOK, CountIsLease, LeaseInv, Has, Releasing
<1>5. DispatchInv' /\ ChanInv'
  BY DEF TypeOK, DispatchInv, ChanInv
<1>6. QueueConsistent'
  BY DEF TypeOK, QueueConsistent
<1>7. ScanInv' /\ RunInv'
  BY DEF TypeOK, ScanInv, RunInv
<1>8. LeasedCoreRuns'
  BY DEF TypeOK, LeasedCoreRuns, Has, Releasing
<1> QED
  BY <1>2, <1>3, <1>4, <1>5, <1>6, <1>7, <1>8

LEMMA ReleaseStampInv ==
  ASSUME IInv, NEW p \in Holders, ReleaseStamp(p)
  PROVE  IInv'
<1> USE DEF ReleaseStamp
<1>1. TypeOK' /\ HandInv' /\ LeaseInv'
  BY DEF TypeOK, HandInv, HandLabels, LeaseInv, Has
<1>2. CountIsLease'
  BY DEF TypeOK, CountIsLease, Has, Releasing
<1>3. DispatchInv' /\ ChanInv'
  BY DEF TypeOK, DispatchInv, ChanInv
<1>4. QueueConsistent'
  BY DEF TypeOK, QueueConsistent
<1>5. ScanInv' /\ RunInv'
  BY DEF TypeOK, ScanInv, RunInv
<1>6. LeasedCoreRuns'
  BY DEF TypeOK, LeasedCoreRuns, Has, Releasing
<1> QED
  BY <1>1, <1>2, <1>3, <1>4, <1>5, <1>6

LEMMA ReleaseUnlockInv ==
  ASSUME IInv, NEW p \in Holders, ReleaseUnlock(p)
  PROVE  IInv'
<1> USE DEF ReleaseUnlock
<1>0. hand[p] \in Cores /\ coreMu[hand[p]] = p
  BY DEF TypeOK, HandInv, HandLabels, LeaseInv, Has
<1>1. hand[p] \in Cores /\ coreMu[hand[p]] = p /\ active[hand[p]] = 0
  BY <1>0 DEF CountIsLease, Releasing
<1>2. TypeOK'
  <2>1. pc' \in [Procs -> Labels] /\ dispatches' \in Nat
    BY DEF TypeOK
  <2>2. hand' \in [Holders -> Cores \cup {NoCore}] /\ coreMu' \in [Cores -> Holders \cup {None}]
    BY DEF TypeOK
  <2>3. UNCHANGED <<at, readers, writer, poolVars, active, expired,
                    pendingMu, queue, chan, cancelled>>
    OBVIOUS
  <2> HIDE DEF ReleaseUnlock
  <2> QED
    BY <2>1, <2>2, <2>3 DEF TypeOK
<1>3. HandInv'
  BY DEF TypeOK, HandInv, HandLabels
<1>4. LeaseInv'
  <2>1. p \in Requests => chan[p] = NoCore
    BY DEF ChanInv, TypeOK
  <2> QED
    BY <1>1, <2>1 DEF TypeOK, LeaseInv, Has
<1>5. CountIsLease'
  BY <1>1 DEF TypeOK, CountIsLease, LeaseInv, Has, Releasing
<1>6. DispatchInv' /\ ChanInv'
  BY DEF TypeOK, DispatchInv, ChanInv
<1>7. QueueConsistent'
  BY DEF TypeOK, QueueConsistent
<1>8. ScanInv' /\ RunInv'
  BY DEF TypeOK, ScanInv, RunInv
<1>9. LeasedCoreRuns'
  <2>1. p \in Requests => chan[p] = NoCore
    BY DEF ChanInv, TypeOK
  <2> QED
    BY <2>1 DEF TypeOK, LeasedCoreRuns, Has, Releasing
<1> QED
  BY <1>2, <1>3, <1>4, <1>5, <1>6, <1>7, <1>8, <1>9

(* The steps of dispatchPending. *)
LEMMA DispatchQuietInv ==
  ASSUME IInv, DispatchBegin \/ DispatchNext \/ DispatchEnd
  PROVE  IInv'
<1> USE DEF DispatchBegin, DispatchNext, DispatchEnd
<1>1. TypeOK'
  <2>1. /\ pc' \in [Procs -> Labels] /\ pendingMu' \in {Dispatcher, None}
        /\ dispatches' \in Nat
    BY DEF TypeOK
  <2>2. UNCHANGED <<at, hand, readers, writer, poolVars, coreVars, queue, chan, cancelled>>
    OBVIOUS
  <2> HIDE DEF DispatchBegin, DispatchNext, DispatchEnd
  <2> QED
    BY <2>1, <2>2 DEF TypeOK
<1>2. HandInv' /\ LeaseInv' /\ CountIsLease' /\ RunInv' /\ LeasedCoreRuns'
  BY <1>1, QuietStep DEF TypeOK, HandLabels
<1>3. DispatchInv'
  BY DEF TypeOK, DispatchInv
<1>4. ChanInv' /\ QueueConsistent'
  BY DEF TypeOK, ChanInv, QueueConsistent
<1>5. ScanInv'
  BY DEF TypeOK, ScanInv
<1> QED
  BY <1>1, <1>2, <1>3, <1>4, <1>5

(* What is left of the queue when its head is taken. *)
LEMMA TailOfQueue ==
  ASSUME TypeOK, QueueConsistent, queue # <<>>
  PROVE  /\ Head(queue) \in SynthRequests
         /\ Tail(queue) \in Seq(SynthRequests)
         /\ \A i, j \in 1 .. Len(Tail(queue)) : Tail(queue)[i] = Tail(queue)[j] => i = j
         /\ \A i \in 1 .. Len(Tail(queue)) :
               /\ Tail(queue)[i] # Head(queue)
               /\ pc[Tail(queue)[i]] \in {"waiting", "unqueue"}
               /\ chan[Tail(queue)[i]] = NoCore
         /\ pc[Head(queue)] \in {"waiting", "unqueue"}
<1>1. /\ queue \in Seq(SynthRequests) /\ Len(queue) \in Nat \ {0}
      /\ \A i, j \in 1 .. Len(queue) : queue[i] = queue[j] => i = j
      /\ \A i \in 1 .. Len(queue) :
            pc[queue[i]] \in {"waiting", "unqueue"} /\ chan[queue[i]] = NoCore
  BY DEF TypeOK, QueueConsistent
<1>2. /\ Tail(queue) \in Seq(SynthRequests) /\ Len(Tail(queue)) = Len(queue) - 1
      /\ \A i \in 1 .. Len(queue) - 1 : Tail(queue)[i] = queue[i + 1]
      /\ Head(queue) = queue[1]
  BY <1>1
<1> QED
  BY <1>1, <1>2

LEMMA DeliverInv ==
  ASSUME IInv, Deliver
  PROVE  IInv'
<1> DEFINE c == hand[Dispatcher]
           r == Head(queue)
<1>1. /\ c \in Cores /\ coreMu[c] = Dispatcher
      /\ queue # <<>>
  BY DEF Deliver, TypeOK, HandInv, HandLabels, LeaseInv, Has, QueueConsistent
<1>2. /\ r \in SynthRequests /\ pc[r] \in {"waiting", "unqueue"}
      /\ chan[r] = NoCore /\ hand[r] = NoCore
  BY <1>1, TailOfQueue DEF Deliver, HandInv, HandLabels
<1>3. /\ pc[Dispatcher] = "deliver"
      /\ pc' = [pc EXCEPT ![Dispatcher] = "dispatchLoop"]
      /\ chan' = [chan EXCEPT ![r] = c]
      /\ coreMu' = [coreMu EXCEPT ![c] = r]
      /\ hand' = [hand EXCEPT ![Dispatcher] = NoCore]
      /\ queue' = Tail(queue)
      /\ UNCHANGED <<at, readers, writer, poolVars, active, expired,
                     pendingMu, cancelled, dispatches>>
  BY DEF Deliver
<1>4. TypeOK'
  <2>1. queue' \in Seq(SynthRequests)
    BY <1>1, <1>3, TailOfQueue
  <2>2. /\ pc' \in [Procs -> Labels]
        /\ chan' \in [Requests -> Cores \cup {NoCore, Closed}]
        /\ coreMu' \in [Cores -> Holders \cup {None}]
        /\ hand' \in [Holders -> Cores \cup {NoCore}]
    BY <1>1, <1>2, <1>3 DEF TypeOK
  <2> QED
    BY <1>3, <2>1, <2>2 DEF TypeOK
<1>5. ChanInv' /\ QueueConsistent'
  BY <1>1, <1>2, <1>3, TailOfQueue DEF TypeOK, ChanInv, QueueConsistent
<1> HIDE DEF c, r
<1>6. HandInv'
  BY <1>3 DEF TypeOK, HandInv, HandLabels
<1>7. LeaseInv'
  BY <1>1, <1>2, <1>3 DEF TypeOK, LeaseInv, Has, c
<1>8. CountIsLease'
  BY <1>1, <1>2, <1>3 DEF TypeOK, CountIsLease, LeaseInv, Has, Releasing, c
<1>9. DispatchInv'
  BY <1>3 DEF TypeOK, DispatchInv
<1>10. ScanInv' /\ RunInv'
  BY <1>1, <1>3 DEF TypeOK, ScanInv, RunInv, c
<1>11. LeasedCoreRuns'
  BY <1>1, <1>2, <1>3 DEF TypeOK, LeasedCoreRuns, Has, Releasing, c
<1> QED
  BY <1>4, <1>5, <1>6, <1>7, <1>8, <1>9, <1>10, <1>11

LEMMA DeliverCancelledInv ==
  ASSUME IInv, DeliverCancelled
  PROVE  IInv'
<1>1. /\ pc[Dispatcher] = "deliver"
      /\ pc' = [pc EXCEPT ![Dispatcher] = "handBack"]
      /\ queue' = Tail(queue)
      /\ UNCHANGED <<at, hand, readers, writer, poolVars, coreVars,
                     pendingMu, chan, cancelled, dispatches>>
      /\ queue # <<>>
  BY DEF DeliverCancelled, QueueConsistent
<1>2. TypeOK'
  BY <1>1, TailOfQueue DEF TypeOK
<1>3. HandInv' /\ LeaseInv'
  BY <1>1 DEF TypeOK, HandInv, HandLabels, LeaseInv, Has
<1>4. CountIsLease' /\ LeasedCoreRuns'
  <2>1. \A p \in Holders : Releasing(p)' <=> Releasing(p)
    BY <1>1 DEF TypeOK, Releasing
  <2> QED
    BY <1>1, <2>1 DEF TypeOK, CountIsLease, LeasedCoreRuns, Has
<1>5. ChanInv' /\ QueueConsistent'
  BY <1>1, TailOfQueue DEF TypeOK, ChanInv, QueueConsistent
<1>6. DispatchInv' /\ ScanInv' /\ RunInv'
  BY <1>1 DEF TypeOK, DispatchInv, ScanInv, RunInv
<1> QED
  BY <1>2, <1>3, <1>4, <1>5, <1>6

(* The monitor, Close and the environment. *)
LEMMA BackgroundQuietInv ==
  ASSUME IInv,
         \/ MonitorTick \/ MonitorLock \/ CloseLock
         \/ \E r \in SynthRequests : Cancel(r)
         \/ \E c \in ReserveCores : Age(c)
  PROVE  IInv'
<1>1. /\ \A p \in Holders : pc'[p] = pc[p]
      /\ pc' \in [Procs -> Labels] /\ writer' \in Procs \cup {None}
      /\ cancelled' \in SUBSET SynthRequests /\ expired' \in SUBSET ReserveCores
      /\ UNCHANGED <<at, hand, readers, poolVars, active, coreMu,
                     pendingMu, queue, chan, dispatches>>
  <2>1. CASE MonitorTick
    BY <2>1 DEF TypeOK, MonitorTick
  <2>3. CASE MonitorLock
    BY <2>3 DEF TypeOK, MonitorLock, WLock
  <2>4. CASE CloseLock
    BY <2>4 DEF TypeOK, CloseLock, WLock
  <2>2. CASE (\E r \in SynthRequests : Cancel(r)) \/ (\E c \in ReserveCores : Age(c))
    BY <2>2 DEF TypeOK, Cancel, Age
  <2> QED
    BY <2>1, <2>2, <2>3, <2>4
<1>2. TypeOK'
  BY <1>1 DEF TypeOK
<1>3. HandInv' /\ LeaseInv' /\ CountIsLease' /\ RunInv' /\ LeasedCoreRuns'
  BY <1>1, QuietStep
<1>4. ChanInv' /\ DispatchInv' /\ QueueConsistent' /\ ScanInv'
  BY <1>1 DEF TypeOK, ChanInv, DispatchInv, QueueConsistent, ScanInv
<1> QED
  BY <1>2, <1>3, <1>4

(* The monitor stops idle reserve cores: nobody has one, the counter says so. *)
LEMMA MonitorCleanupInv ==
  ASSUME IInv, MonitorCleanup
  PROVE  IInv'
<1>1. /\ pc[Monitor] = "cleanup" /\ readers = {}
      /\ reserve' = reserve \ IdleReserve
      /\ stopped' = stopped \cup IdleReserve
      /\ writer' = None
      /\ pc' = [pc EXCEPT ![Monitor] = "off"]
      /\ UNCHANGED <<at, hand, readers, ready, work, started, coreVars, queueVars>>
      /\ IdleReserve \subseteq reserve
      /\ \A c \in IdleReserve : c \in ReserveCores /\ active[c] = 0
  BY DEF MonitorCleanup, IdleReserve, TypeOK
<1>2. \A p \in Holders : pc'[p] = pc[p]
  BY <1>1 DEF TypeOK
<1>3. \A p \in Holders : Releasing(p)' <=> Releasing(p)
  BY <1>2 DEF Releasing
<1>4. TypeOK'
  <2>1. /\ pc' \in [Procs -> Labels] /\ writer' \in Procs \cup {None}
        /\ reserve' \in SUBSET ReserveCores /\ stopped' \in SUBSET Cores
    BY <1>1 DEF TypeOK
  <2>2. UNCHANGED <<at, hand, readers, ready, work, started, active, coreMu, expired,
                    pendingMu, queue, chan, cancelled, dispatches>>
    BY <1>1
  <2> QED
    BY <2>1, <2>2 DEF TypeOK
<1>5. HandInv' /\ LeaseInv' /\ CountIsLease'
  <2>1. \A p \in Holders, c \in Cores : Has(p, c)' <=> Has(p, c)
    BY <1>1 DEF Has
  <2>2. HandInv' /\ LeaseInv'
    BY <1>1, <1>2, <2>1 DEF HandInv, LeaseInv
  <2>3. \A c \in Cores : coreMu[c] \in Holders \cup {None}
    BY DEF TypeOK
  <2> QED
    BY <1>1, <1>3, <2>1, <2>2, <2>3 DEF CountIsLease
<1>6. ChanInv' /\ DispatchInv' /\ QueueConsistent' /\ ScanInv'
  BY <1>1, <1>2 DEF TypeOK, ChanInv, DispatchInv, QueueConsistent, ScanInv
<1>7. RunInv'
  <2>1. Cardinality(reserve') <= MaxReserve
    <3>1. IsFiniteSet(reserve) /\ reserve' \in SUBSET reserve
      BY <1>1, FiniteReserve DEF TypeOK
    <3>2. /\ Cardinality(reserve') <= Cardinality(reserve)
          /\ Cardinality(reserve') \in Nat /\ Cardinality(reserve) \in Nat
      BY <3>1, FS_Subset, FS_CardinalityType
    <3> QED
      BY <3>2 DEF RunInv
  <2>2. reserve' = {c \in NumWork + 1 .. NumWork + started' : c \notin stopped'}
    BY <1>1 DEF RunInv
  <2>3. /\ ~ready' => work' = {}
        /\ work' \cap stopped' = {}
        /\ stopped' \subseteq 1 .. NumWork + started'
        /\ \A c \in Cores : c > NumWork + started' => coreMu'[c] = None
    BY <1>1 DEF TypeOK, RunInv
  <2> QED
    BY <2>1, <2>2, <2>3 DEF RunInv
<1>8. LeasedCoreRuns'
  <2>1. \A c \in Cores, p \in Holders : Has(p, c) /\ ~Releasing(p) => active[c] = 1
    BY DEF LeaseInv, CountIsLease
  <2> QED
    BY <1>1, <1>3, <2>1 DEF LeasedCoreRuns, Has
<1> QED
  BY <1>4, <1>5, <1>6, <1>7, <1>8

LEMMA CloseCoresInv ==
  ASSUME IInv, CloseCores
  PROVE  IInv'
<1>1. /\ pc[Closer] = "closeCores" /\ readers = {}
      /\ stopped' = stopped \cup work \cup reserve
      /\ work' = {} /\ reserve' = {} /\ ready' = FALSE
      /\ pc' = [pc EXCEPT ![Closer] = "closeQueue"]
      /\ UNCHANGED <<at, hand, readers, writer, started, coreVars, queueVars>>
  BY DEF CloseCores
<1>2. \A p \in Holders : pc'[p] = pc[p]
  BY <1>1 DEF TypeOK
<1>3. \A p \in Holders : Releasing(p)' <=> Releasing(p)
  BY <1>2 DEF Releasing
<1>4. TypeOK'
  <2>1. /\ pc' \in [Procs -> Labels] /\ ready' \in BOOLEAN /\ work' \in SUBSET WorkCores
        /\ reserve' \in SUBSET ReserveCores /\ stopped' \in SUBSET Cores
    BY <1>1 DEF TypeOK
  <2>2. UNCHANGED <<at, hand, readers, writer, started, active, coreMu, expired,
                    pendingMu, queue, chan, cancelled, dispatches>>
    BY <1>1
  <2> QED
    BY <2>1, <2>2 DEF TypeOK
<1>5. HandInv' /\ LeaseInv' /\ CountIsLease'
  <2>1. \A p \in Holders, c \in Cores : Has(p, c)' <=> Has(p, c)
    BY <1>1 DEF Has
  <2>2. HandInv' /\ LeaseInv'
    BY <1>1, <1>2, <2>1 DEF HandInv, LeaseInv
  <2>3. \A c \in Cores : coreMu[c] \in Holders \cup {None}
    BY DEF TypeOK
  <2> QED
    BY <1>1, <1>3, <2>1, <2>2, <2>3 DEF CountIsLease
<1>6. ChanInv' /\ DispatchInv' /\ QueueConsistent' /\ ScanInv'
  BY <1>1, <1>2 DEF TypeOK, ChanInv, DispatchInv, QueueConsistent, ScanInv
<1>7. RunInv'
  <2>1. Cardinality(reserve') <= MaxReserve
    BY <1>1, FS_EmptySet
  <2>2. reserve' = {c \in NumWork + 1 .. NumWork + started' : c \notin stopped'}
    BY <1>1 DEF RunInv
  <2>3. stopped' \subseteq 1 .. NumWork + started'
    <3>1. /\ work \subseteq 1 .. NumWork /\ reserve \subseteq NumWork + 1 .. NumWork + started
          /\ stopped \subseteq 1 .. NumWork + started /\ started \in Nat
      BY DEF TypeOK, RunInv
    <3> QED
      BY <1>1, <3>1
  <2>4. \A c \in Cores : c > NumWork + started' => coreMu'[c] = None
    BY <1>1 DEF RunInv
  <2> QED
    BY <1>1, <2>1, <2>2, <2>3, <2>4 DEF RunInv
<1>8. LeasedCoreRuns'
  BY <1>1 DEF LeasedCoreRuns
<1> QED
  BY <1>4, <1>5, <1>6, <1>7, <1>8

LEMMA CloseQueueInv ==
  ASSUME IInv, CloseQueue
  PROVE  IInv'
<1>1. /\ pc[Closer] = "closeQueue" /\ pendingMu = None
      /\ chan' = [r \in Requests |-> IF Contains(queue, r) THEN Closed ELSE chan[r]]
      /\ queue' = <<>>
      /\ writer' = None
      /\ pc' = [pc EXCEPT ![Closer] = "closed"]
      /\ UNCHANGED <<at, hand, readers, poolVars, coreVars, pendingMu, cancelled, dispatches>>
  BY DEF CloseQueue
<1>2. \A p \in Holders : pc'[p] = pc[p]
  BY <1>1 DEF TypeOK
<1>3. \A r \in Requests : Contains(queue, r) => chan[r] = NoCore /\ pc[r] \in {"waiting", "unqueue"}
  BY DEF Contains, QueueConsistent
<1>4. \A p \in Holders, c \in Cores : Has(p, c)' <=> Has(p, c)
  BY <1>1, <1>3 DEF Has, TypeOK
<1>5. \A p \in Holders : Releasing(p)' <=> Releasing(p)
  BY <1>2 DEF Releasing
<1>6. TypeOK'
  BY <1>1 DEF TypeOK
<1>7. HandInv' /\ LeaseInv' /\ CountIsLease' /\ LeasedCoreRuns'
  BY <1>1, <1>2, <1>4, <1>5 DEF HandInv, LeaseInv, CountIsLease, LeasedCoreRuns, TypeOK
<1>8. ChanInv'
  BY <1>1, <1>2, <1>3 DEF ChanInv
<1>9. pc[Dispatcher] = "off"
  BY <1>1 DEF DispatchInv
<1>10. DispatchInv' /\ QueueConsistent'
  BY <1>1, <1>2, <1>9 DEF TypeOK, DispatchInv, QueueConsistent
<1>11. ScanInv' /\ RunInv'
  BY <1>1, <1>2 DEF ScanInv, RunInv
<1> QED
  BY <1>6, <1>7, <1>8, <1>10, <1>11

(* Nothing changes. *)
LEMMA StutterInv ==
  ASSUME IInv, UNCHANGED vars
  PROVE  IInv'
<1>1. UNCHANGED <<pc, at, hand, readers, writer, poolVars, coreVars, queueVars>>
  BY DEF vars
<1>2. TypeOK' /\ HandInv' /\ LeaseInv' /\ CountIsLease' /\ ChanInv'
  BY <1>1 DEF TypeOK, HandInv, LeaseInv, CountIsLease, ChanInv, Has, Releasing
<1>3. DispatchInv' /\ QueueConsistent' /\ ScanInv' /\ RunInv' /\ LeasedCoreRuns'
  BY <1>1 DEF DispatchInv, QueueConsistent, ScanInv, RunInv, LeasedCoreRuns, Has, Releasing
<1> QED
  BY <1>2, <1>3

(* Every step of the pool preserves the invariant. *)
LEMMA StepInv == IInv /\ [Next]_vars => IInv'
<1> SUFFICES ASSUME IInv, [Next]_vars PROVE IInv'
  OBVIOUS
<1>1. ASSUME NEW p \in Acquirers, AcquireStep(p) PROVE IInv'
  BY <1>1, ScanStepInv, ReserveTakeInv, StartCoreInv DEF AcquireStep
<1>2. ASSUME NEW p \in Holders, WorkLock(p) \/ ReleaseStep(p) PROVE IInv'
  BY <1>2, WorkLockInv, ReleaseCountInv, ReleaseStampInv, ReleaseUnlockInv DEF ReleaseStep
<1>3. ASSUME NEW r \in SynthRequests, WaitStep(r) PROVE IInv'
  BY <1>3, EnqueueInv, ReceiveInv, WaitEndInv, UnqueueInv DEF WaitStep
<1>4. ASSUME NEW r \in ReadRequests, ReadStep(r) PROVE IInv'
  BY <1>4, ReadStepInv
<1>5. CASE DispatchStep
  BY <1>5, DispatchQuietInv, DeliverInv, DeliverCancelledInv DEF DispatchStep
<1>6. CASE MonitorStep \/ CloseStep \/ Environment
  BY <1>6, BackgroundQuietInv, MonitorCleanupInv, CloseCoresInv, CloseQueueInv
     DEF MonitorStep, CloseStep, Environment
<1>7. CASE UNCHANGED vars
  BY <1>7, StutterInv
<1> HIDE DEF IInv, Acquirers, Holders, Requests
<1> QED
  BY <1>1, <1>2, <1>3, <1>4, <1>5, <1>6, <1>7 DEF Next

(* The inductive invariant holds in every reachable state. *)
THEOREM Invariance == Spec => []IInv
  BY InitInv, StepInv, PTL DEF Spec

----------------------------------------------------------------------------
(* What the inductive invariant gives. *)

(* Every variable keeps its type; in particular no counter of active requests ever *)
(* leaves 0 and 1, for any number of goroutines (TypeOK).                          *)
THEOREM TypeCorrect == Spec => []TypeOK
<1>1. IInv => TypeOK
  OBVIOUS
<1> QED
  BY <1>1, Invariance, PTL

(* No core of the pool is ever used by two goroutines: the core somebody has is *)
(* locked for him (LeaseInv), and a mutex has one holder.                       *)
THEOREM Exclusive == Spec => []ExclusiveLease
<1>1. IInv => ExclusiveLease
  BY DEF LeaseInv, ExclusiveLease
<1> QED
  BY <1>1, Invariance, PTL

(* The counter of active requests is right whenever no Release is half done. *)
THEOREM CountCorrect == Spec => []CountIsLease
<1>1. IInv => CountIsLease
  OBVIOUS
<1> QED
  BY <1>1, Invariance, PTL

(* The monitor never stops a core that somebody has. *)
THEOREM RunningLease == Spec => []LeasedCoreRuns
<1>1. IInv => LeasedCoreRuns
  OBVIOUS
<1> QED
  BY <1>1, Invariance, PTL

(* No more reserve processes run than the pool is configured for. *)
THEOREM Bounded == Spec => []ReserveBound
<1>1. IInv => ReserveBound
  BY DEF RunInv, ReserveBound
<1> QED
  BY <1>1, Invariance, PTL

(* The queue holds each waiting request once, and the dispatcher finds its head. *)
THEOREM QueueCorrect == Spec => []QueueConsistent
<1>1. IInv => QueueConsistent
  OBVIOUS
<1> QED
  BY <1>1, Invariance, PTL

----------------------------------------------------------------------------
(* The pool implements the abstract leases. *)

LEMMA InitMaps == Init => Abstract!LeaseInit
  BY DEF Init, Abstract!LeaseInit, LeaseUser

(* A step that changes one core changes the user of that core only. *)
LEMMA LeaseUserStep ==
  ASSUME NEW c \in Cores, NEW u,
         u = IF active'[c] > 0 THEN coreMu'[c] ELSE None,
         \A d \in Cores \ {c} : active'[d] = active[d] /\ coreMu'[d] = coreMu[d]
  PROVE  LeaseUser' = [LeaseUser EXCEPT ![c] = u]
<1> HIDE DEF Cores, None
<1>1. \A d \in Cores : LeaseUser'[d] = [LeaseUser EXCEPT ![c] = u][d]
  BY DEF LeaseUser
<1>2. LeaseUser = [d \in Cores |-> LeaseUser[d]] /\ LeaseUser' = [d \in Cores |-> LeaseUser'[d]]
  BY DEF LeaseUser
<1> QED
  BY <1>1, <1>2

(* A goroutine that locks a listed core takes a lease on it. *)
LEMMA TakeMaps ==
  ASSUME IInv, NEW p \in Holders, NEW c \in Cores,
         c \in work \cup reserve, coreMu[c] = None, TakeCore(p, c),
         UNCHANGED poolVars
  PROVE  Abstract!LeaseNext
<1>1. active[c] = 0
  BY DEF CountIsLease
<1>2. LeaseUser[c] = None
  BY <1>1 DEF LeaseUser
<1>3. active'[c] = 1 /\ coreMu'[c] = p
  BY <1>1 DEF TakeCore, TypeOK
<1>4. \A d \in Cores \ {c} : active'[d] = active[d] /\ coreMu'[d] = coreMu[d]
  BY DEF TakeCore, TypeOK
<1>5. LeaseUser' = [LeaseUser EXCEPT ![c] = p]
  BY <1>3, <1>4, LeaseUserStep
<1>6. Abstract!Lease(c, p)
  BY <1>2, <1>5 DEF Abstract!Lease
<1> QED
  BY <1>6 DEF Abstract!LeaseNext

(* A goroutine that starts a reserve core has it at once. *)
LEMMA StartMaps ==
  ASSUME IInv, NEW p \in Acquirers, StartCore(p)
  PROVE  Abstract!LeaseNext
<1> DEFINE c == NumWork + started + 1
<1>1. c \in Cores /\ c \notin work \cup reserve \cup stopped /\ coreMu[c] = None
  BY DEF StartCore, TypeOK, RunInv
<1>2. TakeCore(p, c) /\ reserve' = reserve \cup {c} /\ UNCHANGED <<work, stopped>>
  BY DEF StartCore
<1> HIDE DEF c
<1>3. active[c] = 0
  BY <1>1 DEF CountIsLease
<1>4. active'[c] = 1 /\ coreMu'[c] = p
  BY <1>1, <1>2, <1>3 DEF TakeCore, TypeOK
<1>5. \A d \in Cores \ {c} : active'[d] = active[d] /\ coreMu'[d] = coreMu[d]
  BY <1>2 DEF TakeCore, TypeOK
<1>6. LeaseUser[c] = None /\ LeaseUser' = [LeaseUser EXCEPT ![c] = p]
  <2>1. LeaseUser[c] = None
    BY <1>1, <1>3 DEF LeaseUser
  <2> QED
    BY <1>1, <1>4, <1>5, <2>1, LeaseUserStep
<1>7. Abstract!StartFor(c, p)
  BY <1>1, <1>2, <1>6 DEF Abstract!StartFor
<1> QED
  BY <1>1, <1>7 DEF Abstract!LeaseNext

(* The lease ends where Release takes the request from the counter. *)
LEMMA ReturnMaps ==
  ASSUME IInv, NEW p \in Holders, ReleaseCount(p)
  PROVE  Abstract!LeaseNext
<1> DEFINE c == hand[p]
<1>1. c \in Cores /\ coreMu[c] = p
  BY DEF ReleaseCount, HandInv, HandLabels, LeaseInv, Has, TypeOK
<1>2. active[c] = 1
  BY <1>1 DEF ReleaseCount, CountIsLease, Releasing
<1>3. active' = [active EXCEPT ![c] = 0] /\ UNCHANGED <<coreMu, work, reserve, stopped>>
  BY <1>2 DEF ReleaseCount
<1> HIDE DEF c
<1>4. LeaseUser[c] # None
  BY <1>1, <1>2 DEF LeaseUser
<1>5. active'[c] = 0 /\ \A d \in Cores \ {c} : active'[d] = active[d] /\ coreMu'[d] = coreMu[d]
  BY <1>1, <1>3 DEF TypeOK
<1>6. LeaseUser' = [LeaseUser EXCEPT ![c] = None]
  BY <1>1, <1>5, LeaseUserStep
<1>7. Abstract!Return(c)
  BY <1>3, <1>4, <1>6 DEF Abstract!Return
<1> QED
  BY <1>1, <1>7 DEF Abstract!LeaseNext

(* After that the unlock is no event of the abstract pool. *)
LEMMA UnlockMaps ==
  ASSUME IInv, NEW p \in Holders, ReleaseUnlock(p)
  PROVE  UNCHANGED <<LeaseUser, work, reserve, stopped>>
<1> DEFINE c == hand[p]
<1>1. c \in Cores /\ coreMu[c] = p
  BY DEF ReleaseUnlock, HandInv, HandLabels, LeaseInv, Has, TypeOK
<1>2. active[c] = 0
  BY <1>1 DEF ReleaseUnlock, CountIsLease, Releasing
<1>3. coreMu' = [coreMu EXCEPT ![c] = None] /\ UNCHANGED <<active, work, reserve, stopped>>
  BY DEF ReleaseUnlock
<1> HIDE DEF c
<1> QED
  BY <1>1, <1>2, <1>3 DEF LeaseUser, TypeOK

(* The dispatcher's send into the channel hands its lease over. *)
LEMMA DeliverMaps ==
  ASSUME IInv, Deliver
  PROVE  Abstract!LeaseNext
<1> DEFINE c == hand[Dispatcher]
           r == Head(queue)
<1>1. c \in Cores /\ coreMu[c] = Dispatcher
  BY DEF Deliver, HandInv, HandLabels, LeaseInv, Has, TypeOK
<1>2. r \in SynthRequests
  BY DEF Deliver, QueueConsistent, TypeOK
<1>3. active[c] = 1
  BY <1>1 DEF Deliver, CountIsLease, Releasing
<1>4. coreMu' = [coreMu EXCEPT ![c] = r] /\ UNCHANGED <<active, work, reserve, stopped>>
  BY DEF Deliver
<1> HIDE DEF c, r
<1>5. LeaseUser[c] # None
  BY <1>1, <1>3 DEF LeaseUser
<1>6. /\ active'[c] > 0 /\ coreMu'[c] = r
      /\ \A d \in Cores \ {c} : active'[d] = active[d] /\ coreMu'[d] = coreMu[d]
  BY <1>1, <1>3, <1>4 DEF TypeOK
<1>7. LeaseUser' = [LeaseUser EXCEPT ![c] = r]
  BY <1>1, <1>6, LeaseUserStep
<1>8. Abstract!HandOver(c, r)
  BY <1>4, <1>5, <1>7 DEF Abstract!HandOver
<1> QED
  BY <1>1, <1>2, <1>8 DEF Abstract!LeaseNext

(* The monitor retires cores that nobody uses; Close shuts the pool down. *)
LEMMA StopMaps ==
  ASSUME IInv, MonitorCleanup \/ CloseCores
  PROVE  Abstract!LeaseNext
<1>1. CASE MonitorCleanup
  <2>1. /\ IdleReserve \subseteq reserve /\ reserve \subseteq ReserveCores
        /\ \A c \in IdleReserve : active[c] = 0
        /\ work \subseteq WorkCores
    BY DEF IdleReserve, TypeOK
  <2>2. /\ IdleReserve \subseteq work \cup reserve /\ IdleReserve \subseteq Cores
        /\ \A c \in IdleReserve : LeaseUser[c] = None
    BY <2>1 DEF LeaseUser
  <2>3. work \cap IdleReserve = {}
    BY <2>1
  <2>4. work' \cup reserve' = (work \cup reserve) \ IdleReserve
    BY <1>1, <2>3 DEF MonitorCleanup
  <2>5. stopped' = stopped \cup IdleReserve /\ UNCHANGED LeaseUser
    BY <1>1 DEF MonitorCleanup, LeaseUser
  <2>6. Abstract!Retire(IdleReserve)
    BY <2>2, <2>4, <2>5 DEF Abstract!Retire
  <2> QED
    BY <2>2, <2>6 DEF Abstract!LeaseNext
<1>2. CASE CloseCores
  <2>1. Abstract!Shutdown
    BY <1>2 DEF CloseCores, LeaseUser, Abstract!Shutdown
  <2> QED
    BY <2>1 DEF Abstract!LeaseNext
<1> QED
  BY <1>1, <1>2

(* Every other step leaves the cores, their counters and their locks alone. *)
LEMMA OtherMaps ==
  ASSUME UNCHANGED <<active, coreMu, work, reserve, stopped>>
  PROVE  UNCHANGED <<LeaseUser, work, reserve, stopped>>
  BY DEF LeaseUser

LEMMA StepMaps ==
  IInv /\ [Next]_vars => [Abstract!LeaseNext]_<<LeaseUser, work \cup reserve, stopped>>
<1> SUFFICES ASSUME IInv, [Next]_vars
    PROVE  Abstract!LeaseNext \/ UNCHANGED <<LeaseUser, work, reserve, stopped>>
  OBVIOUS
<1>1. ASSUME NEW p \in Acquirers, AcquireStep(p)
      PROVE  Abstract!LeaseNext \/ UNCHANGED <<LeaseUser, work, reserve, stopped>>
  <2>1. CASE ReserveTake(p)
    <3>1. PICK c \in reserve : coreMu[c] = None /\ TakeCore(p, c)
      BY <2>1 DEF ReserveTake
    <3>2. c \in Cores /\ UNCHANGED poolVars
      BY <2>1, <3>1 DEF ReserveTake, TypeOK
    <3> QED
      BY <3>1, <3>2, TakeMaps
  <2>2. CASE StartCore(p)
    BY <2>2, StartMaps
  <2>3. CASE WorkSkip(p) \/ WorkEnter(p) \/ WorkProbeBusy(p) \/ WorkProbeIdle(p) \/ WorkScanEnd(p)
    BY <2>3, OtherMaps DEF WorkSkip, WorkEnter, WorkProbeBusy, WorkProbeIdle, WorkScanEnd
  <2>4. CASE ReserveEnter(p) \/ ReserveProbeBusy(p) \/ ReserveScanEnd(p)
    BY <2>4, OtherMaps DEF ReserveEnter, ReserveProbeBusy, ReserveScanEnd
  <2>5. CASE StartLock(p) \/ StartNone(p)
    BY <2>5, OtherMaps DEF StartLock, StartNone
  <2> QED
    BY <1>1, <2>1, <2>2, <2>3, <2>4, <2>5 DEF AcquireStep
<1>2. ASSUME NEW p \in Holders, WorkLock(p) \/ ReleaseStep(p)
      PROVE  Abstract!LeaseNext \/ UNCHANGED <<LeaseUser, work, reserve, stopped>>
  <2>1. CASE WorkLock(p)
    <3>1. /\ at[p] \in work /\ coreMu[at[p]] = None
          /\ TakeCore(p, at[p]) /\ UNCHANGED poolVars
      BY <2>1 DEF WorkLock, ScanInv
    <3>2. at[p] \in Cores
      BY <3>1 DEF TypeOK
    <3> QED
      BY <3>1, <3>2, TakeMaps
  <2>2. CASE ReleaseStamp(p)
    BY <2>2, OtherMaps DEF ReleaseStamp
  <2> QED
    BY <1>2, <2>1, <2>2, ReturnMaps, UnlockMaps DEF ReleaseStep
<1>3. ASSUME NEW r \in SynthRequests, WaitStep(r)
      PROVE  UNCHANGED <<LeaseUser, work, reserve, stopped>>
  BY <1>3, OtherMaps DEF WaitStep, Enqueue, Receive, ReceiveClosed, GiveUp, Unqueue
<1>4. ASSUME NEW r \in ReadRequests, ReadStep(r)
      PROVE  UNCHANGED <<LeaseUser, work, reserve, stopped>>
  BY <1>4, OtherMaps DEF ReadStep, ReadSkip, ReadEnter, ReadPick
<1>5. CASE DispatchStep
  <2>1. CASE DispatchBegin \/ DispatchNext \/ DeliverCancelled \/ DispatchEnd
    BY <2>1, OtherMaps DEF DispatchBegin, DispatchNext, DeliverCancelled, DispatchEnd
  <2> QED
    BY <1>5, <2>1, DeliverMaps DEF DispatchStep
<1>6. CASE MonitorStep \/ CloseStep \/ Environment
  <2>1. CASE MonitorTick \/ MonitorLock \/ CloseLock \/ CloseQueue
    BY <2>1, OtherMaps DEF MonitorTick, MonitorLock, CloseLock, CloseQueue
  <2>2. CASE Environment
    BY <2>2, OtherMaps DEF Environment, Cancel, Age
  <2> QED
    BY <1>6, <2>1, <2>2, StopMaps DEF MonitorStep, CloseStep
<1>7. CASE UNCHANGED vars
  BY <1>7, OtherMaps DEF vars
<1> HIDE DEF IInv, Acquirers, Holders, Requests
<1> QED
  BY <1>1, <1>2, <1>3, <1>4, <1>5, <1>6, <1>7 DEF Next

(* Every behaviour of the pool is one of the abstract leases (ImplementsLease). *)
THEOREM Implementation == Spec => ImplementsLease
<1>1. Init => Abstract!LeaseInit
  BY InitMaps
<1>2. IInv /\ [Next]_vars => [Abstract!LeaseNext]_(Abstract!leaseVars)
  BY StepMaps DEF Abstract!leaseVars
<1> QED
  BY <1>1, <1>2, Invariance, PTL DEF Spec, ImplementsLease, Abstract!LeaseSpec
=============================================================================

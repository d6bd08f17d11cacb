--------------------------- MODULE ServerStartProofs ---------------------------
(***************************************************************************)
(* Proofs about ServerStart, for all sets of browsers, capacities and      *)
(* numbers of events: what a browser is shown is what was emitted, each    *)
(* event once and each goroutine's in order, and what the pool is told to  *)
(* be it is.                                                               *)
(*                                                                         *)
(* The parts of IInv: the event that an emitter sends is its latest, and   *)
(* newer than all it has sent to the same browser (FlightInv); what waits  *)
(* in a channel is in order, newer than what was shown and newer than what *)
(* is replayed (StreamInv); where each event is for each browser           *)
(* (NothingLost); and how the pool goes with the place of backgroundInit   *)
(* and with Close (PoolInv).                                               *)
(***************************************************************************)
EXTENDS ServerStart, TLAPS

Places == {"announce", "work", "made", "publish", "normalizer", "wait", "ready", "last", "done", "failed"}
Kinds == {"info", "error", "ready"}

Typed ==
  /\ at \in Places /\ stage \in DOMAIN Stages
  /\ lang \in [Langs -> {"none", "building", "built"}]
  /\ reports \in [Emitters -> 0 .. MaxReports]
  /\ progress \in Seq(Kinds) /\ by \in Seq(Emitters) /\ Len(by) = Len(progress)
  /\ item \in [Emitters -> 0 .. Len(progress)] /\ target \in [Emitters -> SUBSET Subs]
  /\ registered \subseteq Subs
  /\ sub \in [Subs -> {"idle", "replay", "live", "ended"}]
  /\ existing \in [Subs -> 0 .. Len(progress)] /\ pos \in [Subs -> 0 .. Len(progress)]
  /\ chan \in [Subs -> Seq(Nat)] /\ seen \in [Subs -> Seq(Nat)]
  /\ dropped \in [Subs -> SUBSET Nat]
  /\ pool \in {"none", "open", "closed"}

Flags ==
  /\ ready \in BOOLEAN /\ held \in BOOLEAN /\ closed \in BOOLEAN
  /\ early \in BOOLEAN /\ exited \in BOOLEAN

(* A browser is subscribed while its handler runs; before that nothing is there for it. *)
HandlerInv ==
  /\ registered = {s \in Subs : sub[s] \in {"replay", "live"}}
  /\ \A s \in Subs :
       /\ pos[s] <= existing[s] /\ Len(chan[s]) <= Cap
       /\ sub[s] \in {"idle", "ended"} =>
            pos[s] = 0 /\ existing[s] = 0 /\ chan[s] = <<>> /\ seen[s] = <<>> /\ dropped[s] = {}

(* What is on its way to a browser, or has come there, are recorded events. *)
EventInv ==
  \A s \in Subs :
    /\ \A i \in DOMAIN chan[s] : chan[s][i] \in Events
    /\ \A i \in DOMAIN seen[s] : seen[s][i] \in Events
    /\ dropped[s] \subseteq Events

(* An emitter's event is its latest one; who it is sent to has subscribed before. *)
ItemInv ==
  \A e \in Emitters :
    /\ item[e] = 0 => target[e] = {}
    /\ item[e] # 0 => by[item[e]] = e
    /\ \A n \in Events : by[n] = e => n <= item[e]
    /\ \A s \in target[e] : sub[s] # "idle" /\ existing[s] < item[e]

(* What an emitter is about to send to a browser is newer than what it has sent there. *)
FlightInv ==
  \A e \in Emitters : \A s \in target[e] :
    /\ \A i \in DOMAIN seen[s] : by[seen[s][i]] = e => seen[s][i] < item[e]
    /\ \A i \in DOMAIN chan[s] : by[chan[s][i]] = e => chan[s][i] < item[e]

(* What was shown, then the copied events that are still to be shown, then the channel. *)
StreamInv ==
  \A s \in Subs :
    /\ \A i, j \in DOMAIN chan[s] : i < j /\ by[chan[s][i]] = by[chan[s][j]] => chan[s][i] < chan[s][j]
    /\ \A i \in DOMAIN seen[s], j \in DOMAIN chan[s] :
         by[seen[s][i]] = by[chan[s][j]] => seen[s][i] < chan[s][j]
    /\ \A j \in DOMAIN chan[s] : chan[s][j] > existing[s]
    /\ sub[s] = "replay" => \A i \in DOMAIN seen[s] : seen[s][i] <= pos[s]
    /\ \A i, j \in DOMAIN seen[s] : i < j /\ by[seen[s][i]] = by[seen[s][j]] => seen[s][i] < seen[s][j]

Opening == {"announce", "work"}
Opened == {"normalizer", "wait", "ready", "last", "done"}

PoolInv ==
  /\ at \in Opening => pool = "none"
  /\ at \in {"made", "publish"} => pool = "open"
  /\ at \in Opened => pool # "none"
  /\ at \notin Opened => ~held
  /\ held => pool = "open"
  /\ pool = "closed" => closed
  /\ closed /\ (pool = "open" \/ at \in Opening) => early
  /\ exited => closed
  /\ ready => pool # "none"
  /\ at \in {"last", "done"} => ready \/ closed
  /\ \A n \in Events : progress[n] = "ready" => ready \/ closed

StreamPart == HandlerInv /\ EventInv /\ ItemInv /\ FlightInv /\ StreamInv /\ NothingLost
IInv == Typed /\ Flags /\ StreamPart /\ PoolInv

----------------------------------------------------------------------------
USE DEF Events, Places, Kinds, Langs, Emitters, Stages

LEMMA AppendFacts ==
  ASSUME NEW S, NEW q \in Seq(S), NEW x \in S
  PROVE  /\ Append(q, x) \in Seq(S) /\ Len(Append(q, x)) = Len(q) + 1
         /\ DOMAIN Append(q, x) = 1 .. Len(q) + 1 /\ DOMAIN q = 1 .. Len(q) /\ Len(q) \in Nat
         /\ \A i \in DOMAIN q : Append(q, x)[i] = q[i]
         /\ Append(q, x)[Len(q) + 1] = x
  OBVIOUS

LEMMA TailFacts ==
  ASSUME NEW S, NEW q \in Seq(S), q # <<>>
  PROVE  /\ Tail(q) \in Seq(S) /\ Len(Tail(q)) = Len(q) - 1 /\ Len(q) \in Nat \ {0}
         /\ DOMAIN Tail(q) = 1 .. Len(q) - 1 /\ DOMAIN q = 1 .. Len(q)
         /\ \A i \in DOMAIN Tail(q) : Tail(q)[i] = q[i + 1]
         /\ Head(q) = q[1] /\ Head(q) \in S
  OBVIOUS

LEMMA ToSetFacts ==
  ASSUME NEW S, NEW q \in Seq(S), NEW n
  PROVE  n \in ToSet(q) <=> \E i \in DOMAIN q : q[i] = n
  BY DEF ToSet

LEMMA InitInv == Init => IInv
  <1> SUFFICES ASSUME Init PROVE IInv  OBVIOUS
  <1> USE DEF Init
  <1>1. Typed
    <2>1. progress = <<>> /\ by = <<>> /\ Len(progress) = 0 /\ Len(by) = 0  OBVIOUS
    <2>2. chan \in [Subs -> Seq(Nat)] /\ seen \in [Subs -> Seq(Nat)]  OBVIOUS
    <2>3. reports \in [Emitters -> 0 .. MaxReports]  BY StartAssumption
    <2> QED  BY <2>1, <2>2, <2>3 DEF Typed
  <1>2. Flags  BY DEF Flags
  <1>3. Events = {}  OBVIOUS
  <1>4. HandlerInv /\ EventInv  BY <1>3, StartAssumption DEF HandlerInv, EventInv
  <1>5. ItemInv /\ FlightInv /\ StreamInv  BY <1>3 DEF ItemInv, FlightInv, StreamInv
  <1>6. NothingLost  BY <1>3 DEF NothingLost
  <1>7. PoolInv  BY <1>3 DEF PoolInv, Opening, Opened
  <1> QED  BY <1>1, <1>2, <1>4, <1>5, <1>6, <1>7 DEF IInv, StreamPart

----------------------------------------------------------------------------
(* Steps of the goroutines that emit *)

(* What recording an event does to the record, and to who sends what. *)
Recorded(e, kind) ==
  /\ Len(progress) \in Nat /\ Len(progress') = Len(progress) + 1
  /\ Events' = Events \cup {Len(progress) + 1}
  /\ \A n \in Events : progress'[n] = progress[n] /\ by'[n] = by[n]
  /\ progress'[Len(progress) + 1] = kind /\ by'[Len(progress) + 1] = e
  /\ item'[e] = Len(progress) + 1 /\ target'[e] = registered
  /\ \A d \in Emitters \ {e} : item'[d] = item[d] /\ target'[d] = target[d]
  /\ \A d \in Emitters : item[d] \in 0 .. Len(progress)

LEMMA RecordFacts ==
  ASSUME Typed, NEW e \in Emitters, NEW kind \in Kinds, Record(e, kind)
  PROVE  /\ Recorded(e, kind)
         /\ progress' \in Seq(Kinds) /\ by' \in Seq(Emitters) /\ Len(by') = Len(progress')
         /\ item' \in [Emitters -> 0 .. Len(progress')] /\ target' \in [Emitters -> SUBSET Subs]
  <1>1. progress \in Seq(Kinds) /\ by \in Seq(Emitters) /\ Len(by) = Len(progress)  BY DEF Typed
  <1>2. progress' = Append(progress, kind) /\ by' = Append(by, e)  BY DEF Record
  <1>3. /\ Len(progress) \in Nat /\ Len(progress') = Len(progress) + 1
        /\ progress' \in Seq(Kinds) /\ by' \in Seq(Emitters) /\ Len(by') = Len(progress')
        /\ DOMAIN progress = 1 .. Len(progress) /\ DOMAIN by = 1 .. Len(progress)
        /\ \A n \in Events : progress'[n] = progress[n] /\ by'[n] = by[n]
        /\ progress'[Len(progress) + 1] = kind /\ by'[Len(progress) + 1] = e
    BY <1>1, <1>2, AppendFacts
  <1>4. Events' = Events \cup {Len(progress) + 1}  BY <1>3
  <1>5. /\ item' = [item EXCEPT ![e] = Len(progress) + 1]
        /\ target' = [target EXCEPT ![e] = registered]
        /\ item \in [Emitters -> 0 .. Len(progress)] /\ target \in [Emitters -> SUBSET Subs]
        /\ registered \subseteq Subs
    BY DEF Record, Typed
  <1>6. item' \in [Emitters -> 0 .. Len(progress')] /\ target' \in [Emitters -> SUBSET Subs]
    BY <1>3, <1>5
  <1>7. /\ item'[e] = Len(progress) + 1 /\ target'[e] = registered
        /\ \A d \in Emitters \ {e} : item'[d] = item[d] /\ target'[d] = target[d]
        /\ \A d \in Emitters : item[d] \in 0 .. Len(progress)
    BY <1>5
  <1> QED  BY <1>3, <1>4, <1>6, <1>7 DEF Recorded

LEMMA RecordStream ==
  ASSUME Typed, StreamPart, NEW e \in Emitters, NEW kind \in Kinds, Idle(e), Recorded(e, kind),
         UNCHANGED subVars
  PROVE  StreamPart'
  <1> USE DEF subVars, StreamPart, Recorded
  <1>1. HandlerInv'  BY DEF HandlerInv
  <1>2. EventInv'  BY DEF EventInv
  <1>3. ItemInv'
    <2> SUFFICES ASSUME NEW d \in Emitters
                 PROVE  /\ item'[d] = 0 => target'[d] = {}
                        /\ item'[d] # 0 => by'[item'[d]] = d
                        /\ \A n \in Events' : by'[n] = d => n <= item'[d]
                        /\ \A s \in target'[d] : sub'[s] # "idle" /\ existing'[s] < item'[d]
      BY DEF ItemInv
    <2>1. CASE d = e
      <3>1. \A s \in registered : sub[s] # "idle" /\ existing[s] \in 0 .. Len(progress)
        BY DEF Typed, HandlerInv
      <3>2. \A n \in Events' : n <= Len(progress) + 1  OBVIOUS
      <3> QED  BY <2>1, <3>1, <3>2
    <2>2. CASE d # e
      <3>1. item'[d] = item[d] /\ target'[d] = target[d] /\ item[d] \in 0 .. Len(progress)
        BY <2>2
      <3>2. item[d] # 0 => by'[item[d]] = by[item[d]]  BY <3>1
      <3>3. \A n \in Events' : by'[n] = d => n \in Events /\ by[n] = d  BY <2>2
      <3> QED  BY <3>1, <3>2, <3>3 DEF ItemInv
    <2> QED  BY <2>1, <2>2
  <1>4. FlightInv'
    <2> SUFFICES ASSUME NEW d \in Emitters, NEW s \in target'[d]
                 PROVE  /\ \A i \in DOMAIN seen[s] : by'[seen[s][i]] = d => seen[s][i] < item'[d]
                        /\ \A i \in DOMAIN chan[s] : by'[chan[s][i]] = d => chan[s][i] < item'[d]
      BY DEF FlightInv
    <2>0. s \in Subs
      <3>1. target \in [Emitters -> SUBSET Subs] /\ registered \subseteq Subs  BY DEF Typed
      <3> QED  BY <3>1
    <2>1. /\ \A i \in DOMAIN seen[s] : seen[s][i] \in Events /\ by'[seen[s][i]] = by[seen[s][i]]
          /\ \A i \in DOMAIN chan[s] : chan[s][i] \in Events /\ by'[chan[s][i]] = by[chan[s][i]]
      BY <2>0 DEF EventInv
    <2>2. CASE d = e  BY <2>1, <2>2
    <2>3. CASE d # e
      <3>1. item'[d] = item[d] /\ target'[d] = target[d]  BY <2>3
      <3> QED  BY <2>1, <3>1 DEF FlightInv
    <2> QED  BY <2>2, <2>3
  <1>5. StreamInv'
    <2> SUFFICES ASSUME NEW s \in Subs
                 PROVE  /\ \A i, j \in DOMAIN chan[s] :
                             i < j /\ by'[chan[s][i]] = by'[chan[s][j]] => chan[s][i] < chan[s][j]
                        /\ \A i \in DOMAIN seen[s], j \in DOMAIN chan[s] :
                             by'[seen[s][i]] = by'[chan[s][j]] => seen[s][i] < chan[s][j]
                        /\ \A j \in DOMAIN chan[s] : chan[s][j] > existing[s]
                        /\ sub[s] = "replay" => \A i \in DOMAIN seen[s] : seen[s][i] <= pos[s]
                        /\ \A i, j \in DOMAIN seen[s] :
                             i < j /\ by'[seen[s][i]] = by'[seen[s][j]] => seen[s][i] < seen[s][j]
      BY DEF StreamInv
    <2>1. /\ \A i \in DOMAIN seen[s] : seen[s][i] \in Events /\ by'[seen[s][i]] = by[seen[s][i]]
          /\ \A i \in DOMAIN chan[s] : chan[s][i] \in Events /\ by'[chan[s][i]] = by[chan[s][i]]
      BY DEF EventInv
    <2> QED  BY <2>1 DEF StreamInv
  <1>6. NothingLost'
    <2> SUFFICES ASSUME NEW s \in registered, NEW n \in Events'
                 PROVE  \/ n \in ToSet(seen[s]) \cup ToSet(chan[s]) \cup dropped[s]
                        \/ n \in pos[s] + 1 .. existing[s]
                        \/ \E d \in Emitters : item'[d] = n /\ s \in target'[d]
      BY DEF NothingLost
    <2>1. CASE n = Len(progress) + 1  BY <2>1
    <2>2. CASE n \in Events
      <3>1. ASSUME NEW d \in Emitters, item[d] = n, s \in target[d]
            PROVE  item'[d] = n /\ s \in target'[d]
        BY <3>1 DEF Idle
      <3> QED  BY <2>2, <3>1 DEF NothingLost
    <2> QED  BY <2>1, <2>2
  <1> QED  BY <1>1, <1>2, <1>3, <1>4, <1>5, <1>6

LEMMA QuietStream ==
  ASSUME StreamPart, UNCHANGED <<emitVars, subVars>>
  PROVE  StreamPart'
  BY DEF emitVars, subVars, StreamPart, HandlerInv, EventInv, ItemInv, FlightInv, StreamInv, NothingLost

LEMMA AppendToSet ==
  ASSUME NEW q \in Seq(Nat), NEW x \in Nat
  PROVE  ToSet(Append(q, x)) = ToSet(q) \cup {x}
  <1>1. /\ DOMAIN Append(q, x) = DOMAIN q \cup {Len(q) + 1}
        /\ \A i \in DOMAIN q : Append(q, x)[i] = q[i]
        /\ Append(q, x)[Len(q) + 1] = x
    BY AppendFacts
  <1> QED  BY <1>1 DEF ToSet

(* A send that finds room. *)
LEMMA DeliverStream ==
  ASSUME Typed, StreamPart, NEW e \in Emitters, NEW s \in registered, s \in target[e],
         target' = [target EXCEPT ![e] = @ \ {s}],
         Len(chan[s]) < Cap, chan' = [chan EXCEPT ![s] = Append(@, item[e])],
         UNCHANGED <<progress, by, item, registered, sub, existing, pos, seen, dropped>>
  PROVE  StreamPart'
  <1> USE DEF StreamPart
  <1> DEFINE q == chan[s]
             x == item[e]
  <1>1. /\ chan \in [Subs -> Seq(Nat)] /\ target \in [Emitters -> SUBSET Subs] /\ s \in Subs
        /\ item \in [Emitters -> 0 .. Len(progress)] /\ Len(progress) \in Nat
        /\ existing \in [Subs -> 0 .. Len(progress)]
    BY DEF Typed
  <1>2. x \in Events /\ by[x] = e /\ x > existing[s] /\ x \in Nat
    BY <1>1 DEF ItemInv
  <1>3. /\ target'[e] = target[e] \ {s} /\ \A d \in Emitters \ {e} : target'[d] = target[d]
        /\ chan'[s] = Append(q, x) /\ \A t \in Subs \ {s} : chan'[t] = chan[t]
    BY <1>1
  <1>4. /\ q \in Seq(Nat) /\ DOMAIN chan'[s] = 1 .. Len(q) + 1 /\ DOMAIN q = 1 .. Len(q)
        /\ Len(q) \in Nat /\ Len(chan'[s]) = Len(q) + 1
        /\ \A i \in DOMAIN q : chan'[s][i] = q[i]
        /\ chan'[s][Len(q) + 1] = x
    BY <1>1, <1>2, <1>3, AppendFacts
  <1>5. ToSet(chan'[s]) = ToSet(q) \cup {x}  BY <1>2, <1>3, <1>4, AppendToSet
  <1>6. /\ \A i \in DOMAIN seen[s] : by[seen[s][i]] = by[x] => seen[s][i] < x
        /\ \A i \in DOMAIN q : by[q[i]] = by[x] => q[i] < x
    BY <1>2 DEF FlightInv
  <1>7. Len(q) < Cap  OBVIOUS
  <1>8. q = chan[s] /\ x = item[e]  OBVIOUS
  <1> HIDE DEF q, x
  <1>9. HandlerInv'
    <2>1. Len(chan'[s]) <= Cap  BY <1>4, <1>7, StartAssumption
    <2>2. sub[s] \in {"replay", "live"}  BY DEF HandlerInv
    <2> QED  BY <1>3, <2>1, <2>2 DEF HandlerInv
  <1>10. EventInv'  BY <1>1, <1>2, <1>3, <1>4, <1>8 DEF EventInv
  <1>11. ItemInv'  BY <1>3 DEF ItemInv
  <1>12. FlightInv'
    <2> SUFFICES ASSUME NEW d \in Emitters, NEW t \in target'[d]
                 PROVE  /\ \A i \in DOMAIN seen[t] : by[seen[t][i]] = d => seen[t][i] < item[d]
                        /\ \A i \in DOMAIN chan'[t] : by[chan'[t][i]] = d => chan'[t][i] < item[d]
      BY DEF FlightInv
    <2>1. t \in target[d] /\ t \in Subs  BY <1>1, <1>3
    <2>2. CASE t = s
      <3>1. d # e  BY <1>3, <2>2
      <3>2. \A i \in DOMAIN q : by[q[i]] = d => q[i] < item[d]  BY <1>8, <2>1, <2>2 DEF FlightInv
      <3> QED  BY <1>2, <1>4, <2>1, <2>2, <3>1, <3>2 DEF FlightInv
    <2>3. CASE t # s  BY <1>3, <2>1, <2>3 DEF FlightInv
    <2> QED  BY <2>2, <2>3
  <1>13. StreamInv'
    <2> SUFFICES ASSUME NEW t \in Subs
                 PROVE  /\ \A i, j \in DOMAIN chan'[t] :
                             i < j /\ by[chan'[t][i]] = by[chan'[t][j]] => chan'[t][i] < chan'[t][j]
                        /\ \A i \in DOMAIN seen[t], j \in DOMAIN chan'[t] :
                             by[seen[t][i]] = by[chan'[t][j]] => seen[t][i] < chan'[t][j]
                        /\ \A j \in DOMAIN chan'[t] : chan'[t][j] > existing[t]
      BY DEF StreamInv
    <2>1. CASE t = s
      <3>1. \A i \in DOMAIN chan'[s] : i \in DOMAIN q \/ i = Len(q) + 1  BY <1>4
      <3>2. \A i, j \in DOMAIN q : i < j /\ by[q[i]] = by[q[j]] => q[i] < q[j]
        BY <1>1, <1>8 DEF StreamInv
      <3>3. \A i, j \in DOMAIN chan'[s] :
              i < j /\ by[chan'[s][i]] = by[chan'[s][j]] => chan'[s][i] < chan'[s][j]
        <4> SUFFICES ASSUME NEW i \in DOMAIN chan'[s], NEW j \in DOMAIN chan'[s], i < j,
                            by[chan'[s][i]] = by[chan'[s][j]]
                     PROVE  chan'[s][i] < chan'[s][j]
          OBVIOUS
        <4>1. i \in DOMAIN q  BY <1>4, <3>1
        <4> QED  BY <1>4, <1>6, <3>1, <3>2, <4>1
      <3>4. \A i \in DOMAIN seen[s], j \in DOMAIN chan'[s] :
              by[seen[s][i]] = by[chan'[s][j]] => seen[s][i] < chan'[s][j]
        <4>1. \A i \in DOMAIN seen[s], j \in DOMAIN q : by[seen[s][i]] = by[q[j]] => seen[s][i] < q[j]
          BY <1>1, <1>8 DEF StreamInv
        <4> QED  BY <1>4, <1>6, <3>1, <4>1
      <3>5. \A j \in DOMAIN chan'[s] : chan'[s][j] > existing[s]
        BY <1>1, <1>2, <1>4, <1>8, <3>1 DEF StreamInv
      <3> QED  BY <2>1, <3>3, <3>4, <3>5
    <2>2. CASE t # s  BY <1>3, <2>2 DEF StreamInv
    <2> QED  BY <2>1, <2>2
  <1>14. NothingLost'
    <2> SUFFICES ASSUME NEW t \in registered, NEW n \in Events
                 PROVE  \/ n \in ToSet(seen[t]) \cup ToSet(chan'[t]) \cup dropped[t]
                        \/ n \in pos[t] + 1 .. existing[t]
                        \/ \E d \in Emitters : item[d] = n /\ t \in target'[d]
      BY DEF NothingLost
    <2>0. t \in Subs  BY DEF Typed
    <2>1. CASE t = s
      <3>1. ASSUME NEW d \in Emitters, item[d] = n, s \in target[d]
            PROVE  n = x \/ s \in target'[d]
        BY <1>3, <1>8, <3>1
      <3> QED  BY <1>5, <1>8, <2>1, <3>1 DEF NothingLost
    <2>2. CASE t # s
      <3>1. ASSUME NEW d \in Emitters, t \in target[d] PROVE t \in target'[d]
        BY <1>3, <2>2, <3>1
      <3> QED  BY <1>3, <2>0, <2>2, <3>1 DEF NothingLost
    <2> QED  BY <2>1, <2>2
  <1> QED  BY <1>9, <1>10, <1>11, <1>12, <1>13, <1>14

(* A send that finds the channel full, or nobody who reads it. *)
LEMMA DropStream ==
  ASSUME Typed, StreamPart, NEW e \in Emitters, NEW s \in Subs, s \in target[e],
         target' = [target EXCEPT ![e] = @ \ {s}],
         \/ s \notin registered /\ UNCHANGED dropped
         \/ s \in registered /\ dropped' = [dropped EXCEPT ![s] = @ \cup {item[e]}],
         UNCHANGED <<progress, by, item, registered, sub, existing, pos, chan, seen>>
  PROVE  StreamPart'
  <1> USE DEF StreamPart
  <1>1. /\ dropped \in [Subs -> SUBSET Nat] /\ target \in [Emitters -> SUBSET Subs]
        /\ item \in [Emitters -> 0 .. Len(progress)] /\ Len(progress) \in Nat
        /\ registered \subseteq Subs
    BY DEF Typed
  <1>2. item[e] \in Events  BY <1>1 DEF ItemInv
  <1>3. /\ \A d \in Emitters : target'[d] \subseteq target[d]
        /\ \A d \in Emitters, t \in Subs : t \in target[d] /\ ~(d = e /\ t = s) => t \in target'[d]
        /\ \A t \in Subs : dropped[t] \subseteq dropped'[t]
        /\ \A t \in Subs : dropped'[t] \subseteq dropped[t] \cup {item[e]}
        /\ s \in registered => item[e] \in dropped'[s]
        /\ \A t \in Subs : t \notin registered => dropped'[t] = dropped[t]
    BY <1>1
  <1>4. HandlerInv'
    <2>1. \A t \in Subs : sub[t] \in {"idle", "ended"} => t \notin registered  BY DEF HandlerInv
    <2> QED  BY <1>3, <2>1 DEF HandlerInv
  <1>5. EventInv'  BY <1>2, <1>3 DEF EventInv
  <1>6. ItemInv'
    <2>1. \A d \in Emitters : target[d] = {} => target'[d] = {}  BY <1>3
    <2> QED  BY <1>3, <2>1 DEF ItemInv
  <1>7. FlightInv'  BY <1>3 DEF FlightInv
  <1>8. StreamInv'  BY DEF StreamInv
  <1>9. NothingLost'
    <2> SUFFICES ASSUME NEW t \in registered, NEW n \in Events
                 PROVE  \/ n \in ToSet(seen[t]) \cup ToSet(chan[t]) \cup dropped'[t]
                        \/ n \in pos[t] + 1 .. existing[t]
                        \/ \E d \in Emitters : item[d] = n /\ t \in target'[d]
      BY DEF NothingLost
    <2>1. ASSUME NEW d \in Emitters, item[d] = n, t \in target[d]
          PROVE  n \in dropped'[t] \/ t \in target'[d]
      BY <1>1, <1>3, <2>1
    <2> QED  BY <1>1, <1>3, <2>1 DEF NothingLost
  <1> QED  BY <1>4, <1>5, <1>6, <1>7, <1>8, <1>9

----------------------------------------------------------------------------
(* Steps of the handlers *)

LEMMA JoinStream ==
  ASSUME Typed, StreamPart, NEW s \in Subs, Join(s)
  PROVE  StreamPart'
  <1> USE DEF StreamPart, Join, emitVars
  <1>1. /\ existing \in [Subs -> 0 .. Len(progress)] /\ sub \in [Subs -> {"idle", "replay", "live", "ended"}]
        /\ registered \subseteq Subs /\ Len(progress) \in Nat
    BY DEF Typed
  <1>2. /\ existing'[s] = Len(progress) /\ sub'[s] = "replay" /\ registered' = registered \cup {s}
        /\ \A t \in Subs \ {s} : existing'[t] = existing[t] /\ sub'[t] = sub[t]
    BY <1>1
  <1>3. pos[s] = 0 /\ chan[s] = <<>> /\ seen[s] = <<>> /\ dropped[s] = {} /\ sub[s] = "idle"
    BY DEF HandlerInv
  <1>4. \A d \in Emitters : s \notin target[d]  BY <1>3 DEF ItemInv
  <1>5. DOMAIN chan[s] = {} /\ DOMAIN seen[s] = {}  BY <1>3
  <1>6. HandlerInv'
    <2>1. Len(chan[s]) <= Cap  BY DEF HandlerInv
    <2> QED  BY <1>1, <1>2, <1>3, <2>1 DEF HandlerInv
  <1>7. EventInv'  BY DEF EventInv
  <1>8. ItemInv'
    <2>1. \A d \in Emitters : \A t \in target[d] : t \in Subs \ {s}  BY <1>4 DEF Typed
    <2> QED  BY <1>2, <2>1 DEF ItemInv
  <1>9. FlightInv'  BY DEF FlightInv
  <1>10. StreamInv'  BY <1>2, <1>5 DEF StreamInv
  <1>11. NothingLost'
    <2> SUFFICES ASSUME NEW t \in registered', NEW n \in Events
                 PROVE  \/ n \in ToSet(seen[t]) \cup ToSet(chan[t]) \cup dropped[t]
                        \/ n \in pos[t] + 1 .. existing'[t]
                        \/ \E d \in Emitters : item[d] = n /\ t \in target[d]
      BY DEF NothingLost
    <2>1. CASE t = s  BY <1>1, <1>2, <1>3, <2>1
    <2>2. CASE t # s  BY <1>1, <1>2, <2>2 DEF NothingLost
    <2> QED  BY <2>1, <2>2
  <1> QED  BY <1>6, <1>7, <1>8, <1>9, <1>10, <1>11

(* The end of a handler, which leaves nothing of the browser behind. *)
LEMMA EndStream ==
  ASSUME Typed, StreamPart, NEW s \in Subs, End(s), UNCHANGED emitVars
  PROVE  StreamPart'
  <1> USE DEF StreamPart, emitVars
  <1>1. /\ sub'[s] = "ended" /\ registered' = registered \ {s}
        /\ existing'[s] = 0 /\ pos'[s] = 0 /\ chan'[s] = <<>> /\ seen'[s] = <<>> /\ dropped'[s] = {}
        /\ \A t \in Subs \ {s} : /\ sub'[t] = sub[t] /\ existing'[t] = existing[t]
                                 /\ pos'[t] = pos[t] /\ chan'[t] = chan[t]
                                 /\ seen'[t] = seen[t] /\ dropped'[t] = dropped[t]
    BY DEF Typed, End
  <1>2. DOMAIN chan'[s] = {} /\ DOMAIN seen'[s] = {} /\ Len(chan'[s]) = 0  BY <1>1
  <1>3. HandlerInv'  BY <1>1, <1>2, StartAssumption DEF HandlerInv
  <1>4. EventInv'  BY <1>1, <1>2 DEF EventInv
  <1>5. \A d \in Emitters : \A t \in target[d] : t \in Subs  BY DEF Typed
  <1>6. ItemInv'
    <2>1. \A d \in Emitters : s \in target[d] => item[d] # 0 /\ item[d] \in 0 .. Len(progress)
      BY DEF ItemInv, Typed
    <2>2. \A d \in Emitters : s \in target[d] => 0 < item[d]  BY <2>1
    <2> QED  BY <1>1, <1>5, <2>2 DEF ItemInv
  <1>7. FlightInv'  BY <1>1, <1>2, <1>5 DEF FlightInv
  <1>8. StreamInv'  BY <1>1, <1>2 DEF StreamInv
  <1>9. NothingLost'
    <2>1. registered' \subseteq Subs \ {s} /\ registered' \subseteq registered  BY <1>1 DEF Typed
    <2> QED  BY <1>1, <2>1 DEF NothingLost
  <1> QED  BY <1>3, <1>4, <1>6, <1>7, <1>8, <1>9

LEMMA ReplayStream ==
  ASSUME Typed, StreamPart, NEW s \in Subs, Replay(s)
  PROVE  StreamPart'
  <1> USE DEF StreamPart
  <1> DEFINE n == pos[s] + 1
             q == seen[s]
  <1>1. /\ seen \in [Subs -> Seq(Nat)] /\ pos \in [Subs -> 0 .. Len(progress)]
        /\ existing \in [Subs -> 0 .. Len(progress)] /\ Len(progress) \in Nat
        /\ sub \in [Subs -> {"idle", "replay", "live", "ended"}] /\ registered \subseteq Subs
    BY DEF Typed
  <1>2. sub[s] = "replay"  BY DEF Replay
  <1>3. CASE /\ n <= existing[s] /\ ~Final(n)
             /\ Shown(s, n) /\ pos' = [pos EXCEPT ![s] = n]
             /\ UNCHANGED <<registered, sub, existing, chan, dropped, emitVars>>
    <2> USE DEF emitVars
    <2>1. n \in Nat /\ n \in Events  BY <1>1, <1>3
    <2>2. /\ seen'[s] = Append(q, n) /\ pos'[s] = n
          /\ \A t \in Subs \ {s} : seen'[t] = seen[t] /\ pos'[t] = pos[t]
      BY <1>1, <1>3 DEF Shown
    <2>3. /\ DOMAIN seen'[s] = 1 .. Len(q) + 1 /\ DOMAIN q = 1 .. Len(q) /\ Len(q) \in Nat
          /\ \A i \in DOMAIN q : seen'[s][i] = q[i]
          /\ seen'[s][Len(q) + 1] = n
          /\ ToSet(seen'[s]) = ToSet(q) \cup {n}
      BY <1>1, <2>1, <2>2, AppendFacts, AppendToSet
    <2>4. n = pos[s] + 1 /\ q = seen[s] /\ n <= existing[s]  BY <1>3
    <2> HIDE DEF n, q
    <2>5. \A i \in DOMAIN seen'[s] : i \in DOMAIN q \/ i = Len(q) + 1  BY <2>3
    <2>6. HandlerInv'  BY <1>2, <1>3, <2>2, <2>4 DEF HandlerInv
    <2>7. EventInv'  BY <1>3, <2>1, <2>2, <2>3, <2>4, <2>5 DEF EventInv
    <2>8. ItemInv'  BY <1>3 DEF ItemInv
    <2>9. FlightInv'
      <3>1. ASSUME NEW d \in Emitters, s \in target[d]
            PROVE  \A i \in DOMAIN seen'[s] : by[seen'[s][i]] = d => seen'[s][i] < item[d]
        <4>1. existing[s] < item[d] /\ item[d] \in Nat  BY <3>1 DEF ItemInv, Typed
        <4>2. \A i \in DOMAIN q : by[q[i]] = d => q[i] < item[d]  BY <2>4, <3>1 DEF FlightInv
        <4>3. n < item[d]
          <5>1. existing[s] \in Nat  BY <1>1
          <5> QED  BY <2>1, <2>4, <4>1, <5>1
        <4> QED  BY <2>3, <2>5, <4>2, <4>3
      <3>2. \A d \in Emitters : \A t \in target[d] : t \in Subs  BY DEF Typed
      <3> SUFFICES ASSUME NEW d \in Emitters, NEW t \in target[d]
                   PROVE  /\ \A i \in DOMAIN seen'[t] : by[seen'[t][i]] = d => seen'[t][i] < item[d]
                          /\ \A i \in DOMAIN chan[t] : by[chan[t][i]] = d => chan[t][i] < item[d]
        BY <1>3 DEF FlightInv
      <3>3. CASE t = s  BY <3>1, <3>3 DEF FlightInv
      <3>4. CASE t # s  BY <2>2, <3>2, <3>4 DEF FlightInv
      <3> QED  BY <3>3, <3>4
    <2>10. StreamInv'
      <3>1. \A i \in DOMAIN q : q[i] < n /\ q[i] \in Nat
        <4>1. \A i \in DOMAIN q : q[i] <= pos[s] /\ q[i] \in Nat  BY <1>1, <1>2, <2>4 DEF StreamInv
        <4> QED  BY <1>1, <2>4, <4>1
      <3>2. \A j \in DOMAIN chan[s] : n < chan[s][j]
        <4>1. \A j \in DOMAIN chan[s] : chan[s][j] > existing[s] /\ chan[s][j] \in Nat
          BY DEF StreamInv, Typed
        <4> QED  BY <1>1, <2>1, <2>4, <4>1
      <3>3. \A i, j \in DOMAIN q : i < j /\ by[q[i]] = by[q[j]] => q[i] < q[j]
        BY <2>4 DEF StreamInv
      <3>4. \A i, j \in DOMAIN seen'[s] :
              i < j /\ by[seen'[s][i]] = by[seen'[s][j]] => seen'[s][i] < seen'[s][j]
        <4> SUFFICES ASSUME NEW i \in DOMAIN seen'[s], NEW j \in DOMAIN seen'[s], i < j,
                            by[seen'[s][i]] = by[seen'[s][j]]
                     PROVE  seen'[s][i] < seen'[s][j]
          OBVIOUS
        <4>1. i \in DOMAIN q  BY <2>3, <2>5
        <4> QED  BY <2>3, <2>5, <3>1, <3>3, <4>1
      <3>5. \A i \in DOMAIN seen'[s], j \in DOMAIN chan[s] :
              by[seen'[s][i]] = by[chan[s][j]] => seen'[s][i] < chan[s][j]
        <4>1. \A i \in DOMAIN q, j \in DOMAIN chan[s] : by[q[i]] = by[chan[s][j]] => q[i] < chan[s][j]
          BY <2>4 DEF StreamInv
        <4> QED  BY <2>3, <2>5, <3>2, <4>1
      <3>6. \A i \in DOMAIN seen'[s] : seen'[s][i] <= n  BY <2>1, <2>3, <2>5, <3>1
      <3> SUFFICES ASSUME NEW t \in Subs
                   PROVE  /\ \A i \in DOMAIN seen'[t], j \in DOMAIN chan[t] :
                               by[seen'[t][i]] = by[chan[t][j]] => seen'[t][i] < chan[t][j]
                          /\ sub[t] = "replay" => \A i \in DOMAIN seen'[t] : seen'[t][i] <= pos'[t]
                          /\ \A i, j \in DOMAIN seen'[t] :
                               i < j /\ by[seen'[t][i]] = by[seen'[t][j]] => seen'[t][i] < seen'[t][j]
        BY <1>3 DEF StreamInv
      <3>7. CASE t = s  BY <2>2, <3>4, <3>5, <3>6, <3>7
      <3>8. CASE t # s  BY <2>2, <3>8 DEF StreamInv
      <3> QED  BY <3>7, <3>8
    <2>11. NothingLost'
      <3> SUFFICES ASSUME NEW t \in registered, NEW m \in Events
                   PROVE  \/ m \in ToSet(seen'[t]) \cup ToSet(chan[t]) \cup dropped[t]
                          \/ m \in pos'[t] + 1 .. existing[t]
                          \/ \E d \in Emitters : item[d] = m /\ t \in target[d]
        BY <1>3 DEF NothingLost
      <3>1. CASE t = s
        <4>1. m \in pos[s] + 1 .. existing[s] => m = n \/ m \in pos'[s] + 1 .. existing[s]
          BY <1>1, <2>1, <2>2, <2>4
        <4> QED  BY <2>3, <2>4, <3>1, <4>1 DEF NothingLost
      <3>2. CASE t # s  BY <1>1, <2>2, <3>2 DEF NothingLost
      <3> QED  BY <3>1, <3>2
    <2> QED  BY <2>6, <2>7, <2>8, <2>9, <2>10, <2>11
  <1>4. CASE End(s) /\ UNCHANGED emitVars  BY <1>4, EndStream
  <1>5. CASE /\ n > existing[s]
             /\ sub' = [sub EXCEPT ![s] = "live"]
             /\ UNCHANGED <<registered, existing, pos, chan, seen, dropped, emitVars>>
    <2> USE DEF emitVars
    <2>1. sub'[s] = "live" /\ \A t \in Subs \ {s} : sub'[t] = sub[t]  BY <1>1, <1>5
    <2>2. HandlerInv'  BY <1>2, <1>5, <2>1 DEF HandlerInv
    <2>3. EventInv' /\ FlightInv' /\ NothingLost'  BY <1>5 DEF EventInv, FlightInv, NothingLost
    <2>4. ItemInv'
      <3>1. \A t \in Subs : sub[t] # "idle" => sub'[t] # "idle"  BY <2>1
      <3>2. \A d \in Emitters : \A t \in target[d] : t \in Subs  BY DEF Typed
      <3> QED  BY <1>5, <3>1, <3>2 DEF ItemInv
    <2>5. StreamInv'
      <3>1. \A t \in Subs : sub'[t] = "replay" => sub[t] = "replay"  BY <2>1
      <3> QED  BY <1>5, <3>1 DEF StreamInv
    <2> QED  BY <2>2, <2>3, <2>4, <2>5
  <1> QED  BY <1>3, <1>4, <1>5 DEF Replay

LEMMA ReceiveStream ==
  ASSUME Typed, StreamPart, NEW s \in Subs, Receive(s)
  PROVE  StreamPart'
  <1> USE DEF StreamPart
  <1> DEFINE q == seen[s]
             c == chan[s]
             x == Head(c)
             r == Tail(c)
  <1>1. CASE End(s) /\ UNCHANGED emitVars  BY <1>1, EndStream
  <1>2. CASE /\ Shown(s, x) /\ chan' = [chan EXCEPT ![s] = Tail(@)]
             /\ UNCHANGED <<registered, sub, existing, pos, dropped, emitVars>>
    <2> USE DEF emitVars
    <2>1. /\ seen \in [Subs -> Seq(Nat)] /\ chan \in [Subs -> Seq(Nat)] /\ q \in Seq(Nat)
          /\ c \in Seq(Nat) /\ c # <<>> /\ sub[s] = "live"
      BY DEF Typed, Receive
    <2>2. /\ seen'[s] = Append(q, x) /\ chan'[s] = r
          /\ \A t \in Subs \ {s} : seen'[t] = seen[t] /\ chan'[t] = chan[t]
      BY <1>2, <2>1 DEF Shown
    <2>3. /\ Len(c) \in Nat \ {0} /\ DOMAIN c = 1 .. Len(c)
          /\ Len(r) = Len(c) - 1 /\ DOMAIN r = 1 .. Len(c) - 1
          /\ \A i \in DOMAIN r : r[i] = c[i + 1] /\ i + 1 \in DOMAIN c /\ i \in Nat /\ 1 < i + 1
          /\ x = c[1] /\ x \in Nat
      BY <2>1, TailFacts
    <2>4. /\ DOMAIN seen'[s] = 1 .. Len(q) + 1 /\ DOMAIN q = 1 .. Len(q) /\ Len(q) \in Nat
          /\ \A i \in DOMAIN q : seen'[s][i] = q[i]
          /\ seen'[s][Len(q) + 1] = x
          /\ ToSet(seen'[s]) = ToSet(q) \cup {x}
      BY <2>1, <2>2, <2>3, AppendFacts, AppendToSet
    <2>5. q = seen[s] /\ c = chan[s]  OBVIOUS
    <2>6. /\ Len(c) \in Nat \ {0} /\ DOMAIN c = 1 .. Len(c)
          /\ Len(r) = Len(c) - 1 /\ DOMAIN r = 1 .. Len(c) - 1
      BY <2>3
    <2>6a. \A i \in DOMAIN r : r[i] = c[i + 1] /\ i + 1 \in DOMAIN c /\ i \in Nat /\ 1 < i + 1
      BY <2>3
    <2>6b. x = c[1] /\ x \in Nat  BY <2>3
    <2> HIDE DEF q, c, x, r
    <2>7. \A i \in DOMAIN seen'[s] : i \in DOMAIN q \/ i = Len(q) + 1  BY <2>4
    <2>8. 1 \in DOMAIN c  BY <2>6
    <2>9. ToSet(c) \subseteq {x} \cup ToSet(r)
      <3> SUFFICES ASSUME NEW i \in DOMAIN c PROVE c[i] = x \/ \E j \in DOMAIN r : r[j] = c[i]
        BY DEF ToSet
      <3>1. CASE i = 1  BY <2>6b, <3>1
      <3>2. CASE i # 1
        <4>1. i - 1 \in DOMAIN r /\ (i - 1) + 1 = i  BY <2>6, <3>2
        <4> QED  BY <2>6a, <4>1
      <3> QED  BY <3>1, <3>2
    <2>10. HandlerInv'
      <3>1. Len(r) <= Cap
        <4>1. Len(c) <= Cap  BY <2>5 DEF HandlerInv
        <4> QED  BY <2>6, <4>1, StartAssumption
      <3> QED  BY <1>2, <2>1, <2>2, <3>1 DEF HandlerInv
    <2>11. EventInv'
      <3>1. /\ \A i \in DOMAIN q : q[i] \in Events
            /\ \A i \in DOMAIN c : c[i] \in Events
        BY <2>5 DEF EventInv
      <3>2. /\ \A i \in DOMAIN seen'[s] : seen'[s][i] \in Events
            /\ \A i \in DOMAIN r : r[i] \in Events
        BY <2>4, <2>6a, <2>6b, <2>7, <2>8, <3>1
      <3> SUFFICES ASSUME NEW t \in Subs
                   PROVE  /\ \A i \in DOMAIN chan'[t] : chan'[t][i] \in Events
                          /\ \A i \in DOMAIN seen'[t] : seen'[t][i] \in Events
        BY <1>2 DEF EventInv
      <3>3. CASE t = s  BY <2>2, <3>2, <3>3
      <3>4. CASE t # s  BY <2>2, <3>4 DEF EventInv
      <3> QED  BY <3>3, <3>4
    <2>12. ItemInv'  BY <1>2 DEF ItemInv
    <2>13. FlightInv'
      <3>1. ASSUME NEW d \in Emitters, s \in target[d]
            PROVE  /\ \A i \in DOMAIN seen'[s] : by[seen'[s][i]] = d => seen'[s][i] < item[d]
                   /\ \A i \in DOMAIN r : by[r[i]] = d => r[i] < item[d]
        <4>1. /\ \A i \in DOMAIN q : by[q[i]] = d => q[i] < item[d]
              /\ \A i \in DOMAIN c : by[c[i]] = d => c[i] < item[d]
          BY <2>5, <3>1 DEF FlightInv
        <4> QED  BY <2>4, <2>6a, <2>6b, <2>7, <2>8, <4>1
      <3>2. \A d \in Emitters : \A t \in target[d] : t \in Subs  BY DEF Typed
      <3> SUFFICES ASSUME NEW d \in Emitters, NEW t \in target[d]
                   PROVE  /\ \A i \in DOMAIN seen'[t] : by[seen'[t][i]] = d => seen'[t][i] < item[d]
                          /\ \A i \in DOMAIN chan'[t] : by[chan'[t][i]] = d => chan'[t][i] < item[d]
        BY <1>2 DEF FlightInv
      <3>3. CASE t = s  BY <2>2, <3>1, <3>3
      <3>4. CASE t # s  BY <2>2, <3>2, <3>4 DEF FlightInv
      <3> QED  BY <3>3, <3>4
    <2>14. StreamInv'
      <3>1. /\ \A i, j \in DOMAIN c : i < j /\ by[c[i]] = by[c[j]] => c[i] < c[j]
            /\ \A i \in DOMAIN q, j \in DOMAIN c : by[q[i]] = by[c[j]] => q[i] < c[j]
            /\ \A j \in DOMAIN c : c[j] > existing[s]
            /\ \A i, j \in DOMAIN q : i < j /\ by[q[i]] = by[q[j]] => q[i] < q[j]
        BY <2>5 DEF StreamInv
      <3>2. \A i, j \in DOMAIN r :
              i < j /\ by[r[i]] = by[r[j]] => r[i] < r[j]
        <4>1. \A i, j \in DOMAIN r : i < j => i + 1 < j + 1  BY <2>6
        <4> QED  BY <2>6a, <3>1, <4>1
      <3>3. \A j \in DOMAIN r : by[x] = by[r[j]] => x < r[j]
        BY <2>6a, <2>6b, <2>8, <3>1
      <3>4. \A i \in DOMAIN seen'[s], j \in DOMAIN r :
              by[seen'[s][i]] = by[r[j]] => seen'[s][i] < r[j]
        BY <2>4, <2>6a, <2>7, <3>1, <3>3
      <3>5. \A j \in DOMAIN r : r[j] > existing[s]  BY <2>6a, <3>1
      <3>6. \A i, j \in DOMAIN seen'[s] :
              i < j /\ by[seen'[s][i]] = by[seen'[s][j]] => seen'[s][i] < seen'[s][j]
        <4> SUFFICES ASSUME NEW i \in DOMAIN seen'[s], NEW j \in DOMAIN seen'[s], i < j,
                            by[seen'[s][i]] = by[seen'[s][j]]
                     PROVE  seen'[s][i] < seen'[s][j]
          OBVIOUS
        <4>1. i \in DOMAIN q  BY <2>4, <2>7
        <4> QED  BY <2>4, <2>6b, <2>7, <2>8, <3>1, <4>1
      <3> SUFFICES ASSUME NEW t \in Subs
                   PROVE  /\ \A i, j \in DOMAIN chan'[t] :
                               i < j /\ by[chan'[t][i]] = by[chan'[t][j]] => chan'[t][i] < chan'[t][j]
                          /\ \A i \in DOMAIN seen'[t], j \in DOMAIN chan'[t] :
                               by[seen'[t][i]] = by[chan'[t][j]] => seen'[t][i] < chan'[t][j]
                          /\ \A j \in DOMAIN chan'[t] : chan'[t][j] > existing[t]
                          /\ sub[t] = "replay" => \A i \in DOMAIN seen'[t] : seen'[t][i] <= pos[t]
                          /\ \A i, j \in DOMAIN seen'[t] :
                               i < j /\ by[seen'[t][i]] = by[seen'[t][j]] => seen'[t][i] < seen'[t][j]
        BY <1>2 DEF StreamInv
      <3>7. CASE t = s  BY <2>1, <2>2, <3>2, <3>4, <3>5, <3>6, <3>7
      <3>8. CASE t # s  BY <2>2, <3>8 DEF StreamInv
      <3> QED  BY <3>7, <3>8
    <2>15. NothingLost'
      <3> SUFFICES ASSUME NEW t \in registered, NEW m \in Events
                   PROVE  \/ m \in ToSet(seen'[t]) \cup ToSet(chan'[t]) \cup dropped[t]
                          \/ m \in pos[t] + 1 .. existing[t]
                          \/ \E d \in Emitters : item[d] = m /\ t \in target[d]
        BY <1>2 DEF NothingLost
      <3>1. CASE t = s  BY <2>2, <2>4, <2>5, <2>9, <3>1 DEF NothingLost
      <3>2. CASE t # s
        <4>1. t \in Subs  BY DEF Typed
        <4> QED  BY <2>2, <3>2, <4>1 DEF NothingLost
      <3> QED  BY <3>1, <3>2
    <2> QED  BY <2>10, <2>11, <2>12, <2>13, <2>14, <2>15
  <1> QED  BY <1>1, <1>2 DEF Receive

----------------------------------------------------------------------------
(* One step of each kind *)

(* A step that records an event: what remains to be shown of it. *)
LEMMA RecordStep ==
  ASSUME IInv, NEW e \in Emitters, NEW kind \in Kinds, Idle(e), Record(e, kind),
         UNCHANGED <<subVars, poolVars>>,
         at' \in Places, stage' \in DOMAIN Stages, lang' \in [Langs -> {"none", "building", "built"}],
         reports' \in [Emitters -> 0 .. MaxReports],
         \/ at' = at
         \/ at \in Opening /\ at' = "work"
         \/ at = "work" /\ at' = "failed"
         \/ at = "made" /\ at' = "publish"
         \/ at \in Opened /\ at' \in Opened /\ (at' \in {"last", "done"} => ready \/ closed),
         kind = "ready" => ready \/ closed
  PROVE  IInv'
  <1> USE DEF IInv
  <1>1. /\ Recorded(e, kind)
        /\ progress' \in Seq(Kinds) /\ by' \in Seq(Emitters) /\ Len(by') = Len(progress')
        /\ item' \in [Emitters -> 0 .. Len(progress')] /\ target' \in [Emitters -> SUBSET Subs]
    BY RecordFacts
  <1>2. StreamPart'  BY <1>1, RecordStream
  <1>3. Typed'
    <2>1. Len(progress) \in Nat /\ Len(progress') = Len(progress) + 1  BY <1>1 DEF Recorded
    <2>2. existing' \in [Subs -> 0 .. Len(progress')] /\ pos' \in [Subs -> 0 .. Len(progress')]
      <3>1. existing \in [Subs -> 0 .. Len(progress)] /\ pos \in [Subs -> 0 .. Len(progress)]  BY DEF Typed
      <3>2. 0 .. Len(progress) \subseteq 0 .. Len(progress')  BY <2>1
      <3>3. existing' = existing /\ pos' = pos  BY DEF subVars
      <3> QED  BY <3>1, <3>2, <3>3
    <2> QED  BY <1>1, <2>2 DEF Typed, subVars, poolVars
  <1>4. Flags'  BY DEF Flags, poolVars
  <1>5. PoolInv'
    <2>1. \A n \in Events' : progress'[n] = "ready" => ready \/ closed
      BY <1>1 DEF Recorded, PoolInv
    <2>2. /\ at' \in Opening => at \in Opening
          /\ at' \in {"made", "publish"} => at \in {"made", "publish"}
          /\ at' \in Opened => at \in Opened
          /\ at' \notin Opened => at \notin Opened
          /\ at' \in {"last", "done"} => ready \/ closed
      BY DEF Opening, Opened, PoolInv
    <2> QED  BY <2>1, <2>2 DEF PoolInv, poolVars
  <1> QED  BY <1>2, <1>3, <1>4, <1>5

(* A step of backgroundInit that records nothing, or of Close. *)
LEMMA QuietStep ==
  ASSUME IInv, UNCHANGED <<lang, reports, emitVars, subVars>>,
         at' \in Places, stage' \in DOMAIN Stages, pool' \in {"none", "open", "closed"}, Flags'
  PROVE  Typed' /\ Flags' /\ StreamPart'
  <1>1. StreamPart'  BY QuietStream DEF IInv
  <1>2. Typed'  BY DEF IInv, Typed, emitVars, subVars
  <1> QED  BY <1>1, <1>2

LEMMA StartingInv == ASSUME IInv, Starting PROVE IInv'
  <1>0. Typed /\ Flags /\ PoolInv /\ "main" \in Emitters  BY DEF IInv
  <1>1. CASE Announce
    <2> USE <1>1 DEF Announce
    <2>1. lang' = lang /\ reports' = reports /\ stage' = stage /\ at = "announce" /\ at' = "work"  OBVIOUS
    <2>2. /\ at' \in Places /\ stage' \in DOMAIN Stages /\ lang' \in [Langs -> {"none", "building", "built"}]
          /\ reports' \in [Emitters -> 0 .. MaxReports]
      BY <1>0, <2>1 DEF Typed
    <2>3. at \in Opening  BY <2>1 DEF Opening
    <2>4. Idle("main") /\ Record("main", "info") /\ UNCHANGED <<subVars, poolVars>>  OBVIOUS
    <2> QED  BY <1>0, <2>1, <2>2, <2>3, <2>4, RecordStep
  <1>2. CASE Report
    <2> USE <1>2 DEF Report
    <2>1. lang' = lang /\ stage' = stage /\ at' = at  OBVIOUS
    <2>2. reports' \in [Emitters -> 0 .. MaxReports]
      <3>1. reports \in [Emitters -> 0 .. MaxReports] /\ MaxReports \in Nat  BY <1>0, StartAssumption DEF Typed
      <3> QED  BY <3>1
    <2>3. at' \in Places /\ stage' \in DOMAIN Stages /\ lang' \in [Langs -> {"none", "building", "built"}]
      BY <1>0, <2>1 DEF Typed
    <2>4. Idle("main") /\ Record("main", "info") /\ UNCHANGED <<subVars, poolVars>>  OBVIOUS
    <2> QED  BY <1>0, <2>1, <2>2, <2>3, <2>4, RecordStep
  <1>3. CASE Succeed
    <2> USE <1>3 DEF Succeed
    <2>1. stage \in 1 .. 4 /\ Len(Stages) = 4 /\ DOMAIN Stages = 1 .. 4  BY <1>0 DEF Typed
    <2>2. /\ at' \in Places /\ stage' \in DOMAIN Stages /\ pool' \in {"none", "open", "closed"}
          /\ UNCHANGED <<ready, held, closed, early, exited, progress>> /\ at = "work"
          /\ \/ at' = "made" /\ pool' = "open"
             \/ at' = "announce" /\ pool' = pool
      BY <1>0, <2>1 DEF Typed, emitVars
    <2>3. Flags'  BY <1>0, <2>2 DEF Flags
    <2>4. Typed' /\ Flags' /\ StreamPart'  BY <2>2, <2>3, QuietStep
    <2>5. PoolInv'  BY <1>0, <2>2 DEF PoolInv, Opening, Opened
    <2> QED  BY <2>4, <2>5 DEF IInv
  <1>4. CASE Fail
    <2> USE <1>4 DEF Fail
    <2>1. lang' = lang /\ reports' = reports /\ stage' = stage /\ at = "work" /\ at' = "failed"  OBVIOUS
    <2>2. /\ at' \in Places /\ stage' \in DOMAIN Stages /\ lang' \in [Langs -> {"none", "building", "built"}]
          /\ reports' \in [Emitters -> 0 .. MaxReports]
      BY <1>0, <2>1 DEF Typed
    <2>3. Idle("main") /\ Record("main", "error") /\ UNCHANGED <<subVars, poolVars>>  OBVIOUS
    <2> QED  BY <1>0, <2>1, <2>2, <2>3, RecordStep
  <1>5. CASE Publish
    <2> USE <1>5 DEF Publish
    <2>1. /\ at' = "normalizer" /\ at = "publish" /\ held' = TRUE
          /\ UNCHANGED <<stage, ready, pool, closed, early, exited, progress>>
      BY DEF emitVars
    <2>2. Flags'  BY <1>0, <2>1 DEF Flags
    <2>3. Typed' /\ Flags' /\ StreamPart'  BY <1>0, <2>1, <2>2, QuietStep DEF Typed
    <2>4. PoolInv'  BY <1>0, <2>1 DEF PoolInv, Opening, Opened
    <2> QED  BY <2>3, <2>4 DEF IInv
  <1>6. CASE StartLangs
    <2> USE <1>6 DEF StartLangs
    <2>1. /\ reports' = reports /\ stage' = stage /\ at = "normalizer" /\ at' = "wait"
          /\ lang' \in [Langs -> {"none", "building", "built"}]
      OBVIOUS
    <2> QED  BY <1>0, <2>1, RecordStep DEF Typed, Opened
  <1>7. CASE LangsBuilt
    <2> USE <1>7 DEF LangsBuilt
    <2>1. lang' = lang /\ reports' = reports /\ stage' = stage /\ at = "wait" /\ at' = "ready"  OBVIOUS
    <2> QED  BY <1>0, <2>1, RecordStep DEF Typed, Opened
  <1>8. CASE SetReady
    <2> USE <1>8 DEF SetReady
    <2>1. /\ at' = "last" /\ at = "ready" /\ ready' = TRUE
          /\ UNCHANGED <<stage, held, pool, closed, early, exited, progress>>
      BY DEF emitVars
    <2>2. Flags'  BY <1>0, <2>1 DEF Flags
    <2>3. Typed' /\ Flags' /\ StreamPart'  BY <1>0, <2>1, <2>2, QuietStep DEF Typed
    <2>4. PoolInv'  BY <1>0, <2>1 DEF PoolInv, Opening, Opened
    <2> QED  BY <2>3, <2>4 DEF IInv
  <1>9. CASE AnnounceReady
    <2> USE <1>9 DEF AnnounceReady
    <2>1. lang' = lang /\ reports' = reports /\ stage' = stage /\ at = "last" /\ at' = "done"  OBVIOUS
    <2>2. ready \/ closed  BY <1>0 DEF PoolInv
    <2> QED  BY <1>0, <2>1, <2>2, RecordStep DEF Typed, Opened
  <1>10. CASE AnnouncePool
    <2> USE <1>10 DEF AnnouncePool
    <2>1. lang' = lang /\ reports' = reports /\ stage' = stage /\ at = "made" /\ at' = "publish"  OBVIOUS
    <2>2. /\ at' \in Places /\ stage' \in DOMAIN Stages /\ lang' \in [Langs -> {"none", "building", "built"}]
          /\ reports' \in [Emitters -> 0 .. MaxReports]
      BY <1>0, <2>1 DEF Typed
    <2>3. Idle("main") /\ Record("main", "info") /\ UNCHANGED <<subVars, poolVars>>  OBVIOUS
    <2> QED  BY <1>0, <2>1, <2>2, <2>3, RecordStep
  <1> QED  BY <1>1, <1>2, <1>3, <1>4, <1>5, <1>6, <1>7, <1>8, <1>9, <1>10 DEF Starting

LEMMA BuildInv == ASSUME IInv, NEW l \in Langs, Build(l) PROVE IInv'
  <1>0. Typed /\ l \in Emitters  BY DEF IInv
  <1>1. /\ at' = at /\ stage' = stage /\ lang' \in [Langs -> {"none", "building", "built"}]
        /\ UNCHANGED <<subVars, poolVars>> /\ Idle(l) /\ Record(l, "info")
    BY <1>0 DEF Build, Typed
  <1>2. reports' \in [Emitters -> 0 .. MaxReports]
    <2>1. reports \in [Emitters -> 0 .. MaxReports] /\ MaxReports \in Nat  BY <1>0, StartAssumption DEF Typed
    <2>2. \/ reports[l] < MaxReports /\ reports' = [reports EXCEPT ![l] = @ + 1]
          \/ reports' = reports
      BY DEF Build
    <2> QED  BY <1>0, <2>1, <2>2
  <1>3. at' \in Places /\ stage' \in DOMAIN Stages  BY <1>0, <1>1 DEF Typed
  <1> QED  BY <1>0, <1>1, <1>2, <1>3, RecordStep

(* A step of a handler, or a send: neither backgroundInit nor the pool is touched. *)
LEMMA HandlerPool ==
  ASSUME Flags, PoolInv, UNCHANGED <<initVars, progress, poolVars>>
  PROVE  Flags' /\ PoolInv'
  <1>1. UNCHANGED <<at, progress, ready, pool, held, closed, early, exited>>  BY DEF initVars, poolVars
  <1>2. Flags'  BY <1>1 DEF Flags
  <1>3. PoolInv'  BY <1>1 DEF PoolInv
  <1> QED  BY <1>2, <1>3

LEMMA SendInv == ASSUME IInv, NEW e \in Emitters, NEW s \in Subs, Send(e, s) PROVE IInv'
  <1>0. Typed /\ StreamPart  BY DEF IInv
  <1>1. /\ s \in target[e] /\ target' = [target EXCEPT ![e] = @ \ {s}]
        /\ UNCHANGED <<progress, by, item, registered, sub, existing, pos, seen>>
        /\ UNCHANGED <<initVars, poolVars>>
    BY DEF Send
  <1>2. /\ chan \in [Subs -> Seq(Nat)] /\ target \in [Emitters -> SUBSET Subs] /\ item[e] \in Nat
        /\ dropped \in [Subs -> SUBSET Nat]
    BY <1>0 DEF Typed
  <1>3. target' \in [Emitters -> SUBSET Subs]  BY <1>1, <1>2
  <1>4. StreamPart' /\ chan' \in [Subs -> Seq(Nat)] /\ dropped' \in [Subs -> SUBSET Nat]
    <2>1. CASE /\ s \in registered /\ Len(chan[s]) < Cap
               /\ chan' = [chan EXCEPT ![s] = Append(@, item[e])] /\ dropped' = dropped
      <3>1. StreamPart'  BY <1>0, <1>1, <2>1, DeliverStream
      <3>2. chan' \in [Subs -> Seq(Nat)]
        <4>1. Append(chan[s], item[e]) \in Seq(Nat)  BY <1>2
        <4> QED  BY <1>2, <2>1, <4>1
      <3> QED  BY <1>2, <2>1, <3>1, <3>2
    <2>2. CASE s \notin registered /\ UNCHANGED <<chan, dropped>>
      BY <1>0, <1>1, <1>2, <2>2, DropStream
    <2>3. CASE /\ Len(chan[s]) = Cap /\ chan' = chan
               /\ dropped' = [dropped EXCEPT ![s] = @ \cup {item[e]}]
      <3>1. s \in registered
        <4>1. chan[s] # <<>>  BY <2>3, StartAssumption
        <4>2. sub[s] \in {"replay", "live"}  BY <1>0, <4>1 DEF StreamPart, HandlerInv, Typed
        <4> QED  BY <1>0, <4>2 DEF StreamPart, HandlerInv
      <3>2. StreamPart'  BY <1>0, <1>1, <2>3, <3>1, DropStream
      <3>3. dropped' \in [Subs -> SUBSET Nat]  BY <1>2, <2>3
      <3> QED  BY <1>2, <2>3, <3>2, <3>3
    <2> QED  BY <2>1, <2>2, <2>3 DEF Send
  <1>5. Typed'  BY <1>0, <1>1, <1>3, <1>4 DEF Typed, initVars, poolVars
  <1>6. Flags' /\ PoolInv'  BY <1>1, HandlerPool DEF IInv
  <1> QED  BY <1>4, <1>5, <1>6 DEF IInv

(* What the handler of a browser changes keeps its types. *)
LEMMA EndTyped ==
  ASSUME Typed, NEW s \in Subs, End(s), UNCHANGED <<initVars, emitVars, poolVars>> PROVE Typed'
  <1>1. /\ existing \in [Subs -> 0 .. Len(progress)] /\ pos \in [Subs -> 0 .. Len(progress)]
        /\ chan \in [Subs -> Seq(Nat)] /\ seen \in [Subs -> Seq(Nat)] /\ dropped \in [Subs -> SUBSET Nat]
        /\ sub \in [Subs -> {"idle", "replay", "live", "ended"}] /\ registered \subseteq Subs
        /\ Len(progress) \in Nat /\ progress' = progress
    BY DEF Typed, emitVars
  <1>2. /\ existing' \in [Subs -> 0 .. Len(progress)] /\ pos' \in [Subs -> 0 .. Len(progress)]
        /\ dropped' \in [Subs -> SUBSET Nat] /\ registered' \subseteq Subs
        /\ sub' \in [Subs -> {"idle", "replay", "live", "ended"}]
    BY <1>1 DEF End
  <1>3. chan' \in [Subs -> Seq(Nat)] /\ seen' \in [Subs -> Seq(Nat)]
    <2>1. <<>> \in Seq(Nat)  OBVIOUS
    <2> QED  BY <1>1, <2>1 DEF End
  <1> QED  BY <1>1, <1>2, <1>3 DEF Typed, initVars, emitVars, poolVars

LEMMA SubsInv == ASSUME IInv, NEW s \in Subs, Join(s) \/ Handler(s) \/ Leave(s) PROVE IInv'
  <1>0. Typed /\ StreamPart  BY DEF IInv
  <1>1. UNCHANGED <<initVars, emitVars, poolVars>>  BY DEF Join, Handler, Replay, Receive, Leave
  <1>2. Flags' /\ PoolInv'  BY <1>1, HandlerPool DEF IInv, emitVars
  <1>3. StreamPart'
    BY <1>0, JoinStream, ReplayStream, ReceiveStream, EndStream DEF Handler, Leave
  <1>4. Typed'
    <2>1. /\ existing \in [Subs -> 0 .. Len(progress)] /\ pos \in [Subs -> 0 .. Len(progress)]
          /\ chan \in [Subs -> Seq(Nat)] /\ seen \in [Subs -> Seq(Nat)] /\ dropped \in [Subs -> SUBSET Nat]
          /\ sub \in [Subs -> {"idle", "replay", "live", "ended"}] /\ registered \subseteq Subs
          /\ Len(progress) \in Nat
      BY <1>0 DEF Typed
    <2>2. CASE End(s)  BY <1>0, <1>1, <2>2, EndTyped
    <2>3. CASE Join(s)
      <3>1. /\ existing' \in [Subs -> 0 .. Len(progress)] /\ registered' \subseteq Subs
            /\ sub' \in [Subs -> {"idle", "replay", "live", "ended"}]
            /\ UNCHANGED <<pos, chan, seen, dropped>>
        BY <2>1, <2>3 DEF Join
      <3> QED  BY <1>0, <1>1, <3>1 DEF Typed, initVars, emitVars, poolVars
    <2>4. CASE Replay(s) /\ ~End(s)
      <3>1. \/ /\ pos[s] + 1 <= existing[s] /\ Shown(s, pos[s] + 1) /\ pos' = [pos EXCEPT ![s] = pos[s] + 1]
               /\ UNCHANGED <<registered, sub, existing, chan, dropped>>
            \/ /\ sub' = [sub EXCEPT ![s] = "live"]
               /\ UNCHANGED <<registered, existing, pos, chan, seen, dropped>>
        BY <2>4 DEF Replay
      <3>2. /\ pos' \in [Subs -> 0 .. Len(progress)] /\ UNCHANGED <<registered, existing, chan, dropped>>
            /\ sub' \in [Subs -> {"idle", "replay", "live", "ended"}]
        <4>1. CASE /\ pos[s] + 1 <= existing[s] /\ pos' = [pos EXCEPT ![s] = pos[s] + 1]
                   /\ UNCHANGED <<registered, sub, existing, chan, dropped>>
          <5>1. pos[s] + 1 \in 0 .. Len(progress)  BY <2>1, <4>1
          <5> QED  BY <2>1, <4>1, <5>1
        <4>2. CASE /\ sub' = [sub EXCEPT ![s] = "live"]
                   /\ UNCHANGED <<registered, existing, pos, chan, seen, dropped>>
          BY <2>1, <4>2
        <4> QED  BY <3>1, <4>1, <4>2
      <3>3. seen' \in [Subs -> Seq(Nat)]
        <4>1. Append(seen[s], pos[s] + 1) \in Seq(Nat)  BY <2>1
        <4> QED  BY <2>1, <3>1, <4>1 DEF Shown
      <3> QED  BY <1>0, <1>1, <3>2, <3>3 DEF Typed, initVars, emitVars, poolVars
    <2>5. CASE Receive(s) /\ ~End(s)
      <3>1. /\ chan[s] # <<>> /\ Shown(s, Head(chan[s])) /\ chan' = [chan EXCEPT ![s] = Tail(@)]
            /\ UNCHANGED <<registered, sub, existing, pos, dropped>>
        BY <2>5 DEF Receive
      <3>2. Tail(chan[s]) \in Seq(Nat) /\ Append(seen[s], Head(chan[s])) \in Seq(Nat)
        <4>1. Tail(chan[s]) \in Seq(Nat) /\ Head(chan[s]) \in Nat  BY <2>1, <3>1, TailFacts
        <4> QED  BY <2>1, <4>1
      <3>3. chan' \in [Subs -> Seq(Nat)] /\ seen' \in [Subs -> Seq(Nat)]  BY <2>1, <3>1, <3>2 DEF Shown
      <3> QED  BY <1>0, <1>1, <3>1, <3>3 DEF Typed, initVars, emitVars, poolVars
    <2> QED  BY <2>2, <2>3, <2>4, <2>5 DEF Handler, Leave
  <1> QED  BY <1>2, <1>3, <1>4 DEF IInv

LEMMA CloseInv == ASSUME IInv, Close PROVE IInv'
  <1>0. Typed /\ Flags /\ PoolInv  BY DEF IInv
  <1>1. /\ closed' = TRUE /\ early' = ~held /\ held' = FALSE /\ ready' = FALSE
        /\ pool' = (IF held THEN "closed" ELSE pool)
        /\ UNCHANGED <<initVars, emitVars, subVars, exited>>
    BY DEF Close
  <1>2. Flags'  BY <1>0, <1>1 DEF Flags
  <1>3. pool' \in {"none", "open", "closed"}  BY <1>0, <1>1 DEF Typed
  <1>4. UNCHANGED <<at, stage, lang, reports>>  BY <1>1 DEF initVars
  <1>5. Typed' /\ Flags' /\ StreamPart'  BY <1>0, <1>1, <1>2, <1>3, <1>4, QuietStep DEF Typed
  <1>6. PoolInv'
    <2>1. progress' = progress  BY <1>1 DEF emitVars
    <2>2. held => at \in Opened /\ at \notin Opening /\ at \notin {"made", "publish"}  BY <1>0 DEF PoolInv, Opening, Opened
    <2> QED  BY <1>0, <1>1, <1>4, <2>1, <2>2 DEF PoolInv
  <1> QED  BY <1>5, <1>6 DEF IInv

LEMMA ExitInv == ASSUME IInv, Exit PROVE IInv'
  <1>0. Typed /\ Flags /\ PoolInv  BY DEF IInv
  <1>1. /\ closed /\ exited' = TRUE
        /\ UNCHANGED <<initVars, emitVars, subVars, ready, pool, held, closed, early>>
    BY DEF Exit
  <1>2. Flags'  BY <1>0, <1>1 DEF Flags
  <1>3. Typed' /\ Flags' /\ StreamPart'  BY <1>0, <1>1, <1>2, QuietStep DEF Typed, initVars
  <1>4. PoolInv'  BY <1>0, <1>1 DEF PoolInv, initVars, emitVars
  <1> QED  BY <1>3, <1>4 DEF IInv

LEMMA StepInv == ASSUME IInv, [Next]_vars PROVE IInv'
  <1>1. CASE UNCHANGED vars
    <2>1. UNCHANGED <<initVars, emitVars, subVars, poolVars>>  BY <1>1 DEF vars
    <2>2. StreamPart'  BY <2>1, QuietStream DEF IInv
    <2>3. Flags' /\ PoolInv'  BY <2>1, HandlerPool DEF IInv, emitVars
    <2>4. Typed'  BY <2>1 DEF IInv, Typed, initVars, emitVars, subVars, poolVars
    <2> QED  BY <2>2, <2>3, <2>4 DEF IInv
  <1> QED  BY <1>1, StartingInv, BuildInv, SendInv, SubsInv, CloseInv, ExitInv DEF Next, Sending

LEMMA Invariance == Spec => []IInv
  BY InitInv, StepInv, PTL DEF Spec

----------------------------------------------------------------------------
(* What follows from it. *)

(* The variables keep their types, a browser is subscribed exactly while its handler *)
(* runs, and a goroutine sends its own event.                                        *)
THEOREM TypeCorrect == Spec => []TypeOK
  <1>1. ASSUME IInv PROVE TypeOK
    <2> USE <1>1 DEF IInv, StreamPart
    <2>1. \A e \in Emitters : (item[e] = 0 /\ target[e] = {}) \/ (item[e] \in Events /\ by[item[e]] = e)
      <3>1. \A e \in Emitters : item[e] \in 0 .. Len(progress) /\ Len(progress) \in Nat  BY DEF Typed
      <3> QED  BY <3>1 DEF ItemInv
    <2>2. \A s \in Subs :
            /\ pos[s] \in 0 .. existing[s] /\ existing[s] \in 0 .. Len(progress)
            /\ Len(chan[s]) <= Cap
      BY DEF Typed, HandlerInv
    <2>3. \A s \in Subs : ToSet(chan[s]) \cup ToSet(seen[s]) \cup dropped[s] \subseteq Events
      BY DEF EventInv, ToSet
    <2>4. {ready, held, closed, early, exited} \subseteq BOOLEAN  BY DEF Flags
    <2>5. registered = {s \in Subs : sub[s] \in {"replay", "live"}}  BY DEF HandlerInv
    <2> QED  BY <2>1, <2>2, <2>3, <2>4, <2>5 DEF Typed, TypeOK
  <1> QED  BY <1>1, Invariance, PTL

(* A browser is shown each event at most once and those of one goroutine in their order, *)
(* and what it was not shown is still on its way or was dropped by a full buffer         *)
(* (Server.emit, handleProgress).                                                        *)
THEOREM EveryEventArrives == Spec => []EventsArrive
  <1>1. ASSUME IInv PROVE EventsArrive
    BY <1>1 DEF IInv, StreamPart, StreamInv, EventsArrive, OnceInOrder
  <1> QED  BY <1>1, Invariance, PTL

(* A server that has said that it is ready has an open pool until it is closed, and the   *)
(* end of the process leaves no open pool unless it was told to stop before it knew one   *)
(* (Server.backgroundInit, Server.Close).                                                 *)
THEOREM PoolIsAsTold == Spec => []PoolAsTold
  <1>1. ASSUME IInv PROVE PoolAsTold
    <2>1. "ready" \in ToSet(progress) => ready \/ closed
      <3>1. DOMAIN progress = Events  BY <1>1 DEF IInv, Typed
      <3> QED  BY <1>1, <3>1 DEF IInv, PoolInv, ToSet
    <2>2. ready => pool = "open" \/ closed  BY <1>1 DEF IInv, Typed, PoolInv
    <2>3. exited /\ pool = "open" => early  BY <1>1 DEF IInv, PoolInv
    <2> QED  BY <2>1, <2>2, <2>3 DEF PoolAsTold, ReadyIsTrue, ExitClosesPool
  <1> QED  BY <1>1, Invariance, PTL
=============================================================================

------------------------------ MODULE ServerStart ------------------------------
(***************************************************************************)
(* The start of the web server in the background and the streams of        *)
(* progress events (src/pkg/web/web.go, handleProgress and handleStatus of *)
(* src/pkg/web/api.go, EnsureInitializedSync of                            *)
(* src/pkg/normalizer/normalizer.go, the signal handler of                 *)
(* src/cmd/main.go).                                                       *)
(*                                                                         *)
(* backgroundInit announces each stage by an event.  While it waits for    *)
(* the normalizer, one goroutine per language emits too.  emit records the *)
(* event and notes the subscribers under the server's mutex; it sends      *)
(* without it, and drops what does not fit a subscriber's buffer.          *)
(*                                                                         *)
(* An event is its number in Server.Progress.                              *)
(***************************************************************************)
EXTENDS Naturals, FiniteSets, SequencesExt

CONSTANTS
  Subs,       \* browsers that ask for the progress
  Cap,        \* capacity of a subscriber's channel
  MaxReports, \* bound of the model on an emitter's further events: downloads, steps of a build, ...
  MaxDrops,   \* bound of the model on the events one subscriber loses
  MayClose    \* the process may be told to stop

ASSUME StartAssumption ==
  /\ Cap \in Nat \ {0} /\ MaxReports \in Nat /\ MaxDrops \in Nat /\ MayClose \in BOOLEAN

Langs == {"zh", "en"}
Emitters == {"main"} \cup Langs

(* A stage ends where backgroundInit may give up; what comes before it without being able *)
(* to fail (the environment, FFmpeg, the device) is part of it.                           *)
Stages == <<"libs", "models", "ort", "pool">>

VARIABLES
  at,         \* where backgroundInit is within a stage or after them
  stage,      \* index into Stages
  lang,       \* [Langs -> "none", "building" or "built"]
  reports,    \* [Emitters -> Nat]: further events so far
  progress,   \* Server.Progress: a sequence of "info", "error" and "ready" events ...
  by,         \* ... and who emitted them
  item,       \* [Emitters -> event that is being sent]
  target,     \* [Emitters -> subscribers it has still to be sent to]
  registered, \* Server.subscribers
  sub,        \* [Subs -> label]: the handler of the subscriber
  existing,   \* [Subs -> number of events copied when it registered]
  pos,        \* [Subs -> how many of them have been written]
  chan,       \* [Subs -> Seq(events)]
  seen,       \* [Subs -> Seq(events)]: what was written to the browser
  dropped,    \* [Subs -> events that found the channel full]
  ready,      \* Server.Ready
  pool,       \* "none", "open" or "closed": the pool that was made
  held,       \* Server.Pool is not nil
  closed,     \* Server.Close was called
  early,      \* history: Server.Pool was nil when Close was called
  exited      \* the process is gone

initVars == <<at, stage, lang, reports>>
emitVars == <<progress, by, item, target>>
subVars == <<registered, sub, existing, pos, chan, seen, dropped>>
poolVars == <<ready, pool, held, closed, early, exited>>
vars == <<initVars, emitVars, subVars, poolVars>>

Init ==
  /\ at = "announce" /\ stage = 1
  /\ lang = [l \in Langs |-> "none"] /\ reports = [e \in Emitters |-> 0]
  /\ progress = <<>> /\ by = <<>>
  /\ item = [e \in Emitters |-> 0] /\ target = [e \in Emitters |-> {}]
  /\ registered = {} /\ sub = [s \in Subs |-> "idle"]
  /\ existing = [s \in Subs |-> 0] /\ pos = [s \in Subs |-> 0]
  /\ chan = [s \in Subs |-> <<>>] /\ seen = [s \in Subs |-> <<>>] /\ dropped = [s \in Subs |-> {}]
  /\ ready = FALSE /\ pool = "none" /\ held = FALSE
  /\ closed = FALSE /\ early = FALSE /\ exited = FALSE

----------------------------------------------------------------------------
(* emit *)

Idle(e) == target[e] = {} /\ ~exited

(* Mutant: the subscribers are looked up after the mutex was released. *)
RecordLate(e, kind) ==
  /\ progress' = Append(progress, kind) /\ by' = Append(by, e)
  /\ item' = [item EXCEPT ![e] = Len(progress) + 1]
  /\ target' = [target EXCEPT ![e] = Subs]

Record(e, kind) ==
  /\ progress' = Append(progress, kind) /\ by' = Append(by, e)
  /\ item' = [item EXCEPT ![e] = Len(progress) + 1]
  /\ target' = [target EXCEPT ![e] = registered]

Send(e, s) ==
  /\ ~exited /\ s \in target[e]
  /\ target' = [target EXCEPT ![e] = @ \ {s}]
  /\ \/ /\ s \in registered /\ Len(chan[s]) < Cap
        /\ chan' = [chan EXCEPT ![s] = Append(@, item[e])]
        /\ UNCHANGED dropped
     \/ /\ s \notin registered  \* nobody reads the channel any more
        /\ UNCHANGED <<chan, dropped>>
     \/ /\ Len(chan[s]) = Cap /\ Cardinality(dropped[s]) < MaxDrops
        /\ dropped' = [dropped EXCEPT ![s] = @ \cup {item[e]}]
        /\ UNCHANGED chan
  /\ UNCHANGED <<initVars, progress, by, item, registered, sub, existing, pos, seen, poolVars>>

----------------------------------------------------------------------------
(* backgroundInit *)

Announce ==
  /\ at = "announce" /\ Idle("main")
  /\ Record("main", "info") /\ at' = "work"
  /\ UNCHANGED <<stage, lang, reports, subVars, poolVars>>

(* A download reports its progress; or a part of the stage is announced. *)
Report ==
  /\ at = "work" /\ Idle("main") /\ reports["main"] < MaxReports
  /\ Record("main", "info") /\ reports' = [reports EXCEPT !["main"] = @ + 1]
  /\ UNCHANGED <<at, stage, lang, subVars, poolVars>>

Succeed ==
  /\ at = "work" /\ Idle("main")
  /\ IF stage = Len(Stages) THEN pool' = "open" /\ at' = "made" /\ stage' = stage
                            ELSE pool' = pool /\ at' = "announce" /\ stage' = stage + 1
  /\ UNCHANGED <<lang, reports, emitVars, subVars, ready, held, closed, early, exited>>

(* Mutant: the failure is logged, not announced. *)
FailSilently ==
  /\ at = "work" /\ Idle("main")
  /\ at' = "failed"
  /\ UNCHANGED <<stage, lang, reports, emitVars, subVars, poolVars>>

Fail ==
  /\ at = "work" /\ Idle("main")
  /\ Record("main", "error") /\ at' = "failed"
  /\ UNCHANGED <<stage, lang, reports, subVars, poolVars>>

(* The pool is made, and its event emitted, before Server.Pool is set. *)
AnnouncePool ==
  /\ at = "made" /\ Idle("main")
  /\ Record("main", "info") /\ at' = "publish"
  /\ UNCHANGED <<stage, lang, reports, subVars, poolVars>>

Publish ==
  /\ at = "publish" /\ Idle("main")
  /\ held' = TRUE /\ at' = "normalizer"
  /\ UNCHANGED <<stage, lang, reports, emitVars, subVars, ready, pool, closed, early, exited>>

(* EnsureInitializedSync starts a goroutine for each language and waits for both. *)
StartLangs ==
  /\ at = "normalizer" /\ Idle("main")
  /\ Record("main", "info")
  /\ lang' = [l \in Langs |-> "building"] /\ at' = "wait"
  /\ UNCHANGED <<stage, reports, subVars, poolVars>>

Build(l) ==
  /\ lang[l] = "building" /\ Idle(l)
  /\ Record(l, "info")
  /\ \/ reports[l] < MaxReports /\ reports' = [reports EXCEPT ![l] = @ + 1] /\ UNCHANGED lang
     \/ lang' = [lang EXCEPT ![l] = "built"] /\ UNCHANGED reports
  /\ UNCHANGED <<at, stage, subVars, poolVars>>

LangsBuilt ==
  /\ at = "wait" /\ Idle("main")
  /\ \A l \in Langs : lang[l] = "built" /\ Idle(l)
  /\ Record("main", "info") /\ at' = "ready"
  /\ UNCHANGED <<stage, lang, reports, subVars, poolVars>>

SetReady ==
  /\ at = "ready" /\ Idle("main")
  /\ ready' = TRUE /\ at' = "last"
  /\ UNCHANGED <<stage, lang, reports, emitVars, subVars, pool, held, closed, early, exited>>

AnnounceReady ==
  /\ at = "last" /\ Idle("main")
  /\ Record("main", "ready") /\ at' = "done"
  /\ UNCHANGED <<stage, lang, reports, subVars, poolVars>>

----------------------------------------------------------------------------
(* handleProgress *)

Join(s) ==
  /\ sub[s] = "idle" /\ ~exited
  /\ registered' = registered \cup {s}
  /\ existing' = [existing EXCEPT ![s] = Len(progress)]
  /\ sub' = [sub EXCEPT ![s] = "replay"]
  /\ UNCHANGED <<initVars, emitVars, pos, chan, seen, dropped, poolVars>>

Final(n) == progress[n] # "info"

(* The handler returns and takes its subscription away; its channel is garbage. *)
End(s) ==
  /\ sub' = [sub EXCEPT ![s] = "ended"] /\ registered' = registered \ {s}
  /\ existing' = [existing EXCEPT ![s] = 0] /\ pos' = [pos EXCEPT ![s] = 0]
  /\ chan' = [chan EXCEPT ![s] = <<>>] /\ seen' = [seen EXCEPT ![s] = <<>>]
  /\ dropped' = [dropped EXCEPT ![s] = {}]

Shown(s, n) == seen' = [seen EXCEPT ![s] = Append(@, n)]

Replay(s) ==
  /\ sub[s] = "replay" /\ ~exited
  /\ LET n == pos[s] + 1 IN
     \/ /\ n <= existing[s] /\ ~Final(n)
        /\ Shown(s, n) /\ pos' = [pos EXCEPT ![s] = n]
        /\ UNCHANGED <<registered, sub, existing, chan, dropped>>
     \/ /\ n <= existing[s] /\ Final(n) /\ End(s)
     \/ /\ n > existing[s]
        /\ sub' = [sub EXCEPT ![s] = "live"]
        /\ UNCHANGED <<registered, existing, pos, chan, seen, dropped>>
  /\ UNCHANGED <<initVars, emitVars, poolVars>>

(* An error or the last event ends the stream. *)
Receive(s) ==
  /\ sub[s] = "live" /\ chan[s] # <<>> /\ ~exited
  /\ \/ /\ ~Final(Head(chan[s]))
        /\ Shown(s, Head(chan[s])) /\ chan' = [chan EXCEPT ![s] = Tail(@)]
        /\ UNCHANGED <<registered, sub, existing, pos, dropped>>
     \/ Final(Head(chan[s])) /\ End(s)
  /\ UNCHANGED <<initVars, emitVars, poolVars>>

(* The browser has closed the connection. *)
Leave(s) ==
  /\ sub[s] = "live" /\ ~exited /\ End(s)
  /\ UNCHANGED <<initVars, emitVars, poolVars>>

----------------------------------------------------------------------------
(* Server.Close, called for a signal, and the end of the process *)

(* Mutant: Close lets go of the pool without closing it. *)
CloseForgets ==
  /\ MayClose /\ ~closed
  /\ closed' = TRUE /\ early' = ~held /\ held' = FALSE /\ ready' = FALSE
  /\ UNCHANGED <<initVars, emitVars, subVars, pool, exited>>

Close ==
  /\ MayClose /\ ~closed
  /\ closed' = TRUE /\ early' = ~held
  /\ pool' = IF held THEN "closed" ELSE pool
  /\ held' = FALSE /\ ready' = FALSE
  /\ UNCHANGED <<initVars, emitVars, subVars, exited>>

Exit ==
  /\ closed /\ ~exited /\ exited' = TRUE
  /\ UNCHANGED <<initVars, emitVars, subVars, ready, pool, held, closed, early>>

----------------------------------------------------------------------------
Starting ==
  \/ Announce \/ Report \/ Succeed \/ Fail \/ AnnouncePool \/ Publish
  \/ StartLangs \/ LangsBuilt \/ SetReady \/ AnnounceReady

Sending(e) == \E s \in Subs : Send(e, s)

Handler(s) == Replay(s) \/ Receive(s)

Next ==
  \/ Starting
  \/ \E l \in Langs : Build(l)
  \/ \E e \in Emitters : Sending(e)
  \/ \E s \in Subs : Join(s) \/ Handler(s) \/ Leave(s)
  \/ Close \/ Exit

Spec == Init /\ [][Next]_vars

(* Goroutines run, and the browsers read; nothing is assumed of joining, leaving or signals. *)
FairSpec ==
  /\ Spec
  /\ WF_vars(Starting)
  /\ \A l \in Langs : WF_vars(Build(l))
  /\ \A e \in Emitters : WF_vars(Sending(e))
  /\ \A s \in Subs : WF_vars(Handler(s))

----------------------------------------------------------------------------
(* Properties *)

Events == 1 .. Len(progress)

(* The values the variables may have; a browser is subscribed exactly while its handler *)
(* runs, and a goroutine sends an event it has emitted itself.                          *)
TypeOK ==
  /\ at \in {"announce", "work", "made", "publish", "normalizer", "wait", "ready", "last", "done", "failed"}
  /\ stage \in DOMAIN Stages
  /\ lang \in [Langs -> {"none", "building", "built"}]
  /\ reports \in [Emitters -> 0 .. MaxReports]
  /\ progress \in Seq({"info", "error", "ready"}) /\ by \in Seq(Emitters) /\ Len(by) = Len(progress)
  /\ \A e \in Emitters :
       (item[e] = 0 /\ target[e] = {}) \/ (item[e] \in Events /\ by[item[e]] = e)
  /\ registered = {s \in Subs : sub[s] \in {"replay", "live"}}
  /\ \A s \in Subs :
       /\ sub[s] \in {"idle", "replay", "live", "ended"}
       /\ pos[s] \in 0 .. existing[s] /\ existing[s] \in 0 .. Len(progress)
       /\ Len(chan[s]) <= Cap
       /\ ToSet(chan[s]) \cup ToSet(seen[s]) \cup dropped[s] \subseteq Events
  /\ {ready, held, closed, early, exited} \subseteq BOOLEAN
  /\ pool \in {"none", "open", "closed"}

(* A browser that joins while events are emitted gets each event at most once, and *)
(* the events of one goroutine in their order: an event emitted around its joining *)
(* is either among the copied ones or sent, never both.                            *)
OnceInOrder ==
  \A s \in Subs : \A i, j \in DOMAIN seen[s] :
    i < j /\ by[seen[s][i]] = by[seen[s][j]] => seen[s][i] < seen[s][j]

(* Nothing is lost but by a full buffer: every recorded event was written to the    *)
(* browser, is still to be replayed, waits in its channel, is about to be sent to   *)
(* it, or was dropped.                                                              *)
NothingLost ==
  \A s \in registered : \A n \in Events :
    \/ n \in ToSet(seen[s]) \cup ToSet(chan[s]) \cup dropped[s]
    \/ n \in pos[s] + 1 .. existing[s]
    \/ \E e \in Emitters : item[e] = n /\ s \in target[e]

(* Each event once, in order, and none lost but by a full buffer (emit sends outside the *)
(* mutex what it recorded inside, handleProgress copies and subscribes inside it).       *)
EventsArrive == OnceInOrder /\ NothingLost

(* The last event tells of a server that is ready, with an open pool (handleStatus *)
(* expects otherwise as an extreme case, api.go:106): only Close takes that back.  *)
ReadyIsTrue ==
  /\ "ready" \in ToSet(progress) => ready \/ closed
  /\ ready => pool = "open" \/ closed

(* The process leaves no open pool behind, unless it was told to stop before the  *)
(* server knew its pool.                                                          *)
ExitClosesPool == exited /\ pool = "open" => early

(* What the pool is told to be, it is, from its start to the end of the process. *)
PoolAsTold == ReadyIsTrue /\ ExitClosesPool

(* The stream of events of every browser ends, unless the very event that ends it  *)
(* found its buffer full, or the process was told to stop.                         *)
StreamEnds ==
  \A s \in Subs :
    sub[s] = "replay" ~> \/ sub[s] = "ended" \/ closed
                         \/ \E n \in dropped[s] : Final(n)

----------------------------------------------------------------------------
(* What comments in the code say and the code does not do *)

(* web.go:229 "Close is to be called at the end, so that no resources are lost": a *)
(* pool that is about to be published is.                                          *)
NoPoolLeft == exited => pool # "open"
=============================================================================

------------------------------ MODULE RemoteCall ------------------------------
(***************************************************************************)
(* What the link to a worker promises to its callers, without messages,    *)
(* channels or a table: a call is worked on once, whatever it ends with it *)
(* ends once, a success means that the worker has finished and that every  *)
(* chunk it made has come, and a failure has a cause.  WorkerLink          *)
(* implements this specification for the calls that start a synthesis.     *)
(***************************************************************************)
EXTENDS Naturals

CONSTANTS Calls,    \* every call that may ever be made
          Streams,  \* those of them that are answered in chunks
          None      \* how a call has ended that has not ended

VARIABLES phase,    \* [Calls -> "idle", "asked" or "over"]: the call, as its caller sees it
          outcome,  \* [Calls -> None or how the call ended]
          work,     \* [Calls -> "none", "going" or "over"]: what the worker does for it
          made,     \* [Streams -> Nat]: chunks the worker has made
          got,      \* [Streams -> Nat]: chunks the caller has got, the first of those made
          left,     \* the calls whose client has left
          broken    \* the connection is closed or the worker is dead

callerVars == <<phase, outcome, work, made, got, left, broken>>

CallInit ==
  /\ phase = [r \in Calls |-> "idle"] /\ outcome = [r \in Calls |-> None]
  /\ work = [r \in Calls |-> "none"]
  /\ made = [r \in Streams |-> 0] /\ got = [r \in Streams |-> 0]
  /\ left = {} /\ broken = FALSE

Ask(r) ==
  /\ phase[r] = "idle"
  /\ phase' = [phase EXCEPT ![r] = "asked"]
  /\ UNCHANGED <<outcome, work, made, got, left, broken>>

(* The worker hears of a call once, perhaps after it is over for the caller. *)
Begin(r) ==
  /\ phase[r] # "idle" /\ work[r] = "none"
  /\ work' = [work EXCEPT ![r] = "going"]
  /\ UNCHANGED <<phase, outcome, made, got, left, broken>>

Make(r) ==
  /\ work[r] = "going"
  /\ made' = [made EXCEPT ![r] = @ + 1]
  /\ UNCHANGED <<phase, outcome, work, got, left, broken>>

Finish(r) ==
  /\ work[r] = "going"
  /\ work' = [work EXCEPT ![r] = "over"]
  /\ UNCHANGED <<phase, outcome, made, got, left, broken>>

Get(r) ==
  /\ phase[r] = "asked" /\ got[r] < made[r]
  /\ got' = [got EXCEPT ![r] = @ + 1]
  /\ UNCHANGED <<phase, outcome, work, made, left, broken>>

(* A call that is asked ends, with o for its outcome. *)
EndWith(r, o) ==
  /\ phase[r] = "asked"
  /\ phase' = [phase EXCEPT ![r] = "over"] /\ outcome' = [outcome EXCEPT ![r] = o]
  /\ UNCHANGED <<work, made, got, left, broken>>

Succeed(r) ==
  /\ work[r] = "over"
  /\ IF r \in Streams THEN got[r] = made[r] /\ EndWith(r, "done") ELSE EndWith(r, "result")

(* The worker failed or the connection; only the latter ends a stream with an error. *)
Fail(r) ==
  /\ broken \/ (r \notin Streams /\ work[r] = "over")
  /\ EndWith(r, "error")

(* A client that left ends a call that has one answer; a stream ends with its task. *)
Abandon(r) ==
  /\ r \in left /\ (r \in Streams => work[r] = "over")
  /\ EndWith(r, "cancelled")

TimesOut(r) == r \notin Streams /\ EndWith(r, "timeout")

(* A call after the connection was closed is over at once. *)
Refuse(r) ==
  /\ phase[r] = "idle" /\ broken
  /\ phase' = [phase EXCEPT ![r] = "over"] /\ outcome' = [outcome EXCEPT ![r] = "error"]
  /\ UNCHANGED <<work, made, got, left, broken>>

LeaveCall(r) ==
  /\ left' = left \cup {r}
  /\ UNCHANGED <<phase, outcome, work, made, got, broken>>

Break ==
  /\ broken' = TRUE
  /\ UNCHANGED <<phase, outcome, work, made, got, left>>

CallNext ==
  \/ \E r \in Calls :
       \/ Ask(r) \/ Begin(r) \/ Finish(r) \/ Succeed(r) \/ Fail(r) \/ Abandon(r) \/ TimesOut(r)
       \/ Refuse(r) \/ LeaveCall(r)
  \/ \E r \in Streams : Make(r) \/ Get(r)
  \/ Break

CallSpec == CallInit /\ [][CallNext]_callerVars
=============================================================================

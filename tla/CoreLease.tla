------------------------------ MODULE CoreLease ------------------------------
(***************************************************************************)
(* What the pool of inference cores promises to its callers, without       *)
(* locks, queues or goroutines: a core is a running worker process, it is  *)
(* used by one request at a time, only a running core is handed out, and a *)
(* core is taken out of service only while nobody uses it, unless the      *)
(* whole pool is shut down.  CorePool implements this specification.       *)
(***************************************************************************)
CONSTANTS Cores,    \* every core that may ever exist
          Initial,  \* the cores running when the pool is created
          Users,    \* who may use a core
          Free      \* not a user: nobody uses the core

VARIABLES user,     \* [Cores -> Users \cup {Free}]: who uses the core
          running,  \* the cores whose worker process runs
          retired   \* the cores whose worker process was stopped

leaseVars == <<user, running, retired>>

LeaseInit ==
  /\ user = [c \in Cores |-> Free]
  /\ running = Initial
  /\ retired = {}

(* A free running core is given to one user. *)
Lease(c, u) ==
  /\ c \in running /\ user[c] = Free
  /\ user' = [user EXCEPT ![c] = u]
  /\ UNCHANGED <<running, retired>>

(* A user passes the core it has to another user. *)
HandOver(c, u) ==
  /\ user[c] # Free
  /\ user' = [user EXCEPT ![c] = u]
  /\ UNCHANGED <<running, retired>>

(* The user of a core gives it back. *)
Return(c) ==
  /\ user[c] # Free
  /\ user' = [user EXCEPT ![c] = Free]
  /\ UNCHANGED <<running, retired>>

(* A new core is started for one user, who has it at once. *)
StartFor(c, u) ==
  /\ c \notin running \cup retired
  /\ user[c] = Free
  /\ user' = [user EXCEPT ![c] = u]
  /\ running' = running \cup {c}
  /\ UNCHANGED retired

(* Cores nobody uses are taken out of service. *)
Retire(C) ==
  /\ C \subseteq running
  /\ \A c \in C : user[c] = Free
  /\ running' = running \ C
  /\ retired' = retired \cup C
  /\ UNCHANGED user

(* The pool is shut down under its users. *)
Shutdown ==
  /\ running' = {}
  /\ retired' = retired \cup running
  /\ UNCHANGED user

LeaseNext ==
  \/ \E c \in Cores, u \in Users :
        Lease(c, u) \/ HandOver(c, u) \/ StartFor(c, u)
  \/ \E c \in Cores : Return(c)
  \/ \E C \in SUBSET Cores : Retire(C)
  \/ Shutdown

LeaseSpec == LeaseInit /\ [][LeaseNext]_leaseVars
=============================================================================

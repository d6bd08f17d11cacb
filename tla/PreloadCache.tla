---------------------------- MODULE PreloadCache ----------------------------
(***************************************************************************)
(* The cache of encoded reference voices (src/pkg/ttsruntime/preload.go)   *)
(* and the order in which a synthesis uses it                              *)
(* (ResolvePromptAudioCodesWithPreload of ttsruntime.go).                  *)
(*                                                                         *)
(* Every worker process has a small cache in memory, with a mutex of its   *)
(* own; all of them share one directory of files, without any lock.  A     *)
(* request names an entry by an id and says which audio file it expects    *)
(* there: the id may have been used for another file before.               *)
(*                                                                         *)
(* The codes of an audio file are the file itself.  What a process does in *)
(* memory while it has its mutex is one step; each access to the directory *)
(* is a step of its own, since the other processes do not wait.            *)
(***************************************************************************)
EXTENDS Integers, SequencesExt, FiniteSets

CONSTANTS
  Workers,      \* worker processes
  Requests,     \* requests: each resolves its voice once
  Ids,          \* preload ids
  Paths,        \* audio files
  Asks,         \* the pairs of id and file that requests come with
  Kept,         \* contents of the directory that an earlier run may have left
  MaxInMemory,  \* entries a process keeps in memory
  MaxFaults     \* bound of the model on crashes and failed writes

None == "none"        \* no file, no entry, no request, no expected file
Torn == "torn"        \* a file that does not decode
Old == "old"          \* a file of an earlier version of the program
Builtin == "builtin"  \* a voice of the model itself

ASSUME CacheAssumption ==
  /\ None \notin Paths \cup Requests \cup Ids \cup Workers
  /\ {Torn, Old, Builtin} \cap Paths = {}
  /\ Asks \subseteq Ids \X (Paths \cup {None})
  /\ Kept \subseteq [Ids -> Paths \cup {None, Old}]
  /\ MaxInMemory \in Nat \ {0}
  /\ MaxFaults \in Nat

VARIABLES
  pc,      \* [Requests -> label]: where the goroutine of the request is
  on,      \* [Requests -> Workers or None]: the process that serves it
  ask,     \* [Requests -> Asks or NoAsk]: its id and the file it expects
  second,  \* the requests that have been through Preload: their next Get is the last
  got,     \* [Requests -> Paths or None]: what Get returned
  voice,   \* [Requests -> Paths, Builtin or None]: the codes the synthesis uses
  mu,      \* [Workers -> request or None]: holder of PreloadCache.mu
  mem,     \* [Workers -> [Ids -> Paths or None]]: PreloadCache.cache
  order,   \* [Workers -> Seq(Ids)]: accessOrder
  stamp,   \* [Workers -> [Ids -> Nat]]: LastAccessTime
  clock,   \* the time
  disk,    \* [Ids -> file]: the shared directory
  writing, \* the requests that write to the file that now bears their id
  faults,  \* crashes and failed writes so far
  met      \* history: requests that met one with their id and another file

reqVars == <<on, ask, second, got, voice, met>>
memVars == <<mem, order, stamp, clock>>
diskVars == <<disk, writing, faults>>
vars == <<pc, reqVars, mu, memVars, diskVars>>

NoAsk == <<None, None>>  \* of a request that has not arrived

Files == Paths \cup {None, Torn, Old}

Id(r) == ask[r][1]
Path(r) == ask[r][2]

Ended == {"done", "dead"}
Active(r) == pc[r] \notin {"idle"} \cup Ended

Goto(r, l) == pc' = [pc EXCEPT ![r] = l]
Lock(r) == mu' = [mu EXCEPT ![on[r]] = r]
Unlock(r) == mu' = [mu EXCEPT ![on[r]] = None]
Free(r) == mu[on[r]] = None
Cached(r) == mem[on[r]][Id(r)] # None

----------------------------------------------------------------------------
(* The directory outlives the program; memory is empty. *)
Init ==
  /\ pc = [r \in Requests |-> "idle"]
  /\ on = [r \in Requests |-> None]
  /\ ask = [r \in Requests |-> NoAsk]
  /\ second = {}
  /\ got = [r \in Requests |-> None]
  /\ voice = [r \in Requests |-> None]
  /\ mu = [w \in Workers |-> None]
  /\ mem = [w \in Workers |-> [i \in Ids |-> None]]
  /\ order = [w \in Workers |-> <<>>]
  /\ stamp = [w \in Workers |-> [i \in Ids |-> 0]]
  /\ clock = 0
  /\ disk \in Kept
  /\ writing = {}
  /\ faults = 0
  /\ met = {}

(* A request arrives at a worker. *)
Rivals(r, a) == {q \in Requests : Active(q) /\ Id(q) = a[1] /\ Path(q) # a[2]}

Begin(r) ==
  /\ pc[r] = "idle"
  /\ \E w \in Workers, a \in Asks :
       /\ on' = [on EXCEPT ![r] = w]
       /\ ask' = [ask EXCEPT ![r] = a]
       /\ met' = IF Rivals(r, a) = {} THEN met ELSE met \cup Rivals(r, a) \cup {r}
  /\ Goto(r, "get")
  /\ UNCHANGED <<second, got, voice, mu, memVars, diskVars>>

----------------------------------------------------------------------------
(* The memory of a process *)

(* Mutant: an id that is used again stays where it was. *)
TouchedNot(s, i) == s

(* updateAccessOrder *)
Touched(s, i) == Append(RemoveFirst(s, i), i)

Stamp(w, i) ==
  /\ clock' = clock + 1
  /\ stamp' = [stamp EXCEPT ![w][i] = clock + 1]

(* addToMemoryCache, for an id that memory does not have *)
AddEntry(w, i, p) ==
  LET full == Cardinality({j \in Ids : mem[w][j] # None}) >= MaxInMemory /\ order[w] # <<>>
  IN /\ mem' = [mem EXCEPT ![w] = [j \in Ids |-> IF j = i THEN p
                                      ELSE IF full /\ j = Head(order[w]) THEN None
                                      ELSE @[j]]]
     /\ order' = [order EXCEPT ![w] = Append(IF full THEN Tail(@) ELSE @, i)]
     /\ Stamp(w, i)

----------------------------------------------------------------------------
(* Get *)

GetHit(r) ==
  /\ pc[r] = "get" /\ Free(r) /\ Cached(r)
  /\ got' = [got EXCEPT ![r] = mem[on[r]][Id(r)]]
  /\ order' = [order EXCEPT ![on[r]] = Touched(@, Id(r))]
  /\ Stamp(on[r], Id(r))
  /\ Goto(r, "got")
  /\ UNCHANGED <<on, ask, second, voice, met, mu, mem, diskVars>>

GetStat(r) ==
  /\ pc[r] = "get" /\ Free(r) /\ ~Cached(r)
  /\ \/ disk[Id(r)] = None /\ Goto(r, "missed") /\ UNCHANGED mu
     \/ disk[Id(r)] # None /\ Goto(r, "load") /\ Lock(r)
  /\ UNCHANGED <<reqVars, memVars, diskVars>>

GetLoad(r) ==
  /\ pc[r] = "load"
  /\ \/ /\ disk[Id(r)] \in Paths
        /\ AddEntry(on[r], Id(r), disk[Id(r)])
        /\ got' = [got EXCEPT ![r] = disk[Id(r)]]
        /\ Goto(r, "got") /\ Unlock(r)
     \/ /\ disk[Id(r)] \notin Paths
        /\ Goto(r, "discard")
        /\ UNCHANGED <<got, memVars, mu>>
  /\ UNCHANGED <<on, ask, second, voice, met, diskVars>>

(* os.Remove takes the name away; a process that has the file open writes on in vain. *)
RemoveFile(i) ==
  /\ disk' = [disk EXCEPT ![i] = None]
  /\ writing' = {q \in writing : Id(q) # i}

GetDiscard(r) ==
  /\ pc[r] = "discard"
  /\ RemoveFile(Id(r))
  /\ Goto(r, "missed") /\ Unlock(r)
  /\ UNCHANGED <<reqVars, memVars, faults>>

----------------------------------------------------------------------------
(* ResolvePromptAudioCodesWithPreload *)

Use(r, v) ==
  /\ voice' = [voice EXCEPT ![r] = v]
  /\ Goto(r, "done")

Mismatch(r) == r \notin second /\ Path(r) # None /\ got[r] # Path(r)

Accept(r) ==
  /\ pc[r] = "got" /\ ~Mismatch(r)
  /\ Use(r, got[r])
  /\ UNCHANGED <<on, ask, second, got, met, mu, memVars, diskVars>>

Reject(r) ==
  /\ pc[r] = "got" /\ Mismatch(r)
  /\ Goto(r, "remove")
  /\ UNCHANGED <<reqVars, mu, memVars, diskVars>>

Missed(r) ==
  /\ pc[r] = "missed"
  /\ Goto(r, IF r \notin second /\ Path(r) # None THEN "preload" ELSE "fallback")
  /\ UNCHANGED <<reqVars, mu, memVars, diskVars>>

(* The audio file itself is encoded; or a voice of the model is used. *)
Fallback(r) ==
  /\ pc[r] = "fallback"
  /\ \/ Path(r) # None /\ Use(r, Path(r))
     \/ Use(r, Builtin)
  /\ UNCHANGED <<on, ask, second, got, met, mu, memVars, diskVars>>

(* Mutant: the file stays when the entry is removed. *)
RemoveKeepsFile(r) ==
  /\ pc[r] = "remove" /\ Free(r)
  /\ mem' = [mem EXCEPT ![on[r]][Id(r)] = None]
  /\ order' = [order EXCEPT ![on[r]] = RemoveFirst(@, Id(r))]
  /\ Goto(r, "preload")
  /\ UNCHANGED <<reqVars, mu, stamp, clock, diskVars>>

(* Remove *)
RemoveEntry(r) ==
  /\ pc[r] = "remove" /\ Free(r)
  /\ mem' = [mem EXCEPT ![on[r]][Id(r)] = None]
  /\ order' = [order EXCEPT ![on[r]] = RemoveFirst(@, Id(r))]
  /\ RemoveFile(Id(r))
  /\ Goto(r, "preload")
  /\ UNCHANGED <<reqVars, mu, stamp, clock, faults>>

----------------------------------------------------------------------------
(* Preload *)

(* Preload has ended without an error: Get is called for the second time. *)
Preloaded(r) ==
  /\ second' = second \cup {r}
  /\ Goto(r, "get")

PreloadHit(r) ==
  /\ pc[r] = "preload" /\ Free(r) /\ Cached(r)
  /\ Preloaded(r)
  /\ UNCHANGED <<on, ask, got, voice, met, mu, memVars, diskVars>>

PreloadStat(r) ==
  /\ pc[r] = "preload" /\ Free(r) /\ ~Cached(r)
  /\ Lock(r)
  /\ Goto(r, IF disk[Id(r)] = None THEN "encode" ELSE "peek")
  /\ UNCHANGED <<reqVars, memVars, diskVars>>

PreloadPeek(r) ==
  /\ pc[r] = "peek"
  /\ \/ disk[Id(r)] \in Paths /\ Preloaded(r) /\ Unlock(r)
     \/ disk[Id(r)] \notin Paths /\ Goto(r, "clear") /\ UNCHANGED <<second, mu>>
  /\ UNCHANGED <<on, ask, got, voice, met, memVars, diskVars>>

PreloadClear(r) ==
  /\ pc[r] = "clear"
  /\ RemoveFile(Id(r))
  /\ Goto(r, "encode")
  /\ UNCHANGED <<reqVars, mu, memVars, faults>>

(* Mutant: the file is made before the audio is encoded. *)
EncodeLeavesFile(r) ==
  /\ pc[r] = "encode"
  /\ \/ Goto(r, "create") /\ UNCHANGED <<mu, disk>>
     \/ Goto(r, "fallback") /\ Unlock(r) /\ disk' = [disk EXCEPT ![Id(r)] = Torn]
  /\ UNCHANGED <<reqVars, memVars, writing, faults>>

Encode(r) ==
  /\ pc[r] = "encode"
  /\ \/ Goto(r, "create") /\ UNCHANGED mu
     \/ Goto(r, "fallback") /\ Unlock(r)
  /\ UNCHANGED <<reqVars, memVars, diskVars>>

(* os.Create: an existing file is emptied, and whoever writes to it goes on doing so. *)
Create(r) ==
  /\ pc[r] = "create"
  /\ \/ /\ disk' = [disk EXCEPT ![Id(r)] = Torn]
        /\ writing' = writing \cup {r}
        /\ Goto(r, "save")
        /\ UNCHANGED faults
     \/ /\ faults < MaxFaults /\ faults' = faults + 1
        /\ Goto(r, "add")
        /\ UNCHANGED <<disk, writing>>
  /\ UNCHANGED <<reqVars, mu, memVars>>

(* Two processes that write to one file may leave it undecodable until the last write. *)
Shared(r) == \E q \in writing \ {r} : Id(q) = Id(r)

Save(r) ==
  /\ pc[r] = "save"
  /\ \/ /\ r \in writing
        /\ \/ disk' = [disk EXCEPT ![Id(r)] = Path(r)]
           \/ Shared(r) /\ disk' = [disk EXCEPT ![Id(r)] = Torn]
        /\ UNCHANGED faults
     \/ /\ r \notin writing
        /\ UNCHANGED <<disk, faults>>
     \/ /\ faults < MaxFaults /\ faults' = faults + 1
        /\ UNCHANGED disk
  /\ writing' = writing \ {r}
  /\ Goto(r, "add")
  /\ UNCHANGED <<reqVars, mu, memVars>>

Add(r) ==
  /\ pc[r] = "add"
  /\ AddEntry(on[r], Id(r), Path(r))
  /\ Preloaded(r) /\ Unlock(r)
  /\ UNCHANGED <<on, ask, got, voice, met, diskVars>>

----------------------------------------------------------------------------
(* A worker dies and another one takes its place: memory is empty, files stay as they are. *)
Crash(w) ==
  /\ faults < MaxFaults /\ faults' = faults + 1
  /\ LET lost == {r \in Requests : Active(r) /\ on[r] = w}
     IN /\ pc' = [r \in Requests |-> IF r \in lost THEN "dead" ELSE pc[r]]
        /\ writing' = writing \ lost
  /\ mu' = [mu EXCEPT ![w] = None]
  /\ mem' = [mem EXCEPT ![w] = [i \in Ids |-> None]]
  /\ order' = [order EXCEPT ![w] = <<>>]
  /\ UNCHANGED <<reqVars, stamp, clock, disk>>

GetStep(r) == GetHit(r) \/ GetStat(r) \/ GetLoad(r) \/ GetDiscard(r)

ResolveStep(r) == Accept(r) \/ Reject(r) \/ Missed(r) \/ Fallback(r) \/ RemoveEntry(r)

PreloadStep(r) ==
  \/ PreloadHit(r) \/ PreloadStat(r) \/ PreloadPeek(r) \/ PreloadClear(r)
  \/ Encode(r) \/ Create(r) \/ Save(r) \/ Add(r)

Next ==
  \/ \E r \in Requests : Begin(r) \/ GetStep(r) \/ ResolveStep(r) \/ PreloadStep(r)
  \/ \E w \in Workers : Crash(w)

Spec == Init /\ [][Next]_vars

----------------------------------------------------------------------------
(* Properties *)

Labels == {"idle", "get", "load", "discard", "got", "missed", "remove", "preload", "peek",
           "clear", "encode", "create", "save", "add", "fallback", "done", "dead"}

(* The labels of a request that has the mutex of its process. *)
Holding == {"load", "discard", "peek", "clear", "encode", "create", "save", "add"}

(* The values the variables may have. *)
TypeOK ==
  /\ pc \in [Requests -> Labels]
  /\ on \in [Requests -> Workers \cup {None}]
  /\ ask \in [Requests -> Asks \cup {NoAsk}]
  /\ \A r \in Requests : Active(r) => on[r] # None /\ ask[r] # NoAsk
  /\ second \subseteq Requests /\ met \subseteq Requests
  /\ got \in [Requests -> Paths \cup {None}]
  /\ voice \in [Requests -> Paths \cup {Builtin, None}]
  /\ mu \in [Workers -> Requests \cup {None}]
  /\ mem \in [Workers -> [Ids -> Paths \cup {None}]]
  /\ order \in [Workers -> Seq(Ids)]
  /\ stamp \in [Workers -> [Ids -> Nat]] /\ clock \in Nat
  /\ disk \in [Ids -> Files]
  /\ writing \subseteq Requests
  /\ faults \in 0 .. MaxFaults

(* The list by which entries are evicted has the entries of memory, each once, from *)
(* the least to the most recently used one, and no more than MaxInMemory, although  *)
(* entries come from two operations and leave by eviction, removal and crashes.     *)
OrderIsRecency ==
  \A w \in Workers :
    /\ {i \in Ids : mem[w][i] # None} = ToSet(order[w])
    /\ \A j, k \in 1 .. Len(order[w]) : j < k => stamp[w][order[w][j]] < stamp[w][order[w][k]]
    /\ Len(order[w]) <= MaxInMemory

(* A request that says which audio file it expects does not speak with the voice of *)
(* another one (ttsruntime.go:319), whatever the id was used for before, in memory  *)
(* or on disk, by this process or another one - if no request with the same id and  *)
(* another file was in progress with it.                                            *)
OwnVoice ==
  \A r \in Requests :
    r \notin met /\ Path(r) # None => voice[r] \in {Path(r), Builtin, None}

(* A file that does not decode and that nobody writes is there only after a crash   *)
(* or a failed write: processes that save, load and discard one file at the same    *)
(* time do not leave one behind.                                                    *)
TornByFaultOnly ==
  \A i \in Ids :
    disk[i] = Torn => faults > 0 \/ \E r \in writing : Id(r) = i /\ pc[r] = "save"

----------------------------------------------------------------------------
(* What a comment in the code says and the code does not do *)

(* ttsruntime.go:319 "avoid voices mixed up by an id used again": between Preload   *)
(* and the second Get, whose answer is not compared, another request may put its    *)
(* own file under the id.                                                           *)
NoMixUp ==
  \A r \in Requests : Path(r) # None => voice[r] \in {Path(r), Builtin, None}
=============================================================================

------------------------------ MODULE CloneCache ------------------------------
(***************************************************************************)
(* The cache of encoded reference audio on disk                            *)
(* (src/pkg/ttsruntime/audio_clone_cache.go), its use by                   *)
(* EncodeReferenceAudioWithOptions (ttsruntime.go) in the workers, and its *)
(* cleaning by the parent (backgroundInit of src/pkg/web/web.go).          *)
(*                                                                         *)
(* An entry is written to <key>.gob.tmp and renamed to <key>.gob.  The     *)
(* mutex is that of one process; the files are everybody's.  A file has a  *)
(* content apart from its name: a process that has it open goes on writing *)
(* to it after somebody else has renamed or removed it.  The codes belong  *)
(* to the content of the audio, hence to the key: two processes that write *)
(* the entry of a key write the same.                                      *)
(***************************************************************************)
EXTENDS Naturals, FiniteSets

CONSTANTS
  Workers,   \* worker processes
  Requests,  \* encodings: each looks for its key once
  Keys,      \* hashes of reference audio
  Skipping,  \* the encodings that do not write the cache (those for PreloadCache)
  MaxFaults  \* bound of the model on crashes, failed writes and failed removals

None == "none"

ASSUME CloneAssumption ==
  /\ None \notin Workers \cup Requests \cup Keys
  /\ Requests \cap Keys = {}
  /\ Skipping \subseteq Requests
  /\ MaxFaults \in Nat

WorkersDir == "lib/cache/audio_clone_gob"
CleanerDir == "cache/audio_clone_gob"
Dirs == {WorkersDir, CleanerDir}

(* A file is named after the encoding that created it; a file of an earlier run after its key. *)
Files == Requests \cup Keys

VARIABLES
  pc,       \* [Requests -> label]
  on,       \* [Requests -> Workers or None]: the process of the encoding
  key,      \* [Requests -> Keys or None]
  mu,       \* [Workers -> request or None]: holder of AudioCloneCache.mu
  gob,      \* [Dirs -> [Keys -> Files or None]]: what bears the name <key>.gob
  tmp,      \* [Keys -> Files or None]: what bears the name <key>.gob.tmp
  fd,       \* [Requests -> Files or None]: the file the encoding has open
  whole,    \* the files that decode
  expired,  \* the files last written longer ago than the threshold
  listed,   \* the entries the cleaner has still to look at
  faults,   \* crashes, failed writes and failed removals so far
  met,      \* history: keys written by two processes at the same time, or by one that failed
  stored,   \* history: keys a Put has returned nil for
  late      \* history: encodings that began after their key was stored

reqVars == <<pc, on, key, late>>
fileVars == <<gob, tmp, fd, whole, expired>>
histVars == <<faults, met, stored>>
vars == <<reqVars, mu, fileVars, listed, histVars>>

Goto(r, l) == pc' = [pc EXCEPT ![r] = l]
Free(r) == mu[on[r]] = None
Lock(r) == mu' = [mu EXCEPT ![on[r]] = r]
Unlock(r) == mu' = [mu EXCEPT ![on[r]] = None]
Entry(r) == gob[WorkersDir][key[r]]
Writing == {"data", "rename", "sweep"}

(* The parent of an earlier version may have left files where the cleaner looks. *)
Init ==
  /\ pc = [r \in Requests |-> "idle"]
  /\ on = [r \in Requests |-> None] /\ key = [r \in Requests |-> None]
  /\ mu = [w \in Workers |-> None]
  /\ gob \in {[d \in Dirs |-> [k \in Keys |-> IF d = CleanerDir /\ k \in old THEN k ELSE None]] :
                old \in SUBSET Keys}
  /\ tmp = [k \in Keys |-> None] /\ fd = [r \in Requests |-> None]
  /\ whole = Keys /\ expired = {} /\ listed = {}
  /\ faults = 0 /\ met = {} /\ stored = {} /\ late = {}

----------------------------------------------------------------------------
(* Get and the encoding *)

Begin(r) ==
  /\ pc[r] = "idle"
  /\ \E w \in Workers, k \in Keys :
       /\ on' = [on EXCEPT ![r] = w] /\ key' = [key EXCEPT ![r] = k]
       /\ late' = IF k \in stored THEN late \cup {r} ELSE late
  /\ Goto(r, "get")
  /\ UNCHANGED <<mu, fileVars, listed, histVars>>

Get(r) ==
  /\ pc[r] = "get" /\ Free(r)
  /\ \/ Entry(r) = None /\ Goto(r, "encode") /\ UNCHANGED mu
     \/ Entry(r) \in whole /\ Goto(r, "done") /\ UNCHANGED mu
     \/ Entry(r) \notin whole \cup {None} /\ Goto(r, "discard") /\ Lock(r)
  /\ UNCHANGED <<on, key, late, fileVars, listed, histVars>>

(* What bears the name now is removed, whether or not it is what did not decode. *)
Discard(r) ==
  /\ pc[r] = "discard"
  /\ gob' = [gob EXCEPT ![WorkersDir][key[r]] = None]
  /\ Goto(r, "encode") /\ Unlock(r)
  /\ UNCHANGED <<on, key, late, tmp, fd, whole, expired, listed, histVars>>

Encode(r) ==
  /\ pc[r] = "encode"
  /\ \/ r \notin Skipping /\ Goto(r, "put")
     \/ Goto(r, "done")
  /\ UNCHANGED <<on, key, late, mu, fileVars, listed, histVars>>

----------------------------------------------------------------------------
(* Put *)

Rivals(r) == {q \in Requests \ {r} : pc[q] \in Writing /\ key[q] = key[r] /\ on[q] # on[r]}

Fault(r) == faults < MaxFaults /\ faults' = faults + 1 /\ met' = met \cup {key[r]}

Temporary(r) == IF tmp[key[r]] = None THEN r ELSE tmp[key[r]]

(* os.WriteFile opens: a file that is there is emptied. *)
Opened(r) ==
  LET f == Temporary(r)
  IN /\ tmp' = [tmp EXCEPT ![key[r]] = f]
     /\ whole' = whole \ {f} /\ expired' = expired \ {f}
     /\ met' = IF Rivals(r) = {} THEN met ELSE met \cup {key[r]}

(* Mutant: the data stays in a buffer that is not flushed. *)
OpenUnflushed(r) ==
  /\ pc[r] = "put" /\ Free(r)
  /\ Opened(r) /\ Lock(r) /\ Goto(r, "rename")
  /\ UNCHANGED <<on, key, late, gob, fd, listed, faults, stored>>

Open(r) ==
  /\ pc[r] = "put" /\ Free(r)
  /\ \/ /\ Opened(r) /\ fd' = [fd EXCEPT ![r] = Temporary(r)]
        /\ Lock(r) /\ Goto(r, "data") /\ UNCHANGED faults
     \/ Fault(r) /\ Goto(r, "failed") /\ UNCHANGED <<mu, tmp, fd, whole, expired>>
  /\ UNCHANGED <<on, key, late, gob, listed, stored>>

(* The data is written where the file is now; what a failed write has written stays. *)
Write(r) ==
  /\ pc[r] = "data"
  /\ fd' = [fd EXCEPT ![r] = None]
  /\ \/ /\ whole' = whole \cup {fd[r]} /\ expired' = expired \ {fd[r]}
        /\ Goto(r, "rename") /\ UNCHANGED <<mu, faults, met>>
     \/ /\ Fault(r)
        /\ Goto(r, "failed") /\ Unlock(r) /\ UNCHANGED <<whole, expired>>
  /\ UNCHANGED <<on, key, late, gob, tmp, listed, stored>>

(* Mutant: the entry is not renamed. *)
RenameForgotten(r) ==
  /\ pc[r] = "rename"
  /\ stored' = stored \cup {key[r]} /\ Goto(r, "done") /\ Unlock(r)
  /\ UNCHANGED <<on, key, late, fileVars, listed, faults, met>>

Rename(r) ==
  /\ pc[r] = "rename"
  /\ \/ /\ tmp[key[r]] # None
        /\ gob' = [gob EXCEPT ![WorkersDir][key[r]] = tmp[key[r]]]
        /\ tmp' = [tmp EXCEPT ![key[r]] = None]
        /\ stored' = stored \cup {key[r]}
        /\ Goto(r, "done") /\ Unlock(r)
     \/ /\ tmp[key[r]] = None
        /\ Goto(r, "sweep")
        /\ UNCHANGED <<gob, tmp, stored, mu>>
  /\ UNCHANGED <<on, key, late, fd, whole, expired, listed, faults, met>>

(* The rename has failed: os.Remove of the temporary file, whosever it is by now. *)
Sweep(r) ==
  /\ pc[r] = "sweep"
  /\ tmp' = [tmp EXCEPT ![key[r]] = None]
  /\ Goto(r, "failed") /\ Unlock(r)
  /\ UNCHANGED <<on, key, late, gob, fd, whole, expired, listed, histVars>>

----------------------------------------------------------------------------
(* CleanExpired, called at the start and every hour *)

CleanList ==
  /\ listed = {}
  /\ listed' = {k \in Keys : gob[CleanerDir][k] # None}
  /\ UNCHANGED <<reqVars, mu, fileVars, histVars>>

(* Mutant: the entries that are not expired are removed. *)
CleanFresh(k) ==
  /\ k \in listed /\ listed' = listed \ {k}
  /\ gob' = IF gob[CleanerDir][k] \in expired THEN gob ELSE [gob EXCEPT ![CleanerDir][k] = None]
  /\ UNCHANGED <<reqVars, mu, tmp, fd, whole, expired, histVars>>

(* An entry whose removal fails stays until the next cleaning. *)
Clean(k) ==
  /\ k \in listed /\ listed' = listed \ {k}
  /\ \/ /\ gob[CleanerDir][k] \in expired
        /\ gob' = [gob EXCEPT ![CleanerDir][k] = None] /\ UNCHANGED faults
     \/ /\ gob[CleanerDir][k] \in expired /\ faults < MaxFaults
        /\ faults' = faults + 1 /\ UNCHANGED gob
     \/ gob[CleanerDir][k] \notin expired /\ UNCHANGED <<gob, faults>>
  /\ UNCHANGED <<reqVars, mu, tmp, fd, whole, expired, met, stored>>

(* A day passes for an entry. *)
Expire(d, k) ==
  /\ gob[d][k] # None /\ gob[d][k] \notin expired
  /\ expired' = expired \cup {gob[d][k]}
  /\ UNCHANGED <<reqVars, mu, gob, tmp, fd, whole, listed, histVars>>

(* A worker dies; another one takes its place. *)
Crash(w) ==
  LET lost == {r \in Requests : on[r] = w /\ pc[r] \notin {"done", "failed", "dead"}}
  IN /\ faults < MaxFaults /\ faults' = faults + 1
     /\ pc' = [r \in Requests |-> IF r \in lost THEN "dead" ELSE pc[r]]
     /\ fd' = [r \in Requests |-> IF r \in lost THEN None ELSE fd[r]]
     /\ met' = met \cup {key[r] : r \in lost}
     /\ mu' = [mu EXCEPT ![w] = None]
     /\ UNCHANGED <<on, key, late, gob, tmp, whole, expired, listed, stored>>

Encoding(r) ==
  \/ Begin(r) \/ Get(r) \/ Discard(r) \/ Encode(r)
  \/ Open(r) \/ Write(r) \/ Rename(r) \/ Sweep(r)

Cleaner == CleanList \/ \E k \in Keys : Clean(k)

Next ==
  \/ \E r \in Requests : Encoding(r)
  \/ Cleaner
  \/ \E d \in Dirs, k \in Keys : Expire(d, k)
  \/ \E w \in Workers : Crash(w)

Spec == Init /\ [][Next]_vars

(* The parent's cleaning loop runs; nothing is assumed of the workers. *)
FairSpec == Spec /\ WF_vars(CleanList) /\ \A k \in Keys : WF_vars(Clean(k))

----------------------------------------------------------------------------
(* Properties *)

Labels == {"idle", "get", "discard", "encode", "put", "done", "failed", "dead"} \cup Writing

(* The values the variables may have; the mutex of a process is held by the one *)
(* encoding of it that is inside Get or Put.                                    *)
TypeOK ==
  /\ pc \in [Requests -> Labels]
  /\ on \in [Requests -> Workers \cup {None}] /\ key \in [Requests -> Keys \cup {None}]
  /\ mu \in [Workers -> Requests \cup {None}]
  /\ \A r \in Requests : pc[r] \in Writing \cup {"discard"} => mu[on[r]] = r
  /\ gob \in [Dirs -> [Keys -> Files \cup {None}]]
  /\ tmp \in [Keys -> Files \cup {None}] /\ fd \in [Requests -> Files \cup {None}]
  /\ whole \subseteq Files /\ expired \subseteq Files /\ listed \subseteq Keys
  /\ faults \in 0 .. MaxFaults
  /\ met \subseteq Keys \cup {None} /\ stored \subseteq Keys /\ late \subseteq Requests

(* A damaged entry without a writer that still mends it is there only after a fault: *)
(* a crash, or a write or a removal that failed.  Writers of one key, who empty,     *)
(* rename and remove one another's temporary file, do not leave one behind.          *)
DamageByFaultOnly ==
  \A k \in Keys : LET f == gob[WorkersDir][k] IN
    f \notin whole \cup {None} => faults > 0 \/ \E r \in Requests : fd[r] = f

(* An encoding that begins after its key was stored finds the entry, so that audio *)
(* is encoded once, if no two processes wrote the key at the same time and nothing *)
(* failed: no cleaning, discarding or renaming takes a good entry away.            *)
HitAfterPut ==
  \A r \in late : pc[r] = "encode" => key[r] \in met

(* Put fails only if another process wrote the key at the same time or there was a *)
(* fault: within a process the mutex is enough.                                    *)
LonePutSucceeds ==
  \A r \in Requests : pc[r] \in {"sweep", "failed"} => key[r] \in met

(* A process that is alone with its key, and meets no fault, needs nothing but its own *)
(* mutex: its Put succeeds, and later encodings find the entry.                        *)
LoneWriterStores == HitAfterPut /\ LonePutSucceeds

(* An entry that has expired where the cleaner looks is removed. *)
ExpiredGoes ==
  \A k \in Keys : gob[CleanerDir][k] \in expired ~> gob[CleanerDir][k] = None

----------------------------------------------------------------------------
(* What comments in the code say and the code does not do *)

(* audio_clone_cache.go:100 "renamed atomically, so that concurrent reads and writes *)
(* do no damage": a second writer has emptied the file that the first one renames.  *)
RenameIsWhole ==
  \A k \in Keys : gob[WorkersDir][k] \in whole \cup {None} \/ faults > 0

(* web.go:304 "the parent cleans; the workers share the directory": they do not. *)
WorkersEntriesGo ==
  \A k \in Keys : gob[WorkersDir][k] \in expired ~> gob[WorkersDir][k] \notin expired
=============================================================================

--------------------------- MODULE CloneCacheProofs ---------------------------
(***************************************************************************)
(* Proofs about CloneCache, for all sets of processes, encodings and keys  *)
(* and any number of faults: what damages an entry, and what a process     *)
(* that is alone with its key may rely on.                                 *)
(*                                                                         *)
(* The parts of IInv: which files may bear which names (NameInv); that a   *)
(* named file which does not decode is still being written or was left by  *)
(* a fault (DamageInv); and, for a key that no two processes have written  *)
(* at the same time and no fault has met, where its one writer stands with *)
(* its temporary file and that its entry is good (LoneInv).                *)
(***************************************************************************)
EXTENDS CloneCache, TLAPS

Typed ==
  /\ pc \in [Requests -> Labels]
  /\ on \in [Requests -> Workers \cup {None}] /\ key \in [Requests -> Keys \cup {None}]
  /\ mu \in [Workers -> Requests \cup {None}]
  /\ gob \in [Dirs -> [Keys -> Files \cup {None}]]
  /\ tmp \in [Keys -> Files \cup {None}] /\ fd \in [Requests -> Files \cup {None}]
  /\ whole \subseteq Files /\ expired \subseteq Files /\ listed \subseteq Keys
  /\ faults \in 0 .. MaxFaults
  /\ met \subseteq Keys \cup {None} /\ stored \subseteq Keys /\ late \subseteq Requests

(* An encoding that has begun has a process and a key, and a file open while it writes. *)
PlaceInv ==
  \A r \in Requests :
    /\ pc[r] # "idle" => on[r] \in Workers /\ key[r] \in Keys
    /\ pc[r] = "idle" => on[r] = None /\ r \notin late
    /\ fd[r] # None <=> pc[r] = "data"

MutexInv == \A r \in Requests : pc[r] \in Writing \cup {"discard"} => mu[on[r]] = r

Before == {"idle", "get", "discard", "encode", "put"}

(* A name of a key is borne by a file of an encoding of this key, the two names never by *)
(* the same; an encoding that has not opened its file yet has none.                      *)
NameInv ==
  /\ \A k \in Keys :
       /\ tmp[k] # None => tmp[k] \in Requests /\ key[tmp[k]] = k /\ pc[tmp[k]] \notin Before
       /\ gob[WorkersDir][k] # None => LET f == gob[WorkersDir][k] IN
            f \in Requests /\ key[f] = k /\ pc[f] \notin Before /\ f # tmp[k]

(* A file that decodes, or that is still being written. *)
Sound(f) == f \in whole \cup {None} \/ \E r \in Requests : fd[r] = f

DamageInv == faults = 0 => \A k \in Keys : Sound(tmp[k]) /\ Sound(gob[WorkersDir][k])

Writers(k) == {r \in Requests : pc[r] \in Writing /\ key[r] = k}

(* A key that nothing has gone wrong with: it has one writer at most, whose temporary file  *)
(* is there, and after the write whole; its entry decodes, and is there once it was stored. *)
LoneInv ==
  \A k \in Keys \ met :
    /\ \A q, r \in Writers(k) : q = r
    /\ Writers(k) = {} => tmp[k] = None
    /\ \A r \in Requests : key[r] = k =>
         /\ pc[r] \notin {"discard", "sweep", "failed", "dead"}
         /\ pc[r] = "data" => fd[r] = tmp[k] /\ tmp[k] # None
         /\ pc[r] = "rename" => tmp[k] \in whole
    /\ gob[WorkersDir][k] \in whole \cup {None}
    /\ k \in stored => gob[WorkersDir][k] # None

LateInv ==
  \A r \in late : key[r] \in stored /\ (pc[r] \in {"discard", "encode"} => key[r] \in met)

IInv == Typed /\ PlaceInv /\ MutexInv /\ NameInv /\ DamageInv /\ LoneInv /\ LateInv

----------------------------------------------------------------------------
USE DEF Labels, Writing, Files, Before

LEMMA NoneApart == None \notin Files /\ None \notin Requests /\ None \notin Keys /\ None \notin Workers
  BY CloneAssumption

LEMMA DirsApart == WorkersDir \in Dirs /\ CleanerDir \in Dirs /\ WorkersDir # CleanerDir
  BY DEF Dirs, WorkersDir, CleanerDir

LEMMA InitInv == Init => IInv
  <1> SUFFICES ASSUME Init PROVE IInv  OBVIOUS
  <1> USE NoneApart DEF Init
  <1>1. \A k \in Keys : gob[WorkersDir][k] = None  BY DirsApart
  <1>2. gob \in [Dirs -> [Keys -> Files \cup {None}]]
    <2>1. PICK old \in SUBSET Keys :
            gob = [d \in Dirs |-> [k \in Keys |-> IF d = CleanerDir /\ k \in old THEN k ELSE None]]
      OBVIOUS
    <2> QED  BY <2>1
  <1>3. Typed  BY <1>2, CloneAssumption DEF Typed
  <1>4. PlaceInv /\ MutexInv  BY DEF PlaceInv, MutexInv
  <1>5. NameInv /\ DamageInv  BY <1>1 DEF NameInv, DamageInv, Sound
  <1>6. LoneInv  BY <1>1 DEF LoneInv, Writers
  <1>7. LateInv  BY DEF LateInv
  <1> QED  BY <1>3, <1>4, <1>5, <1>6, <1>7 DEF IInv

(* What a step of one encoding leaves alone. *)
LEMMA GotoFacts ==
  ASSUME Typed, NEW r \in Requests, NEW l \in Labels, Goto(r, l)
  PROVE  /\ pc' \in [Requests -> Labels] /\ pc'[r] = l
         /\ \A q \in Requests \ {r} : pc'[q] = pc[q]
  BY DEF Typed, Goto

LEMMA LockFacts ==
  ASSUME Typed, NEW r \in Requests, on[r] \in Workers, NEW x \in Requests \cup {None},
         mu' = [mu EXCEPT ![on[r]] = x]
  PROVE  /\ mu' \in [Workers -> Requests \cup {None}] /\ mu'[on[r]] = x
         /\ \A w \in Workers \ {on[r]} : mu'[w] = mu[w]
  BY DEF Typed

LEMMA NameFacts ==
  ASSUME Typed, NEW k \in Keys, NEW f \in Files \cup {None},
         gob' = [gob EXCEPT ![WorkersDir][k] = f]
  PROVE  /\ gob' \in [Dirs -> [Keys -> Files \cup {None}]] /\ gob'[WorkersDir][k] = f
         /\ \A j \in Keys \ {k} : gob'[WorkersDir][j] = gob[WorkersDir][j]
  BY DirsApart DEF Typed

(* Steps that move an encoding on before it writes, and touch no file. *)
LEMMA MoveInv ==
  ASSUME IInv, NEW r \in Requests, NEW l \in Labels, Goto(r, l), on[r] \in Workers, key[r] \in Keys,
         pc[r] \in {"get", "encode"}, l \in {"encode", "put", "done"},
         l = "encode" => gob[WorkersDir][key[r]] = None,
         UNCHANGED <<on, key, late, mu, fileVars, listed, histVars>>
  PROVE  IInv'
  <1> USE DEF IInv, fileVars, histVars
  <1>1. /\ pc' \in [Requests -> Labels] /\ pc'[r] = l
        /\ \A q \in Requests \ {r} : pc'[q] = pc[q]
    BY GotoFacts
  <1>2. Typed'  BY <1>1 DEF Typed
  <1>3. PlaceInv' /\ MutexInv'  BY <1>1 DEF PlaceInv, MutexInv
  <1>4. NameInv'  BY <1>1 DEF NameInv
  <1>5. DamageInv'  BY DEF DamageInv, Sound
  <1>6. \A k : Writers(k)' = Writers(k)  BY <1>1 DEF Writers
  <1>7. LoneInv'  BY <1>1, <1>6 DEF LoneInv
  <1>8. LateInv'
    <2>1. r \in late /\ l = "encode" => key[r] \in met  BY DEF LateInv, LoneInv
    <2> QED  BY <1>1, <2>1 DEF LateInv, Typed
  <1> QED  BY <1>2, <1>3, <1>4, <1>5, <1>7, <1>8

LEMMA BeginInv == ASSUME IInv, NEW r \in Requests, Begin(r) PROVE IInv'
  <1> USE DEF IInv, fileVars, histVars
  <1>1. PICK w \in Workers, k \in Keys :
          /\ on' = [on EXCEPT ![r] = w] /\ key' = [key EXCEPT ![r] = k]
          /\ late' = IF k \in stored THEN late \cup {r} ELSE late
    BY DEF Begin
  <1>2. /\ pc' \in [Requests -> Labels] /\ pc'[r] = "get" /\ pc[r] = "idle"
        /\ \A q \in Requests \ {r} : pc'[q] = pc[q]
    BY GotoFacts DEF Begin
  <1>3. /\ on'[r] = w /\ key'[r] = k /\ \A q \in Requests \ {r} : on'[q] = on[q] /\ key'[q] = key[q]
        /\ UNCHANGED <<mu, gob, tmp, fd, whole, expired, listed, faults, met, stored>>
    BY <1>1 DEF Begin, Typed
  <1>4. Typed'  BY <1>1, <1>2, <1>3 DEF Typed
  <1>5. PlaceInv' /\ MutexInv'  BY <1>1, <1>2, <1>3 DEF PlaceInv, MutexInv
  <1>6. NameInv'  BY <1>2, <1>3 DEF NameInv
  <1>7. DamageInv'  BY <1>3 DEF DamageInv, Sound
  <1>8. \A j : Writers(j)' = Writers(j)  BY <1>2, <1>3 DEF Writers
  <1>9. LoneInv'  BY <1>2, <1>3, <1>8 DEF LoneInv
  <1>10. LateInv'  BY <1>1, <1>2, <1>3 DEF LateInv, Typed, PlaceInv
  <1> QED  BY <1>4, <1>5, <1>6, <1>7, <1>9, <1>10

LEMMA GetInv == ASSUME IInv, NEW r \in Requests, Get(r) PROVE IInv'
  <1> USE DEF IInv
  <1>0. on[r] \in Workers /\ key[r] \in Keys /\ pc[r] = "get"  BY DEF PlaceInv, Get
  <1>1. CASE /\ Entry(r) = None /\ Goto(r, "encode") /\ UNCHANGED mu
    BY <1>0, <1>1, MoveInv DEF Get, Entry
  <1>2. CASE Entry(r) \in whole /\ Goto(r, "done") /\ UNCHANGED mu
    BY <1>0, <1>2, MoveInv DEF Get
  <1>3. CASE Entry(r) \notin whole \cup {None} /\ Goto(r, "discard") /\ Lock(r)
    <2> USE DEF fileVars, histVars
    <2>1. /\ pc' \in [Requests -> Labels] /\ pc'[r] = "discard"
          /\ \A q \in Requests \ {r} : pc'[q] = pc[q]
      BY <1>3, GotoFacts
    <2>2. /\ mu' \in [Workers -> Requests \cup {None}] /\ mu'[on[r]] = r /\ mu[on[r]] = None
          /\ \A w \in Workers \ {on[r]} : mu'[w] = mu[w]
      BY <1>0, <1>3, LockFacts DEF Get, Lock, Free
    <2>3. UNCHANGED <<on, key, late, gob, tmp, fd, whole, expired, listed, faults, met, stored>>
      BY DEF Get
    <2>4. key[r] \in met  BY <1>0, <1>3 DEF LoneInv, Entry
    <2>5. Typed'  BY <2>1, <2>2, <2>3 DEF Typed
    <2>6. PlaceInv'  BY <1>0, <2>1, <2>3 DEF PlaceInv
    <2>7. MutexInv'  BY <1>0, <2>1, <2>2, <2>3, NoneApart DEF MutexInv, PlaceInv
    <2>8. NameInv' /\ DamageInv'  BY <1>0, <2>1, <2>3 DEF NameInv, DamageInv, Sound
    <2>9. \A k : Writers(k)' = Writers(k)  BY <1>0, <2>1, <2>3 DEF Writers
    <2>10. LoneInv'  BY <2>1, <2>3, <2>4, <2>9 DEF LoneInv
    <2>11. LateInv'  BY <2>1, <2>3, <2>4 DEF LateInv, Typed
    <2> QED  BY <2>5, <2>6, <2>7, <2>8, <2>10, <2>11
  <1> QED  BY <1>1, <1>2, <1>3 DEF Get

LEMMA DiscardInv == ASSUME IInv, NEW r \in Requests, Discard(r) PROVE IInv'
  <1> USE DEF IInv
  <1>0. on[r] \in Workers /\ key[r] \in Keys /\ pc[r] = "discard" /\ mu[on[r]] = r
    BY DEF PlaceInv, MutexInv, Discard
  <1>1. /\ pc' \in [Requests -> Labels] /\ pc'[r] = "encode"
        /\ \A q \in Requests \ {r} : pc'[q] = pc[q]
    BY GotoFacts DEF Discard
  <1>2. /\ mu' \in [Workers -> Requests \cup {None}]
        /\ \A w \in Workers \ {on[r]} : mu'[w] = mu[w]
    BY <1>0, LockFacts DEF Discard, Unlock
  <1>3. /\ gob' \in [Dirs -> [Keys -> Files \cup {None}]] /\ gob'[WorkersDir][key[r]] = None
        /\ \A j \in Keys \ {key[r]} : gob'[WorkersDir][j] = gob[WorkersDir][j]
    BY <1>0, NameFacts DEF Discard
  <1>4. UNCHANGED <<on, key, late, tmp, fd, whole, expired, listed, faults, met, stored>>
    BY DEF Discard, histVars
  <1>5. key[r] \in met  BY <1>0 DEF LoneInv
  <1>6. Typed'  BY <1>1, <1>2, <1>3, <1>4 DEF Typed
  <1>7. PlaceInv'  BY <1>0, <1>1, <1>4 DEF PlaceInv
  <1>8. MutexInv'  BY <1>0, <1>1, <1>2, <1>4 DEF MutexInv, PlaceInv
  <1>9. NameInv'  BY <1>0, <1>1, <1>3, <1>4 DEF NameInv
  <1>10. DamageInv'  BY <1>3, <1>4 DEF DamageInv, Sound
  <1>11. \A k : Writers(k)' = Writers(k)  BY <1>0, <1>1, <1>4 DEF Writers
  <1>12. LoneInv'  BY <1>1, <1>3, <1>4, <1>5, <1>11 DEF LoneInv
  <1>13. LateInv'  BY <1>1, <1>4, <1>5 DEF LateInv, Typed
  <1> QED  BY <1>6, <1>7, <1>8, <1>9, <1>10, <1>12, <1>13

LEMMA EncodeInv == ASSUME IInv, NEW r \in Requests, Encode(r) PROVE IInv'
  <1>1. on[r] \in Workers /\ key[r] \in Keys /\ pc[r] = "encode"  BY DEF IInv, PlaceInv, Encode
  <1> QED  BY <1>1, MoveInv DEF Encode

----------------------------------------------------------------------------
(* Put *)

(* An encoding whose file could not be opened or written. *)
LEMMA FaultInv ==
  ASSUME IInv, NEW r \in Requests, pc[r] \in {"put", "data"}, Fault(r), Goto(r, "failed"),
         mu' \in [Workers -> Requests \cup {None}],
         \A w \in Workers : mu'[w] = mu[w] \/ (w = on[r] /\ pc[r] = "data"),
         fd' = [fd EXCEPT ![r] = None],
         UNCHANGED <<on, key, late, gob, tmp, whole, expired, listed, stored>>
  PROVE  IInv'
  <1> USE DEF IInv
  <1>0. on[r] \in Workers /\ key[r] \in Keys  BY DEF PlaceInv
  <1>1. /\ pc' \in [Requests -> Labels] /\ pc'[r] = "failed"
        /\ \A q \in Requests \ {r} : pc'[q] = pc[q]
    BY GotoFacts
  <1>2. faults' \in 0 .. MaxFaults /\ faults' # 0 /\ met' = met \cup {key[r]}
    <2>1. faults \in 0 .. MaxFaults /\ MaxFaults \in Nat  BY CloneAssumption DEF Typed
    <2> QED  BY <2>1 DEF Fault
  <1>3. fd' \in [Requests -> Files \cup {None}] /\ fd'[r] = None /\ \A q \in Requests \ {r} : fd'[q] = fd[q]
    BY DEF Typed
  <1>4. Typed'  BY <1>0, <1>1, <1>2, <1>3 DEF Typed
  <1>5. PlaceInv'  BY <1>0, <1>1, <1>3 DEF PlaceInv
  <1>6. MutexInv'
    <2> SUFFICES ASSUME NEW q \in Requests, pc'[q] \in Writing \cup {"discard"} PROVE mu'[on[q]] = q
      BY DEF MutexInv
    <2>1. q # r /\ pc[q] \in Writing \cup {"discard"}  BY <1>1
    <2>2. mu[on[q]] = q /\ on[q] \in Workers  BY <2>1 DEF MutexInv, PlaceInv
    <2>3. on[q] = on[r] /\ pc[r] = "data" => FALSE  BY <2>1, <2>2 DEF MutexInv
    <2> QED  BY <2>2, <2>3
  <1>7. NameInv'  BY <1>1 DEF NameInv
  <1>8. DamageInv'  BY <1>2 DEF DamageInv
  <1>9. \A k \in Keys \ {key[r]} : Writers(k)' = Writers(k)  BY <1>1 DEF Writers
  <1>10. LoneInv'  BY <1>1, <1>2, <1>3, <1>9 DEF LoneInv
  <1>11. LateInv'  BY <1>1, <1>2 DEF LateInv, Typed
  <1> QED  BY <1>4, <1>5, <1>6, <1>7, <1>8, <1>10, <1>11

LEMMA OpenInv == ASSUME IInv, NEW r \in Requests, Open(r) PROVE IInv'
  <1> USE DEF IInv
  <1>0. /\ on[r] \in Workers /\ key[r] \in Keys /\ pc[r] = "put" /\ mu[on[r]] = None
        /\ fd[r] = None /\ UNCHANGED <<on, key, late, gob, listed, stored>>
    BY DEF PlaceInv, Open, Free
  <1>1. CASE Fault(r) /\ Goto(r, "failed") /\ UNCHANGED <<mu, tmp, fd, whole, expired>>
    <2>1. fd' = [fd EXCEPT ![r] = None] /\ mu' \in [Workers -> Requests \cup {None}]
      BY <1>0, <1>1 DEF Typed
    <2> QED  BY <1>0, <1>1, <2>1, FaultInv
  <1>2. CASE /\ Opened(r) /\ fd' = [fd EXCEPT ![r] = Temporary(r)]
             /\ Lock(r) /\ Goto(r, "data") /\ UNCHANGED faults
    <2> DEFINE k == key[r]
               f == Temporary(r)
    <2>1. /\ f \in Requests /\ f # None
          /\ tmp[k] # None => f = tmp[k] /\ key[f] = k
          /\ tmp[k] = None => f = r
          /\ key[f] = k /\ (f # r => pc[f] \notin Before)
      BY <1>0, NoneApart DEF Temporary, NameInv
    <2> HIDE DEF k, f
    <2>2. k = key[r] /\ k \in Keys  BY <1>0 DEF k
    <2>3. /\ tmp' = [tmp EXCEPT ![k] = f] /\ whole' = whole \ {f} /\ expired' = expired \ {f}
          /\ met' = IF Rivals(r) = {} THEN met ELSE met \cup {k}
          /\ fd' = [fd EXCEPT ![r] = f] /\ faults' = faults
      BY <1>2 DEF Opened, k, f
    <2>4. /\ pc' \in [Requests -> Labels] /\ pc'[r] = "data"
          /\ \A q \in Requests \ {r} : pc'[q] = pc[q]
      BY <1>2, GotoFacts
    <2>5. /\ mu' \in [Workers -> Requests \cup {None}] /\ mu'[on[r]] = r
          /\ \A w \in Workers \ {on[r]} : mu'[w] = mu[w]
      BY <1>0, <1>2, LockFacts DEF Lock
    <2>6. /\ tmp' \in [Keys -> Files \cup {None}] /\ tmp'[k] = f /\ \A j \in Keys \ {k} : tmp'[j] = tmp[j]
          /\ fd' \in [Requests -> Files \cup {None}] /\ fd'[r] = f
          /\ \A q \in Requests \ {r} : fd'[q] = fd[q]
      BY <2>1, <2>2, <2>3 DEF Typed
    <2>7. Typed'  BY <1>0, <2>2, <2>3, <2>4, <2>5, <2>6 DEF Typed
    <2>8. PlaceInv'  BY <1>0, <2>1, <2>4, <2>6 DEF PlaceInv
    <2>9. MutexInv'  BY <1>0, <2>4, <2>5, NoneApart DEF MutexInv, PlaceInv
    <2>10. /\ \A j \in Keys : gob[WorkersDir][j] = f => j = k
           /\ gob[WorkersDir][k] # f
           /\ \A j \in Keys \ {k} : tmp[j] # f
      <3>1. \A j \in Keys : gob[WorkersDir][j] = f => key[f] = j  BY <2>1 DEF NameInv
      <3>2. \A j \in Keys : tmp[j] = f => key[f] = j  BY <2>1 DEF NameInv
      <3>3. gob[WorkersDir][k] = f => f # tmp[k] /\ pc[f] \notin Before  BY <2>1, <2>2 DEF NameInv
      <3>4. gob[WorkersDir][k] # f  BY <1>0, <2>1, <3>3
      <3> QED  BY <2>1, <3>1, <3>2, <3>4
    <2>11. NameInv'  BY <1>0, <2>1, <2>2, <2>4, <2>6, <2>10 DEF NameInv
    <2>12. DamageInv'
      <3>1. ASSUME NEW x, Sound(x) PROVE Sound(x)'
        <4>1. CASE x \in whole \cup {None}  BY <2>3, <2>6, <4>1 DEF Sound
        <4>2. CASE x # None /\ \E q \in Requests : fd[q] = x
          <5>1. PICK q \in Requests : fd[q] = x  BY <4>2
          <5>2. q # r  BY <1>0, <4>2, <5>1
          <5> QED  BY <2>6, <5>1, <5>2 DEF Sound
        <4> QED  BY <3>1, <4>1, <4>2 DEF Sound
      <3>2. \E q \in Requests : fd'[q] = f  BY <2>6
      <3> SUFFICES ASSUME faults = 0, NEW j \in Keys
                   PROVE  Sound(tmp[j])' /\ Sound(gob[WorkersDir][j])'
        BY <2>3 DEF DamageInv
      <3>3. Sound(gob[WorkersDir][j])'
        <4>1. \A x : Sound(x) => x \in whole' \cup {None} \/ \E q \in Requests : fd'[q] = x
          BY <3>1 DEF Sound
        <4> QED  BY <1>0, <4>1 DEF DamageInv, Sound
      <3>4. Sound(tmp[j])'
        <4>1. CASE j = k  BY <2>6, <3>2, <4>1 DEF Sound
        <4>2. CASE j # k
          <5>1. \A x : Sound(x) => x \in whole' \cup {None} \/ \E q \in Requests : fd'[q] = x
            BY <3>1 DEF Sound
          <5> QED  BY <2>6, <4>2, <5>1 DEF DamageInv, Sound
        <4> QED  BY <4>1, <4>2
      <3> QED  BY <3>3, <3>4
    <2>13. LoneInv'
      <3> SUFFICES ASSUME NEW j \in Keys, j \notin met'
                   PROVE  /\ \A q, p \in Writers(j)' : q = p
                          /\ Writers(j)' = {} => tmp'[j] = None
                          /\ \A q \in Requests : key[q] = j =>
                               /\ pc'[q] \notin {"discard", "sweep", "failed", "dead"}
                               /\ pc'[q] = "data" => fd'[q] = tmp'[j] /\ tmp'[j] # None
                               /\ pc'[q] = "rename" => tmp'[j] \in whole'
                          /\ gob[WorkersDir][j] \in whole' \cup {None}
                          /\ j \in stored => gob[WorkersDir][j] # None
        BY <1>0 DEF LoneInv
      <3>0. j \notin met  BY <2>3
      <3>1. CASE j # k
        <4>1. Writers(j)' = Writers(j)  BY <1>0, <2>2, <2>4, <3>1 DEF Writers
        <4>2. tmp'[j] = tmp[j] /\ tmp[j] # f /\ gob[WorkersDir][j] # f  BY <2>6, <2>10, <3>1
        <4> QED  BY <2>2, <2>3, <2>4, <2>6, <3>0, <3>1, <4>1, <4>2 DEF LoneInv
      <3>2. CASE j = k
        <4>1. Rivals(r) = {}  BY <2>3, <3>2
        <4>2. Writers(k) = {}
          <5> SUFFICES ASSUME NEW q \in Requests, pc[q] \in Writing, key[q] = k PROVE FALSE
            BY DEF Writers
          <5>1. q # r  BY <1>0
          <5>2. on[q] = on[r]  BY <2>2, <4>1, <5>1 DEF Rivals
          <5>3. mu[on[q]] = q  BY DEF MutexInv
          <5> QED  BY <1>0, <5>2, <5>3, NoneApart
        <4>3. tmp[k] = None /\ f = r  BY <2>1, <2>2, <3>0, <3>2, <4>2 DEF LoneInv
        <4>4. Writers(j)' = {r}  BY <1>0, <2>2, <2>4, <3>2, <4>2 DEF Writers
        <4>5. \A q \in Requests \ {r} : key[q] = k => pc[q] \notin Writing  BY <4>2 DEF Writers
        <4> QED  BY <2>1, <2>3, <2>4, <2>6, <2>10, <3>0, <3>2, <4>4, <4>5 DEF LoneInv
      <3> QED  BY <3>1, <3>2
    <2>14. LateInv'  BY <1>0, <2>3, <2>4 DEF LateInv, Typed
    <2> QED  BY <2>7, <2>8, <2>9, <2>11, <2>12, <2>13, <2>14
  <1> QED  BY <1>1, <1>2 DEF Open

LEMMA WriteInv == ASSUME IInv, NEW r \in Requests, Write(r) PROVE IInv'
  <1> USE DEF IInv
  <1>0. /\ on[r] \in Workers /\ key[r] \in Keys /\ pc[r] = "data" /\ mu[on[r]] = r /\ fd[r] # None
        /\ fd' = [fd EXCEPT ![r] = None] /\ UNCHANGED <<on, key, late, gob, tmp, listed, stored>>
    BY DEF PlaceInv, MutexInv, Write
  <1>1. CASE Fault(r) /\ Goto(r, "failed") /\ Unlock(r) /\ UNCHANGED <<whole, expired>>
    <2>1. /\ mu' \in [Workers -> Requests \cup {None}]
          /\ \A w \in Workers \ {on[r]} : mu'[w] = mu[w]
      BY <1>0, <1>1, LockFacts DEF Unlock
    <2> QED  BY <1>0, <1>1, <2>1, FaultInv
  <1>2. CASE /\ whole' = whole \cup {fd[r]} /\ expired' = expired \ {fd[r]}
             /\ Goto(r, "rename") /\ UNCHANGED <<mu, faults, met>>
    <2>1. /\ pc' \in [Requests -> Labels] /\ pc'[r] = "rename"
          /\ \A q \in Requests \ {r} : pc'[q] = pc[q]
      BY <1>2, GotoFacts
    <2>2. fd' \in [Requests -> Files \cup {None}] /\ fd'[r] = None /\ \A q \in Requests \ {r} : fd'[q] = fd[q]
      BY <1>0 DEF Typed
    <2>3. fd[r] \in Files  BY <1>0 DEF Typed
    <2>4. Typed'  BY <1>0, <1>2, <2>1, <2>2, <2>3 DEF Typed
    <2>5. PlaceInv' /\ MutexInv'  BY <1>0, <1>2, <2>1, <2>2 DEF PlaceInv, MutexInv
    <2>6. NameInv'  BY <1>0, <2>1 DEF NameInv
    <2>7. DamageInv'
      <3>1. ASSUME NEW x, Sound(x) PROVE Sound(x)'
        BY <1>2, <2>2, <3>1 DEF Sound
      <3> SUFFICES ASSUME faults = 0, NEW j \in Keys
                   PROVE  Sound(tmp[j])' /\ Sound(gob[WorkersDir][j])'
        BY <1>2 DEF DamageInv
      <3> QED  BY <1>0, <3>1 DEF DamageInv, Sound
    <2>8. \A k : Writers(k)' = Writers(k)  BY <1>0, <2>1 DEF Writers
    <2>9. LoneInv'  BY <1>0, <1>2, <2>1, <2>2, <2>8 DEF LoneInv
    <2>10. LateInv'  BY <1>0, <1>2, <2>1 DEF LateInv, Typed
    <2> QED  BY <2>4, <2>5, <2>6, <2>7, <2>9, <2>10
  <1> QED  BY <1>1, <1>2 DEF Write

LEMMA RenameInv == ASSUME IInv, NEW r \in Requests, Rename(r) PROVE IInv'
  <1> USE DEF IInv
  <1> DEFINE k == key[r]
  <1>0. /\ on[r] \in Workers /\ k \in Keys /\ pc[r] = "rename" /\ mu[on[r]] = r
        /\ UNCHANGED <<on, key, late, fd, whole, expired, listed, faults, met>>
    BY DEF PlaceInv, MutexInv, Rename
  <1>1. \A j \in Keys \ {k} : r \notin Writers(j)  BY DEF Writers
  <1>2. r \in Writers(k)  BY <1>0 DEF Writers
  <1>3. CASE /\ tmp[k] # None
             /\ gob' = [gob EXCEPT ![WorkersDir][k] = tmp[k]]
             /\ tmp' = [tmp EXCEPT ![k] = None]
             /\ stored' = stored \cup {k}
             /\ Goto(r, "done") /\ Unlock(r)
    <2>1. /\ pc' \in [Requests -> Labels] /\ pc'[r] = "done"
          /\ \A q \in Requests \ {r} : pc'[q] = pc[q]
      BY <1>3, GotoFacts
    <2>2. /\ mu' \in [Workers -> Requests \cup {None}]
          /\ \A w \in Workers \ {on[r]} : mu'[w] = mu[w]
      BY <1>0, <1>3, LockFacts DEF Unlock
    <2>3. /\ gob' \in [Dirs -> [Keys -> Files \cup {None}]] /\ gob'[WorkersDir][k] = tmp[k]
          /\ \A j \in Keys \ {k} : gob'[WorkersDir][j] = gob[WorkersDir][j]
      <3>1. tmp[k] \in Files \cup {None}  BY <1>0 DEF Typed
      <3> QED  BY <1>0, <1>3, <3>1, NameFacts
    <2>4. /\ tmp' \in [Keys -> Files \cup {None}] /\ tmp'[k] = None
          /\ \A j \in Keys \ {k} : tmp'[j] = tmp[j]
      BY <1>0, <1>3 DEF Typed
    <2>5. Typed'  BY <1>0, <1>3, <2>1, <2>2, <2>3, <2>4 DEF Typed
    <2>6. PlaceInv'  BY <1>0, <2>1 DEF PlaceInv
    <2>7. MutexInv'  BY <1>0, <2>1, <2>2 DEF MutexInv, PlaceInv
    <2>8. NameInv'  BY <1>0, <1>3, <2>1, <2>3, <2>4 DEF NameInv
    <2>9. DamageInv'
      <3>1. \A x : Sound(x)' <=> Sound(x)  BY <1>0 DEF Sound
      <3>2. Sound(None)  BY DEF Sound
      <3> SUFFICES ASSUME faults = 0, NEW j \in Keys
                   PROVE  Sound(tmp'[j]) /\ Sound(gob'[WorkersDir][j])
        BY <1>0, <3>1 DEF DamageInv, Sound
      <3> QED  BY <1>0, <2>3, <2>4, <3>2 DEF DamageInv
    <2>10. \A j \in Keys \ {k} : Writers(j)' = Writers(j)  BY <1>0, <1>1, <2>1 DEF Writers
    <2>11. LoneInv'
      <3> SUFFICES ASSUME NEW j \in Keys, j \notin met
                   PROVE  /\ \A q, p \in Writers(j)' : q = p
                          /\ Writers(j)' = {} => tmp'[j] = None
                          /\ \A q \in Requests : key[q] = j =>
                               /\ pc'[q] \notin {"discard", "sweep", "failed", "dead"}
                               /\ pc'[q] = "data" => fd[q] = tmp'[j] /\ tmp'[j] # None
                               /\ pc'[q] = "rename" => tmp'[j] \in whole
                          /\ gob'[WorkersDir][j] \in whole \cup {None}
                          /\ j \in stored' => gob'[WorkersDir][j] # None
        BY <1>0 DEF LoneInv
      <3>1. CASE j # k  BY <1>3, <2>1, <2>3, <2>4, <2>10, <3>1 DEF LoneInv
      <3>2. CASE j = k
        <4>1. \A q \in Requests : key[q] = k /\ pc[q] \in Writing => q = r
          BY <1>0, <1>2, <3>2 DEF LoneInv, Writers
        <4>2. Writers(j)' = {}  BY <1>0, <2>1, <3>2, <4>1 DEF Writers
        <4>3. tmp[k] \in whole  BY <1>0, <3>2 DEF LoneInv
        <4> QED  BY <1>3, <2>1, <2>3, <2>4, <3>2, <4>1, <4>2, <4>3 DEF LoneInv
      <3> QED  BY <3>1, <3>2
    <2>12. LateInv'  BY <1>0, <1>3, <2>1 DEF LateInv, Typed
    <2> QED  BY <2>5, <2>6, <2>7, <2>8, <2>9, <2>11, <2>12
  <1>4. CASE tmp[k] = None /\ Goto(r, "sweep") /\ UNCHANGED <<gob, tmp, stored, mu>>
    <2>1. /\ pc' \in [Requests -> Labels] /\ pc'[r] = "sweep"
          /\ \A q \in Requests \ {r} : pc'[q] = pc[q]
      BY <1>4, GotoFacts
    <2>2. k \in met  BY <1>0, <1>4, NoneApart DEF LoneInv, Typed
    <2>3. Typed'  BY <1>0, <1>4, <2>1 DEF Typed
    <2>4. PlaceInv' /\ MutexInv'  BY <1>0, <1>4, <2>1 DEF PlaceInv, MutexInv
    <2>5. NameInv' /\ DamageInv'  BY <1>0, <1>4, <2>1 DEF NameInv, DamageInv, Sound
    <2>6. \A j : Writers(j)' = Writers(j)  BY <1>0, <2>1 DEF Writers
    <2>7. LoneInv'  BY <1>0, <1>4, <2>1, <2>2, <2>6 DEF LoneInv
    <2>8. LateInv'  BY <1>0, <1>4, <2>1 DEF LateInv, Typed
    <2> QED  BY <2>3, <2>4, <2>5, <2>7, <2>8
  <1> QED  BY <1>3, <1>4 DEF Rename

LEMMA SweepInv == ASSUME IInv, NEW r \in Requests, Sweep(r) PROVE IInv'
  <1> USE DEF IInv
  <1> DEFINE k == key[r]
  <1>0. /\ on[r] \in Workers /\ k \in Keys /\ pc[r] = "sweep" /\ mu[on[r]] = r
        /\ UNCHANGED <<on, key, late, gob, fd, whole, expired, listed, faults, met, stored>>
    BY DEF PlaceInv, MutexInv, Sweep, histVars
  <1>1. /\ pc' \in [Requests -> Labels] /\ pc'[r] = "failed"
        /\ \A q \in Requests \ {r} : pc'[q] = pc[q]
    BY GotoFacts DEF Sweep
  <1>2. /\ mu' \in [Workers -> Requests \cup {None}]
        /\ \A w \in Workers \ {on[r]} : mu'[w] = mu[w]
    BY <1>0, LockFacts DEF Sweep, Unlock
  <1>3. /\ tmp' \in [Keys -> Files \cup {None}] /\ tmp'[k] = None
        /\ \A j \in Keys \ {k} : tmp'[j] = tmp[j]
    BY <1>0 DEF Sweep, Typed
  <1>4. k \in met  BY <1>0 DEF LoneInv
  <1>5. Typed'  BY <1>0, <1>1, <1>2, <1>3 DEF Typed
  <1>6. PlaceInv'  BY <1>0, <1>1 DEF PlaceInv
  <1>7. MutexInv'  BY <1>0, <1>1, <1>2 DEF MutexInv, PlaceInv
  <1>8. NameInv'  BY <1>0, <1>1, <1>3 DEF NameInv
  <1>9. DamageInv'  BY <1>0, <1>3 DEF DamageInv, Sound
  <1>10. \A j \in Keys \ {k} : Writers(j)' = Writers(j)  BY <1>0, <1>1 DEF Writers
  <1>11. LoneInv'  BY <1>0, <1>1, <1>3, <1>4, <1>10 DEF LoneInv
  <1>12. LateInv'  BY <1>0, <1>1 DEF LateInv, Typed
  <1> QED  BY <1>5, <1>6, <1>7, <1>8, <1>9, <1>11, <1>12

----------------------------------------------------------------------------
(* The cleaner, time and crashes *)

(* Nothing happens to the files of the workers. *)
LEMMA ElsewhereInv ==
  ASSUME IInv, gob' \in [Dirs -> [Keys -> Files \cup {None}]], gob'[WorkersDir] = gob[WorkersDir],
         expired' \subseteq Files, listed' \subseteq Keys,
         UNCHANGED <<reqVars, mu, tmp, fd, whole, met, stored>>,
         faults' \in 0 .. MaxFaults, faults' = 0 => faults = 0
  PROVE  IInv'
  <1> USE DEF IInv, reqVars
  <1>1. Typed'  BY DEF Typed
  <1>2. PlaceInv' /\ MutexInv' /\ LateInv'  BY DEF PlaceInv, MutexInv, LateInv
  <1>3. NameInv' /\ DamageInv'  BY DEF NameInv, DamageInv, Sound
  <1>4. LoneInv'  BY DEF LoneInv, Writers
  <1> QED  BY <1>1, <1>2, <1>3, <1>4

LEMMA CleanerInv == ASSUME IInv, Cleaner PROVE IInv'
  <1>0. Typed  BY DEF IInv
  <1>1. CASE CleanList
    BY <1>0, <1>1, ElsewhereInv DEF CleanList, fileVars, histVars, Typed
  <1>2. CASE \E k \in Keys : Clean(k)
    <2>1. PICK k \in Keys : Clean(k)  BY <1>2
    <2>2. gob' \in [Dirs -> [Keys -> Files \cup {None}]] /\ gob'[WorkersDir] = gob[WorkersDir]
      BY <1>0, <2>1, DirsApart DEF Clean, Typed
    <2>3. listed' \subseteq Keys /\ expired' = expired  BY <1>0, <2>1 DEF Clean, Typed
    <2>4. faults' \in 0 .. MaxFaults /\ (faults' = 0 => faults = 0)
      <3>1. faults \in 0 .. MaxFaults /\ MaxFaults \in Nat  BY <1>0, CloneAssumption DEF Typed
      <3>2. faults' = faults \/ (faults < MaxFaults /\ faults' = faults + 1)  BY <2>1 DEF Clean
      <3> QED  BY <3>1, <3>2
    <2>5. UNCHANGED <<reqVars, mu, tmp, fd, whole, met, stored>>  BY <2>1 DEF Clean
    <2> QED  BY <2>2, <2>3, <2>4, <2>5, ElsewhereInv, <1>0 DEF Typed
  <1> QED  BY <1>1, <1>2 DEF Cleaner

LEMMA ExpireInv == ASSUME IInv, NEW d \in Dirs, NEW k \in Keys, Expire(d, k) PROVE IInv'
  <1>1. gob[d][k] \in Files  BY DEF IInv, Typed, Expire
  <1> QED  BY <1>1, ElsewhereInv DEF IInv, Typed, Expire, histVars

LEMMA CrashInv == ASSUME IInv, NEW w \in Workers, Crash(w) PROVE IInv'
  <1> USE DEF IInv
  <1> DEFINE lost == {r \in Requests : on[r] = w /\ pc[r] \notin {"done", "failed", "dead"}}
  <1>0. UNCHANGED <<on, key, late, gob, tmp, whole, expired, listed, stored>>  BY DEF Crash
  <1>1. /\ pc' \in [Requests -> Labels] /\ fd' \in [Requests -> Files \cup {None}]
        /\ \A r \in lost : pc'[r] = "dead" /\ fd'[r] = None
        /\ \A r \in Requests \ lost : pc'[r] = pc[r] /\ fd'[r] = fd[r]
    BY DEF Crash, Typed
  <1>2. met' = met \cup {key[r] : r \in lost}  BY DEF Crash
  <1>3. mu' \in [Workers -> Requests \cup {None}] /\ \A v \in Workers \ {w} : mu'[v] = mu[v]
    BY DEF Crash, Typed
  <1>4. faults' \in 0 .. MaxFaults /\ faults' # 0
    <2>1. faults \in 0 .. MaxFaults /\ MaxFaults \in Nat  BY CloneAssumption DEF Typed
    <2> QED  BY <2>1 DEF Crash
  <1>5. lost \subseteq Requests /\ \A r \in Requests : on[r] = w /\ r \notin lost => pc[r] \in {"done", "failed", "dead"}
    OBVIOUS
  <1>6. \A r \in lost : pc[r] # "idle" /\ key[r] \in Keys  BY NoneApart DEF PlaceInv
  <1> HIDE DEF lost
  <1>7. Typed'  BY <1>0, <1>1, <1>2, <1>3, <1>4, <1>5, <1>6 DEF Typed
  <1>8. PlaceInv'  BY <1>0, <1>1, <1>5, <1>6, NoneApart DEF PlaceInv
  <1>9. MutexInv'
    <2> SUFFICES ASSUME NEW r \in Requests, pc'[r] \in Writing \cup {"discard"} PROVE mu'[on[r]] = r
      BY <1>0 DEF MutexInv
    <2>1. r \notin lost /\ pc[r] = pc'[r]  BY <1>1, <1>5
    <2>2. on[r] # w /\ on[r] \in Workers /\ mu[on[r]] = r  BY <1>5, <2>1 DEF MutexInv, PlaceInv
    <2> QED  BY <1>3, <2>2
  <1>10. NameInv'  BY <1>0, <1>1, <1>5 DEF NameInv
  <1>11. DamageInv'  BY <1>4 DEF DamageInv
  <1>12. LoneInv'
    <2>1. \A k \in Keys \ met' : \A r \in Requests : key[r] = k => r \notin lost  BY <1>2, <1>5
    <2>2. \A k \in Keys \ met' : Writers(k)' = Writers(k)  BY <1>0, <1>1, <2>1 DEF Writers
    <2>3. \A k \in Keys \ met' : k \in Keys \ met  BY <1>2
    <2> QED  BY <1>0, <1>1, <2>1, <2>2, <2>3 DEF LoneInv
  <1>13. LateInv'  BY <1>0, <1>1, <1>2, <1>5 DEF LateInv, Typed
  <1> QED  BY <1>7, <1>8, <1>9, <1>10, <1>11, <1>12, <1>13

LEMMA StepInv == ASSUME IInv, [Next]_vars PROVE IInv'
  <1>1. CASE UNCHANGED vars
    <2>1. /\ gob' = gob /\ expired' = expired /\ listed' = listed
          /\ UNCHANGED <<reqVars, mu, tmp, fd, whole, faults, met, stored>>
      BY <1>1 DEF vars, fileVars, histVars
    <2> QED  BY <2>1, ElsewhereInv DEF IInv, Typed
  <1>2. CASE \E r \in Requests : Encoding(r)
    BY <1>2, BeginInv, GetInv, DiscardInv, EncodeInv, OpenInv, WriteInv, RenameInv, SweepInv DEF Encoding
  <1> QED  BY <1>1, <1>2, CleanerInv, ExpireInv, CrashInv DEF Next

LEMMA Invariance == Spec => []IInv
  BY InitInv, StepInv, PTL DEF Spec

----------------------------------------------------------------------------
(* What follows from it. *)

(* The variables keep their types; whoever is between the lock and the unlock of Get or *)
(* Put holds the mutex of his process.                                                  *)
THEOREM TypeCorrect == Spec => []TypeOK
  <1>1. ASSUME IInv PROVE TypeOK  BY <1>1 DEF IInv, Typed, MutexInv, TypeOK
  <1> QED  BY <1>1, Invariance, PTL

(* An entry that does not decode is being written or was left by a fault: the writers of *)
(* AudioCloneCache.Put, who share a temporary name, leave none behind.                   *)
THEOREM OnlyFaultsDamage == Spec => []DamageByFaultOnly
  <1>1. ASSUME IInv PROVE DamageByFaultOnly
    <2>1. faults \in Nat  BY <1>1, CloneAssumption DEF IInv, Typed
    <2> QED  BY <1>1, <2>1 DEF IInv, DamageInv, Sound, DamageByFaultOnly
  <1> QED  BY <1>1, Invariance, PTL

(* A process that alone writes a key, and meets no fault, stores it (AudioCloneCache.Put), *)
(* and who looks for it later finds it (Get).                                              *)
THEOREM LoneWriterIsSafe == Spec => []LoneWriterStores
  <1>1. ASSUME IInv PROVE HitAfterPut  BY <1>1 DEF IInv, LateInv, HitAfterPut
  <1>2. ASSUME IInv PROVE LonePutSucceeds
    BY <1>2 DEF IInv, LoneInv, PlaceInv, LonePutSucceeds
  <1> QED  BY <1>1, <1>2, Invariance, PTL DEF LoneWriterStores
=============================================================================

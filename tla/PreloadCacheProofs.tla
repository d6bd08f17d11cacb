-------------------------- MODULE PreloadCacheProofs --------------------------
(***************************************************************************)
(* Proofs about the voice preload cache (PreloadCache): the list by which  *)
(* entries are evicted, files that do not decode, and whose voice a        *)
(* request speaks with.                                                    *)
(*                                                                         *)
(* The inductive invariant says, beside the types, where the locks are     *)
(* (an id that a process loads or encodes is not in its memory until that  *)
(* is over), who writes (a request that saves its own file), that times    *)
(* do not run ahead of the clock, and what a request without a rival       *)
(* finds under its id once it has removed what was there.                  *)
(***************************************************************************)
EXTENDS PreloadCache, FiniteSetTheorems, SequenceTheorems, TLAPS

LEMMA Apart ==
  /\ None \notin Paths /\ None \notin Requests /\ None \notin Ids /\ None \notin Workers
  /\ Torn \notin Paths /\ Old \notin Paths /\ Builtin \notin Paths
  /\ None # Torn /\ None # Old /\ Torn # Old
  BY CacheAssumption DEF None, Torn, Old, Builtin

----------------------------------------------------------------------------
(* Sequences of ids in the order of their stamps *)

(* The stamps f increase along s. *)
Rising(s, f) == \A j, k \in 1 .. Len(s) : j < k => f[s[j]] < f[s[k]]

LEMMA RisingApart ==
  ASSUME NEW s \in Seq(Ids), NEW f \in [Ids -> Nat], Rising(s, f)
  PROVE  \A j, k \in 1 .. Len(s) : j # k => s[j] # s[k]
  <1> SUFFICES ASSUME NEW j \in 1 .. Len(s), NEW k \in 1 .. Len(s), j # k, s[j] = s[k]  PROVE FALSE
    OBVIOUS
  <1>1. f[s[j]] \in Nat /\ f[s[k]] \in Nat  OBVIOUS
  <1>2. j < k \/ k < j  OBVIOUS
  <1> QED  BY <1>1, <1>2 DEF Rising

LEMMA SetOf == ASSUME NEW s \in Seq(Ids) PROVE ToSet(s) = {s[k] : k \in 1 .. Len(s)}
  BY DEF ToSet

(* Where SelectInSeq finds an element that is there once. *)
LEMMA PlaceOf ==
  ASSUME NEW s \in Seq(Ids), \A j, k \in 1 .. Len(s) : j # k => s[j] # s[k],
         NEW n \in 1 .. Len(s)
  PROVE  RemoveFirst(s, s[n]) = RemoveAt(s, n)
  <1> DEFINE I == {j \in 1 .. Len(s) : s[j] = s[n]}
  <1>1. I = {n}  OBVIOUS
  <1>2. Min({n}) = n
    <2>1. \A x : x \in {n} /\ (\A y \in {n} : x <= y) => x = n  OBVIOUS
    <2>2. n \in {n} /\ \A y \in {n} : n <= y  OBVIOUS
    <2> QED  BY <2>1, <2>2 DEF Min
  <1>3. SelectInSeq(s, LAMBDA v : v = s[n]) = n  BY <1>1, <1>2 DEF SelectInSeq
  <1> QED  BY <1>3 DEF RemoveFirst

LEMMA AtFacts ==
  ASSUME NEW s \in Seq(Ids), NEW n \in 1 .. Len(s)
  PROVE  /\ RemoveAt(s, n) \in Seq(Ids)
         /\ Len(RemoveAt(s, n)) = Len(s) - 1
         /\ \A k \in 1 .. Len(s) - 1 : RemoveAt(s, n)[k] = IF k < n THEN s[k] ELSE s[k + 1]
  <1> DEFINE a == SubSeq(s, 1, n - 1)
             b == SubSeq(s, n + 1, Len(s))
  <1>1. n \in Int /\ Len(s) \in Nat /\ 1 <= n /\ n <= Len(s)  OBVIOUS
  <1>2. \A k \in 1 .. Len(s) : s[k] \in Ids  OBVIOUS
  <1>3. a \in Seq(Ids) /\ Len(a) = n - 1 /\ \A k \in 1 .. n - 1 : a[k] = s[k]
    <2>1. \A k \in 1 .. n - 1 : s[k] \in Ids  BY <1>1, <1>2
    <2>2. /\ a \in Seq(Ids) /\ Len(a) = IF 1 <= n - 1 THEN n - 1 - 1 + 1 ELSE 0
          /\ \A k \in 1 .. n - 1 - 1 + 1 : a[k] = s[1 + k - 1]
      BY <1>1, <2>1, SubSeqProperties
    <2> HIDE DEF a
    <2>3. Len(a) = n - 1 /\ n - 1 - 1 + 1 = n - 1  BY <1>1, <2>2
    <2>4. \A k \in 1 .. n - 1 : 1 + k - 1 = k  OBVIOUS
    <2> QED  BY <2>2, <2>3, <2>4
  <1>4. b \in Seq(Ids) /\ Len(b) = Len(s) - n /\ \A k \in 1 .. Len(s) - n : b[k] = s[n + k]
    <2>1. \A k \in n + 1 .. Len(s) : s[k] \in Ids  BY <1>1, <1>2
    <2>2. /\ b \in Seq(Ids) /\ Len(b) = IF n + 1 <= Len(s) THEN Len(s) - (n + 1) + 1 ELSE 0
          /\ \A k \in 1 .. Len(s) - (n + 1) + 1 : b[k] = s[n + 1 + k - 1]
      BY <1>1, <2>1, SubSeqProperties
    <2> HIDE DEF b
    <2>3. Len(b) = Len(s) - n /\ Len(s) - (n + 1) + 1 = Len(s) - n  BY <1>1, <2>2
    <2>4. \A k \in 1 .. Len(s) - n : n + 1 + k - 1 = n + k  BY <1>1
    <2> QED  BY <2>2, <2>3, <2>4
  <1>5. RemoveAt(s, n) = a \o b  BY DEF RemoveAt
  <1> HIDE DEF a, b
  <1>6. /\ a \o b \in Seq(Ids) /\ Len(a \o b) = Len(a) + Len(b)
        /\ \A k \in 1 .. Len(a) + Len(b) : (a \o b)[k] = IF k <= Len(a) THEN a[k] ELSE b[k - Len(a)]
    BY <1>3, <1>4, ConcatProperties
  <1>7. Len(a) + Len(b) = Len(s) - 1  BY <1>1, <1>3, <1>4
  <1>8. ASSUME NEW k \in 1 .. Len(s) - 1
        PROVE  (a \o b)[k] = IF k < n THEN s[k] ELSE s[k + 1]
    <2>1. CASE k < n
      <3>1. k <= Len(a) /\ k \in 1 .. n - 1  BY <1>1, <1>3, <2>1
      <3> QED  BY <1>3, <1>6, <1>7, <2>1, <3>1
    <2>2. CASE ~(k < n)
      <3>1. /\ ~(k <= Len(a)) /\ k - Len(a) \in 1 .. Len(s) - n /\ n + (k - Len(a)) = k + 1
        BY <1>1, <1>3, <2>2
      <3> QED  BY <1>4, <1>6, <1>7, <2>2, <3>1
    <2> QED  BY <2>1, <2>2
  <1> QED  BY <1>5, <1>6, <1>7, <1>8

(* An element is taken out of a sequence that has it at most once. *)
LEMMA RemoveFirstFacts ==
  ASSUME NEW s \in Seq(Ids), NEW f \in [Ids -> Nat], Rising(s, f), NEW i \in Ids
  PROVE  /\ RemoveFirst(s, i) \in Seq(Ids)
         /\ ToSet(RemoveFirst(s, i)) = ToSet(s) \ {i}
         /\ Rising(RemoveFirst(s, i), f)
         /\ i \in ToSet(s) => Len(RemoveFirst(s, i)) = Len(s) - 1
         /\ i \notin ToSet(s) => RemoveFirst(s, i) = s
  <1> DEFINE t == RemoveFirst(s, i)
  <1>1. CASE i \notin ToSet(s)
    <2>1. t = s  BY <1>1 DEF RemoveFirst, ToSet
    <2> QED  BY <1>1, <2>1
  <1>2. CASE i \in ToSet(s)
    <2>1. PICK n \in 1 .. Len(s) : s[n] = i  BY <1>2 DEF ToSet
    <2>2. \A j, k \in 1 .. Len(s) : j # k => s[j] # s[k]  BY RisingApart
    <2>3. t = RemoveAt(s, n)  BY <2>1, <2>2, PlaceOf
    <2>4. t \in Seq(Ids) /\ Len(t) = Len(s) - 1  BY <2>3, AtFacts
    <2>5. \A k \in 1 .. Len(s) - 1 : t[k] = IF k < n THEN s[k] ELSE s[k + 1]  BY <2>3, AtFacts
    <2> HIDE DEF t
    <2>6. ToSet(t) \subseteq ToSet(s) \ {i}
      <3> SUFFICES ASSUME NEW k \in 1 .. Len(t)  PROVE t[k] \in ToSet(s) \ {i}  BY DEF ToSet
      <3>1. k \in 1 .. Len(s) - 1 /\ k \in 1 .. Len(s) /\ k + 1 \in 1 .. Len(s)  BY <2>4
      <3>2. CASE k < n  BY <3>1, <3>2, <2>1, <2>2, <2>5, SetOf
      <3>3. CASE ~(k < n)
        <4>1. k + 1 # n  BY <3>1, <3>3
        <4> QED  BY <3>1, <3>3, <4>1, <2>1, <2>2, <2>5, SetOf
      <3> QED  BY <3>2, <3>3
    <2>7. ToSet(s) \ {i} \subseteq ToSet(t)
      <3> SUFFICES ASSUME NEW k \in 1 .. Len(s), s[k] # i  PROVE s[k] \in ToSet(t)  BY DEF ToSet
      <3>1. k # n  BY <2>1
      <3>2. CASE k < n
        <4>1. k \in 1 .. Len(t) /\ t[k] = s[k]  BY <3>2, <2>4, <2>5
        <4> QED  BY <4>1 DEF ToSet
      <3>3. CASE n < k
        <4>1. k - 1 \in 1 .. Len(t) /\ ~(k - 1 < n)  BY <3>3, <2>4
        <4>2. t[k - 1] = s[k - 1 + 1]  BY <4>1, <2>4, <2>5
        <4>3. k - 1 + 1 = k  OBVIOUS
        <4> QED  BY <4>1, <4>2, <4>3 DEF ToSet
      <3> QED  BY <3>1, <3>2, <3>3
    <2>8. Rising(t, f)
      <3> SUFFICES ASSUME NEW j \in 1 .. Len(t), NEW k \in 1 .. Len(t), j < k
                   PROVE  f[t[j]] < f[t[k]]
        BY DEF Rising
      <3>1. j \in 1 .. Len(s) - 1 /\ k \in 1 .. Len(s) - 1  BY <2>4
      <3>2. PICK p \in 1 .. Len(s) : t[j] = s[p] /\ p = IF j < n THEN j ELSE j + 1
        BY <3>1, <2>5
      <3>3. PICK q \in 1 .. Len(s) : t[k] = s[q] /\ q = IF k < n THEN k ELSE k + 1
        BY <3>1, <2>5
      <3>4. p < q  BY <3>2, <3>3, <3>1
      <3> QED  BY <3>2, <3>3, <3>4 DEF Rising
    <2> QED  BY <1>2, <2>4, <2>6, <2>7, <2>8 DEF t
  <1> QED  BY <1>1, <1>2

LEMMA TailFacts ==
  ASSUME NEW s \in Seq(Ids), NEW f \in [Ids -> Nat], Rising(s, f), s # <<>>
  PROVE  /\ Tail(s) \in Seq(Ids) /\ Len(Tail(s)) = Len(s) - 1
         /\ ToSet(Tail(s)) = ToSet(s) \ {Head(s)}
         /\ Rising(Tail(s), f)
  <1>1. Tail(s) \in Seq(Ids) /\ Len(Tail(s)) = Len(s) - 1 /\ Len(s) > 0 /\ Head(s) = s[1]  OBVIOUS
  <1>2. \A k \in 1 .. Len(s) - 1 : Tail(s)[k] = s[k + 1]  OBVIOUS
  <1>3. \A j, k \in 1 .. Len(s) : j # k => s[j] # s[k]  BY RisingApart
  <1> DEFINE t == Tail(s)
  <1> HIDE DEF t
  <1>4. \A k \in 1 .. Len(t) : k + 1 \in 1 .. Len(s) /\ k + 1 # 1 /\ t[k] = s[k + 1]
    BY <1>1, <1>2 DEF t
  <1>5. ToSet(t) \subseteq ToSet(s) \ {s[1]}
    <2> SUFFICES ASSUME NEW k \in 1 .. Len(t)  PROVE t[k] \in ToSet(s) \ {s[1]}  BY DEF ToSet
    <2> QED  BY <1>1, <1>3, <1>4 DEF ToSet
  <1>6. ToSet(s) \ {s[1]} \subseteq ToSet(t)
    <2> SUFFICES ASSUME NEW k \in 1 .. Len(s), k # 1  PROVE s[k] \in ToSet(t)  BY DEF ToSet
    <2>1. k - 1 \in 1 .. Len(t) /\ k - 1 + 1 = k  BY <1>1 DEF t
    <2>2. t[k - 1] = s[k]  BY <2>1, <1>4
    <2>3. t \in Seq(Ids)  BY <1>1 DEF t
    <2> QED  BY <2>1, <2>2, <2>3, SetOf
  <1>7. Rising(t, f)
    <2> SUFFICES ASSUME NEW j \in 1 .. Len(t), NEW k \in 1 .. Len(t), j < k
                 PROVE  f[t[j]] < f[t[k]]
      BY DEF Rising
    <2>1. j + 1 < k + 1  OBVIOUS
    <2> QED  BY <1>4, <2>1 DEF Rising
  <1> QED  BY <1>1, <1>5, <1>6, <1>7 DEF t

LEMMA AppendFacts ==
  ASSUME NEW s \in Seq(Ids), NEW i \in Ids, i \notin ToSet(s)
  PROVE  /\ Append(s, i) \in Seq(Ids) /\ Len(Append(s, i)) = Len(s) + 1
         /\ ToSet(Append(s, i)) = ToSet(s) \cup {i}
         /\ \A k \in 1 .. Len(s) : Append(s, i)[k] = s[k] /\ s[k] \in Ids \ {i}
         /\ Append(s, i)[Len(s) + 1] = i
  <1> DEFINE t == Append(s, i)
  <1>1. t \in Seq(Ids) /\ Len(t) = Len(s) + 1  OBVIOUS
  <1>2. \A k \in 1 .. Len(s) : t[k] = s[k]  OBVIOUS
  <1>3. t[Len(s) + 1] = i  OBVIOUS
  <1> HIDE DEF t
  <1>4. ToSet(t) \subseteq ToSet(s) \cup {i}
    <2> SUFFICES ASSUME NEW k \in 1 .. Len(t)  PROVE t[k] \in ToSet(s) \cup {i}  BY DEF ToSet
    <2>1. k \in 1 .. Len(s) \/ k = Len(s) + 1  BY <1>1
    <2> QED  BY <2>1, <1>2, <1>3 DEF ToSet
  <1>5. ToSet(s) \cup {i} \subseteq ToSet(t)
    <2>1. Len(s) + 1 \in 1 .. Len(t)  BY <1>1
    <2>2. i \in ToSet(t)  BY <1>3, <2>1 DEF ToSet
    <2>3. ASSUME NEW k \in 1 .. Len(s) PROVE s[k] \in ToSet(t)
      <3>1. k \in 1 .. Len(t)  BY <1>1
      <3> QED  BY <1>2, <3>1 DEF ToSet
    <2> QED  BY <2>2, <2>3 DEF ToSet
  <1>6. \A k \in 1 .. Len(s) : s[k] \in Ids \ {i}  BY DEF ToSet
  <1> QED  BY <1>1, <1>2, <1>3, <1>4, <1>5, <1>6 DEF t

(* An element that is used now goes to the end. *)
LEMMA RisingAppend ==
  ASSUME NEW s \in Seq(Ids), NEW f \in [Ids -> Nat], Rising(s, f), NEW c \in Nat,
         \A j \in Ids : f[j] <= c, NEW i \in Ids, i \notin ToSet(s)
  PROVE  Rising(Append(s, i), [f EXCEPT ![i] = c + 1])
  <1> DEFINE t == Append(s, i)
             g == [f EXCEPT ![i] = c + 1]
  <1>1. /\ Len(t) = Len(s) + 1 /\ t[Len(s) + 1] = i
        /\ \A k \in 1 .. Len(s) : t[k] = s[k] /\ s[k] \in Ids \ {i}
    BY AppendFacts
  <1>2. g[i] = c + 1 /\ \A j \in Ids \ {i} : g[j] = f[j]  OBVIOUS
  <1> HIDE DEF t, g
  <1> SUFFICES Rising(t, g)  BY DEF t, g
  <1> SUFFICES ASSUME NEW j \in 1 .. Len(t), NEW k \in 1 .. Len(t), j < k
               PROVE  g[t[j]] < g[t[k]]
    BY DEF Rising
  <1>3. j \in 1 .. Len(s) /\ t[j] = s[j] /\ g[t[j]] = f[s[j]]  BY <1>1, <1>2
  <1>4. CASE k \in 1 .. Len(s)
    <2>1. g[t[k]] = f[s[k]]  BY <1>4, <1>1, <1>2
    <2> QED  BY <1>3, <1>4, <2>1 DEF Rising
  <1>5. CASE k = Len(s) + 1
    <2>1. g[t[k]] = c + 1  BY <1>5, <1>1, <1>2
    <2>2. f[s[j]] \in Nat /\ f[s[j]] <= c  BY <1>3
    <2> QED  BY <1>3, <2>1, <2>2
  <1>6. Len(s) \in Nat  OBVIOUS
  <1> QED  BY <1>1, <1>4, <1>5, <1>6

(* The number of different ids in a sequence in which each is there once. *)
LEMMA LenIsCount ==
  ASSUME NEW s \in Seq(Ids), NEW f \in [Ids -> Nat], Rising(s, f)
  PROVE  Cardinality(ToSet(s)) = Len(s)
  <1>1. Len(s) \in Nat  OBVIOUS
  <1>2. \A j, k \in 1 .. Len(s) : j # k => s[j] # s[k]  BY RisingApart
  <1> DEFINE h == [k \in 1 .. Len(s) |-> s[k]]
  <1>3. h \in Bijection(1 .. Len(s), ToSet(s))
    <2>1. h \in [1 .. Len(s) -> ToSet(s)]  BY DEF ToSet
    <2>2. \A j, k \in 1 .. Len(s) : h[j] = h[k] => j = k  BY <1>2
    <2>3. \A x \in ToSet(s) : \E k \in 1 .. Len(s) : h[k] = x  BY DEF ToSet
    <2> HIDE DEF h
    <2>4. DOMAIN h = 1 .. Len(s)  BY <2>1
    <2> QED  BY <2>1, <2>2, <2>3, <2>4 DEF Bijection, Injection, Surjection, IsInjective
  <1> HIDE DEF h
  <1>4. ExistsBijection(1 .. Len(s), ToSet(s))  BY <1>3 DEF ExistsBijection
  <1>5. IsFiniteSet(1 .. Len(s)) /\ Cardinality(1 .. Len(s)) = Len(s)
    <2>1. /\ IsFiniteSet(1 .. Len(s))
          /\ Cardinality(1 .. Len(s)) = IF 1 > Len(s) THEN 0 ELSE Len(s) - 1 + 1
      BY <1>1, FS_Interval
    <2> QED  BY <1>1, <2>1
  <1> QED  BY <1>1, <1>4, <1>5, FS_Bijection, FS_SameCardinalityBij

----------------------------------------------------------------------------
(* The inductive invariant *)

(* From the first Get until the voice is found out. *)
Asking == Labels \ {"idle", "done", "dead"}

(* The labels from which a request comes to write its file. *)
Bringing == {"remove", "preload", "peek", "clear", "encode", "create", "save", "add"}

(* TypeOK, but for the order of entries, which OrderInv types. *)
Typed ==
  /\ pc \in [Requests -> Labels]
  /\ on \in [Requests -> Workers \cup {None}]
  /\ ask \in [Requests -> Asks \cup {NoAsk}]
  /\ second \subseteq Requests /\ met \subseteq Requests
  /\ got \in [Requests -> Paths \cup {None}]
  /\ voice \in [Requests -> Paths \cup {Builtin, None}]
  /\ mu \in [Workers -> Requests \cup {None}]
  /\ mem \in [Workers -> [Ids -> Paths \cup {None}]]
  /\ stamp \in [Workers -> [Ids -> Nat]] /\ clock \in Nat
  /\ disk \in [Ids -> Files]
  /\ writing \subseteq Requests
  /\ faults \in 0 .. MaxFaults

(* Where a request stands: at which process, with which id; a request that may come  *)
(* to write a file says which; one that is at work under the mutex holds it, and its *)
(* id is not in memory; one that looks a voice up for the first time has no file     *)
(* under its own name; the voice is found out last.                                  *)
PlaceInv ==
  \A r \in Requests :
    /\ pc[r] \in Asking => on[r] \in Workers /\ ask[r] \in Asks
    /\ pc[r] \in Bringing => Path(r) \in Paths
    /\ pc[r] \in Holding => mu[on[r]] = r /\ ~Cached(r)
    /\ pc[r] = "got" => got[r] \in Paths
    /\ r \in writing => pc[r] = "save"
    /\ pc[r] = "idle" => r \notin second
    /\ pc[r] # "done" => voice[r] = None

(* Requests with one id and different files know of each other. *)
RivalInv ==
  \A r, q \in Requests :
    pc[r] \in Asking /\ pc[q] \in Asking /\ Id(r) = Id(q) /\ Path(r) # Path(q) => r \in met

(* A request that has found nothing under its id, or has removed what was there. *)
Cleared(r) ==
  \/ pc[r] \in {"missed", "preload", "peek", "clear", "encode", "create", "save", "add", "fallback"}
  \/ pc[r] \in {"get", "load", "discard", "got"} /\ r \in second

(* Without a rival it finds there its own file from then on, in memory and on disk. *)
Own(r) ==
  r \notin met /\ Path(r) # None =>
    /\ Cleared(r) => /\ mem[on[r]][Id(r)] \in {Path(r), None}
                     /\ disk[Id(r)] \in {Path(r), Torn, Old, None}
    /\ pc[r] = "got" /\ r \in second => got[r] = Path(r)
    /\ voice[r] \in {Path(r), Builtin, None}

OwnInv == \A r \in Requests : Own(r)

(* OrderIsRecency for a process, with the types that it needs. *)
Recent(w) ==
  /\ order[w] \in Seq(Ids)
  /\ {i \in Ids : mem[w][i] # None} = ToSet(order[w])
  /\ Rising(order[w], stamp[w])
  /\ Len(order[w]) <= MaxInMemory
  /\ \A i \in Ids : stamp[w][i] <= clock

OrderInv == order \in [Workers -> Seq(Ids)] /\ \A w \in Workers : Recent(w)

IInv == Typed /\ PlaceInv /\ RivalInv /\ TornByFaultOnly /\ OwnInv /\ OrderInv

LEMMA AskFacts ==
  ASSUME NEW r \in Requests, ask[r] \in Asks
  PROVE  Id(r) \in Ids /\ Path(r) \in Paths \cup {None} /\ Id(r) # None
  BY Apart, CacheAssumption DEF Id, Path

LEMMA InitInv == Init => IInv
  <1> SUFFICES ASSUME Init PROVE IInv  OBVIOUS
  <1> USE Apart DEF Init
  <1>1. disk \in [Ids -> Paths \cup {None, Old}]  BY CacheAssumption
  <1>2. Typed  BY <1>1, CacheAssumption DEF Typed, Labels, Files
  <1>3. PlaceInv  BY DEF PlaceInv, Asking, Bringing, Holding
  <1>4. RivalInv  BY DEF RivalInv, Asking
  <1>5. TornByFaultOnly  BY <1>1 DEF TornByFaultOnly
  <1>6. OwnInv  BY DEF OwnInv, Own, Cleared
  <1>7. OrderInv
    <2>1. order \in [Workers -> Seq(Ids)]  OBVIOUS
    <2>2. ASSUME NEW w \in Workers PROVE Recent(w)
      <3>1. order[w] = <<>> /\ Len(order[w]) = 0  OBVIOUS
      <3>2. ToSet(order[w]) = {}  BY <3>1 DEF ToSet
      <3>3. {i \in Ids : mem[w][i] # None} = {}  BY <2>2
      <3>4. \A i \in Ids : stamp[w][i] <= clock  BY <2>2
      <3>5. Rising(order[w], stamp[w])  BY <3>1 DEF Rising
      <3>6. 0 <= MaxInMemory  BY CacheAssumption
      <3> QED  BY <3>1, <3>2, <3>3, <3>4, <3>5, <3>6 DEF Recent
    <2> QED  BY <2>1, <2>2 DEF OrderInv
  <1> QED  BY <1>2, <1>3, <1>4, <1>5, <1>6, <1>7 DEF IInv

LEMMA AddTypes ==
  ASSUME Typed, NEW w \in Workers, NEW i \in Ids, NEW p \in Paths, AddEntry(w, i, p)
  PROVE  /\ mem' \in [Workers -> [Ids -> Paths \cup {None}]]
         /\ stamp' \in [Workers -> [Ids -> Nat]] /\ clock' \in Nat
  <1>1. mem' \in [Workers -> [Ids -> Paths \cup {None}]]  BY DEF AddEntry, Typed
  <1>2. stamp' \in [Workers -> [Ids -> Nat]] /\ clock' \in Nat  BY DEF AddEntry, Stamp, Typed
  <1> QED  BY <1>1, <1>2

LEMMA TypedStep == ASSUME Typed, PlaceInv, Next PROVE Typed'
  <1>1. ASSUME NEW r \in Requests, Begin(r) PROVE Typed'
    <2>1. pc[r] \in Asking => on[r] \in Workers /\ Id(r) \in Ids /\ Path(r) \in Paths \cup {None}
      BY AskFacts DEF PlaceInv
    <2>2. pc' \in [Requests -> Labels]
      BY <1>1, <2>1, Apart DEF Begin, Typed, PlaceInv, Asking, Bringing, Labels, Goto, Use,
         Preloaded
    <2>3. on' \in [Requests -> Workers \cup {None}]
      BY <1>1, <2>1, Apart DEF Begin, Typed, PlaceInv, Asking, Bringing, Labels
    <2>4. ask' \in [Requests -> Asks \cup {NoAsk}]
      BY <1>1, <2>1, Apart DEF Begin, Typed, PlaceInv, Asking, Bringing, Labels
    <2>5. met' \subseteq Requests
      BY <1>1, <2>1, Apart DEF Begin, Typed, PlaceInv, Asking, Bringing, Labels, Rivals
    <2> QED  BY <1>1, <2>2, <2>3, <2>4, <2>5 DEF Begin, Typed, reqVars, memVars, diskVars
  <1>2. ASSUME NEW r \in Requests, GetHit(r) PROVE Typed'
    BY <1>2, AskFacts, Apart DEF GetHit, Typed, PlaceInv, Labels, Asking, Bringing, Holding,
       Goto, Lock, Unlock, Free, AddEntry, Stamp, RemoveFile, Use, Preloaded, reqVars,
       memVars, diskVars, Files
  <1>3. ASSUME NEW r \in Requests, GetStat(r) PROVE Typed'
    <2>1. pc[r] \in Asking => on[r] \in Workers /\ Id(r) \in Ids /\ Path(r) \in Paths \cup {None}
      BY AskFacts DEF PlaceInv
    <2>2. pc' \in [Requests -> Labels]
      BY <1>3, <2>1, Apart DEF GetStat, Typed, PlaceInv, Asking, Bringing, Labels, Goto, Use,
         Preloaded
    <2>3. mu' \in [Workers -> Requests \cup {None}]
      BY <1>3, <2>1, Apart DEF GetStat, Typed, PlaceInv, Asking, Bringing, Labels, Lock, Unlock
    <2> QED  BY <1>3, <2>2, <2>3 DEF GetStat, Typed, reqVars, memVars, diskVars
  <1>4. ASSUME NEW r \in Requests, GetLoad(r) PROVE Typed'
    <2>1. pc[r] \in Asking => on[r] \in Workers /\ Id(r) \in Ids /\ Path(r) \in Paths \cup {None}
      BY AskFacts DEF PlaceInv
    <2>2. pc' \in [Requests -> Labels]
      BY <1>4, <2>1, Apart DEF GetLoad, Typed, PlaceInv, Asking, Bringing, Labels, Goto, Use,
         Preloaded
    <2>3. got' \in [Requests -> Paths \cup {None}]
      BY <1>4, <2>1, Apart DEF GetLoad, Typed, PlaceInv, Asking, Bringing, Labels
    <2>4. mu' \in [Workers -> Requests \cup {None}]
      BY <1>4, <2>1, Apart DEF GetLoad, Typed, PlaceInv, Asking, Bringing, Labels, Lock, Unlock
    <2>5. /\ mem' \in [Workers -> [Ids -> Paths \cup {None}]]
          /\ stamp' \in [Workers -> [Ids -> Nat]] /\ clock' \in Nat
      <3>1. CASE disk[Id(r)] \in Paths /\ AddEntry(on[r], Id(r), disk[Id(r)])
        <4>1. pc[r] \in Asking  BY <1>4 DEF GetLoad, Asking, Labels
        <4> QED  BY <2>1, <3>1, <4>1, AddTypes
      <3>2. CASE UNCHANGED memVars  BY <3>2 DEF memVars, Typed
      <3> QED  BY <1>4, <3>1, <3>2 DEF GetLoad
    <2> QED  BY <1>4, <2>2, <2>3, <2>4, <2>5 DEF GetLoad, Typed, reqVars, memVars, diskVars
  <1>5. ASSUME NEW r \in Requests, GetDiscard(r) PROVE Typed'
    BY <1>5, AskFacts, Apart DEF GetDiscard, Typed, PlaceInv, Labels, Asking, Bringing,
       Holding, Goto, Lock, Unlock, Free, AddEntry, Stamp, RemoveFile, Use, Preloaded,
       reqVars, memVars, diskVars, Files
  <1>6. ASSUME NEW r \in Requests, Accept(r) PROVE Typed'
    BY <1>6, AskFacts, Apart DEF Accept, Typed, PlaceInv, Labels, Asking, Bringing, Holding,
       Goto, Lock, Unlock, Free, AddEntry, Stamp, RemoveFile, Use, Preloaded, reqVars,
       memVars, diskVars, Files
  <1>7. ASSUME NEW r \in Requests, Reject(r) PROVE Typed'
    BY <1>7, AskFacts, Apart DEF Reject, Typed, PlaceInv, Labels, Asking, Bringing, Holding,
       Goto, Lock, Unlock, Free, AddEntry, Stamp, RemoveFile, Use, Preloaded, reqVars,
       memVars, diskVars, Files
  <1>8. ASSUME NEW r \in Requests, Missed(r) PROVE Typed'
    BY <1>8, AskFacts, Apart DEF Missed, Typed, PlaceInv, Labels, Asking, Bringing, Holding,
       Goto, Lock, Unlock, Free, AddEntry, Stamp, RemoveFile, Use, Preloaded, reqVars,
       memVars, diskVars, Files
  <1>9. ASSUME NEW r \in Requests, Fallback(r) PROVE Typed'
    <2>1. pc[r] \in Asking => on[r] \in Workers /\ Id(r) \in Ids /\ Path(r) \in Paths \cup {None}
      BY AskFacts DEF PlaceInv
    <2>2. pc' \in [Requests -> Labels]
      BY <1>9, <2>1, Apart DEF Fallback, Typed, PlaceInv, Asking, Bringing, Labels, Goto, Use,
         Preloaded
    <2>3. voice' \in [Requests -> Paths \cup {Builtin, None}]
      BY <1>9, <2>1, Apart DEF Fallback, Typed, PlaceInv, Asking, Bringing, Labels, Use
    <2> QED  BY <1>9, <2>2, <2>3 DEF Fallback, Typed, reqVars, memVars, diskVars
  <1>10. ASSUME NEW r \in Requests, RemoveEntry(r) PROVE Typed'
    BY <1>10, AskFacts, Apart DEF RemoveEntry, Typed, PlaceInv, Labels, Asking, Bringing,
       Holding, Goto, Lock, Unlock, Free, AddEntry, Stamp, RemoveFile, Use, Preloaded,
       reqVars, memVars, diskVars, Files
  <1>11. ASSUME NEW r \in Requests, PreloadHit(r) PROVE Typed'
    BY <1>11, AskFacts, Apart DEF PreloadHit, Typed, PlaceInv, Labels, Asking, Bringing,
       Holding, Goto, Lock, Unlock, Free, AddEntry, Stamp, RemoveFile, Use, Preloaded,
       reqVars, memVars, diskVars, Files
  <1>12. ASSUME NEW r \in Requests, PreloadStat(r) PROVE Typed'
    BY <1>12, AskFacts, Apart DEF PreloadStat, Typed, PlaceInv, Labels, Asking, Bringing,
       Holding, Goto, Lock, Unlock, Free, AddEntry, Stamp, RemoveFile, Use, Preloaded,
       reqVars, memVars, diskVars, Files
  <1>13. ASSUME NEW r \in Requests, PreloadPeek(r) PROVE Typed'
    <2>1. pc[r] \in Asking => on[r] \in Workers /\ Id(r) \in Ids /\ Path(r) \in Paths \cup {None}
      BY AskFacts DEF PlaceInv
    <2>2. pc' \in [Requests -> Labels]
      BY <1>13, <2>1, Apart DEF PreloadPeek, Typed, PlaceInv, Asking, Bringing, Labels, Goto, Use,
         Preloaded
    <2>3. second' \subseteq Requests
      BY <1>13, <2>1, Apart DEF PreloadPeek, Typed, PlaceInv, Asking, Bringing, Labels, Preloaded
    <2>4. mu' \in [Workers -> Requests \cup {None}]
      BY <1>13, <2>1, Apart DEF PreloadPeek, Typed, PlaceInv, Asking, Bringing, Labels, Lock,
         Unlock
    <2> QED  BY <1>13, <2>2, <2>3, <2>4 DEF PreloadPeek, Typed, reqVars, memVars, diskVars
  <1>14. ASSUME NEW r \in Requests, PreloadClear(r) PROVE Typed'
    BY <1>14, AskFacts, Apart DEF PreloadClear, Typed, PlaceInv, Labels, Asking, Bringing,
       Holding, Goto, Lock, Unlock, Free, AddEntry, Stamp, RemoveFile, Use, Preloaded,
       reqVars, memVars, diskVars, Files
  <1>15. ASSUME NEW r \in Requests, Encode(r) PROVE Typed'
    <2>1. pc[r] \in Asking => on[r] \in Workers /\ Id(r) \in Ids /\ Path(r) \in Paths \cup {None}
      BY AskFacts DEF PlaceInv
    <2>2. pc' \in [Requests -> Labels]
      BY <1>15, <2>1, Apart DEF Encode, Typed, PlaceInv, Asking, Bringing, Labels, Goto, Use,
         Preloaded
    <2>3. mu' \in [Workers -> Requests \cup {None}]
      BY <1>15, <2>1, Apart DEF Encode, Typed, PlaceInv, Asking, Bringing, Labels, Lock, Unlock
    <2> QED  BY <1>15, <2>2, <2>3 DEF Encode, Typed, reqVars, memVars, diskVars
  <1>16. ASSUME NEW r \in Requests, Create(r) PROVE Typed'
    <2>1. pc[r] \in Asking => on[r] \in Workers /\ Id(r) \in Ids /\ Path(r) \in Paths \cup {None}
      BY AskFacts DEF PlaceInv
    <2>2. pc' \in [Requests -> Labels]
      BY <1>16, <2>1, Apart DEF Create, Typed, PlaceInv, Asking, Bringing, Labels, Goto, Use,
         Preloaded
    <2>3. disk' \in [Ids -> Files]
      BY <1>16, <2>1, Apart DEF Create, Typed, PlaceInv, Asking, Bringing, Labels, RemoveFile,
         Files
    <2>4. writing' \subseteq Requests
      BY <1>16, <2>1, Apart DEF Create, Typed, PlaceInv, Asking, Bringing, Labels, RemoveFile
    <2>5. faults' \in 0 .. MaxFaults
      BY <1>16, <2>1, CacheAssumption, Apart DEF Create, Typed, PlaceInv, Asking, Bringing, Labels
    <2> QED  BY <1>16, <2>2, <2>3, <2>4, <2>5 DEF Create, Typed, reqVars, memVars, diskVars
  <1>17. ASSUME NEW r \in Requests, Save(r) PROVE Typed'
    <2>1. pc[r] \in Asking => on[r] \in Workers /\ Id(r) \in Ids /\ Path(r) \in Paths \cup {None}
      BY AskFacts DEF PlaceInv
    <2>2. pc' \in [Requests -> Labels]
      BY <1>17, <2>1, Apart DEF Save, Typed, PlaceInv, Asking, Bringing, Labels, Goto, Use,
         Preloaded
    <2>3. disk' \in [Ids -> Files]
      BY <1>17, <2>1, Apart DEF Save, Typed, PlaceInv, Asking, Bringing, Labels, RemoveFile, Files
    <2>4. writing' \subseteq Requests
      BY <1>17, <2>1, Apart DEF Save, Typed, PlaceInv, Asking, Bringing, Labels, RemoveFile
    <2>5. faults' \in 0 .. MaxFaults
      BY <1>17, <2>1, CacheAssumption, Apart DEF Save, Typed, PlaceInv, Asking, Bringing, Labels
    <2> QED  BY <1>17, <2>2, <2>3, <2>4, <2>5 DEF Save, Typed, reqVars, memVars, diskVars
  <1>18. ASSUME NEW r \in Requests, Add(r) PROVE Typed'
    <2>1. pc[r] \in Asking => on[r] \in Workers /\ Id(r) \in Ids /\ Path(r) \in Paths \cup {None}
      BY AskFacts DEF PlaceInv
    <2>2. pc' \in [Requests -> Labels]
      BY <1>18, <2>1, Apart DEF Add, Typed, PlaceInv, Asking, Bringing, Labels, Goto, Use,
         Preloaded
    <2>3. second' \subseteq Requests
      BY <1>18, <2>1, Apart DEF Add, Typed, PlaceInv, Asking, Bringing, Labels, Preloaded
    <2>4. mu' \in [Workers -> Requests \cup {None}]
      BY <1>18, <2>1, Apart DEF Add, Typed, PlaceInv, Asking, Bringing, Labels, Lock, Unlock
    <2>5. mem' \in [Workers -> [Ids -> Paths \cup {None}]]
      BY <1>18, <2>1, AddTypes, Apart DEF Add, Typed, PlaceInv, Asking, Bringing, Labels
    <2>6. stamp' \in [Workers -> [Ids -> Nat]]
      BY <1>18, <2>1, AddTypes, Apart DEF Add, Typed, PlaceInv, Asking, Bringing, Labels
    <2>7. clock' \in Nat
      BY <1>18, <2>1, AddTypes, Apart DEF Add, Typed, PlaceInv, Asking, Bringing, Labels
    <2> QED
      BY <1>18, <2>2, <2>3, <2>4, <2>5, <2>6, <2>7 DEF Add, Typed, reqVars, memVars, diskVars,
         AddEntry, Stamp
  <1>19. ASSUME NEW w \in Workers, Crash(w) PROVE Typed'
    <2>1. pc' \in [Requests -> Labels]
      BY <1>19, Apart DEF Crash, Typed, PlaceInv, Asking, Bringing, Labels, Goto, Use, Preloaded
    <2>2. mu' \in [Workers -> Requests \cup {None}]
      BY <1>19, Apart DEF Crash, Typed, PlaceInv, Asking, Bringing, Labels, Lock, Unlock
    <2>3. mem' \in [Workers -> [Ids -> Paths \cup {None}]]
      BY <1>19, Apart DEF Crash, Typed, PlaceInv, Asking, Bringing, Labels
    <2>4. writing' \subseteq Requests
      BY <1>19, Apart DEF Crash, Typed, PlaceInv, Asking, Bringing, Labels, RemoveFile
    <2>5. faults' \in 0 .. MaxFaults
      BY <1>19, CacheAssumption, Apart DEF Crash, Typed, PlaceInv, Asking, Bringing, Labels
    <2> QED  BY <1>19, <2>1, <2>2, <2>3, <2>4, <2>5 DEF Crash, Typed, reqVars, memVars, diskVars
  <1> QED
    BY <1>1, <1>2, <1>3, <1>4, <1>5, <1>6, <1>7, <1>8, <1>9, <1>10, <1>11, <1>12, <1>13,
       <1>14, <1>15, <1>16, <1>17, <1>18, <1>19 DEF Next, GetStep, ResolveStep, PreloadStep

LEMMA PlaceStep == ASSUME Typed, PlaceInv, Next PROVE PlaceInv'
  <1>1. ASSUME NEW r \in Requests, Begin(r) PROVE PlaceInv'
    BY <1>1, AskFacts, Apart DEF Begin, Typed, PlaceInv, Labels, Asking, Bringing, Holding,
       Goto, Lock, Unlock, Free, AddEntry, Stamp, RemoveFile, Use, Preloaded, reqVars,
       memVars, diskVars, Files, Cached, Mismatch, Id, Path
  <1>2. ASSUME NEW r \in Requests, GetHit(r) PROVE PlaceInv'
    BY <1>2, AskFacts, Apart DEF GetHit, Typed, PlaceInv, Labels, Asking, Bringing, Holding,
       Goto, Lock, Unlock, Free, AddEntry, Stamp, RemoveFile, Use, Preloaded, reqVars,
       memVars, diskVars, Files, Cached, Mismatch, Id, Path
  <1>3. ASSUME NEW r \in Requests, GetStat(r) PROVE PlaceInv'
    BY <1>3, AskFacts, Apart DEF GetStat, Typed, PlaceInv, Labels, Asking, Bringing,
       Holding, Goto, Lock, Unlock, Free, AddEntry, Stamp, RemoveFile, Use, Preloaded,
       reqVars, memVars, diskVars, Files, Cached, Mismatch, Id, Path
  <1>4. ASSUME NEW r \in Requests, GetLoad(r) PROVE PlaceInv'
    <2>1. pc[r] = "load" /\ on[r] \in Workers /\ Id(r) \in Ids /\ mu[on[r]] = r
      BY <1>4, AskFacts DEF GetLoad, PlaceInv, Asking, Holding, Labels
    <2>2. UNCHANGED <<on, ask, second, voice, writing>>  BY <1>4 DEF GetLoad, diskVars
    <2>3. CASE /\ disk[Id(r)] \in Paths /\ AddEntry(on[r], Id(r), disk[Id(r)])
               /\ got' = [got EXCEPT ![r] = disk[Id(r)]] /\ Goto(r, "got") /\ Unlock(r)
      <3>1. pc'[r] = "got" /\ got'[r] \in Paths  BY <2>3 DEF Goto, Typed
      <3>2. \A q \in Requests \ {r} : pc'[q] = pc[q] /\ got'[q] = got[q]  BY <2>3 DEF Goto, Typed
      <3>3. \A w \in Workers \ {on[r]} : mu'[w] = mu[w] /\ mem'[w] = mem[w]
        BY <2>1, <2>3 DEF Unlock, AddEntry, Typed
      <3>4. \A q \in Requests \ {r} : pc[q] \in Holding => on[q] # on[r]  BY <2>1 DEF PlaceInv
      <3>5. pc'[r] \in Asking /\ pc'[r] \notin Bringing \cup Holding /\ pc'[r] \notin {"idle", "save"}
        BY <3>1 DEF Asking, Bringing, Holding, Labels
      <3>6. Holding \subseteq Asking  BY DEF Holding, Asking, Labels
      <3>7. pc[r] \in Asking /\ pc[r] # "save" /\ pc[r] # "done"  BY <2>1 DEF Asking, Labels
      <3> QED
        BY <2>1, <2>2, <3>1, <3>2, <3>3, <3>4, <3>5, <3>6, <3>7 DEF PlaceInv, Path, Id, Cached
    <2>4. CASE Goto(r, "discard") /\ UNCHANGED <<got, memVars, mu>>
      BY <2>1, <2>2, <2>4 DEF PlaceInv, Path, Id, Cached, Typed, Goto, Asking, Bringing, Holding,
         Labels, memVars
    <2> QED  BY <1>4, <2>3, <2>4 DEF GetLoad
  <1>5. ASSUME NEW r \in Requests, GetDiscard(r) PROVE PlaceInv'
    BY <1>5, AskFacts, Apart DEF GetDiscard, Typed, PlaceInv, Labels, Asking, Bringing,
       Holding, Goto, Lock, Unlock, Free, AddEntry, Stamp, RemoveFile, Use, Preloaded,
       reqVars, memVars, diskVars, Files, Cached, Mismatch, Id, Path
  <1>6. ASSUME NEW r \in Requests, Accept(r) PROVE PlaceInv'
    BY <1>6, AskFacts, Apart DEF Accept, Typed, PlaceInv, Labels, Asking, Bringing, Holding,
       Goto, Lock, Unlock, Free, AddEntry, Stamp, RemoveFile, Use, Preloaded, reqVars,
       memVars, diskVars, Files, Cached, Mismatch, Id, Path
  <1>7. ASSUME NEW r \in Requests, Reject(r) PROVE PlaceInv'
    BY <1>7, AskFacts, Apart DEF Reject, Typed, PlaceInv, Labels, Asking, Bringing, Holding,
       Goto, Lock, Unlock, Free, AddEntry, Stamp, RemoveFile, Use, Preloaded, reqVars,
       memVars, diskVars, Files, Cached, Mismatch, Id, Path
  <1>8. ASSUME NEW r \in Requests, Missed(r) PROVE PlaceInv'
    BY <1>8, AskFacts, Apart DEF Missed, Typed, PlaceInv, Labels, Asking, Bringing, Holding,
       Goto, Lock, Unlock, Free, AddEntry, Stamp, RemoveFile, Use, Preloaded, reqVars,
       memVars, diskVars, Files, Cached, Mismatch, Id, Path
  <1>9. ASSUME NEW r \in Requests, Fallback(r) PROVE PlaceInv'
    BY <1>9, AskFacts, Apart DEF Fallback, Typed, PlaceInv, Labels, Asking, Bringing,
       Holding, Goto, Lock, Unlock, Free, AddEntry, Stamp, RemoveFile, Use, Preloaded,
       reqVars, memVars, diskVars, Files, Cached, Mismatch, Id, Path
  <1>10. ASSUME NEW r \in Requests, RemoveEntry(r) PROVE PlaceInv'
    BY <1>10, AskFacts, Apart DEF RemoveEntry, Typed, PlaceInv, Labels, Asking, Bringing,
       Holding, Goto, Lock, Unlock, Free, AddEntry, Stamp, RemoveFile, Use, Preloaded,
       reqVars, memVars, diskVars, Files, Cached, Mismatch, Id, Path
  <1>11. ASSUME NEW r \in Requests, PreloadHit(r) PROVE PlaceInv'
    BY <1>11, AskFacts, Apart DEF PreloadHit, Typed, PlaceInv, Labels, Asking, Bringing,
       Holding, Goto, Lock, Unlock, Free, AddEntry, Stamp, RemoveFile, Use, Preloaded,
       reqVars, memVars, diskVars, Files, Cached, Mismatch, Id, Path
  <1>12. ASSUME NEW r \in Requests, PreloadStat(r) PROVE PlaceInv'
    BY <1>12, AskFacts, Apart DEF PreloadStat, Typed, PlaceInv, Labels, Asking, Bringing,
       Holding, Goto, Lock, Unlock, Free, AddEntry, Stamp, RemoveFile, Use, Preloaded,
       reqVars, memVars, diskVars, Files, Cached, Mismatch, Id, Path
  <1>13. ASSUME NEW r \in Requests, PreloadPeek(r) PROVE PlaceInv'
    BY <1>13, AskFacts, Apart DEF PreloadPeek, Typed, PlaceInv, Labels, Asking, Bringing,
       Holding, Goto, Lock, Unlock, Free, AddEntry, Stamp, RemoveFile, Use, Preloaded,
       reqVars, memVars, diskVars, Files, Cached, Mismatch, Id, Path
  <1>14. ASSUME NEW r \in Requests, PreloadClear(r) PROVE PlaceInv'
    BY <1>14, AskFacts, Apart DEF PreloadClear, Typed, PlaceInv, Labels, Asking, Bringing,
       Holding, Goto, Lock, Unlock, Free, AddEntry, Stamp, RemoveFile, Use, Preloaded,
       reqVars, memVars, diskVars, Files, Cached, Mismatch, Id, Path
  <1>15. ASSUME NEW r \in Requests, Encode(r) PROVE PlaceInv'
    BY <1>15, AskFacts, Apart DEF Encode, Typed, PlaceInv, Labels, Asking, Bringing,
       Holding, Goto, Lock, Unlock, Free, AddEntry, Stamp, RemoveFile, Use, Preloaded,
       reqVars, memVars, diskVars, Files, Cached, Mismatch, Id, Path
  <1>16. ASSUME NEW r \in Requests, Create(r) PROVE PlaceInv'
    BY <1>16, AskFacts, Apart DEF Create, Typed, PlaceInv, Labels, Asking, Bringing,
       Holding, Goto, Lock, Unlock, Free, AddEntry, Stamp, RemoveFile, Use, Preloaded,
       reqVars, memVars, diskVars, Files, Cached, Mismatch, Id, Path
  <1>17. ASSUME NEW r \in Requests, Save(r) PROVE PlaceInv'
    BY <1>17, AskFacts, Apart DEF Save, Typed, PlaceInv, Labels, Asking, Bringing, Holding,
       Goto, Lock, Unlock, Free, AddEntry, Stamp, RemoveFile, Use, Preloaded, reqVars,
       memVars, diskVars, Files, Cached, Mismatch, Id, Path
  <1>18. ASSUME NEW r \in Requests, Add(r) PROVE PlaceInv'
    BY <1>18, AskFacts, Apart DEF Add, Typed, PlaceInv, Labels, Asking, Bringing, Holding,
       Goto, Lock, Unlock, Free, AddEntry, Stamp, RemoveFile, Use, Preloaded, reqVars,
       memVars, diskVars, Files, Cached, Mismatch, Id, Path
  <1>19. ASSUME NEW w \in Workers, Crash(w) PROVE PlaceInv'
    <2> SUFFICES ASSUME NEW r \in Requests
                   PROVE  /\ pc'[r] \in Asking => on'[r] \in Workers /\ ask'[r] \in Asks
                          /\ pc'[r] \in Bringing => Path(r)' \in Paths
                          /\ pc'[r] \in Holding => mu'[on'[r]] = r /\ ~Cached(r)'
                          /\ pc'[r] = "got" => got'[r] \in Paths
                          /\ r \in writing' => pc'[r] = "save"
                          /\ pc'[r] = "idle" => r \notin second'
                          /\ pc'[r] # "done" => voice'[r] = None
      BY DEF PlaceInv
    <2>1. UNCHANGED <<on, ask, got, second, voice>>  BY <1>19 DEF Crash, reqVars
    <2>2. pc'[r] \in Asking \cup Bringing \cup Holding => pc'[r] = pc[r] /\ on[r] # w
      BY <1>19 DEF Crash, Typed, Active, Ended, Asking, Bringing, Holding, Labels
    <2>3. /\ pc'[r] = "got" => pc[r] = "got"
          /\ pc'[r] = "idle" => pc[r] = "idle"
          /\ pc'[r] # "done" => pc[r] # "done"
      BY <1>19 DEF Crash, Typed, Active, Ended
    <2>4. r \in writing' => r \in writing /\ pc'[r] = pc[r]
      <3>1. r \in writing => pc[r] = "save"  BY DEF PlaceInv
      <3> QED  BY <1>19, <3>1 DEF Crash, Active, Ended
    <2>5. \A v \in Workers \ {w} : mu'[v] = mu[v] /\ mem'[v] = mem[v]
      BY <1>19 DEF Crash, Typed
    <2>6. pc[r] \in Holding => pc[r] \in Asking  BY DEF Holding, Asking, Labels
    <2> QED  BY <2>1, <2>2, <2>3, <2>4, <2>5, <2>6 DEF PlaceInv, Path, Id, Cached
  <1> QED
    BY <1>1, <1>2, <1>3, <1>4, <1>5, <1>6, <1>7, <1>8, <1>9, <1>10, <1>11, <1>12, <1>13,
       <1>14, <1>15, <1>16, <1>17, <1>18, <1>19 DEF Next, GetStep, ResolveStep, PreloadStep

LEMMA RivalStep == ASSUME Typed, PlaceInv, RivalInv, Next PROVE RivalInv'
  <1>1. ASSUME NEW r \in Requests, Begin(r) PROVE RivalInv'
    BY <1>1, Apart DEF Begin, Typed, PlaceInv, RivalInv, Asking, Labels, Goto, Lock, Unlock,
       Free, AddEntry, Stamp, RemoveFile, Use, Preloaded, reqVars, memVars, diskVars,
       Rivals, Active, Ended, Id, Path
  <1>2. ASSUME NEW r \in Requests, GetHit(r) PROVE RivalInv'
    <2>1. UNCHANGED <<ask, met>>  BY <1>2 DEF GetHit, reqVars, memVars, diskVars
    <2>2. \A q \in Requests : pc'[q] \in Asking => pc[q] \in Asking
      BY <1>2 DEF GetHit, Typed, Goto, Use, Preloaded, Active, Ended, Asking, Labels
    <2> QED  BY <2>1, <2>2 DEF RivalInv, Id, Path
  <1>3. ASSUME NEW r \in Requests, GetStat(r) PROVE RivalInv'
    <2>1. UNCHANGED <<ask, met>>  BY <1>3 DEF GetStat, reqVars, memVars, diskVars
    <2>2. \A q \in Requests : pc'[q] \in Asking => pc[q] \in Asking
      BY <1>3 DEF GetStat, Typed, Goto, Use, Preloaded, Active, Ended, Asking, Labels
    <2> QED  BY <2>1, <2>2 DEF RivalInv, Id, Path
  <1>4. ASSUME NEW r \in Requests, GetLoad(r) PROVE RivalInv'
    <2>1. UNCHANGED <<ask, met>>  BY <1>4 DEF GetLoad, reqVars, memVars, diskVars
    <2>2. \A q \in Requests : pc'[q] \in Asking => pc[q] \in Asking
      BY <1>4 DEF GetLoad, Typed, Goto, Use, Preloaded, Active, Ended, Asking, Labels
    <2> QED  BY <2>1, <2>2 DEF RivalInv, Id, Path
  <1>5. ASSUME NEW r \in Requests, GetDiscard(r) PROVE RivalInv'
    <2>1. UNCHANGED <<ask, met>>  BY <1>5 DEF GetDiscard, reqVars, memVars, diskVars
    <2>2. \A q \in Requests : pc'[q] \in Asking => pc[q] \in Asking
      BY <1>5 DEF GetDiscard, Typed, Goto, Use, Preloaded, Active, Ended, Asking, Labels
    <2> QED  BY <2>1, <2>2 DEF RivalInv, Id, Path
  <1>6. ASSUME NEW r \in Requests, Accept(r) PROVE RivalInv'
    <2>1. UNCHANGED <<ask, met>>  BY <1>6 DEF Accept, reqVars, memVars, diskVars
    <2>2. \A q \in Requests : pc'[q] \in Asking => pc[q] \in Asking
      BY <1>6 DEF Accept, Typed, Goto, Use, Preloaded, Active, Ended, Asking, Labels
    <2> QED  BY <2>1, <2>2 DEF RivalInv, Id, Path
  <1>7. ASSUME NEW r \in Requests, Reject(r) PROVE RivalInv'
    <2>1. UNCHANGED <<ask, met>>  BY <1>7 DEF Reject, reqVars, memVars, diskVars
    <2>2. \A q \in Requests : pc'[q] \in Asking => pc[q] \in Asking
      BY <1>7 DEF Reject, Typed, Goto, Use, Preloaded, Active, Ended, Asking, Labels
    <2> QED  BY <2>1, <2>2 DEF RivalInv, Id, Path
  <1>8. ASSUME NEW r \in Requests, Missed(r) PROVE RivalInv'
    <2>1. UNCHANGED <<ask, met>>  BY <1>8 DEF Missed, reqVars, memVars, diskVars
    <2>2. \A q \in Requests : pc'[q] \in Asking => pc[q] \in Asking
      BY <1>8 DEF Missed, Typed, Goto, Use, Preloaded, Active, Ended, Asking, Labels
    <2> QED  BY <2>1, <2>2 DEF RivalInv, Id, Path
  <1>9. ASSUME NEW r \in Requests, Fallback(r) PROVE RivalInv'
    <2>1. UNCHANGED <<ask, met>>  BY <1>9 DEF Fallback, reqVars, memVars, diskVars
    <2>2. \A q \in Requests : pc'[q] \in Asking => pc[q] \in Asking
      BY <1>9 DEF Fallback, Typed, Goto, Use, Preloaded, Active, Ended, Asking, Labels
    <2> QED  BY <2>1, <2>2 DEF RivalInv, Id, Path
  <1>10. ASSUME NEW r \in Requests, RemoveEntry(r) PROVE RivalInv'
    <2>1. UNCHANGED <<ask, met>>  BY <1>10 DEF RemoveEntry, reqVars, memVars, diskVars
    <2>2. \A q \in Requests : pc'[q] \in Asking => pc[q] \in Asking
      BY <1>10 DEF RemoveEntry, Typed, Goto, Use, Preloaded, Active, Ended, Asking, Labels
    <2> QED  BY <2>1, <2>2 DEF RivalInv, Id, Path
  <1>11. ASSUME NEW r \in Requests, PreloadHit(r) PROVE RivalInv'
    <2>1. UNCHANGED <<ask, met>>  BY <1>11 DEF PreloadHit, reqVars, memVars, diskVars
    <2>2. \A q \in Requests : pc'[q] \in Asking => pc[q] \in Asking
      BY <1>11 DEF PreloadHit, Typed, Goto, Use, Preloaded, Active, Ended, Asking, Labels
    <2> QED  BY <2>1, <2>2 DEF RivalInv, Id, Path
  <1>12. ASSUME NEW r \in Requests, PreloadStat(r) PROVE RivalInv'
    <2>1. UNCHANGED <<ask, met>>  BY <1>12 DEF PreloadStat, reqVars, memVars, diskVars
    <2>2. \A q \in Requests : pc'[q] \in Asking => pc[q] \in Asking
      BY <1>12 DEF PreloadStat, Typed, Goto, Use, Preloaded, Active, Ended, Asking, Labels
    <2> QED  BY <2>1, <2>2 DEF RivalInv, Id, Path
  <1>13. ASSUME NEW r \in Requests, PreloadPeek(r) PROVE RivalInv'
    <2>1. UNCHANGED <<ask, met>>  BY <1>13 DEF PreloadPeek, reqVars, memVars, diskVars
    <2>2. \A q \in Requests : pc'[q] \in Asking => pc[q] \in Asking
      BY <1>13 DEF PreloadPeek, Typed, Goto, Use, Preloaded, Active, Ended, Asking, Labels
    <2> QED  BY <2>1, <2>2 DEF RivalInv, Id, Path
  <1>14. ASSUME NEW r \in Requests, PreloadClear(r) PROVE RivalInv'
    <2>1. UNCHANGED <<ask, met>>  BY <1>14 DEF PreloadClear, reqVars, memVars, diskVars
    <2>2. \A q \in Requests : pc'[q] \in Asking => pc[q] \in Asking
      BY <1>14 DEF PreloadClear, Typed, Goto, Use, Preloaded, Active, Ended, Asking, Labels
    <2> QED  BY <2>1, <2>2 DEF RivalInv, Id, Path
  <1>15. ASSUME NEW r \in Requests, Encode(r) PROVE RivalInv'
    <2>1. UNCHANGED <<ask, met>>  BY <1>15 DEF Encode, reqVars, memVars, diskVars
    <2>2. \A q \in Requests : pc'[q] \in Asking => pc[q] \in Asking
      BY <1>15 DEF Encode, Typed, Goto, Use, Preloaded, Active, Ended, Asking, Labels
    <2> QED  BY <2>1, <2>2 DEF RivalInv, Id, Path
  <1>16. ASSUME NEW r \in Requests, Create(r) PROVE RivalInv'
    <2>1. UNCHANGED <<ask, met>>  BY <1>16 DEF Create, reqVars, memVars, diskVars
    <2>2. \A q \in Requests : pc'[q] \in Asking => pc[q] \in Asking
      BY <1>16 DEF Create, Typed, Goto, Use, Preloaded, Active, Ended, Asking, Labels
    <2> QED  BY <2>1, <2>2 DEF RivalInv, Id, Path
  <1>17. ASSUME NEW r \in Requests, Save(r) PROVE RivalInv'
    <2>1. UNCHANGED <<ask, met>>  BY <1>17 DEF Save, reqVars, memVars, diskVars
    <2>2. \A q \in Requests : pc'[q] \in Asking => pc[q] \in Asking
      BY <1>17 DEF Save, Typed, Goto, Use, Preloaded, Active, Ended, Asking, Labels
    <2> QED  BY <2>1, <2>2 DEF RivalInv, Id, Path
  <1>18. ASSUME NEW r \in Requests, Add(r) PROVE RivalInv'
    <2>1. UNCHANGED <<ask, met>>  BY <1>18 DEF Add, reqVars, memVars, diskVars
    <2>2. \A q \in Requests : pc'[q] \in Asking => pc[q] \in Asking
      BY <1>18 DEF Add, Typed, Goto, Use, Preloaded, Active, Ended, Asking, Labels
    <2> QED  BY <2>1, <2>2 DEF RivalInv, Id, Path
  <1>19. ASSUME NEW w \in Workers, Crash(w) PROVE RivalInv'
    <2>1. UNCHANGED <<ask, met>>  BY <1>19 DEF Crash, reqVars, memVars, diskVars
    <2>2. \A q \in Requests : pc'[q] \in Asking => pc[q] \in Asking
      BY <1>19 DEF Crash, Typed, Goto, Use, Preloaded, Active, Ended, Asking, Labels
    <2> QED  BY <2>1, <2>2 DEF RivalInv, Id, Path
  <1> QED
    BY <1>1, <1>2, <1>3, <1>4, <1>5, <1>6, <1>7, <1>8, <1>9, <1>10, <1>11, <1>12, <1>13,
       <1>14, <1>15, <1>16, <1>17, <1>18, <1>19 DEF Next, GetStep, ResolveStep, PreloadStep

LEMMA TornStep == ASSUME Typed, PlaceInv, TornByFaultOnly, Next PROVE TornByFaultOnly'
  <1>1. ASSUME NEW r \in Requests, Begin(r) PROVE TornByFaultOnly'
    BY <1>1, AskFacts, Apart DEF Begin, Typed, PlaceInv, TornByFaultOnly, Bringing, Asking,
       Labels, Goto, Lock, Unlock, Free, AddEntry, Stamp, RemoveFile, Use, Preloaded,
       reqVars, memVars, diskVars, Id, Path
  <1>2. ASSUME NEW r \in Requests, GetHit(r) PROVE TornByFaultOnly'
    BY <1>2, AskFacts, Apart DEF GetHit, Typed, PlaceInv, TornByFaultOnly, Bringing, Asking,
       Labels, Goto, Lock, Unlock, Free, AddEntry, Stamp, RemoveFile, Use, Preloaded,
       reqVars, memVars, diskVars, Id, Path
  <1>3. ASSUME NEW r \in Requests, GetStat(r) PROVE TornByFaultOnly'
    BY <1>3, AskFacts, Apart DEF GetStat, Typed, PlaceInv, TornByFaultOnly, Bringing,
       Asking, Labels, Goto, Lock, Unlock, Free, AddEntry, Stamp, RemoveFile, Use,
       Preloaded, reqVars, memVars, diskVars, Id, Path
  <1>4. ASSUME NEW r \in Requests, GetLoad(r) PROVE TornByFaultOnly'
    BY <1>4, AskFacts, Apart DEF GetLoad, Typed, PlaceInv, TornByFaultOnly, Bringing,
       Asking, Labels, Goto, Lock, Unlock, Free, AddEntry, Stamp, RemoveFile, Use,
       Preloaded, reqVars, memVars, diskVars, Id, Path
  <1>5. ASSUME NEW r \in Requests, GetDiscard(r) PROVE TornByFaultOnly'
    BY <1>5, AskFacts, Apart DEF GetDiscard, Typed, PlaceInv, TornByFaultOnly, Bringing,
       Asking, Labels, Goto, Lock, Unlock, Free, AddEntry, Stamp, RemoveFile, Use,
       Preloaded, reqVars, memVars, diskVars, Id, Path
  <1>6. ASSUME NEW r \in Requests, Accept(r) PROVE TornByFaultOnly'
    BY <1>6, AskFacts, Apart DEF Accept, Typed, PlaceInv, TornByFaultOnly, Bringing, Asking,
       Labels, Goto, Lock, Unlock, Free, AddEntry, Stamp, RemoveFile, Use, Preloaded,
       reqVars, memVars, diskVars, Id, Path
  <1>7. ASSUME NEW r \in Requests, Reject(r) PROVE TornByFaultOnly'
    BY <1>7, AskFacts, Apart DEF Reject, Typed, PlaceInv, TornByFaultOnly, Bringing, Asking,
       Labels, Goto, Lock, Unlock, Free, AddEntry, Stamp, RemoveFile, Use, Preloaded,
       reqVars, memVars, diskVars, Id, Path
  <1>8. ASSUME NEW r \in Requests, Missed(r) PROVE TornByFaultOnly'
    BY <1>8, AskFacts, Apart DEF Missed, Typed, PlaceInv, TornByFaultOnly, Bringing, Asking,
       Labels, Goto, Lock, Unlock, Free, AddEntry, Stamp, RemoveFile, Use, Preloaded,
       reqVars, memVars, diskVars, Id, Path
  <1>9. ASSUME NEW r \in Requests, Fallback(r) PROVE TornByFaultOnly'
    BY <1>9, AskFacts, Apart DEF Fallback, Typed, PlaceInv, TornByFaultOnly, Bringing,
       Asking, Labels, Goto, Lock, Unlock, Free, AddEntry, Stamp, RemoveFile, Use,
       Preloaded, reqVars, memVars, diskVars, Id, Path
  <1>10. ASSUME NEW r \in Requests, RemoveEntry(r) PROVE TornByFaultOnly'
    <2>1. Id(r) \in Ids /\ pc[r] = "remove" /\ UNCHANGED <<ask, faults>>
      BY <1>10, AskFacts DEF RemoveEntry, PlaceInv, Asking, Labels, reqVars
    <2>2. /\ \A q \in Requests \ {r} : pc'[q] = pc[q]
          /\ disk' = [disk EXCEPT ![Id(r)] = None] /\ writing' = {q \in writing : Id(q) # Id(r)}
      BY <1>10 DEF RemoveEntry, RemoveFile, Goto, Typed
    <2> QED  BY <2>1, <2>2, Apart DEF TornByFaultOnly, Typed, Id
  <1>11. ASSUME NEW r \in Requests, PreloadHit(r) PROVE TornByFaultOnly'
    BY <1>11, AskFacts, Apart DEF PreloadHit, Typed, PlaceInv, TornByFaultOnly, Bringing,
       Asking, Labels, Goto, Lock, Unlock, Free, AddEntry, Stamp, RemoveFile, Use,
       Preloaded, reqVars, memVars, diskVars, Id, Path
  <1>12. ASSUME NEW r \in Requests, PreloadStat(r) PROVE TornByFaultOnly'
    BY <1>12, AskFacts, Apart DEF PreloadStat, Typed, PlaceInv, TornByFaultOnly, Bringing,
       Asking, Labels, Goto, Lock, Unlock, Free, AddEntry, Stamp, RemoveFile, Use,
       Preloaded, reqVars, memVars, diskVars, Id, Path
  <1>13. ASSUME NEW r \in Requests, PreloadPeek(r) PROVE TornByFaultOnly'
    BY <1>13, AskFacts, Apart DEF PreloadPeek, Typed, PlaceInv, TornByFaultOnly, Bringing,
       Asking, Labels, Goto, Lock, Unlock, Free, AddEntry, Stamp, RemoveFile, Use,
       Preloaded, reqVars, memVars, diskVars, Id, Path
  <1>14. ASSUME NEW r \in Requests, PreloadClear(r) PROVE TornByFaultOnly'
    BY <1>14, AskFacts, Apart DEF PreloadClear, Typed, PlaceInv, TornByFaultOnly, Bringing,
       Asking, Labels, Goto, Lock, Unlock, Free, AddEntry, Stamp, RemoveFile, Use,
       Preloaded, reqVars, memVars, diskVars, Id, Path
  <1>15. ASSUME NEW r \in Requests, Encode(r) PROVE TornByFaultOnly'
    BY <1>15, AskFacts, Apart DEF Encode, Typed, PlaceInv, TornByFaultOnly, Bringing,
       Asking, Labels, Goto, Lock, Unlock, Free, AddEntry, Stamp, RemoveFile, Use,
       Preloaded, reqVars, memVars, diskVars, Id, Path
  <1>16. ASSUME NEW r \in Requests, Create(r) PROVE TornByFaultOnly'
    BY <1>16, AskFacts, Apart DEF Create, Typed, PlaceInv, TornByFaultOnly, Bringing,
       Asking, Labels, Goto, Lock, Unlock, Free, AddEntry, Stamp, RemoveFile, Use,
       Preloaded, reqVars, memVars, diskVars, Id, Path
  <1>17. ASSUME NEW r \in Requests, Save(r) PROVE TornByFaultOnly'
    <2>1. Id(r) \in Ids /\ Path(r) \in Paths /\ pc[r] = "save" /\ UNCHANGED ask
      BY <1>17, AskFacts DEF Save, PlaceInv, Bringing, Asking, Labels, reqVars
    <2>2. writing' = writing \ {r} /\ \A q \in Requests \ {r} : pc'[q] = pc[q]
      BY <1>17 DEF Save, Goto, Typed
    <2>3. CASE faults < MaxFaults /\ faults' = faults + 1 /\ UNCHANGED disk
      BY <2>3 DEF TornByFaultOnly, Typed
    <2>4. CASE r \notin writing /\ UNCHANGED <<disk, faults>>
      <3>1. \A q \in writing : q \in writing' /\ pc'[q] = pc[q] /\ Id(q)' = Id(q)
        BY <2>1, <2>2, <2>4 DEF Typed, Id
      <3> QED  BY <2>4, <3>1 DEF TornByFaultOnly
    <2>5. CASE r \in writing /\ UNCHANGED faults /\ disk' = [disk EXCEPT ![Id(r)] = Path(r)]
      <3>1. Path(r) # Torn  BY <2>1, Apart
      <3> QED  BY <2>1, <2>2, <2>5, <3>1 DEF TornByFaultOnly, Id, Typed
    <2>6. CASE r \in writing /\ UNCHANGED faults /\ Shared(r) /\ disk' = [disk EXCEPT ![Id(r)] = Torn]
      <3>1. PICK q \in writing \ {r} : Id(q) = Id(r)  BY <2>6 DEF Shared
      <3>2. q \in writing' /\ Id(q)' = Id(r) /\ pc'[q] = "save"
        BY <2>1, <2>2, <3>1 DEF Id, PlaceInv, Typed
      <3> SUFFICES ASSUME NEW i \in Ids, disk'[i] = Torn
                   PROVE  faults' > 0 \/ \E t \in writing' : Id(t)' = i /\ pc'[t] = "save"
        BY DEF TornByFaultOnly
      <3>3. CASE i = Id(r)  BY <3>2, <3>3
      <3>4. CASE i # Id(r)
        <4>1. disk[i] = Torn  BY <2>6, <3>4 DEF Typed
        <4>2. CASE faults > 0  BY <2>6, <4>2
        <4>3. ASSUME NEW t \in writing, Id(t) = i, pc[t] = "save" PROVE t \in writing' /\ Id(t)' = i /\ pc'[t] = "save"
          BY <2>1, <2>2, <3>4, <4>3 DEF Typed, Id
        <4> QED  BY <4>1, <4>2, <4>3 DEF TornByFaultOnly
      <3> QED  BY <3>3, <3>4
    <2> QED  BY <1>17, <2>3, <2>4, <2>5, <2>6 DEF Save
  <1>18. ASSUME NEW r \in Requests, Add(r) PROVE TornByFaultOnly'
    BY <1>18, AskFacts, Apart DEF Add, Typed, PlaceInv, TornByFaultOnly, Bringing, Asking,
       Labels, Goto, Lock, Unlock, Free, AddEntry, Stamp, RemoveFile, Use, Preloaded,
       reqVars, memVars, diskVars, Id, Path
  <1>19. ASSUME NEW w \in Workers, Crash(w) PROVE TornByFaultOnly'
    BY <1>19, AskFacts, Apart DEF Crash, Typed, PlaceInv, TornByFaultOnly, Bringing, Asking,
       Labels, Goto, Lock, Unlock, Free, AddEntry, Stamp, RemoveFile, Use, Preloaded,
       reqVars, memVars, diskVars, Id, Path
  <1> QED
    BY <1>1, <1>2, <1>3, <1>4, <1>5, <1>6, <1>7, <1>8, <1>9, <1>10, <1>11, <1>12, <1>13,
       <1>14, <1>15, <1>16, <1>17, <1>18, <1>19 DEF Next, GetStep, ResolveStep, PreloadStep

LEMMA NoRival ==
  ASSUME PlaceInv, RivalInv, NEW r \in Requests, NEW q \in Requests, q \notin met,
         pc[r] \in Asking, Cleared(q), Id(r) = Id(q)
  PROVE  Path(r) = Path(q)
  <1>1. pc[q] \in Asking  BY DEF Cleared, Asking, Labels
  <1> QED  BY <1>1 DEF RivalInv

(* Nothing about request q changes, but for what other files under its id may become. *)
LEMMA OwnKept ==
  ASSUME OwnInv, NEW q \in Requests, met \subseteq met',
         pc'[q] = pc[q], on'[q] = on[q], ask'[q] = ask[q], got'[q] = got[q], voice'[q] = voice[q],
         q \in second' <=> q \in second,
         q \notin met /\ Path(q) # None /\ Cleared(q) =>
           /\ mem'[on[q]][Id(q)] \in {mem[on[q]][Id(q)], Path(q), None}
           /\ disk'[Id(q)] \in {disk[Id(q)], Path(q), Torn, None}
  PROVE  Own(q)'
  BY DEF OwnInv, Own, Cleared, Id, Path

LEMMA OwnStep == ASSUME Typed, PlaceInv, RivalInv, OwnInv, Next PROVE OwnInv'
  <1>1. ASSUME NEW r \in Requests, Begin(r) PROVE OwnInv'
    <2> SUFFICES ASSUME NEW q \in Requests PROVE Own(q)'  BY DEF OwnInv
    <2>1. CASE q = r
      BY <1>1, <2>1, AskFacts, Apart
         DEF Begin, OwnInv, Own, Cleared, Mismatch, PlaceInv, Typed, Id, Path, Cached, Goto, Use,
            Preloaded, RemoveFile,
             Asking, Bringing, Holding, Labels, Active, Ended, diskVars, memVars
    <2>2. CASE q # r
      <3>1. /\ met \subseteq met' /\ (q \in second' <=> q \in second)
            /\ pc'[q] = pc[q] /\ on'[q] = on[q] /\ ask'[q] = ask[q]
            /\ got'[q] = got[q] /\ voice'[q] = voice[q]
        BY <1>1, <2>2 DEF Begin, Typed, Goto, Use, Preloaded, reqVars
      <3> QED  BY <1>1, <3>1, OwnKept DEF Begin, memVars, diskVars
    <2> QED  BY <2>1, <2>2
  <1>2. ASSUME NEW r \in Requests, GetHit(r) PROVE OwnInv'
    <2> SUFFICES ASSUME NEW q \in Requests PROVE Own(q)'  BY DEF OwnInv
    <2>1. CASE q = r
      BY <1>2, <2>1, AskFacts, Apart
         DEF GetHit, OwnInv, Own, Cleared, Mismatch, PlaceInv, Typed, Id, Path, Cached, Goto, Use,
            Preloaded, RemoveFile,
             Asking, Bringing, Holding, Labels, Active, Ended, diskVars, memVars, reqVars
    <2>2. CASE q # r
      <3>1. /\ met \subseteq met' /\ (q \in second' <=> q \in second)
            /\ pc'[q] = pc[q] /\ on'[q] = on[q] /\ ask'[q] = ask[q]
            /\ got'[q] = got[q] /\ voice'[q] = voice[q]
        BY <1>2, <2>2 DEF GetHit, Typed, Goto, Use, Preloaded, reqVars
      <3> QED  BY <1>2, <3>1, OwnKept DEF GetHit, memVars, diskVars
    <2> QED  BY <2>1, <2>2
  <1>3. ASSUME NEW r \in Requests, GetStat(r) PROVE OwnInv'
    <2> SUFFICES ASSUME NEW q \in Requests PROVE Own(q)'  BY DEF OwnInv
    <2>1. CASE q = r
      BY <1>3, <2>1, AskFacts, Apart
         DEF GetStat, OwnInv, Own, Cleared, Mismatch, PlaceInv, Typed, Id, Path, Cached, Goto,
            Use, Preloaded, RemoveFile,
             Asking, Bringing, Holding, Labels, Active, Ended, diskVars, memVars, reqVars
    <2>2. CASE q # r
      <3>1. /\ met \subseteq met' /\ (q \in second' <=> q \in second)
            /\ pc'[q] = pc[q] /\ on'[q] = on[q] /\ ask'[q] = ask[q]
            /\ got'[q] = got[q] /\ voice'[q] = voice[q]
        BY <1>3, <2>2 DEF GetStat, Typed, Goto, Use, Preloaded, reqVars
      <3> QED  BY <1>3, <3>1, OwnKept DEF GetStat, memVars, diskVars
    <2> QED  BY <2>1, <2>2
  <1>4. ASSUME NEW r \in Requests, GetLoad(r) PROVE OwnInv'
    <2> SUFFICES ASSUME NEW q \in Requests PROVE Own(q)'  BY DEF OwnInv
    <2>1. CASE q = r
      <3>1. pc[r] = "load" /\ on[r] \in Workers /\ Id(r) \in Ids
        BY <1>4, AskFacts DEF GetLoad, PlaceInv, Asking, Labels
      <3>2. UNCHANGED <<on, ask, second, voice, met, disk>>  BY <1>4 DEF GetLoad, diskVars
      <3>3. CASE /\ disk[Id(r)] \in Paths /\ AddEntry(on[r], Id(r), disk[Id(r)])
                 /\ got' = [got EXCEPT ![r] = disk[Id(r)]] /\ Goto(r, "got")
        <4>1. pc'[r] = "got" /\ got'[r] = disk[Id(r)] /\ mem'[on[r]][Id(r)] = disk[Id(r)]
          BY <3>1, <3>3 DEF Goto, AddEntry, Typed
        <4>2. Cleared(r)' => Cleared(r) /\ r \in second  BY <3>1, <3>2, <4>1 DEF Cleared
        <4>3. disk[Id(r)] \notin {Torn, Old, None}  BY <3>3, Apart
        <4> QED  BY <2>1, <3>1, <3>2, <4>1, <4>2, <4>3 DEF OwnInv, Own, Cleared, Id, Path
      <3>4. CASE Goto(r, "discard") /\ UNCHANGED <<got, memVars>>
        BY <2>1, <3>1, <3>2, <3>4 DEF OwnInv, Own, Cleared, Id, Path, Goto, Typed, memVars
      <3> QED  BY <1>4, <3>3, <3>4 DEF GetLoad
    <2>2. CASE q # r
      <3>1. /\ met \subseteq met' /\ (q \in second' <=> q \in second)
            /\ pc'[q] = pc[q] /\ on'[q] = on[q] /\ ask'[q] = ask[q]
            /\ got'[q] = got[q] /\ voice'[q] = voice[q]
        BY <1>4, <2>2 DEF GetLoad, Typed, Goto, Use, Preloaded, reqVars
      <3> SUFFICES ASSUME q \notin met, Path(q) # None, Cleared(q)
                   PROVE  /\ mem'[on[q]][Id(q)] \in {mem[on[q]][Id(q)], Path(q), None}
                          /\ disk'[Id(q)] \in {disk[Id(q)], Path(q), Torn, None}
        BY <3>1, OwnKept
      <3>2. Id(q) = Id(r) => Path(q) = Path(r)
        <4>1. pc[r] \in Asking  BY <1>4 DEF GetLoad, Asking, Labels
        <4> QED  BY <4>1, NoRival
      <3>3. on[q] \in Workers /\ Id(q) \in Ids /\ on[r] \in Workers /\ Id(r) \in Ids
        <4>1. pc[r] \in Asking /\ pc[q] \in Asking  BY <1>4 DEF GetLoad, Cleared, Asking, Labels
        <4> QED  BY <4>1, AskFacts DEF PlaceInv
      <3>4. mem'[on[q]][Id(q)] \in {mem[on[q]][Id(q)], Path(q), None}
        <4>1. CASE UNCHANGED memVars  BY <4>1 DEF memVars
        <4>2. CASE disk[Id(r)] \in Paths /\ AddEntry(on[r], Id(r), disk[Id(r)])
          <5>1. Id(q) = Id(r) => disk[Id(r)] = Path(q)
            BY <3>2, <4>2, Apart DEF OwnInv, Own
          <5> QED  BY <3>3, <4>2, <5>1 DEF AddEntry, Typed
        <4> QED  BY <1>4, <4>1, <4>2 DEF GetLoad
      <3>5. disk'[Id(q)] \in {disk[Id(q)], Path(q), Torn, None}
        BY <1>4 DEF GetLoad, diskVars
      <3> QED  BY <3>4, <3>5
    <2> QED  BY <2>1, <2>2
  <1>5. ASSUME NEW r \in Requests, GetDiscard(r) PROVE OwnInv'
    <2> SUFFICES ASSUME NEW q \in Requests PROVE Own(q)'  BY DEF OwnInv
    <2>1. CASE q = r
      BY <1>5, <2>1, AskFacts, Apart
         DEF GetDiscard, OwnInv, Own, Cleared, Mismatch, PlaceInv, Typed, Id, Path, Cached, Goto,
            Use, Preloaded, RemoveFile,
             Asking, Bringing, Holding, Labels, Active, Ended, diskVars, memVars, reqVars
    <2>2. CASE q # r
      <3>1. /\ met \subseteq met' /\ (q \in second' <=> q \in second)
            /\ pc'[q] = pc[q] /\ on'[q] = on[q] /\ ask'[q] = ask[q]
            /\ got'[q] = got[q] /\ voice'[q] = voice[q]
        BY <1>5, <2>2 DEF GetDiscard, Typed, Goto, Use, Preloaded, reqVars
      <3> SUFFICES ASSUME q \notin met, Path(q) # None, Cleared(q)
                   PROVE  /\ mem'[on[q]][Id(q)] \in {mem[on[q]][Id(q)], Path(q), None}
                          /\ disk'[Id(q)] \in {disk[Id(q)], Path(q), Torn, None}
        BY <3>1, OwnKept
      <3>2. Id(q) = Id(r) => Path(q) = Path(r)
        <4>1. pc[r] \in Asking  BY <1>5 DEF GetDiscard, Asking, Labels
        <4> QED  BY <4>1, NoRival
      <3>3. on[q] \in Workers /\ Id(q) \in Ids /\ on[r] \in Workers /\ Id(r) \in Ids
        <4>1. pc[r] \in Asking /\ pc[q] \in Asking
          BY <1>5 DEF GetDiscard, Cleared, Asking, Labels
        <4> QED  BY <4>1, AskFacts DEF PlaceInv
      <3>4. mem'[on[q]][Id(q)] \in {mem[on[q]][Id(q)], Path(q), None}
        BY <1>5 DEF GetDiscard, memVars
      <3>5. disk'[Id(q)] \in {disk[Id(q)], Path(q), Torn, None}
        BY <1>5, <3>2, <3>3 DEF GetDiscard, RemoveFile, Typed
      <3> QED  BY <3>4, <3>5
    <2> QED  BY <2>1, <2>2
  <1>6. ASSUME NEW r \in Requests, Accept(r) PROVE OwnInv'
    <2> SUFFICES ASSUME NEW q \in Requests PROVE Own(q)'  BY DEF OwnInv
    <2>1. CASE q = r
      BY <1>6, <2>1, AskFacts, Apart
         DEF Accept, OwnInv, Own, Cleared, Mismatch, PlaceInv, Typed, Id, Path, Cached, Goto, Use,
            Preloaded, RemoveFile,
             Asking, Bringing, Holding, Labels, Active, Ended, diskVars, memVars, reqVars
    <2>2. CASE q # r
      <3>1. /\ met \subseteq met' /\ (q \in second' <=> q \in second)
            /\ pc'[q] = pc[q] /\ on'[q] = on[q] /\ ask'[q] = ask[q]
            /\ got'[q] = got[q] /\ voice'[q] = voice[q]
        BY <1>6, <2>2 DEF Accept, Typed, Goto, Use, Preloaded, reqVars
      <3> QED  BY <1>6, <3>1, OwnKept DEF Accept, memVars, diskVars
    <2> QED  BY <2>1, <2>2
  <1>7. ASSUME NEW r \in Requests, Reject(r) PROVE OwnInv'
    <2> SUFFICES ASSUME NEW q \in Requests PROVE Own(q)'  BY DEF OwnInv
    <2>1. CASE q = r
      BY <1>7, <2>1, AskFacts, Apart
         DEF Reject, OwnInv, Own, Cleared, Mismatch, PlaceInv, Typed, Id, Path, Cached, Goto, Use,
            Preloaded, RemoveFile,
             Asking, Bringing, Holding, Labels, Active, Ended, diskVars, memVars, reqVars
    <2>2. CASE q # r
      <3>1. /\ met \subseteq met' /\ (q \in second' <=> q \in second)
            /\ pc'[q] = pc[q] /\ on'[q] = on[q] /\ ask'[q] = ask[q]
            /\ got'[q] = got[q] /\ voice'[q] = voice[q]
        BY <1>7, <2>2 DEF Reject, Typed, Goto, Use, Preloaded, reqVars
      <3> QED  BY <1>7, <3>1, OwnKept DEF Reject, memVars, diskVars
    <2> QED  BY <2>1, <2>2
  <1>8. ASSUME NEW r \in Requests, Missed(r) PROVE OwnInv'
    <2> SUFFICES ASSUME NEW q \in Requests PROVE Own(q)'  BY DEF OwnInv
    <2>1. CASE q = r
      BY <1>8, <2>1, AskFacts, Apart
         DEF Missed, OwnInv, Own, Cleared, Mismatch, PlaceInv, Typed, Id, Path, Cached, Goto, Use,
            Preloaded, RemoveFile,
             Asking, Bringing, Holding, Labels, Active, Ended, diskVars, memVars, reqVars
    <2>2. CASE q # r
      <3>1. /\ met \subseteq met' /\ (q \in second' <=> q \in second)
            /\ pc'[q] = pc[q] /\ on'[q] = on[q] /\ ask'[q] = ask[q]
            /\ got'[q] = got[q] /\ voice'[q] = voice[q]
        BY <1>8, <2>2 DEF Missed, Typed, Goto, Use, Preloaded, reqVars
      <3> QED  BY <1>8, <3>1, OwnKept DEF Missed, memVars, diskVars
    <2> QED  BY <2>1, <2>2
  <1>9. ASSUME NEW r \in Requests, Fallback(r) PROVE OwnInv'
    <2> SUFFICES ASSUME NEW q \in Requests PROVE Own(q)'  BY DEF OwnInv
    <2>1. CASE q = r
      BY <1>9, <2>1, AskFacts, Apart
         DEF Fallback, OwnInv, Own, Cleared, Mismatch, PlaceInv, Typed, Id, Path, Cached, Goto,
            Use, Preloaded, RemoveFile,
             Asking, Bringing, Holding, Labels, Active, Ended, diskVars, memVars, reqVars
    <2>2. CASE q # r
      <3>1. /\ met \subseteq met' /\ (q \in second' <=> q \in second)
            /\ pc'[q] = pc[q] /\ on'[q] = on[q] /\ ask'[q] = ask[q]
            /\ got'[q] = got[q] /\ voice'[q] = voice[q]
        BY <1>9, <2>2 DEF Fallback, Typed, Goto, Use, Preloaded, reqVars
      <3> QED  BY <1>9, <3>1, OwnKept DEF Fallback, memVars, diskVars
    <2> QED  BY <2>1, <2>2
  <1>10. ASSUME NEW r \in Requests, RemoveEntry(r) PROVE OwnInv'
    <2> SUFFICES ASSUME NEW q \in Requests PROVE Own(q)'  BY DEF OwnInv
    <2>1. CASE q = r
      BY <1>10, <2>1, AskFacts, Apart
         DEF RemoveEntry, OwnInv, Own, Cleared, Mismatch, PlaceInv, Typed, Id, Path, Cached, Goto,
            Use, Preloaded, RemoveFile,
             Asking, Bringing, Holding, Labels, Active, Ended, diskVars, memVars, reqVars
    <2>2. CASE q # r
      <3>1. /\ met \subseteq met' /\ (q \in second' <=> q \in second)
            /\ pc'[q] = pc[q] /\ on'[q] = on[q] /\ ask'[q] = ask[q]
            /\ got'[q] = got[q] /\ voice'[q] = voice[q]
        BY <1>10, <2>2 DEF RemoveEntry, Typed, Goto, Use, Preloaded, reqVars
      <3> SUFFICES ASSUME q \notin met, Path(q) # None, Cleared(q)
                   PROVE  /\ mem'[on[q]][Id(q)] \in {mem[on[q]][Id(q)], Path(q), None}
                          /\ disk'[Id(q)] \in {disk[Id(q)], Path(q), Torn, None}
        BY <3>1, OwnKept
      <3>2. Id(q) = Id(r) => Path(q) = Path(r)
        <4>1. pc[r] \in Asking  BY <1>10 DEF RemoveEntry, Asking, Labels
        <4> QED  BY <4>1, NoRival
      <3>3. on[q] \in Workers /\ Id(q) \in Ids /\ on[r] \in Workers /\ Id(r) \in Ids
        <4>1. pc[r] \in Asking /\ pc[q] \in Asking
          BY <1>10 DEF RemoveEntry, Cleared, Asking, Labels
        <4> QED  BY <4>1, AskFacts DEF PlaceInv
      <3>4. mem'[on[q]][Id(q)] \in {mem[on[q]][Id(q)], Path(q), None}
        BY <1>10, <3>2, <3>3 DEF RemoveEntry, Typed
      <3>5. disk'[Id(q)] \in {disk[Id(q)], Path(q), Torn, None}
        BY <1>10, <3>2, <3>3 DEF RemoveEntry, RemoveFile, Typed
      <3> QED  BY <3>4, <3>5
    <2> QED  BY <2>1, <2>2
  <1>11. ASSUME NEW r \in Requests, PreloadHit(r) PROVE OwnInv'
    <2> SUFFICES ASSUME NEW q \in Requests PROVE Own(q)'  BY DEF OwnInv
    <2>1. CASE q = r
      BY <1>11, <2>1, AskFacts, Apart
         DEF PreloadHit, OwnInv, Own, Cleared, Mismatch, PlaceInv, Typed, Id, Path, Cached, Goto,
            Use, Preloaded, RemoveFile,
             Asking, Bringing, Holding, Labels, Active, Ended, diskVars, memVars, reqVars
    <2>2. CASE q # r
      <3>1. /\ met \subseteq met' /\ (q \in second' <=> q \in second)
            /\ pc'[q] = pc[q] /\ on'[q] = on[q] /\ ask'[q] = ask[q]
            /\ got'[q] = got[q] /\ voice'[q] = voice[q]
        BY <1>11, <2>2 DEF PreloadHit, Typed, Goto, Use, Preloaded, reqVars
      <3> QED  BY <1>11, <3>1, OwnKept DEF PreloadHit, memVars, diskVars
    <2> QED  BY <2>1, <2>2
  <1>12. ASSUME NEW r \in Requests, PreloadStat(r) PROVE OwnInv'
    <2> SUFFICES ASSUME NEW q \in Requests PROVE Own(q)'  BY DEF OwnInv
    <2>1. CASE q = r
      BY <1>12, <2>1, AskFacts, Apart
         DEF PreloadStat, OwnInv, Own, Cleared, Mismatch, PlaceInv, Typed, Id, Path, Cached, Goto,
            Use, Preloaded, RemoveFile,
             Asking, Bringing, Holding, Labels, Active, Ended, diskVars, memVars, reqVars
    <2>2. CASE q # r
      <3>1. /\ met \subseteq met' /\ (q \in second' <=> q \in second)
            /\ pc'[q] = pc[q] /\ on'[q] = on[q] /\ ask'[q] = ask[q]
            /\ got'[q] = got[q] /\ voice'[q] = voice[q]
        BY <1>12, <2>2 DEF PreloadStat, Typed, Goto, Use, Preloaded, reqVars
      <3> QED  BY <1>12, <3>1, OwnKept DEF PreloadStat, memVars, diskVars
    <2> QED  BY <2>1, <2>2
  <1>13. ASSUME NEW r \in Requests, PreloadPeek(r) PROVE OwnInv'
    <2> SUFFICES ASSUME NEW q \in Requests PROVE Own(q)'  BY DEF OwnInv
    <2>1. CASE q = r
      BY <1>13, <2>1, AskFacts, Apart
         DEF PreloadPeek, OwnInv, Own, Cleared, Mismatch, PlaceInv, Typed, Id, Path, Cached, Goto,
            Use, Preloaded, RemoveFile,
             Asking, Bringing, Holding, Labels, Active, Ended, diskVars, memVars, reqVars
    <2>2. CASE q # r
      <3>1. /\ met \subseteq met' /\ (q \in second' <=> q \in second)
            /\ pc'[q] = pc[q] /\ on'[q] = on[q] /\ ask'[q] = ask[q]
            /\ got'[q] = got[q] /\ voice'[q] = voice[q]
        BY <1>13, <2>2 DEF PreloadPeek, Typed, Goto, Use, Preloaded, reqVars
      <3> QED  BY <1>13, <3>1, OwnKept DEF PreloadPeek, memVars, diskVars
    <2> QED  BY <2>1, <2>2
  <1>14. ASSUME NEW r \in Requests, PreloadClear(r) PROVE OwnInv'
    <2> SUFFICES ASSUME NEW q \in Requests PROVE Own(q)'  BY DEF OwnInv
    <2>1. CASE q = r
      BY <1>14, <2>1, AskFacts, Apart
         DEF PreloadClear, OwnInv, Own, Cleared, Mismatch, PlaceInv, Typed, Id, Path, Cached,
            Goto, Use, Preloaded, RemoveFile,
             Asking, Bringing, Holding, Labels, Active, Ended, diskVars, memVars, reqVars
    <2>2. CASE q # r
      <3>1. /\ met \subseteq met' /\ (q \in second' <=> q \in second)
            /\ pc'[q] = pc[q] /\ on'[q] = on[q] /\ ask'[q] = ask[q]
            /\ got'[q] = got[q] /\ voice'[q] = voice[q]
        BY <1>14, <2>2 DEF PreloadClear, Typed, Goto, Use, Preloaded, reqVars
      <3> SUFFICES ASSUME q \notin met, Path(q) # None, Cleared(q)
                   PROVE  /\ mem'[on[q]][Id(q)] \in {mem[on[q]][Id(q)], Path(q), None}
                          /\ disk'[Id(q)] \in {disk[Id(q)], Path(q), Torn, None}
        BY <3>1, OwnKept
      <3>2. Id(q) = Id(r) => Path(q) = Path(r)
        <4>1. pc[r] \in Asking  BY <1>14 DEF PreloadClear, Asking, Labels
        <4> QED  BY <4>1, NoRival
      <3>3. on[q] \in Workers /\ Id(q) \in Ids /\ on[r] \in Workers /\ Id(r) \in Ids
        <4>1. pc[r] \in Asking /\ pc[q] \in Asking
          BY <1>14 DEF PreloadClear, Cleared, Asking, Labels
        <4> QED  BY <4>1, AskFacts DEF PlaceInv
      <3>4. mem'[on[q]][Id(q)] \in {mem[on[q]][Id(q)], Path(q), None}
        BY <1>14 DEF PreloadClear, memVars
      <3>5. disk'[Id(q)] \in {disk[Id(q)], Path(q), Torn, None}
        BY <1>14, <3>2, <3>3 DEF PreloadClear, RemoveFile, Typed
      <3> QED  BY <3>4, <3>5
    <2> QED  BY <2>1, <2>2
  <1>15. ASSUME NEW r \in Requests, Encode(r) PROVE OwnInv'
    <2> SUFFICES ASSUME NEW q \in Requests PROVE Own(q)'  BY DEF OwnInv
    <2>1. CASE q = r
      BY <1>15, <2>1, AskFacts, Apart
         DEF Encode, OwnInv, Own, Cleared, Mismatch, PlaceInv, Typed, Id, Path, Cached, Goto, Use,
            Preloaded, RemoveFile,
             Asking, Bringing, Holding, Labels, Active, Ended, diskVars, memVars, reqVars
    <2>2. CASE q # r
      <3>1. /\ met \subseteq met' /\ (q \in second' <=> q \in second)
            /\ pc'[q] = pc[q] /\ on'[q] = on[q] /\ ask'[q] = ask[q]
            /\ got'[q] = got[q] /\ voice'[q] = voice[q]
        BY <1>15, <2>2 DEF Encode, Typed, Goto, Use, Preloaded, reqVars
      <3> QED  BY <1>15, <3>1, OwnKept DEF Encode, memVars, diskVars
    <2> QED  BY <2>1, <2>2
  <1>16. ASSUME NEW r \in Requests, Create(r) PROVE OwnInv'
    <2> SUFFICES ASSUME NEW q \in Requests PROVE Own(q)'  BY DEF OwnInv
    <2>1. CASE q = r
      BY <1>16, <2>1, AskFacts, Apart
         DEF Create, OwnInv, Own, Cleared, Mismatch, PlaceInv, Typed, Id, Path, Cached, Goto, Use,
            Preloaded, RemoveFile,
             Asking, Bringing, Holding, Labels, Active, Ended, diskVars, memVars, reqVars
    <2>2. CASE q # r
      <3>1. /\ met \subseteq met' /\ (q \in second' <=> q \in second)
            /\ pc'[q] = pc[q] /\ on'[q] = on[q] /\ ask'[q] = ask[q]
            /\ got'[q] = got[q] /\ voice'[q] = voice[q]
        BY <1>16, <2>2 DEF Create, Typed, Goto, Use, Preloaded, reqVars
      <3> SUFFICES ASSUME q \notin met, Path(q) # None, Cleared(q)
                   PROVE  /\ mem'[on[q]][Id(q)] \in {mem[on[q]][Id(q)], Path(q), None}
                          /\ disk'[Id(q)] \in {disk[Id(q)], Path(q), Torn, None}
        BY <3>1, OwnKept
      <3>2. Id(q) = Id(r) => Path(q) = Path(r)
        <4>1. pc[r] \in Asking  BY <1>16 DEF Create, Asking, Labels
        <4> QED  BY <4>1, NoRival
      <3>3. on[q] \in Workers /\ Id(q) \in Ids /\ on[r] \in Workers /\ Id(r) \in Ids
        <4>1. pc[r] \in Asking /\ pc[q] \in Asking  BY <1>16 DEF Create, Cleared, Asking, Labels
        <4> QED  BY <4>1, AskFacts DEF PlaceInv
      <3>4. mem'[on[q]][Id(q)] \in {mem[on[q]][Id(q)], Path(q), None}
        BY <1>16 DEF Create, memVars
      <3>5. disk'[Id(q)] \in {disk[Id(q)], Path(q), Torn, None}
        BY <1>16, <3>2, <3>3 DEF Create, RemoveFile, Typed
      <3> QED  BY <3>4, <3>5
    <2> QED  BY <2>1, <2>2
  <1>17. ASSUME NEW r \in Requests, Save(r) PROVE OwnInv'
    <2> SUFFICES ASSUME NEW q \in Requests PROVE Own(q)'  BY DEF OwnInv
    <2>1. CASE q = r
      BY <1>17, <2>1, AskFacts, Apart
         DEF Save, OwnInv, Own, Cleared, Mismatch, PlaceInv, Typed, Id, Path, Cached, Goto, Use,
            Preloaded, RemoveFile,
             Asking, Bringing, Holding, Labels, Active, Ended, diskVars, memVars, reqVars
    <2>2. CASE q # r
      <3>1. /\ met \subseteq met' /\ (q \in second' <=> q \in second)
            /\ pc'[q] = pc[q] /\ on'[q] = on[q] /\ ask'[q] = ask[q]
            /\ got'[q] = got[q] /\ voice'[q] = voice[q]
        BY <1>17, <2>2 DEF Save, Typed, Goto, Use, Preloaded, reqVars
      <3> SUFFICES ASSUME q \notin met, Path(q) # None, Cleared(q)
                   PROVE  /\ mem'[on[q]][Id(q)] \in {mem[on[q]][Id(q)], Path(q), None}
                          /\ disk'[Id(q)] \in {disk[Id(q)], Path(q), Torn, None}
        BY <3>1, OwnKept
      <3>2. Id(q) = Id(r) => Path(q) = Path(r)
        <4>1. pc[r] \in Asking  BY <1>17 DEF Save, Asking, Labels
        <4> QED  BY <4>1, NoRival
      <3>3. on[q] \in Workers /\ Id(q) \in Ids /\ on[r] \in Workers /\ Id(r) \in Ids
        <4>1. pc[r] \in Asking /\ pc[q] \in Asking  BY <1>17 DEF Save, Cleared, Asking, Labels
        <4> QED  BY <4>1, AskFacts DEF PlaceInv
      <3>4. mem'[on[q]][Id(q)] \in {mem[on[q]][Id(q)], Path(q), None}
        BY <1>17 DEF Save, memVars
      <3>5. disk'[Id(q)] \in {disk[Id(q)], Path(q), Torn, None}
        BY <1>17, <3>2, <3>3 DEF Save, RemoveFile, Typed
      <3> QED  BY <3>4, <3>5
    <2> QED  BY <2>1, <2>2
  <1>18. ASSUME NEW r \in Requests, Add(r) PROVE OwnInv'
    <2> SUFFICES ASSUME NEW q \in Requests PROVE Own(q)'  BY DEF OwnInv
    <2>1. CASE q = r
      <3>1. pc[r] = "add" /\ on[r] \in Workers /\ Id(r) \in Ids
        BY <1>18, AskFacts DEF Add, PlaceInv, Asking, Labels
      <3>2. UNCHANGED <<on, ask, got, voice, met, disk>>  BY <1>18 DEF Add, diskVars
      <3>3. pc'[r] = "get" /\ mem'[on[r]][Id(r)] = Path(r)
        BY <1>18, <3>1 DEF Add, Goto, AddEntry, Preloaded, Typed
      <3> QED  BY <2>1, <3>1, <3>2, <3>3 DEF OwnInv, Own, Cleared, Id, Path
    <2>2. CASE q # r
      <3>1. /\ met \subseteq met' /\ (q \in second' <=> q \in second)
            /\ pc'[q] = pc[q] /\ on'[q] = on[q] /\ ask'[q] = ask[q]
            /\ got'[q] = got[q] /\ voice'[q] = voice[q]
        BY <1>18, <2>2 DEF Add, Typed, Goto, Use, Preloaded, reqVars
      <3> SUFFICES ASSUME q \notin met, Path(q) # None, Cleared(q)
                   PROVE  /\ mem'[on[q]][Id(q)] \in {mem[on[q]][Id(q)], Path(q), None}
                          /\ disk'[Id(q)] \in {disk[Id(q)], Path(q), Torn, None}
        BY <3>1, OwnKept
      <3>2. Id(q) = Id(r) => Path(q) = Path(r)
        <4>1. pc[r] \in Asking  BY <1>18 DEF Add, Asking, Labels
        <4> QED  BY <4>1, NoRival
      <3>3. on[q] \in Workers /\ Id(q) \in Ids /\ on[r] \in Workers /\ Id(r) \in Ids
        <4>1. pc[r] \in Asking /\ pc[q] \in Asking  BY <1>18 DEF Add, Cleared, Asking, Labels
        <4> QED  BY <4>1, AskFacts DEF PlaceInv
      <3>4. mem'[on[q]][Id(q)] \in {mem[on[q]][Id(q)], Path(q), None}
        BY <1>18, <3>2, <3>3 DEF Add, AddEntry, Typed
      <3>5. disk'[Id(q)] \in {disk[Id(q)], Path(q), Torn, None}
        BY <1>18 DEF Add, diskVars
      <3> QED  BY <3>4, <3>5
    <2> QED  BY <2>1, <2>2
  <1>19. ASSUME NEW w \in Workers, Crash(w) PROVE OwnInv'
    <2> SUFFICES ASSUME NEW q \in Requests PROVE Own(q)'  BY DEF OwnInv
    <2>1. UNCHANGED <<on, ask, second, got, voice, met, disk>>  BY <1>19 DEF Crash, reqVars
    <2>2. pc'[q] = pc[q] \/ pc'[q] = "dead"  BY <1>19 DEF Crash, Typed
    <2>3. \A v \in Workers, i \in Ids : mem'[v][i] \in {mem[v][i], None}
      BY <1>19 DEF Crash, Typed
    <2>4. CASE pc'[q] = "dead"  BY <2>1, <2>4 DEF OwnInv, Own, Cleared, Id, Path
    <2>5. CASE pc'[q] = pc[q]
      <3>1. Cleared(q) => on[q] \in Workers /\ Id(q) \in Ids
        <4>1. Cleared(q) => pc[q] \in Asking  BY DEF Cleared, Asking, Labels
        <4> QED  BY <4>1, AskFacts DEF PlaceInv
      <3> QED  BY <2>1, <2>3, <2>5, <3>1, OwnKept
    <2> QED  BY <2>2, <2>4, <2>5
  <1> QED
    BY <1>1, <1>2, <1>3, <1>4, <1>5, <1>6, <1>7, <1>8, <1>9, <1>10, <1>11, <1>12, <1>13,
       <1>14, <1>15, <1>16, <1>17, <1>18, <1>19 DEF Next, GetStep, ResolveStep, PreloadStep

(* A process whose memory is not touched. *)
LEMMA RecentKept ==
  ASSUME NEW w \in Workers, Recent(w), Typed, mem'[w] = mem[w], order'[w] = order[w],
         stamp'[w] = stamp[w], clock' \in {clock, clock + 1}
  PROVE  Recent(w)'
  <1>1. \A i \in Ids : stamp[w][i] \in Nat /\ clock \in Nat  BY DEF Typed
  <1>2. \A i \in Ids : stamp'[w][i] <= clock'  BY <1>1 DEF Recent
  <1> QED  BY <1>2 DEF Recent

(* An entry that is used now goes to the end of a list that does not have it. *)
LEMMA RecentAppend ==
  ASSUME Typed, NEW w \in Workers, \A j \in Ids : stamp[w][j] <= clock,
         NEW s \in Seq(Ids), Rising(s, stamp[w]), Len(s) < MaxInMemory,
         NEW i \in Ids, i \notin ToSet(s), Stamp(w, i),
         {j \in Ids : mem'[w][j] # None} = ToSet(s) \cup {i}, order'[w] = Append(s, i)
  PROVE  Recent(w)'
  <1>1. stamp[w] \in [Ids -> Nat] /\ clock \in Nat  BY DEF Typed
  <1>2. stamp'[w] = [stamp[w] EXCEPT ![i] = clock + 1] /\ clock' = clock + 1  BY DEF Stamp, Typed
  <1>3. Rising(order'[w], stamp'[w])  BY <1>1, <1>2, RisingAppend
  <1>4. \A j \in Ids : stamp'[w][j] <= clock'
    <2>1. \A j \in Ids : stamp'[w][j] = clock + 1 \/ stamp'[w][j] = stamp[w][j]  BY <1>1, <1>2
    <2>2. \A j \in Ids : stamp[w][j] \in Nat  BY <1>1
    <2> QED  BY <1>1, <1>2, <2>1, <2>2
  <1>5. /\ order'[w] \in Seq(Ids) /\ ToSet(order'[w]) = ToSet(s) \cup {i}
        /\ Len(order'[w]) = Len(s) + 1
    BY AppendFacts
  <1>6. Len(order'[w]) <= MaxInMemory
    <2>1. Len(s) \in Nat /\ MaxInMemory \in Nat  BY CacheAssumption
    <2> QED  BY <1>5, <2>1
  <1> QED  BY <1>3, <1>4, <1>5, <1>6 DEF Recent

LEMMA AddRecent ==
  ASSUME Typed, order \in [Workers -> Seq(Ids)], NEW w \in Workers, Recent(w),
         NEW i \in Ids, mem[w][i] = None, NEW p \in Paths, AddEntry(w, i, p)
  PROVE  Recent(w)'
  <1> DEFINE s == order[w]
             full == Cardinality({j \in Ids : mem[w][j] # None}) >= MaxInMemory /\ s # <<>>
  <1>1. s \in Seq(Ids) /\ Len(s) \in Nat /\ stamp[w] \in [Ids -> Nat] /\ Rising(s, stamp[w])
    BY DEF Recent, Typed
  <1>2. {j \in Ids : mem[w][j] # None} = ToSet(s) /\ Cardinality(ToSet(s)) = Len(s)
    BY <1>1, LenIsCount DEF Recent
  <1>3. i \notin ToSet(s)  BY <1>2
  <1>4. Len(s) <= MaxInMemory /\ MaxInMemory \in Nat \ {0}  BY CacheAssumption DEF Recent
  <1>5. Stamp(w, i) /\ \A j \in Ids : stamp[w][j] <= clock  BY DEF AddEntry, Recent
  <1>6. CASE full
    <2>1. /\ Tail(s) \in Seq(Ids) /\ Len(Tail(s)) = Len(s) - 1
          /\ ToSet(Tail(s)) = ToSet(s) \ {Head(s)} /\ Rising(Tail(s), stamp[w])
      BY <1>1, <1>6, TailFacts
    <2>2. order'[w] = Append(Tail(s), i)  BY <1>6 DEF AddEntry
    <2>3. \A j \in Ids : mem'[w][j] = IF j = i THEN p ELSE IF j = Head(s) THEN None ELSE mem[w][j]
      BY <1>6 DEF AddEntry, Typed
    <2>4. {j \in Ids : mem'[w][j] # None} = ToSet(Tail(s)) \cup {i}
      BY <1>2, <2>1, <2>3, Apart
    <2>5. Len(Tail(s)) < MaxInMemory  BY <1>1, <1>4, <2>1
    <2> QED  BY <1>3, <1>5, <2>1, <2>2, <2>4, <2>5, RecentAppend
  <1>7. CASE ~full
    <2>1. Len(s) < MaxInMemory
      <3>1. CASE s = <<>>  BY <1>4, <3>1
      <3>2. CASE s # <<>>
        <4>1. ~(Len(s) >= MaxInMemory)  BY <1>2, <1>7, <3>2
        <4> QED  BY <1>1, <1>4, <4>1
      <3> QED  BY <3>1, <3>2
    <2>2. order'[w] = Append(s, i)  BY <1>7 DEF AddEntry
    <2>3. \A j \in Ids : mem'[w][j] = IF j = i THEN p ELSE mem[w][j]
      BY <1>7 DEF AddEntry, Typed
    <2>4. {j \in Ids : mem'[w][j] # None} = ToSet(s) \cup {i}  BY <1>2, <2>3, Apart
    <2> QED  BY <1>1, <1>3, <1>5, <2>1, <2>2, <2>4, RecentAppend
  <1> QED  BY <1>6, <1>7

LEMMA AddOrder ==
  ASSUME Typed, OrderInv, NEW v \in Workers, NEW i \in Ids, mem[v][i] = None,
         NEW p \in Paths, AddEntry(v, i, p)
  PROVE  OrderInv'
  <1>1. Recent(v)'  BY AddRecent DEF OrderInv
  <1>2. ASSUME NEW w \in Workers, w # v PROVE Recent(w)'
    <2>1. /\ mem'[w] = mem[w] /\ order'[w] = order[w] /\ stamp'[w] = stamp[w]
          /\ clock' \in {clock, clock + 1}
      BY <1>2 DEF AddEntry, Stamp, Typed, OrderInv
    <2> QED  BY <2>1, RecentKept DEF OrderInv
  <1>3. order' \in [Workers -> Seq(Ids)]
    <2>1. order[v] \in Seq(Ids)  BY DEF OrderInv
    <2>2. order[v] # <<>> => Append(Tail(order[v]), i) \in Seq(Ids)  BY <2>1
    <2>3. Append(order[v], i) \in Seq(Ids)  BY <2>1
    <2> QED  BY <2>2, <2>3 DEF AddEntry, OrderInv
  <1> QED  BY <1>1, <1>2, <1>3 DEF OrderInv

LEMMA OrderStep == ASSUME Typed, PlaceInv, OrderInv, Next PROVE OrderInv'
  <1>1. ASSUME NEW r \in Requests, GetHit(r) PROVE OrderInv'
    <2>1. on[r] \in Workers /\ Id(r) \in Ids
      <3>1. pc[r] \in Asking  BY <1>1 DEF GetHit, Asking, Labels
      <3> QED  BY <3>1, AskFacts DEF PlaceInv
    <2>0. PICK v \in Workers, i \in Ids : v = on[r] /\ i = Id(r)  BY <2>1
    <2> DEFINE s == order[v]
    <2>2. Recent(v) /\ stamp[v] \in [Ids -> Nat] /\ s \in Seq(Ids)  BY <2>0 DEF OrderInv, Typed
    <2>3. i \in ToSet(s)  BY <1>1, <2>0, <2>2 DEF GetHit, Cached, Recent
    <2>4. /\ RemoveFirst(s, i) \in Seq(Ids) /\ ToSet(RemoveFirst(s, i)) = ToSet(s) \ {i}
          /\ Rising(RemoveFirst(s, i), stamp[v]) /\ Len(RemoveFirst(s, i)) = Len(s) - 1
      BY <2>0, <2>2, <2>3, RemoveFirstFacts DEF Recent
    <2>5. Len(RemoveFirst(s, i)) < MaxInMemory
      <3>1. Len(s) \in Nat /\ Len(s) <= MaxInMemory /\ MaxInMemory \in Nat
        BY <2>2, CacheAssumption DEF Recent
      <3> QED  BY <2>4, <3>1
    <2>6. Stamp(v, i) /\ mem' = mem /\ order' = [order EXCEPT ![v] = Append(RemoveFirst(s, i), i)]
      BY <1>1, <2>0 DEF GetHit, Touched
    <2>7. Recent(v)'
      <3>1. order'[v] = Append(RemoveFirst(s, i), i)  BY <2>0, <2>6 DEF OrderInv
      <3>2. {j \in Ids : mem'[v][j] # None} = ToSet(RemoveFirst(s, i)) \cup {i}
        BY <2>2, <2>3, <2>4, <2>6 DEF Recent
      <3>3. \A j \in Ids : stamp[v][j] <= clock  BY <2>2 DEF Recent
      <3>4. i \notin ToSet(RemoveFirst(s, i))  BY <2>4
      <3> QED  BY <2>0, <2>4, <2>5, <2>6, <3>1, <3>2, <3>3, <3>4, RecentAppend
    <2>8. ASSUME NEW w \in Workers, w # v PROVE Recent(w)'
      <3>1. /\ mem'[w] = mem[w] /\ order'[w] = order[w] /\ stamp'[w] = stamp[w]
            /\ clock' \in {clock, clock + 1}
        BY <2>8, <2>0, <2>6 DEF Stamp, Typed, OrderInv
      <3> QED  BY <3>1, RecentKept DEF OrderInv
    <2>9. order' \in [Workers -> Seq(Ids)]
      <3>1. Append(RemoveFirst(s, i), i) \in Seq(Ids)  BY <2>0, <2>4
      <3> QED  BY <2>0, <2>6, <3>1 DEF OrderInv
    <2> QED  BY <2>7, <2>8, <2>9 DEF OrderInv
  <1>2. ASSUME NEW r \in Requests, GetLoad(r) PROVE OrderInv'
    <2>1. on[r] \in Workers /\ Id(r) \in Ids /\ mem[on[r]][Id(r)] = None
      <3>1. pc[r] \in Asking /\ pc[r] \in Holding  BY <1>2 DEF GetLoad, Asking, Holding, Labels
      <3> QED  BY <3>1, AskFacts DEF PlaceInv, Cached
    <2>2. CASE disk[Id(r)] \in Paths /\ AddEntry(on[r], Id(r), disk[Id(r)])
      BY <2>1, <2>2, AddOrder
    <2>3. CASE UNCHANGED memVars  BY <2>3 DEF memVars, OrderInv, Recent
    <2> QED  BY <1>2, <2>2, <2>3 DEF GetLoad
  <1>3. ASSUME NEW r \in Requests, RemoveEntry(r) PROVE OrderInv'
    <2>1. on[r] \in Workers /\ Id(r) \in Ids
      <3>1. pc[r] \in Asking  BY <1>3 DEF RemoveEntry, Asking, Labels
      <3> QED  BY <3>1, AskFacts DEF PlaceInv
    <2>0. PICK v \in Workers, i \in Ids : v = on[r] /\ i = Id(r)  BY <2>1
    <2> DEFINE s == order[v]
    <2>2. Recent(v) /\ stamp[v] \in [Ids -> Nat] /\ s \in Seq(Ids)  BY <2>0 DEF OrderInv, Typed
    <2>3. /\ RemoveFirst(s, i) \in Seq(Ids) /\ ToSet(RemoveFirst(s, i)) = ToSet(s) \ {i}
          /\ Rising(RemoveFirst(s, i), stamp[v])
          /\ Len(RemoveFirst(s, i)) = Len(s) - 1 \/ RemoveFirst(s, i) = s
      BY <2>0, <2>2, RemoveFirstFacts DEF Recent
    <2>4. Len(RemoveFirst(s, i)) <= MaxInMemory
      <3>1. Len(s) \in Nat /\ Len(s) <= MaxInMemory /\ MaxInMemory \in Nat
        BY <2>2, CacheAssumption DEF Recent
      <3> QED  BY <2>3, <3>1
    <2>5. /\ mem' = [mem EXCEPT ![v][i] = None] /\ order' = [order EXCEPT ![v] = RemoveFirst(s, i)]
          /\ UNCHANGED <<stamp, clock>>
      BY <1>3, <2>0 DEF RemoveEntry
    <2>6. Recent(v)'
      <3>1. order'[v] = RemoveFirst(s, i)  BY <2>0, <2>5 DEF OrderInv
      <3>2. \A j \in Ids : mem'[v][j] = IF j = i THEN None ELSE mem[v][j]  BY <2>0, <2>5 DEF Typed
      <3>3. {j \in Ids : mem'[v][j] # None} = ToSet(RemoveFirst(s, i))
        BY <2>2, <2>3, <3>2 DEF Recent
      <3> QED  BY <2>2, <2>3, <2>4, <2>5, <3>1, <3>3 DEF Recent
    <2>7. ASSUME NEW w \in Workers, w # v PROVE Recent(w)'
      <3>1. /\ mem'[w] = mem[w] /\ order'[w] = order[w] /\ stamp'[w] = stamp[w]
            /\ clock' \in {clock, clock + 1}
        BY <2>7, <2>0, <2>5 DEF Stamp, Typed, OrderInv
      <3> QED  BY <3>1, RecentKept DEF OrderInv
    <2>8. order' \in [Workers -> Seq(Ids)]  BY <2>0, <2>3, <2>5 DEF OrderInv
    <2> QED  BY <2>6, <2>7, <2>8 DEF OrderInv
  <1>4. ASSUME NEW r \in Requests, Add(r) PROVE OrderInv'
    <2>1. on[r] \in Workers /\ Id(r) \in Ids /\ mem[on[r]][Id(r)] = None
      <3>1. pc[r] \in Asking /\ pc[r] \in Holding  BY <1>4 DEF Add, Asking, Holding, Labels
      <3> QED  BY <3>1, AskFacts DEF PlaceInv, Cached
    <2>2. Path(r) \in Paths  BY <1>4 DEF Add, PlaceInv, Bringing
    <2> QED  BY <1>4, <2>1, <2>2, AddOrder DEF Add
  <1>5. ASSUME NEW w \in Workers, Crash(w) PROVE OrderInv'
    <2>1. UNCHANGED <<stamp, clock>>  BY <1>5 DEF Crash
    <2>2. order'[w] = <<>> /\ \A i \in Ids : mem'[w][i] = None  BY <1>5 DEF Crash, Typed, OrderInv
    <2>3. Recent(w)'
      <3>1. ToSet(order'[w]) = {}  BY <2>2 DEF ToSet
      <3>2. Rising(order'[w], stamp'[w]) /\ Len(order'[w]) = 0 /\ order'[w] \in Seq(Ids)
        BY <2>2 DEF Rising
      <3>3. 0 <= MaxInMemory  BY CacheAssumption
      <3> QED  BY <2>1, <2>2, <3>1, <3>2, <3>3 DEF Recent, OrderInv
    <2>4. ASSUME NEW v \in Workers, v # w PROVE Recent(v)'
      <3>1. mem'[v] = mem[v] /\ order'[v] = order[v]  BY <1>5, <2>4 DEF Crash, Typed, OrderInv
      <3> QED  BY <2>1, <3>1, RecentKept DEF OrderInv
    <2>5. order' \in [Workers -> Seq(Ids)]
      <3>1. <<>> \in Seq(Ids)  OBVIOUS
      <3> QED  BY <1>5, <3>1 DEF Crash, OrderInv
    <2> QED  BY <2>3, <2>4, <2>5 DEF OrderInv
  <1>6. ASSUME NEW r \in Requests, Begin(r) \/ GetStat(r) \/ GetDiscard(r) \/ Accept(r) \/ Reject(r) \/ Missed(r) \/
           Fallback(r) \/ PreloadHit(r) \/ PreloadStat(r) \/ PreloadPeek(r) \/
           PreloadClear(r) \/ Encode(r) \/ Create(r) \/ Save(r)
        PROVE  OrderInv'
    BY <1>6 DEF Begin, GetStat, GetDiscard, Accept, Reject, Missed, Fallback, PreloadHit,
       PreloadStat, PreloadPeek, PreloadClear, Encode, Create, Save, reqVars, memVars,
       diskVars, OrderInv, Recent
  <1> QED
    BY <1>1, <1>2, <1>3, <1>4, <1>5, <1>6 DEF Next, GetStep, ResolveStep, PreloadStep

----------------------------------------------------------------------------
(* Theorems *)

LEMMA StepInv == IInv /\ [Next]_vars => IInv'
  <1> SUFFICES ASSUME IInv, [Next]_vars PROVE IInv'  OBVIOUS
  <1>1. CASE Next
    BY <1>1, TypedStep, PlaceStep, RivalStep, TornStep, OwnStep, OrderStep DEF IInv
  <1>2. CASE UNCHANGED vars
    BY <1>2 DEF IInv, vars, reqVars, memVars, diskVars, Typed, PlaceInv, RivalInv,
       TornByFaultOnly, OwnInv, Own, Cleared, OrderInv, Recent, Cached, Id, Path
  <1> QED  BY <1>1, <1>2

(* The inductive invariant from which the theorems follow. *)
THEOREM Invariance == Spec => []IInv
  <1>1. IInv /\ [Next]_vars => IInv'  BY StepInv
  <1> QED  BY <1>1, InitInv, PTL DEF Spec

(* The variables of the cache keep their types; the list of entries is a sequence of ids. *)
THEOREM TypeCorrect == Spec => []TypeOK
  <1>1. IInv => TypeOK
    <2>1. IInv => \A r \in Requests : Active(r) => on[r] # None /\ ask[r] # NoAsk
      <3> SUFFICES ASSUME IInv, NEW r \in Requests, Active(r) PROVE on[r] # None /\ ask[r] # NoAsk
        OBVIOUS
      <3>1. pc[r] \in Asking  BY DEF IInv, Typed, Active, Ended, Asking, Labels
      <3>2. on[r] \in Workers /\ ask[r] \in Asks  BY <3>1 DEF IInv, PlaceInv
      <3>3. Id(r) # None  BY <3>2, AskFacts
      <3> QED  BY <3>2, <3>3, Apart DEF Id, NoAsk
    <2> QED  BY <2>1 DEF IInv, Typed, OrderInv, TypeOK
  <1> QED  BY <1>1, Invariance, PTL

(* The list by which addToMemoryCache evicts has the entries of memory, each once, from *)
(* the least to the most recently used one, and no more than MaxInMemory.              *)
THEOREM OrderIsExact == Spec => []OrderIsRecency
  <1>1. IInv => OrderIsRecency  BY DEF IInv, OrderInv, Recent, Rising, OrderIsRecency
  <1> QED  BY <1>1, Invariance, PTL

(* A request that names its audio file, and that no request with the same id and another *)
(* file overlaps, speaks with its own voice or with one of the model.                    *)
THEOREM VoiceIsOwn == Spec => []OwnVoice
  <1>1. IInv => OwnVoice  BY DEF IInv, OwnInv, Own, OwnVoice
  <1> QED  BY <1>1, Invariance, PTL

(* Processes that save, load and discard one file at the same time leave none behind *)
(* that does not decode.                                                             *)
THEOREM OnlyFaultsTear == Spec => []TornByFaultOnly
  <1>1. IInv => TornByFaultOnly  BY DEF IInv
  <1> QED  BY <1>1, Invariance, PTL
=============================================================================

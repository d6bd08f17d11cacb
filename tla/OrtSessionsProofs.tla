-------------------------- MODULE OrtSessionsProofs --------------------------
(***************************************************************************)
(* Proofs about OrtSessions, for every set of tasks: what generation runs  *)
(* is not destroyed, however tasks overlap and loads fail.                 *)
(*                                                                         *)
(* Destroying takes SessionMutex, which a generating task has (HasMutex in *)
(* TypeOK); loading only adds sets.  What remains is that generation finds *)
(* a set in memory when it looks one up: LoadedInv and InstallInv.         *)
(*                                                                         *)
(* Of tasks that run one after the other more is true: SoloInv says which  *)
(* sessions the only one finds, PhaseInv what is in memory meanwhile.      *)
(***************************************************************************)
EXTENDS OrtSessions, FiniteSetTheorems, TLAPS

(* Where a task goes on after loading sessions, and after running one. *)
NextInv ==
  \A t \in Tasks :
    /\ pc[t] \in {"load", "install", "reset"} => next[t] \in {"check", "take", "retake", "end"}
    /\ pc[t] \in {"run", "running"} => next[t] \in {"encoded", "gen", "frames", "decoded"}

(* A panic ends every task. *)
CrashInv == crashed => \A t \in Tasks : pc[t] = "dead"

(* What rt.Onnx leads to is in memory. *)
LoadedInv ==
  /\ live \subseteq 1 .. made
  /\ inference # NoSet => inference \in live /\ inference # encoder
  /\ encoder # NoSet => encoder \in live

(* A set that was loaded and has yet to be installed is in memory and nobody else's. *)
InstallInv ==
  \A t \in Tasks :
    pc[t] = "install" =>
      /\ using[t] \in live /\ using[t] # inference /\ using[t] # encoder
      /\ \A u \in Tasks : pc[u] = "install" /\ u # t => using[u] # using[t]

IInv ==
  /\ TypeOK
  /\ NextInv
  /\ CrashInv
  /\ LoadedInv
  /\ InstallInv
  /\ GenerationProtected

----------------------------------------------------------------------------
USE SessionsAssumption DEF IInv, Labels, Generating, NoSet, None, SetIds, taskVars, sessVars

(* The invariant holds initially. *)
LEMMA InitInv == Init => IInv
<1> SUFFICES ASSUME Init PROVE IInv
  OBVIOUS
<1> USE DEF Init
<1>0. \A t \in Tasks : mutex # t /\ ~HasMutex(t)
  BY DEF HasMutex
<1>1. TypeOK
  <2>1. 1 \in SetIds
    OBVIOUS
  <2> QED
    BY <1>0, <2>1 DEF TypeOK
<1>2. NextInv /\ CrashInv /\ LoadedInv /\ InstallInv /\ GenerationProtected
  BY DEF NextInv, CrashInv, LoadedInv, InstallInv, GenerationProtected
<1> QED
  BY <1>1, <1>2

(* Tasks that have not panicked move only while the process runs. *)
LEMMA Alive ==
  ASSUME IInv, NEW t \in Tasks, pc[t] # "dead"
  PROVE  crashed = FALSE
  BY DEF TypeOK, CrashInv

(* Task t goes from its label to label l; whatever else the step does respects the *)
(* types and the mutex.                                                             *)
LEMMA MoveInv ==
  ASSUME IInv, NEW t \in Tasks, pc[t] # "dead",
         NEW l \in Labels,
         NEW n \in Labels \cup {None},
         pc' = [pc EXCEPT ![t] = l],
         next' = [next EXCEPT ![t] = n],
         l \in {"load", "install", "reset"} => n \in {"check", "take", "retake", "end"},
         l \in {"run", "running"} => n \in {"encoded", "gen", "frames", "decoded"},
         mutex' \in Tasks \cup {None},
         \A u \in Tasks : mutex' = u <=> HasMutex(u)',
         using' \in [Tasks -> SetIds \cup {NoSet}],
         decoder' \in [Tasks -> SetIds \cup {NoSet}],
         cancelled' \in SUBSET Tasks,
         inference' \in SetIds \cup {NoSet}, encoder' \in SetIds \cup {NoSet},
         live' \in SUBSET SetIds, made' \in SetIds,
         step' \in BOOLEAN, hybrid' \in BOOLEAN,
         UNCHANGED crashed,
         failed' \in BOOLEAN, overlapped' \in BOOLEAN
  PROVE  TypeOK' /\ NextInv' /\ CrashInv'
<1>1. TypeOK'
  BY DEF TypeOK
<1>2. NextInv' /\ CrashInv'
  BY Alive DEF TypeOK, NextInv, CrashInv
<1> QED
  BY <1>1, <1>2

(* Task t goes to label l, and the sessions are left alone. *)
LEMMA QuietInv ==
  ASSUME IInv, NEW t \in Tasks, pc[t] \notin {"dead", "install"},
         NEW l \in Labels \ {"install"},
         NEW n \in Labels \cup {None},
         NEW s \in SetIds \cup {NoSet},
         pc' = [pc EXCEPT ![t] = l],
         next' = [next EXCEPT ![t] = n],
         using' = [using EXCEPT ![t] = s],
         l \in {"load", "reset"} => n \in {"check", "take", "retake", "end"},
         l \in {"run", "running"} => n \in {"encoded", "gen", "frames", "decoded"},
         l \in {"run", "running"} /\ n = "gen" => s \in live,
         mutex' \in Tasks \cup {None},
         \A u \in Tasks : mutex' = u <=> HasMutex(u)',
         decoder' \in [Tasks -> SetIds \cup {NoSet}],
         cancelled' \in SUBSET Tasks,
         UNCHANGED <<sessVars, crashed>>,
         failed' \in BOOLEAN, overlapped' \in BOOLEAN
  PROVE  IInv'
<1>1. TypeOK' /\ NextInv' /\ CrashInv'
  <2>1. /\ using' \in [Tasks -> SetIds \cup {NoSet}]
        /\ inference' \in SetIds \cup {NoSet} /\ encoder' \in SetIds \cup {NoSet}
        /\ live' \in SUBSET SetIds /\ made' \in SetIds
        /\ step' \in BOOLEAN /\ hybrid' \in BOOLEAN
        /\ l \in Labels /\ pc[t] # "dead" /\ UNCHANGED crashed
        /\ l \in {"load", "install", "reset"} => n \in {"check", "take", "retake", "end"}
    BY DEF TypeOK
  <2> HIDE DEF Labels, IInv
  <2> QED
    BY <2>1, MoveInv
<1>2. LoadedInv' /\ InstallInv'
  BY DEF TypeOK, LoadedInv, InstallInv
<1>3. GenerationProtected'
  BY DEF TypeOK, GenerationProtected
<1> QED
  BY <1>1, <1>2, <1>3

(* The mutex of a task that moves between labels at which it has none. *)
LEMMA KeepsMutex ==
  ASSUME IInv, NEW t \in Tasks, pc[t] # "dead",
         NEW l \in Labels,
         NEW n \in Labels \cup {None},
         pc' = [pc EXCEPT ![t] = l],
         next' = [next EXCEPT ![t] = n],
         UNCHANGED mutex,
         HasMutex(t) <=> l \in Generating \/ (l \in {"run", "running"} /\ n \in Generating)
  PROVE  /\ mutex' \in Tasks \cup {None}
         /\ \A u \in Tasks : mutex' = u <=> HasMutex(u)'
  BY Alive DEF TypeOK, HasMutex

(* Steps along the text that do not run a session. *)
LEMMA TextInv ==
  ASSUME IInv, NEW t \in Tasks,
         Begin(t) \/ Check(t) \/ Interrupted(t) \/ Generate(t) \/ Decoded(t) \/ End(t)
  PROVE  IInv'
<1> USE DEF Begin, Check, Interrupted, Generate, Decoded, End, Goto, GotoVia
<1>1. PICK l \in {"check", "unload", "take", "load", "reset", "prefill", "chunk", "end", "done"},
           n \in Labels \cup {None} :
        /\ pc[t] \in {"idle", "check", "chunk", "decode", "decoded", "end"}
        /\ pc' = [pc EXCEPT ![t] = l] /\ next' = [next EXCEPT ![t] = n]
        /\ l \in {"load", "reset"} => n \in {"check", "take", "retake", "end"}
  <2>1. next = [next EXCEPT ![t] = next[t]] /\ next[t] \in Labels \cup {None}
    BY DEF TypeOK
  <2> QED
    BY <2>1 DEF TypeOK
<1>2. using' = [using EXCEPT ![t] = using[t]] /\ using[t] \in SetIds \cup {NoSet}
  BY DEF TypeOK
<1>3. mutex' \in Tasks \cup {None} /\ \A u \in Tasks : mutex' = u <=> HasMutex(u)'
  <2>1. ~HasMutex(t)
    BY <1>1 DEF HasMutex
  <2>2. /\ l \in Labels /\ pc[t] # "dead" /\ UNCHANGED mutex
        /\ l \notin Generating /\ l \notin {"run", "running"}
    BY <1>1
  <2> HIDE DEF Labels, IInv, Generating, Begin, Check, Interrupted, Generate, Decoded, End
  <2> QED
    BY <1>1, <2>1, <2>2, KeepsMutex
<1>4. /\ UNCHANGED <<decoder, cancelled, sessVars, crashed, failed>>
      /\ overlapped' \in BOOLEAN
  BY DEF TypeOK
<1>5. /\ pc[t] \notin {"dead", "install"} /\ l \in Labels \ {"install"}
      /\ l \notin {"run", "running"}
      /\ decoder' \in [Tasks -> SetIds \cup {NoSet}] /\ cancelled' \in SUBSET Tasks
      /\ failed' \in BOOLEAN /\ UNCHANGED <<sessVars, crashed>>
  BY <1>1, <1>4 DEF TypeOK
<1> HIDE DEF Labels, IInv
<1> QED
  BY <1>1, <1>2, <1>3, <1>4, <1>5, QuietInv

(* A panic ends everything; what is left of the invariant is about types. *)
LEMMA PanicInv ==
  ASSUME IInv, Panic, UNCHANGED <<next, using, decoder, cancelled, mutex>>,
         UNCHANGED <<inference, step, encoder, overlapped>>,
         live' \in SUBSET SetIds, made' \in SetIds, live' \subseteq 1 .. made',
         live \subseteq live', hybrid' \in BOOLEAN, failed' \in BOOLEAN
  PROVE  IInv'
<1> USE DEF Panic
<1>1. TypeOK'
  BY DEF TypeOK
<1>2. NextInv' /\ CrashInv' /\ InstallInv' /\ GenerationProtected'
  BY DEF NextInv, CrashInv, InstallInv, GenerationProtected
<1>3. LoadedInv'
  BY DEF LoadedInv
<1> QED
  BY <1>1, <1>2, <1>3

(* A context is cancelled. *)
LEMMA CancelInv ==
  ASSUME IInv, NEW t \in Tasks, Cancel(t)
  PROVE  IInv'
<1> USE DEF Cancel
<1>1. TypeOK'
  BY DEF TypeOK, HasMutex
<1>2. NextInv' /\ CrashInv' /\ LoadedInv' /\ InstallInv' /\ GenerationProtected'
  BY DEF NextInv, CrashInv, LoadedInv, InstallInv, GenerationProtected
<1> QED
  BY <1>1, <1>2

(* Steps that look up a session, run it, or leave the run. *)
LEMMA RunInv ==
  ASSUME IInv, NEW t \in Tasks, Run(t) \/ RunEnd(t)
  PROVE  IInv'
<1> USE DEF Run, RunEnd, Goto
<1>1. pc[t] \in {"run", "running"}
  OBVIOUS
<1>2. next[t] \in {"encoded", "gen", "frames", "decoded"}
  BY <1>1 DEF NextInv
<1>3. PICK l \in {"running", "encoded", "gen", "frames", "decoded"},
           s \in SetIds \cup {NoSet} :
        /\ pc' = [pc EXCEPT ![t] = l] /\ using' = [using EXCEPT ![t] = s]
        /\ l = "running" => s = using[t]
        /\ l # "running" => l = next[t]
  <2>1. using = [using EXCEPT ![t] = using[t]] /\ using[t] \in SetIds \cup {NoSet}
    BY DEF TypeOK
  <2> QED
    BY <1>2, <2>1 DEF TypeOK
<1>4. next' = [next EXCEPT ![t] = next[t]] /\ next[t] \in Labels \cup {None}
  BY DEF TypeOK
<1>5. mutex' \in Tasks \cup {None} /\ \A u \in Tasks : mutex' = u <=> HasMutex(u)'
  <2>1. HasMutex(t) <=> l \in Generating \/ (l \in {"run", "running"} /\ next[t] \in Generating)
    BY <1>1, <1>2, <1>3 DEF HasMutex
  <2>2. l \in Labels /\ pc[t] # "dead" /\ UNCHANGED mutex
    BY <1>1, <1>3
  <2> HIDE DEF Labels, IInv, Run, RunEnd
  <2> QED
    BY <1>3, <1>4, <2>1, <2>2, KeepsMutex
<1>6. l = "running" /\ next[t] = "gen" => s \in live
  BY <1>1, <1>3 DEF GenerationProtected
<1>7. /\ pc[t] \notin {"dead", "install"} /\ l \in Labels \ {"install"}
      /\ l \notin {"load", "reset", "run"}
      /\ decoder' \in [Tasks -> SetIds \cup {NoSet}] /\ cancelled' \in SUBSET Tasks
      /\ failed' \in BOOLEAN /\ overlapped' \in BOOLEAN /\ UNCHANGED <<sessVars, crashed>>
  BY <1>1, <1>3 DEF TypeOK
<1> HIDE DEF Labels, IInv, Run, RunEnd
<1> QED
  BY <1>2, <1>3, <1>4, <1>5, <1>6, <1>7, QuietInv

(* Picking a session to run: generation picks what rt.Onnx leads to. *)
LEMMA PickInv ==
  ASSUME IInv, NEW t \in Tasks, NEW s \in SetIds \cup {NoSet},
         NEW n \in {"encoded", "gen", "frames", "decoded"},
         Pick(t, s, n), pc[t] \in {"encode", "first", "gen", "frames", "decode"},
         HasMutex(t) <=> n \in Generating,
         n = "gen" => s \in live,
         UNCHANGED <<decoder, cancelled, mutex, sessVars, crashed, failed, overlapped>>
  PROVE  IInv'
<1> USE DEF Pick, Goto, GotoVia
<1>1. /\ pc' = [pc EXCEPT ![t] = "run"] /\ next' = [next EXCEPT ![t] = n]
      /\ using' = [using EXCEPT ![t] = s] /\ n \in Labels \cup {None}
  OBVIOUS
<1>2. mutex' \in Tasks \cup {None} /\ \A u \in Tasks : mutex' = u <=> HasMutex(u)'
  <2>1. "run" \in Labels /\ pc[t] # "dead" /\ UNCHANGED mutex
    OBVIOUS
  <2>2. HasMutex(t) <=> "run" \in Generating \/ ("run" \in {"run", "running"} /\ n \in Generating)
    OBVIOUS
  <2> HIDE DEF Labels, IInv, Pick
  <2> QED
    BY <1>1, <2>1, <2>2, KeepsMutex
<1>3. /\ pc[t] \notin {"dead", "install"} /\ "run" \in Labels \ {"install"}
      /\ decoder' \in [Tasks -> SetIds \cup {NoSet}] /\ cancelled' \in SUBSET Tasks
      /\ failed' \in BOOLEAN /\ overlapped' \in BOOLEAN /\ UNCHANGED <<sessVars, crashed>>
  BY DEF TypeOK
<1> HIDE DEF Labels, IInv, Pick
<1> QED
  BY <1>1, <1>2, <1>3, QuietInv

LEMMA LookUpInv ==
  ASSUME IInv, NEW t \in Tasks,
         Encode(t) \/ GenerateRun(t) \/ GenerateFrames(t)
  PROVE  IInv'
<1> USE DEF Encode, GenerateRun, GenerateFrames
<1>1. CASE Panic
  <2>1. /\ UNCHANGED <<next, using, decoder, cancelled, mutex, inference, step, encoder, overlapped>>
        /\ live' \in SUBSET SetIds /\ made' \in SetIds /\ live' \subseteq 1 .. made'
        /\ live \subseteq live' /\ hybrid' \in BOOLEAN /\ failed' \in BOOLEAN
    BY <1>1 DEF TypeOK, LoadedInv, Panic, CrashInv, Pick, GotoVia, Goto
  <2> QED
    BY <1>1, <2>1, PanicInv
<1>2. CASE Encode(t) /\ ~Panic
  <2>1. Pick(t, encoder, "encoded") /\ encoder \in SetIds \cup {NoSet} /\ ~HasMutex(t)
    BY <1>2 DEF TypeOK, HasMutex
  <2> QED
    BY <1>2, <2>1, PickInv
<1>3. CASE GenerateRun(t) /\ ~Panic
  <2>1. /\ Pick(t, inference, "gen") /\ inference \in SetIds \cup {NoSet}
        /\ inference \in live /\ HasMutex(t)
    BY <1>3 DEF TypeOK, HasMutex, LoadedInv
  <2> QED
    BY <1>3, <2>1, PickInv
<1>4. CASE GenerateFrames(t) /\ ~Panic
  <2>1. Pick(t, decoder[t], "frames") /\ decoder[t] \in SetIds \cup {NoSet} /\ HasMutex(t)
    BY <1>4 DEF TypeOK, HasMutex
  <2> QED
    BY <1>4, <2>1, PickInv
<1> QED
  BY <1>1, <1>2, <1>3, <1>4

LEMMA DecodeInv ==
  ASSUME IInv, NEW t \in Tasks, Decode(t)
  PROVE  IInv'
<1> USE DEF Decode
<1>1. ~HasMutex(t)
  BY DEF HasMutex
<1>2. CASE Pick(t, decoder[t], "decoded")
  BY <1>1, <1>2, PickInv DEF TypeOK
<1>3. CASE Goto(t, "decoded") /\ UNCHANGED <<next, using>>
  <2>1. /\ pc' = [pc EXCEPT ![t] = "decoded"]
        /\ next' = [next EXCEPT ![t] = next[t]] /\ next[t] \in Labels \cup {None}
        /\ using' = [using EXCEPT ![t] = using[t]] /\ using[t] \in SetIds \cup {NoSet}
    BY <1>3 DEF TypeOK, Goto
  <2>2. mutex' \in Tasks \cup {None} /\ \A u \in Tasks : mutex' = u <=> HasMutex(u)'
    <3>1. "decoded" \in Labels /\ pc[t] # "dead" /\ UNCHANGED mutex
      OBVIOUS
    <3> HIDE DEF Labels, IInv, Decode
    <3> QED
      BY <1>1, <2>1, <3>1, KeepsMutex
  <2>3. /\ pc[t] \notin {"dead", "install"} /\ "decoded" \in Labels \ {"install"}
        /\ decoder' \in [Tasks -> SetIds \cup {NoSet}] /\ cancelled' \in SUBSET Tasks
        /\ failed' \in BOOLEAN /\ overlapped' \in BOOLEAN /\ UNCHANGED <<sessVars, crashed>>
    BY DEF TypeOK
  <2> HIDE DEF Labels, IInv, Decode
  <2> QED
    BY <2>1, <2>2, <2>3, QuietInv
<1> QED
  BY <1>2, <1>3

(* Generation takes SessionMutex and gives it back. *)
LEMMA MutexStepInv ==
  ASSUME IInv, NEW t \in Tasks, GenerateLock(t) \/ GenerateEnd(t)
  PROVE  IInv'
<1> USE DEF GenerateLock, GenerateEnd, Goto
<1>1. PICK l \in {"first", "decode"} :
        /\ pc' = [pc EXCEPT ![t] = l]
        /\ l = "first" => mutex = None /\ mutex' = t
        /\ l = "decode" => pc[t] \in Generating /\ mutex' = None
  OBVIOUS
<1>2. /\ pc[t] \in {"prefill", "first", "gen", "frames"}
      /\ next' = [next EXCEPT ![t] = next[t]] /\ next[t] \in Labels \cup {None}
      /\ using' = [using EXCEPT ![t] = using[t]] /\ using[t] \in SetIds \cup {NoSet}
  BY DEF TypeOK
<1>3. mutex' \in Tasks \cup {None} /\ \A u \in Tasks : mutex' = u <=> HasMutex(u)'
  <2>1. ~crashed
    BY <1>2, Alive
  <2>2. \A u \in Tasks : u # t => (HasMutex(u)' <=> HasMutex(u))
    BY <1>1 DEF HasMutex, TypeOK
  <2>3. HasMutex(t)' <=> l = "first"
    BY <1>1 DEF HasMutex, TypeOK
  <2>4. \A u \in Tasks : mutex = u <=> HasMutex(u)
    BY <2>1 DEF TypeOK
  <2>5. pc[t] \in Generating => HasMutex(t)
    BY DEF HasMutex
  <2> QED
    BY <1>1, <2>2, <2>3, <2>4, <2>5
<1>4. /\ pc[t] \notin {"dead", "install"} /\ l \in Labels \ {"install"}
      /\ l \notin {"load", "reset", "run", "running"}
      /\ decoder' \in [Tasks -> SetIds \cup {NoSet}] /\ cancelled' \in SUBSET Tasks
      /\ failed' \in BOOLEAN /\ overlapped' \in BOOLEAN /\ UNCHANGED <<sessVars, crashed>>
  BY <1>1, <1>2 DEF TypeOK
<1> HIDE DEF Labels, IInv, GenerateLock, GenerateEnd
<1> QED
  BY <1>1, <1>2, <1>3, <1>4, QuietInv

LEMMA TakeInv ==
  ASSUME IInv, NEW t \in Tasks, Take(t)
  PROVE  IInv'
<1> USE DEF Take
<1>1. CASE Panic
  <2>1. /\ UNCHANGED <<next, using, decoder, cancelled, mutex, inference, step, encoder, overlapped>>
        /\ live' \in SUBSET SetIds /\ made' \in SetIds /\ live' \subseteq 1 .. made'
        /\ live \subseteq live' /\ hybrid' \in BOOLEAN /\ failed' \in BOOLEAN
    BY <1>1 DEF TypeOK, LoadedInv, Panic, CrashInv, Goto
  <2> QED
    BY <1>1, <2>1, PanicInv
<1>2. CASE Goto(t, "chunk") /\ UNCHANGED crashed /\ decoder' = [decoder EXCEPT ![t] = inference]
  <2>1. /\ pc' = [pc EXCEPT ![t] = "chunk"]
        /\ next' = [next EXCEPT ![t] = next[t]] /\ next[t] \in Labels \cup {None}
        /\ using' = [using EXCEPT ![t] = using[t]] /\ using[t] \in SetIds \cup {NoSet}
    BY <1>2 DEF TypeOK, Goto
  <2>2. mutex' \in Tasks \cup {None} /\ \A u \in Tasks : mutex' = u <=> HasMutex(u)'
    <3>1. "chunk" \in Labels /\ pc[t] # "dead" /\ UNCHANGED mutex /\ ~HasMutex(t)
      BY DEF HasMutex
    <3> HIDE DEF Labels, IInv, Take
    <3> QED
      BY <2>1, <3>1, KeepsMutex
  <2>3. /\ pc[t] \notin {"dead", "install"} /\ "chunk" \in Labels \ {"install"}
        /\ decoder' \in [Tasks -> SetIds \cup {NoSet}] /\ cancelled' \in SUBSET Tasks
        /\ failed' \in BOOLEAN /\ overlapped' \in BOOLEAN /\ UNCHANGED <<sessVars, crashed>>
    BY <1>2 DEF TypeOK
  <2> HIDE DEF Labels, IInv, Take
  <2> QED
    BY <2>1, <2>2, <2>3, QuietInv
<1> QED
  BY <1>1, <1>2

----------------------------------------------------------------------------
(* Steps that load or destroy *)

(* Where a task has no mutex and is not about to install anything: the labels from *)
(* which sessions are destroyed and loaded.                                        *)
LEMMA SessionStep ==
  ASSUME IInv, NEW t \in Tasks, pc[t] \notin {"dead", "run", "running"} \cup Generating,
         NEW l \in Labels \ ({"run", "running"} \cup Generating),
         NEW n \in Labels \cup {None},
         pc' = [pc EXCEPT ![t] = l],
         next' = [next EXCEPT ![t] = n],
         l \in {"load", "install", "reset"} => n \in {"check", "take", "retake", "end"},
         using' \in [Tasks -> SetIds \cup {NoSet}],
         inference' \in SetIds \cup {NoSet}, encoder' \in SetIds \cup {NoSet},
         live' \in SUBSET SetIds, made' \in SetIds,
         step' \in BOOLEAN, hybrid' \in BOOLEAN, failed' \in BOOLEAN,
         UNCHANGED <<decoder, cancelled, mutex, crashed, overlapped>>
  PROVE  TypeOK' /\ NextInv' /\ CrashInv'
<1>1. mutex' \in Tasks \cup {None} /\ \A u \in Tasks : mutex' = u <=> HasMutex(u)'
  <2>1. ~HasMutex(t) /\ pc[t] # "dead" /\ l \in Labels /\ UNCHANGED mutex
    BY DEF HasMutex
  <2> HIDE DEF Labels, IInv
  <2> QED
    BY <2>1, KeepsMutex
<1>2. /\ pc[t] # "dead" /\ l \in Labels /\ l \notin {"run", "running"}
      /\ decoder' \in [Tasks -> SetIds \cup {NoSet}] /\ cancelled' \in SUBSET Tasks
      /\ UNCHANGED crashed /\ failed' \in BOOLEAN /\ overlapped' \in BOOLEAN
  BY DEF TypeOK
<1> HIDE DEF Labels, IInv
<1> QED
  BY <1>1, <1>2, MoveInv

(* While SessionMutex is free no task has a session of generation in hand. *)
LEMMA FreeMutex ==
  ASSUME IInv, NEW t \in Tasks, pc[t] # "dead", mutex = None
  PROVE  \A u \in Tasks : ~(pc[u] \in {"run", "running"} /\ next[u] = "gen")
<1>1. ~crashed
  BY Alive
<1>2. \A u \in Tasks : ~HasMutex(u)
  BY <1>1 DEF TypeOK
<1> QED
  BY <1>2 DEF HasMutex

(* A set is loaded. *)
LEMMA LoadInv ==
  ASSUME IInv, NEW t \in Tasks, Load(t)
  PROVE  IInv'
<1> USE DEF Load, Goto
<1>0. made + 1 \in SetIds /\ made + 1 \notin live
  BY DEF TypeOK, LoadedInv
<1>1. TypeOK' /\ NextInv' /\ CrashInv'
  <2>1. /\ pc[t] = "load" /\ pc' = [pc EXCEPT ![t] = "install"]
        /\ next' = [next EXCEPT ![t] = next[t]]
        /\ next[t] \in Labels \cup {None}
        /\ next[t] \in {"check", "take", "retake", "end"}
    BY DEF TypeOK, NextInv
  <2>2. /\ pc[t] \notin {"dead", "run", "running"} \cup Generating
        /\ "install" \in Labels \ ({"run", "running"} \cup Generating)
        /\ using' \in [Tasks -> SetIds \cup {NoSet}]
        /\ inference' \in SetIds \cup {NoSet} /\ encoder' \in SetIds \cup {NoSet}
        /\ live' \in SUBSET SetIds /\ made' \in SetIds
        /\ step' \in BOOLEAN /\ hybrid' \in BOOLEAN /\ failed' \in BOOLEAN
        /\ UNCHANGED <<decoder, cancelled, mutex, crashed, overlapped>>
    BY <1>0 DEF TypeOK
  <2> HIDE DEF Labels, IInv, Load, Generating
  <2> QED
    BY <2>1, <2>2, SessionStep
<1>2. LoadedInv'
  BY <1>0 DEF TypeOK, LoadedInv
<1>3. InstallInv'
  BY <1>0 DEF TypeOK, LoadedInv, InstallInv
<1>4. GenerationProtected'
  BY DEF TypeOK, GenerationProtected
<1> QED
  BY <1>1, <1>2, <1>3, <1>4

(* A set cannot be loaded. *)
LEMMA LoadFailsInv ==
  ASSUME IInv, NEW t \in Tasks, LoadFails(t)
  PROVE  IInv'
<1> USE DEF LoadFails
<1>0. /\ live' \in SUBSET SetIds /\ made' \in SetIds
      /\ live' \subseteq 1 .. made' /\ live \subseteq live'
      /\ hybrid' \in BOOLEAN /\ failed' \in BOOLEAN
      /\ UNCHANGED <<next, using, decoder, cancelled, mutex, inference, step, encoder, overlapped>>
  <2>1. /\ failed' \in BOOLEAN /\ hybrid' \in BOOLEAN
        /\ UNCHANGED <<next, using, decoder, cancelled, mutex, inference, step, encoder, overlapped>>
    BY DEF TypeOK
  <2>2. live \subseteq SetIds /\ made \in SetIds /\ live \subseteq 1 .. made
    BY DEF TypeOK, LoadedInv
  <2>3. CASE UNCHANGED <<live, made>>
    BY <2>1, <2>2, <2>3
  <2>4. CASE made < MaxSets /\ live' = live \cup {made + 1} /\ made' = made + 1
    <3>1. made + 1 \in SetIds
      BY <2>2, <2>4
    <3>2. live' \subseteq 1 .. made'
      BY <2>2, <2>4
    <3> QED
      BY <2>1, <2>2, <2>4, <3>1, <3>2
  <2> QED
    BY <2>3, <2>4
<1>1. CASE Panic
  BY <1>0, <1>1, PanicInv
<1>2. CASE ~Panic
  <2>1. PICK l \in {"load", "check", "end", "chunk"} : pc' = [pc EXCEPT ![t] = l] /\ UNCHANGED crashed
    <3>1. pc = [pc EXCEPT ![t] = "load"]
      BY DEF TypeOK
    <3>2. AfterError(t) \in {"check", "end", "chunk"}
      BY DEF AfterError, NextInv
    <3> QED
      BY <1>2, <3>1, <3>2 DEF Goto
  <2>2. TypeOK' /\ NextInv' /\ CrashInv'
    <3>1. /\ pc[t] \notin {"dead", "run", "running"} \cup Generating
          /\ l \in Labels \ ({"run", "running"} \cup Generating)
          /\ next[t] \in Labels \cup {None} /\ next' = [next EXCEPT ![t] = next[t]]
          /\ l \in {"load", "install", "reset"} => next[t] \in {"check", "take", "retake", "end"}
          /\ using' \in [Tasks -> SetIds \cup {NoSet}]
          /\ inference' \in SetIds \cup {NoSet} /\ encoder' \in SetIds \cup {NoSet}
          /\ step' \in BOOLEAN
      BY <1>0 DEF TypeOK, NextInv
    <3> HIDE DEF Labels, IInv, LoadFails, Generating
    <3> QED
      BY <1>0, <2>1, <3>1, SessionStep
  <2>3. LoadedInv'
    BY <1>0 DEF LoadedInv
  <2>4. InstallInv'
    BY <1>0, <2>1 DEF TypeOK, InstallInv
  <2>5. GenerationProtected'
    BY <1>0, <2>1 DEF TypeOK, GenerationProtected
  <2> QED
    BY <2>2, <2>3, <2>4, <2>5
<1> QED
  BY <1>1, <1>2

(* The loaded set becomes that of rt.Onnx. *)
LEMMA InstallStepInv ==
  ASSUME IInv, NEW t \in Tasks, Install(t)
  PROVE  IInv'
<1> USE DEF Install, Goto
<1>0. /\ using[t] \in SetIds /\ using[t] \in live
      /\ next[t] \in {"check", "take", "retake", "end"}
  BY DEF TypeOK, InstallInv, NextInv
<1>1. TypeOK' /\ NextInv' /\ CrashInv'
  <2>1. /\ pc[t] \notin {"dead", "run", "running"} \cup Generating
        /\ next[t] \in Labels \ ({"run", "running"} \cup Generating)
        /\ next[t] \notin {"load", "install", "reset"}
        /\ next[t] \in Labels \cup {None} /\ next' = [next EXCEPT ![t] = next[t]]
        /\ pc' = [pc EXCEPT ![t] = next[t]]
        /\ using' \in [Tasks -> SetIds \cup {NoSet}]
        /\ inference' \in SetIds \cup {NoSet} /\ encoder' \in SetIds \cup {NoSet}
        /\ live' \in SUBSET SetIds /\ made' \in SetIds
        /\ step' \in BOOLEAN /\ hybrid' \in BOOLEAN /\ failed' \in BOOLEAN
        /\ UNCHANGED <<decoder, cancelled, mutex, crashed, overlapped>>
    BY <1>0 DEF TypeOK
  <2> HIDE DEF Labels, IInv, Install, Generating
  <2> QED
    BY <2>1, SessionStep
<1>2. LoadedInv'
  BY <1>0 DEF LoadedInv
<1>3. InstallInv'
  BY <1>0 DEF TypeOK, InstallInv
<1>4. GenerationProtected'
  BY <1>0 DEF TypeOK, GenerationProtected
<1> QED
  BY <1>1, <1>2, <1>3, <1>4

(* Sessions are destroyed under SessionMutex; what other tasks are about to install is *)
(* not among them.                                                                     *)
LEMMA DestroyInv ==
  ASSUME IInv, NEW t \in Tasks, Reset(t) \/ Unload(t) \/ Encoded(t)
  PROVE  IInv'
<1> USE DEF Reset, Unload, Encoded, DestroyBoth, Goto, GotoVia
<1>1. PICK l \in {"load", "ensure"}, n \in Labels \cup {None} :
        /\ pc' = [pc EXCEPT ![t] = l] /\ next' = [next EXCEPT ![t] = n]
        /\ l = "load" => n \in {"check", "take", "retake", "end"}
  <2>1. next = [next EXCEPT ![t] = next[t]] /\ next[t] \in Labels \cup {None}
    BY DEF TypeOK
  <2>2. pc[t] = "reset" => next[t] \in {"check", "take", "retake", "end"}
    BY DEF NextInv
  <2> QED
    BY <2>1, <2>2
<1>2. /\ pc[t] \in {"reset", "unload", "encoded"} /\ mutex = None
      /\ UNCHANGED <<using, decoder, cancelled, mutex, made, hybrid, crashed, failed, overlapped>>
      /\ encoder' = NoSet
      /\ \/ inference' = NoSet /\ step' = FALSE /\ live' = live \ {inference, encoder}
         \/ UNCHANGED <<inference, step>> /\ live' = live \ {encoder}
  OBVIOUS
<1> HIDE DEF Reset, Unload, Encoded, DestroyBoth
<1>3. TypeOK' /\ NextInv' /\ CrashInv'
  <2>1. /\ pc[t] \notin {"dead", "run", "running"} \cup Generating
        /\ l \in Labels \ ({"run", "running"} \cup Generating)
        /\ l \in {"load", "install", "reset"} => n \in {"check", "take", "retake", "end"}
        /\ using' \in [Tasks -> SetIds \cup {NoSet}]
        /\ inference' \in SetIds \cup {NoSet} /\ encoder' \in SetIds \cup {NoSet}
        /\ live' \in SUBSET SetIds /\ made' \in SetIds
        /\ step' \in BOOLEAN /\ hybrid' \in BOOLEAN /\ failed' \in BOOLEAN
    BY <1>1, <1>2 DEF TypeOK
  <2> HIDE DEF Labels, IInv, Generating
  <2> QED
    BY <1>1, <1>2, <2>1, SessionStep
<1>4. LoadedInv'
  BY <1>2 DEF LoadedInv
<1>5. InstallInv'
  BY <1>1, <1>2 DEF TypeOK, InstallInv
<1>6. GenerationProtected'
  <2>1. pc[t] # "dead"
    BY <1>2
  <2>2. \A u \in Tasks : ~(pc[u] \in {"run", "running"} /\ next[u] = "gen")
    BY <1>2, <2>1, FreeMutex
  <2> QED
    BY <1>1, <2>2 DEF TypeOK, GenerationProtected
<1> QED
  BY <1>3, <1>4, <1>5, <1>6

(* The session that encodes is loaded, unless it is there or cannot be. *)
LEMMA EnsureInv ==
  ASSUME IInv, NEW t \in Tasks, Ensure(t)
  PROVE  IInv'
<1> USE DEF Ensure, Goto, GotoVia
<1>1. PICK l \in {"load", "encode"}, n \in Labels \cup {None} :
        /\ pc' = [pc EXCEPT ![t] = l] /\ next' = [next EXCEPT ![t] = n]
        /\ l = "load" => n = "check"
  <2>1. next = [next EXCEPT ![t] = next[t]] /\ next[t] \in Labels \cup {None}
    BY DEF TypeOK
  <2> QED
    BY <2>1
<1>2. /\ pc[t] = "ensure"
      /\ UNCHANGED <<using, decoder, cancelled, mutex, inference, step, hybrid, crashed, overlapped>>
      /\ failed' \in BOOLEAN
      /\ \/ UNCHANGED <<encoder, live, made>>
         \/ /\ made < MaxSets /\ made' = made + 1
            /\ encoder' = made + 1 /\ live' = live \cup {made + 1}
  BY DEF TypeOK
<1> HIDE DEF Ensure
<1>3. made < MaxSets => made + 1 \in SetIds /\ made + 1 \notin live
  BY DEF TypeOK, LoadedInv
<1>4. TypeOK' /\ NextInv' /\ CrashInv'
  <2>1. /\ pc[t] \notin {"dead", "run", "running"} \cup Generating
        /\ l \in Labels \ ({"run", "running"} \cup Generating)
        /\ l \in {"load", "install", "reset"} => n \in {"check", "take", "retake", "end"}
        /\ using' \in [Tasks -> SetIds \cup {NoSet}]
        /\ inference' \in SetIds \cup {NoSet} /\ encoder' \in SetIds \cup {NoSet}
        /\ live' \in SUBSET SetIds /\ made' \in SetIds
        /\ step' \in BOOLEAN /\ hybrid' \in BOOLEAN
    BY <1>1, <1>2, <1>3 DEF TypeOK
  <2> HIDE DEF Labels, IInv, Generating
  <2> QED
    BY <1>1, <1>2, <2>1, SessionStep
<1>5. LoadedInv'
  <2>1. CASE UNCHANGED <<encoder, live, made>>
    BY <1>2, <2>1 DEF LoadedInv
  <2>2. CASE made < MaxSets /\ made' = made + 1 /\ encoder' = made + 1 /\ live' = live \cup {made + 1}
    <3>1. inference' = inference /\ made \in Nat /\ live \subseteq 1 .. made
      BY <1>2 DEF TypeOK, LoadedInv
    <3>2. live' \subseteq 1 .. made'
      BY <2>2, <3>1
    <3>3. inference' # NoSet => inference' \in live' /\ inference' # encoder'
      BY <1>3, <2>2, <3>1 DEF LoadedInv
    <3> QED
      BY <2>2, <3>2, <3>3 DEF LoadedInv
  <2> QED
    BY <1>2, <2>1, <2>2
<1>6. InstallInv'
  BY <1>1, <1>2, <1>3 DEF TypeOK, InstallInv
<1>7. GenerationProtected'
  BY <1>1, <1>2 DEF TypeOK, GenerationProtected
<1> QED
  BY <1>4, <1>5, <1>6, <1>7

----------------------------------------------------------------------------
(* Nothing changes. *)
LEMMA StutterInv == IInv /\ UNCHANGED vars => IInv'
<1> SUFFICES ASSUME IInv, UNCHANGED vars PROVE IInv'
  OBVIOUS
<1> USE DEF vars
<1>1. TypeOK'
  BY DEF TypeOK, HasMutex
<1>2. NextInv' /\ CrashInv' /\ LoadedInv' /\ InstallInv' /\ GenerationProtected'
  BY DEF NextInv, CrashInv, LoadedInv, InstallInv, GenerationProtected
<1> QED
  BY <1>1, <1>2

(* Every step of every task preserves the invariant. *)
LEMMA StepInv == IInv /\ [Next]_vars => IInv'
<1> HIDE DEF IInv, Labels, Generating
<1> SUFFICES ASSUME IInv, [Next]_vars PROVE IInv'
  OBVIOUS
<1>1. CASE UNCHANGED vars
  BY <1>1, StutterInv
<1>2. ASSUME NEW t \in Tasks, Begin(t) \/ Cancel(t)
      PROVE  IInv'
  BY <1>2, TextInv, CancelInv
<1>3. ASSUME NEW t \in Tasks, LoadStep(t)
      PROVE  IInv'
  BY <1>3, LoadInv, LoadFailsInv, InstallStepInv, DestroyInv, RunInv DEF LoadStep
<1>4. ASSUME NEW t \in Tasks, EncodeStep(t)
      PROVE  IInv'
  BY <1>4, DestroyInv, EnsureInv, LookUpInv DEF EncodeStep
<1>5. ASSUME NEW t \in Tasks, TextStep(t)
      PROVE  IInv'
  BY <1>5, TextInv, TakeInv, LookUpInv, MutexStepInv, DecodeInv DEF TextStep
<1> QED
  BY <1>1, <1>2, <1>3, <1>4, <1>5 DEF Next

(* The invariant holds in every behaviour of the worker's sessions and tasks. *)
THEOREM Invariance == Spec => []IInv
<1> HIDE DEF IInv
<1>1. Init => IInv
  BY InitInv
<1>2. IInv /\ [Next]_vars => IInv'
  BY StepInv
<1> QED
  BY <1>1, <1>2, PTL DEF Spec

(* The variables keep their types, and SessionMutex is held by exactly the task that *)
(* generates, from GenerateAudioFramesWithCallbackAndOverrides to its return.        *)
THEOREM TypeCorrect == Spec => []TypeOK
<1>1. IInv => TypeOK
  OBVIOUS
<1> HIDE DEF IInv
<1> QED
  BY <1>1, Invariance, PTL

(* For any number of tasks, overlapping in any way: the sessions that generation has *)
(* looked up are in memory until its run of them ends (runtime.go:300).              *)
THEOREM Protected == Spec => []GenerationProtected
<1>1. IInv => GenerationProtected
  OBVIOUS
<1> HIDE DEF IInv
<1> QED
  BY <1>1, Invariance, PTL

----------------------------------------------------------------------------
(* A worker whose tasks have not overlapped *)

(* A task is at one of the labels, or runs a session and goes on there. *)
At(t, labels) == pc[t] \in labels \/ (pc[t] \in {"run", "running"} /\ next[t] \in labels)

Encoding == {"encode", "encoded"}
Texting == {"chunk", "prefill", "decode", "decoded"} \cup Generating

(* A task that has come through a run of generation, until it decodes. *)
Decoding(t) ==
  \/ At(t, {"gen", "frames"})
  \/ pc[t] = "decode" /\ t \notin cancelled
  \/ pc[t] \in {"run", "running"} /\ next[t] = "decoded"

(* What the only task of a worker finds.  Its decoder is on the sessions of rt.Onnx,   *)
(* or there are none, and it does not come to decode without them; it encodes without  *)
(* them; what it runs is rt.Onnx's.                                                    *)
Solo(t) ==
  /\ At(t, Texting) => inference \in {NoSet, decoder[t]}
  /\ Decoding(t) => inference # NoSet
  /\ At(t, Encoding) => encoder # NoSet
  /\ At(t, Encoding \cup {"ensure"}) => inference = NoSet
  /\ pc[t] \in {"load", "install"} /\ next[t] # "take" => inference = NoSet
  /\ pc[t] \in {"run", "running"} => using[t] = IF next[t] = "encoded" THEN encoder ELSE inference

SoloInv ==
  ~overlapped =>
    \A t \in Tasks : Running(t) => Solo(t) /\ \A u \in Tasks : Running(u) => u = t

(* All sessions of inference are there, and nothing else. *)
Whole == inference # NoSet /\ step /\ encoder = NoSet /\ live = {inference}

(* What is in memory while task t runs and no load has failed. *)
Phase(t) ==
  /\ pc[t] \in {"ensure", "load"} => live = {} /\ inference = NoSet /\ encoder = NoSet
  /\ At(t, Encoding) => live = {encoder} /\ inference = NoSet
  /\ pc[t] = "install" => live = {using[t]} /\ inference = NoSet /\ encoder = NoSet
  /\ ~At(t, {"ensure", "load", "install"} \cup Encoding) => Whole

PhaseInv ==
  ~overlapped /\ ~failed =>
    /\ ~crashed
    /\ (\A t \in Tasks : ~Running(t)) => Whole
    /\ \A t \in Tasks : Running(t) => Phase(t)

LEMMA SoloStep == ASSUME IInv, SoloInv, Next PROVE SoloInv'
<1> HIDE DEF IInv
<1>1. ASSUME NEW t \in Tasks, Load(t) PROVE SoloInv'
  <2> SUFFICES ASSUME ~overlapped', NEW u \in Tasks, Running(u)'
             PROVE  Solo(u)' /\ \A v \in Tasks : Running(v)' => v = u
    BY DEF SoloInv
  <2>1. ~overlapped /\ Running(t) /\ \A v \in Tasks : Running(v) => v = t
    BY <1>1 DEF Load, Running, SoloInv, Generating
  <2>2. \A v \in Tasks : Running(v)' => v = t
    BY <1>1, <2>1 DEF Load, Running, Goto, GotoVia, Pick, Panic, IInv, TypeOK
  <2>3. Solo(t)'
    BY <1>1, <2>1, <2>2
       DEF Load, Solo, SoloInv, Running, At, Decoding, Encoding, Texting, Generating, Goto,
          GotoVia, Pick, Panic,
           DestroyBoth, AfterError, IInv, TypeOK, NextInv, LoadedInv
  <2> QED  BY <2>2, <2>3
<1>2. ASSUME NEW t \in Tasks, LoadFails(t) PROVE SoloInv'
  <2> SUFFICES ASSUME ~overlapped', NEW u \in Tasks, Running(u)'
             PROVE  Solo(u)' /\ \A v \in Tasks : Running(v)' => v = u
    BY DEF SoloInv
  <2>1. ~overlapped /\ Running(t) /\ \A v \in Tasks : Running(v) => v = t
    BY <1>2 DEF LoadFails, Running, SoloInv, Generating
  <2>2. \A v \in Tasks : Running(v)' => v = t
    BY <1>2, <2>1 DEF LoadFails, Running, Goto, GotoVia, Pick, Panic, IInv, TypeOK
  <2>3. Solo(t)'
    BY <1>2, <2>1, <2>2
       DEF LoadFails, Solo, SoloInv, Running, At, Decoding, Encoding, Texting, Generating, Goto,
          GotoVia, Pick, Panic,
           DestroyBoth, AfterError, IInv, TypeOK, NextInv, LoadedInv
  <2> QED  BY <2>2, <2>3
<1>3. ASSUME NEW t \in Tasks, Install(t) PROVE SoloInv'
  <2> SUFFICES ASSUME ~overlapped', NEW u \in Tasks, Running(u)'
             PROVE  Solo(u)' /\ \A v \in Tasks : Running(v)' => v = u
    BY DEF SoloInv
  <2>1. ~overlapped /\ Running(t) /\ \A v \in Tasks : Running(v) => v = t
    BY <1>3 DEF Install, Running, SoloInv, Generating
  <2>2. \A v \in Tasks : Running(v)' => v = t
    BY <1>3, <2>1 DEF Install, Running, Goto, GotoVia, Pick, Panic, IInv, TypeOK
  <2>3. Solo(t)'
    BY <1>3, <2>1, <2>2
       DEF Install, Solo, SoloInv, Running, At, Decoding, Encoding, Texting, Generating, Goto,
          GotoVia, Pick, Panic,
           DestroyBoth, AfterError, IInv, TypeOK, NextInv, LoadedInv
  <2> QED  BY <2>2, <2>3
<1>4. ASSUME NEW t \in Tasks, Reset(t) PROVE SoloInv'
  <2> SUFFICES ASSUME ~overlapped', NEW u \in Tasks, Running(u)'
             PROVE  Solo(u)' /\ \A v \in Tasks : Running(v)' => v = u
    BY DEF SoloInv
  <2>1. ~overlapped /\ Running(t) /\ \A v \in Tasks : Running(v) => v = t
    BY <1>4 DEF Reset, Running, SoloInv, Generating
  <2>2. \A v \in Tasks : Running(v)' => v = t
    BY <1>4, <2>1 DEF Reset, Running, Goto, GotoVia, Pick, Panic, IInv, TypeOK
  <2>3. Solo(t)'
    BY <1>4, <2>1, <2>2
       DEF Reset, Solo, SoloInv, Running, At, Decoding, Encoding, Texting, Generating, Goto,
          GotoVia, Pick, Panic,
           DestroyBoth, AfterError, IInv, TypeOK, NextInv, LoadedInv
  <2> QED  BY <2>2, <2>3
<1>5. ASSUME NEW t \in Tasks, Run(t) PROVE SoloInv'
  <2> SUFFICES ASSUME ~overlapped', NEW u \in Tasks, Running(u)'
             PROVE  Solo(u)' /\ \A v \in Tasks : Running(v)' => v = u
    BY DEF SoloInv
  <2>1. ~overlapped /\ Running(t) /\ \A v \in Tasks : Running(v) => v = t
    BY <1>5 DEF Run, Running, SoloInv, Generating
  <2>2. \A v \in Tasks : Running(v)' => v = t
    BY <1>5, <2>1 DEF Run, Running, Goto, GotoVia, Pick, Panic, IInv, TypeOK
  <2>3. Solo(t)'
    BY <1>5, <2>1, <2>2
       DEF Run, Solo, SoloInv, Running, At, Decoding, Encoding, Texting, Generating, Goto,
          GotoVia, Pick, Panic,
           DestroyBoth, AfterError, IInv, TypeOK, NextInv, LoadedInv
  <2> QED  BY <2>2, <2>3
<1>6. ASSUME NEW t \in Tasks, RunEnd(t) PROVE SoloInv'
  <2> SUFFICES ASSUME ~overlapped', NEW u \in Tasks, Running(u)'
             PROVE  Solo(u)' /\ \A v \in Tasks : Running(v)' => v = u
    BY DEF SoloInv
  <2>1. ~overlapped /\ Running(t) /\ \A v \in Tasks : Running(v) => v = t
    BY <1>6 DEF RunEnd, Running, SoloInv, Generating
  <2>2. \A v \in Tasks : Running(v)' => v = t
    BY <1>6, <2>1 DEF RunEnd, Running, Goto, GotoVia, Pick, Panic, IInv, TypeOK
  <2>3. Solo(t)'
    BY <1>6, <2>1, <2>2
       DEF RunEnd, Solo, SoloInv, Running, At, Decoding, Encoding, Texting, Generating, Goto,
          GotoVia, Pick, Panic,
           DestroyBoth, AfterError, IInv, TypeOK, NextInv, LoadedInv
  <2> QED  BY <2>2, <2>3
<1>7. ASSUME NEW t \in Tasks, Begin(t) PROVE SoloInv'
  <2> SUFFICES ASSUME ~overlapped', NEW u \in Tasks, Running(u)'
             PROVE  Solo(u)' /\ \A v \in Tasks : Running(v)' => v = u
    BY DEF SoloInv
  <2>1. ~overlapped /\ \A v \in Tasks : ~Running(v)  BY <1>7 DEF Begin, IInv, TypeOK
  <2>2. \A v \in Tasks : Running(v)' => v = t
    BY <1>7, <2>1 DEF Begin, Running, Goto, IInv, TypeOK
  <2>3. Solo(t)'
    BY <1>7, <2>1, <2>2
       DEF Begin, Solo, SoloInv, Running, At, Decoding, Encoding, Texting, Generating, Goto,
          GotoVia, Pick, Panic,
           DestroyBoth, AfterError, IInv, TypeOK, NextInv, LoadedInv
  <2> QED  BY <2>2, <2>3
<1>8. ASSUME NEW t \in Tasks, Unload(t) PROVE SoloInv'
  <2> SUFFICES ASSUME ~overlapped', NEW u \in Tasks, Running(u)'
             PROVE  Solo(u)' /\ \A v \in Tasks : Running(v)' => v = u
    BY DEF SoloInv
  <2>1. ~overlapped /\ Running(t) /\ \A v \in Tasks : Running(v) => v = t
    BY <1>8 DEF Unload, Running, SoloInv, Generating
  <2>2. \A v \in Tasks : Running(v)' => v = t
    BY <1>8, <2>1 DEF Unload, Running, Goto, GotoVia, Pick, Panic, IInv, TypeOK
  <2>3. Solo(t)'
    BY <1>8, <2>1, <2>2
       DEF Unload, Solo, SoloInv, Running, At, Decoding, Encoding, Texting, Generating, Goto,
          GotoVia, Pick, Panic,
           DestroyBoth, AfterError, IInv, TypeOK, NextInv, LoadedInv
  <2> QED  BY <2>2, <2>3
<1>9. ASSUME NEW t \in Tasks, Ensure(t) PROVE SoloInv'
  <2> SUFFICES ASSUME ~overlapped', NEW u \in Tasks, Running(u)'
             PROVE  Solo(u)' /\ \A v \in Tasks : Running(v)' => v = u
    BY DEF SoloInv
  <2>1. ~overlapped /\ Running(t) /\ \A v \in Tasks : Running(v) => v = t
    BY <1>9 DEF Ensure, Running, SoloInv, Generating
  <2>2. \A v \in Tasks : Running(v)' => v = t
    BY <1>9, <2>1 DEF Ensure, Running, Goto, GotoVia, Pick, Panic, IInv, TypeOK
  <2>3. Solo(t)'
    BY <1>9, <2>1, <2>2
       DEF Ensure, Solo, SoloInv, Running, At, Decoding, Encoding, Texting, Generating, Goto,
          GotoVia, Pick, Panic,
           DestroyBoth, AfterError, IInv, TypeOK, NextInv, LoadedInv
  <2> QED  BY <2>2, <2>3
<1>10. ASSUME NEW t \in Tasks, Encode(t) PROVE SoloInv'
  <2> SUFFICES ASSUME ~overlapped', NEW u \in Tasks, Running(u)'
             PROVE  Solo(u)' /\ \A v \in Tasks : Running(v)' => v = u
    BY DEF SoloInv
  <2>1. ~overlapped /\ Running(t) /\ \A v \in Tasks : Running(v) => v = t
    BY <1>10 DEF Encode, Running, SoloInv, Generating
  <2>2. \A v \in Tasks : Running(v)' => v = t
    BY <1>10, <2>1 DEF Encode, Running, Goto, GotoVia, Pick, Panic, IInv, TypeOK
  <2>3. Solo(t)'
    BY <1>10, <2>1, <2>2
       DEF Encode, Solo, SoloInv, Running, At, Decoding, Encoding, Texting, Generating, Goto,
          GotoVia, Pick, Panic,
           DestroyBoth, AfterError, IInv, TypeOK, NextInv, LoadedInv
  <2> QED  BY <2>2, <2>3
<1>11. ASSUME NEW t \in Tasks, Encoded(t) PROVE SoloInv'
  <2> SUFFICES ASSUME ~overlapped', NEW u \in Tasks, Running(u)'
             PROVE  Solo(u)' /\ \A v \in Tasks : Running(v)' => v = u
    BY DEF SoloInv
  <2>1. ~overlapped /\ Running(t) /\ \A v \in Tasks : Running(v) => v = t
    BY <1>11 DEF Encoded, Running, SoloInv, Generating
  <2>2. \A v \in Tasks : Running(v)' => v = t
    BY <1>11, <2>1 DEF Encoded, Running, Goto, GotoVia, Pick, Panic, IInv, TypeOK
  <2>3. Solo(t)'
    BY <1>11, <2>1, <2>2
       DEF Encoded, Solo, SoloInv, Running, At, Decoding, Encoding, Texting, Generating, Goto,
          GotoVia, Pick, Panic,
           DestroyBoth, AfterError, IInv, TypeOK, NextInv, LoadedInv
  <2> QED  BY <2>2, <2>3
<1>12. ASSUME NEW t \in Tasks, Check(t) PROVE SoloInv'
  <2> SUFFICES ASSUME ~overlapped', NEW u \in Tasks, Running(u)'
             PROVE  Solo(u)' /\ \A v \in Tasks : Running(v)' => v = u
    BY DEF SoloInv
  <2>1. ~overlapped /\ Running(t) /\ \A v \in Tasks : Running(v) => v = t
    BY <1>12 DEF Check, Running, SoloInv, Generating
  <2>2. \A v \in Tasks : Running(v)' => v = t
    BY <1>12, <2>1 DEF Check, Running, Goto, GotoVia, Pick, Panic, IInv, TypeOK
  <2>3. Solo(t)'
    BY <1>12, <2>1, <2>2
       DEF Check, Solo, SoloInv, Running, At, Decoding, Encoding, Texting, Generating, Goto,
          GotoVia, Pick, Panic,
           DestroyBoth, AfterError, IInv, TypeOK, NextInv, LoadedInv
  <2> QED  BY <2>2, <2>3
<1>13. ASSUME NEW t \in Tasks, Take(t) PROVE SoloInv'
  <2> SUFFICES ASSUME ~overlapped', NEW u \in Tasks, Running(u)'
             PROVE  Solo(u)' /\ \A v \in Tasks : Running(v)' => v = u
    BY DEF SoloInv
  <2>1. ~overlapped /\ Running(t) /\ \A v \in Tasks : Running(v) => v = t
    BY <1>13 DEF Take, Running, SoloInv, Generating
  <2>2. \A v \in Tasks : Running(v)' => v = t
    BY <1>13, <2>1 DEF Take, Running, Goto, GotoVia, Pick, Panic, IInv, TypeOK
  <2>3. Solo(t)'
    BY <1>13, <2>1, <2>2
       DEF Take, Solo, SoloInv, Running, At, Decoding, Encoding, Texting, Generating, Goto,
          GotoVia, Pick, Panic,
           DestroyBoth, AfterError, IInv, TypeOK, NextInv, LoadedInv
  <2> QED  BY <2>2, <2>3
<1>14. ASSUME NEW t \in Tasks, Cancel(t) PROVE SoloInv'
  <2> SUFFICES ASSUME ~overlapped', NEW u \in Tasks, Running(u)'
             PROVE  Solo(u)' /\ \A v \in Tasks : Running(v)' => v = u
    BY DEF SoloInv
  <2>1. ~overlapped /\ Running(t) /\ \A v \in Tasks : Running(v) => v = t
    BY <1>14 DEF Cancel, Running, SoloInv, Generating
  <2>2. \A v \in Tasks : Running(v)' => v = t
    BY <1>14, <2>1 DEF Cancel, Running, Goto, GotoVia, Pick, Panic, IInv, TypeOK
  <2>3. Solo(t)'
    BY <1>14, <2>1, <2>2
       DEF Cancel, Solo, SoloInv, Running, At, Decoding, Encoding, Texting, Generating, Goto,
          GotoVia, Pick, Panic,
           DestroyBoth, AfterError, IInv, TypeOK, NextInv, LoadedInv
  <2> QED  BY <2>2, <2>3
<1>15. ASSUME NEW t \in Tasks, Interrupted(t) PROVE SoloInv'
  <2> SUFFICES ASSUME ~overlapped', NEW u \in Tasks, Running(u)'
             PROVE  Solo(u)' /\ \A v \in Tasks : Running(v)' => v = u
    BY DEF SoloInv
  <2>1. ~overlapped /\ Running(t) /\ \A v \in Tasks : Running(v) => v = t
    BY <1>15 DEF Interrupted, Running, SoloInv, Generating
  <2>2. \A v \in Tasks : Running(v)' => v = t
    BY <1>15, <2>1 DEF Interrupted, Running, Goto, GotoVia, Pick, Panic, IInv, TypeOK
  <2>3. Solo(t)'
    BY <1>15, <2>1, <2>2
       DEF Interrupted, Solo, SoloInv, Running, At, Decoding, Encoding, Texting, Generating, Goto,
          GotoVia, Pick, Panic,
           DestroyBoth, AfterError, IInv, TypeOK, NextInv, LoadedInv
  <2> QED  BY <2>2, <2>3
<1>16. ASSUME NEW t \in Tasks, Generate(t) PROVE SoloInv'
  <2> SUFFICES ASSUME ~overlapped', NEW u \in Tasks, Running(u)'
             PROVE  Solo(u)' /\ \A v \in Tasks : Running(v)' => v = u
    BY DEF SoloInv
  <2>1. ~overlapped /\ Running(t) /\ \A v \in Tasks : Running(v) => v = t
    BY <1>16 DEF Generate, Running, SoloInv, Generating
  <2>2. \A v \in Tasks : Running(v)' => v = t
    BY <1>16, <2>1 DEF Generate, Running, Goto, GotoVia, Pick, Panic, IInv, TypeOK
  <2>3. Solo(t)'
    BY <1>16, <2>1, <2>2
       DEF Generate, Solo, SoloInv, Running, At, Decoding, Encoding, Texting, Generating, Goto,
          GotoVia, Pick, Panic,
           DestroyBoth, AfterError, IInv, TypeOK, NextInv, LoadedInv
  <2> QED  BY <2>2, <2>3
<1>17. ASSUME NEW t \in Tasks, GenerateLock(t) PROVE SoloInv'
  <2> SUFFICES ASSUME ~overlapped', NEW u \in Tasks, Running(u)'
             PROVE  Solo(u)' /\ \A v \in Tasks : Running(v)' => v = u
    BY DEF SoloInv
  <2>1. ~overlapped /\ Running(t) /\ \A v \in Tasks : Running(v) => v = t
    BY <1>17 DEF GenerateLock, Running, SoloInv, Generating
  <2>2. \A v \in Tasks : Running(v)' => v = t
    BY <1>17, <2>1 DEF GenerateLock, Running, Goto, GotoVia, Pick, Panic, IInv, TypeOK
  <2>3. Solo(t)'
    BY <1>17, <2>1, <2>2
       DEF GenerateLock, Solo, SoloInv, Running, At, Decoding, Encoding, Texting, Generating,
          Goto, GotoVia, Pick, Panic,
           DestroyBoth, AfterError, IInv, TypeOK, NextInv, LoadedInv
  <2> QED  BY <2>2, <2>3
<1>18. ASSUME NEW t \in Tasks, GenerateRun(t) PROVE SoloInv'
  <2> SUFFICES ASSUME ~overlapped', NEW u \in Tasks, Running(u)'
             PROVE  Solo(u)' /\ \A v \in Tasks : Running(v)' => v = u
    BY DEF SoloInv
  <2>1. ~overlapped /\ Running(t) /\ \A v \in Tasks : Running(v) => v = t
    BY <1>18 DEF GenerateRun, Running, SoloInv, Generating
  <2>2. \A v \in Tasks : Running(v)' => v = t
    BY <1>18, <2>1 DEF GenerateRun, Running, Goto, GotoVia, Pick, Panic, IInv, TypeOK
  <2>3. Solo(t)'
    BY <1>18, <2>1, <2>2
       DEF GenerateRun, Solo, SoloInv, Running, At, Decoding, Encoding, Texting, Generating, Goto,
          GotoVia, Pick, Panic,
           DestroyBoth, AfterError, IInv, TypeOK, NextInv, LoadedInv
  <2> QED  BY <2>2, <2>3
<1>19. ASSUME NEW t \in Tasks, GenerateFrames(t) PROVE SoloInv'
  <2> SUFFICES ASSUME ~overlapped', NEW u \in Tasks, Running(u)'
             PROVE  Solo(u)' /\ \A v \in Tasks : Running(v)' => v = u
    BY DEF SoloInv
  <2>1. ~overlapped /\ Running(t) /\ \A v \in Tasks : Running(v) => v = t
    BY <1>19 DEF GenerateFrames, Running, SoloInv, Generating
  <2>2. \A v \in Tasks : Running(v)' => v = t
    BY <1>19, <2>1 DEF GenerateFrames, Running, Goto, GotoVia, Pick, Panic, IInv, TypeOK
  <2>3. Solo(t)'
    BY <1>19, <2>1, <2>2
       DEF GenerateFrames, Solo, SoloInv, Running, At, Decoding, Encoding, Texting, Generating,
          Goto, GotoVia, Pick, Panic,
           DestroyBoth, AfterError, IInv, TypeOK, NextInv, LoadedInv
  <2> QED  BY <2>2, <2>3
<1>20. ASSUME NEW t \in Tasks, GenerateEnd(t) PROVE SoloInv'
  <2> SUFFICES ASSUME ~overlapped', NEW u \in Tasks, Running(u)'
             PROVE  Solo(u)' /\ \A v \in Tasks : Running(v)' => v = u
    BY DEF SoloInv
  <2>1. ~overlapped /\ Running(t) /\ \A v \in Tasks : Running(v) => v = t
    BY <1>20 DEF GenerateEnd, Running, SoloInv, Generating
  <2>2. \A v \in Tasks : Running(v)' => v = t
    BY <1>20, <2>1 DEF GenerateEnd, Running, Goto, GotoVia, Pick, Panic, IInv, TypeOK
  <2>3. Solo(t)'
    BY <1>20, <2>1, <2>2
       DEF GenerateEnd, Solo, SoloInv, Running, At, Decoding, Encoding, Texting, Generating, Goto,
          GotoVia, Pick, Panic,
           DestroyBoth, AfterError, IInv, TypeOK, NextInv, LoadedInv
  <2> QED  BY <2>2, <2>3
<1>21. ASSUME NEW t \in Tasks, Decode(t) PROVE SoloInv'
  <2> SUFFICES ASSUME ~overlapped', NEW u \in Tasks, Running(u)'
             PROVE  Solo(u)' /\ \A v \in Tasks : Running(v)' => v = u
    BY DEF SoloInv
  <2>1. ~overlapped /\ Running(t) /\ \A v \in Tasks : Running(v) => v = t
    BY <1>21 DEF Decode, Running, SoloInv, Generating
  <2>2. \A v \in Tasks : Running(v)' => v = t
    BY <1>21, <2>1 DEF Decode, Running, Goto, GotoVia, Pick, Panic, IInv, TypeOK
  <2>3. Solo(t)'
    BY <1>21, <2>1, <2>2
       DEF Decode, Solo, SoloInv, Running, At, Decoding, Encoding, Texting, Generating, Goto,
          GotoVia, Pick, Panic,
           DestroyBoth, AfterError, IInv, TypeOK, NextInv, LoadedInv
  <2> QED  BY <2>2, <2>3
<1>22. ASSUME NEW t \in Tasks, Decoded(t) PROVE SoloInv'
  <2> SUFFICES ASSUME ~overlapped', NEW u \in Tasks, Running(u)'
             PROVE  Solo(u)' /\ \A v \in Tasks : Running(v)' => v = u
    BY DEF SoloInv
  <2>1. ~overlapped /\ Running(t) /\ \A v \in Tasks : Running(v) => v = t
    BY <1>22 DEF Decoded, Running, SoloInv, Generating
  <2>2. \A v \in Tasks : Running(v)' => v = t
    BY <1>22, <2>1 DEF Decoded, Running, Goto, GotoVia, Pick, Panic, IInv, TypeOK
  <2>3. Solo(t)'
    BY <1>22, <2>1, <2>2
       DEF Decoded, Solo, SoloInv, Running, At, Decoding, Encoding, Texting, Generating, Goto,
          GotoVia, Pick, Panic,
           DestroyBoth, AfterError, IInv, TypeOK, NextInv, LoadedInv
  <2> QED  BY <2>2, <2>3
<1>23. ASSUME NEW t \in Tasks, End(t) PROVE SoloInv'
  <2> SUFFICES ASSUME ~overlapped', NEW u \in Tasks, Running(u)'
             PROVE  Solo(u)' /\ \A v \in Tasks : Running(v)' => v = u
    BY DEF SoloInv
  <2>1. ~overlapped /\ Running(t) /\ \A v \in Tasks : Running(v) => v = t
    BY <1>23 DEF End, Running, SoloInv, Generating
  <2>2. \A v \in Tasks : Running(v)' => v = t
    BY <1>23, <2>1 DEF End, Running, Goto, GotoVia, Pick, Panic, IInv, TypeOK
  <2>3. Solo(t)'
    BY <1>23, <2>1, <2>2
       DEF End, Solo, SoloInv, Running, At, Decoding, Encoding, Texting, Generating, Goto,
          GotoVia, Pick, Panic,
           DestroyBoth, AfterError, IInv, TypeOK, NextInv, LoadedInv
  <2> QED  BY <2>2, <2>3
<1> QED
  BY <1>1, <1>2, <1>3, <1>4, <1>5, <1>6, <1>7, <1>8, <1>9, <1>10, <1>11, <1>12, <1>13,
     <1>14, <1>15, <1>16, <1>17, <1>18, <1>19, <1>20, <1>21, <1>22, <1>23 DEF Next,
     LoadStep, EncodeStep, TextStep

LEMMA PhaseStep == ASSUME IInv, SoloInv, PhaseInv, Next PROVE PhaseInv'
<1> HIDE DEF IInv
<1>1. ASSUME NEW t \in Tasks, Load(t) PROVE PhaseInv'
  <2> SUFFICES ASSUME ~overlapped', ~failed'
               PROVE  /\ ~crashed'
                      /\ (\A u \in Tasks : ~Running(u)') => Whole'
                      /\ \A u \in Tasks : Running(u)' => Phase(u)'
    BY DEF PhaseInv
  <2>1. ~overlapped /\ ~failed /\ Running(t) /\ \A v \in Tasks : Running(v) => v = t
    BY <1>1 DEF Load, Running, SoloInv, Generating, IInv, TypeOK
  <2>2. \A v \in Tasks : Running(v)' => v = t
    BY <1>1, <2>1 DEF Load, Running, Goto, GotoVia, Pick, Panic, IInv, TypeOK
  <2>3. ~crashed' /\ Phase(t)' /\ Running(t)'
    <3>1. live = {} /\ inference = NoSet /\ encoder = NoSet /\ ~crashed
      BY <1>1, <2>1 DEF Load, PhaseInv, Phase
    <3>2. /\ pc'[t] = "install" /\ using'[t] = made + 1 /\ live' = {made + 1}
          /\ UNCHANGED <<inference, encoder, crashed>>
      BY <1>1, <3>1 DEF Load, Goto, IInv, TypeOK
    <3> QED  BY <3>1, <3>2 DEF Phase, At, Encoding, Running
  <2> QED  BY <2>2, <2>3
<1>2. ASSUME NEW t \in Tasks, LoadFails(t) PROVE PhaseInv'
  <2> SUFFICES ASSUME ~overlapped', ~failed'
               PROVE  /\ ~crashed'
                      /\ (\A u \in Tasks : ~Running(u)') => Whole'
                      /\ \A u \in Tasks : Running(u)' => Phase(u)'
    BY DEF PhaseInv
  <2>1. ~overlapped /\ ~failed /\ Running(t) /\ \A v \in Tasks : Running(v) => v = t
    BY <1>2 DEF LoadFails, Running, SoloInv, Generating, IInv, TypeOK
  <2>2. \A v \in Tasks : Running(v)' => v = t
    BY <1>2, <2>1 DEF LoadFails, Running, Goto, GotoVia, Pick, Panic, IInv, TypeOK
  <2>3. ~crashed' /\ (Running(t)' => Phase(t)') /\ (~Running(t)' => Whole')
    BY <1>2, <2>1, <2>2
       DEF LoadFails, Solo, SoloInv, PhaseInv, Phase, Whole, Running, At, Decoding, Encoding,
          Texting, Generating, Goto, GotoVia,
           Pick, Panic, DestroyBoth, AfterError, IInv, TypeOK, NextInv, LoadedInv
  <2> QED  BY <2>2, <2>3
<1>3. ASSUME NEW t \in Tasks, Install(t) PROVE PhaseInv'
  <2> SUFFICES ASSUME ~overlapped', ~failed'
               PROVE  /\ ~crashed'
                      /\ (\A u \in Tasks : ~Running(u)') => Whole'
                      /\ \A u \in Tasks : Running(u)' => Phase(u)'
    BY DEF PhaseInv
  <2>1. ~overlapped /\ ~failed /\ Running(t) /\ \A v \in Tasks : Running(v) => v = t
    BY <1>3 DEF Install, Running, SoloInv, Generating, IInv, TypeOK
  <2>2. \A v \in Tasks : Running(v)' => v = t
    BY <1>3, <2>1 DEF Install, Running, Goto, GotoVia, Pick, Panic, IInv, TypeOK
  <2>3. ~crashed' /\ (Running(t)' => Phase(t)') /\ (~Running(t)' => Whole')
    BY <1>3, <2>1, <2>2
       DEF Install, Solo, SoloInv, PhaseInv, Phase, Whole, Running, At, Decoding, Encoding,
          Texting, Generating, Goto, GotoVia,
           Pick, Panic, DestroyBoth, AfterError, IInv, TypeOK, NextInv, LoadedInv
  <2> QED  BY <2>2, <2>3
<1>4. ASSUME NEW t \in Tasks, Reset(t) PROVE PhaseInv'
  <2> SUFFICES ASSUME ~overlapped', ~failed'
               PROVE  /\ ~crashed'
                      /\ (\A u \in Tasks : ~Running(u)') => Whole'
                      /\ \A u \in Tasks : Running(u)' => Phase(u)'
    BY DEF PhaseInv
  <2>1. ~overlapped /\ ~failed /\ Running(t) /\ \A v \in Tasks : Running(v) => v = t
    BY <1>4 DEF Reset, Running, SoloInv, Generating, IInv, TypeOK
  <2>2. \A v \in Tasks : Running(v)' => v = t
    BY <1>4, <2>1 DEF Reset, Running, Goto, GotoVia, Pick, Panic, IInv, TypeOK
  <2>3. ~crashed' /\ (Running(t)' => Phase(t)') /\ (~Running(t)' => Whole')
    BY <1>4, <2>1, <2>2
       DEF Reset, Solo, SoloInv, PhaseInv, Phase, Whole, Running, At, Decoding, Encoding, Texting,
          Generating, Goto, GotoVia,
           Pick, Panic, DestroyBoth, AfterError, IInv, TypeOK, NextInv, LoadedInv
  <2> QED  BY <2>2, <2>3
<1>5. ASSUME NEW t \in Tasks, Run(t) PROVE PhaseInv'
  <2> SUFFICES ASSUME ~overlapped', ~failed'
               PROVE  /\ ~crashed'
                      /\ (\A u \in Tasks : ~Running(u)') => Whole'
                      /\ \A u \in Tasks : Running(u)' => Phase(u)'
    BY DEF PhaseInv
  <2>1. ~overlapped /\ ~failed /\ Running(t) /\ \A v \in Tasks : Running(v) => v = t
    BY <1>5 DEF Run, Running, SoloInv, Generating, IInv, TypeOK
  <2>2. \A v \in Tasks : Running(v)' => v = t
    BY <1>5, <2>1 DEF Run, Running, Goto, GotoVia, Pick, Panic, IInv, TypeOK
  <2>3. ~crashed' /\ (Running(t)' => Phase(t)') /\ (~Running(t)' => Whole')
    BY <1>5, <2>1, <2>2
       DEF Run, Solo, SoloInv, PhaseInv, Phase, Whole, Running, At, Decoding, Encoding, Texting,
          Generating, Goto, GotoVia,
           Pick, Panic, DestroyBoth, AfterError, IInv, TypeOK, NextInv, LoadedInv
  <2> QED  BY <2>2, <2>3
<1>6. ASSUME NEW t \in Tasks, RunEnd(t) PROVE PhaseInv'
  <2> SUFFICES ASSUME ~overlapped', ~failed'
               PROVE  /\ ~crashed'
                      /\ (\A u \in Tasks : ~Running(u)') => Whole'
                      /\ \A u \in Tasks : Running(u)' => Phase(u)'
    BY DEF PhaseInv
  <2>1. ~overlapped /\ ~failed /\ Running(t) /\ \A v \in Tasks : Running(v) => v = t
    BY <1>6 DEF RunEnd, Running, SoloInv, Generating, IInv, TypeOK
  <2>2. \A v \in Tasks : Running(v)' => v = t
    BY <1>6, <2>1 DEF RunEnd, Running, Goto, GotoVia, Pick, Panic, IInv, TypeOK
  <2>3. ~crashed' /\ (Running(t)' => Phase(t)') /\ (~Running(t)' => Whole')
    BY <1>6, <2>1, <2>2
       DEF RunEnd, Solo, SoloInv, PhaseInv, Phase, Whole, Running, At, Decoding, Encoding,
          Texting, Generating, Goto, GotoVia,
           Pick, Panic, DestroyBoth, AfterError, IInv, TypeOK, NextInv, LoadedInv
  <2> QED  BY <2>2, <2>3
<1>7. ASSUME NEW t \in Tasks, Begin(t) PROVE PhaseInv'
  <2> SUFFICES ASSUME ~overlapped', ~failed'
               PROVE  /\ ~crashed'
                      /\ (\A u \in Tasks : ~Running(u)') => Whole'
                      /\ \A u \in Tasks : Running(u)' => Phase(u)'
    BY DEF PhaseInv
  <2>1. ~overlapped /\ ~failed /\ \A v \in Tasks : ~Running(v)  BY <1>7 DEF Begin, IInv, TypeOK
  <2>2. \A v \in Tasks : Running(v)' => v = t
    BY <1>7, <2>1 DEF Begin, Running, Goto, IInv, TypeOK
  <2>3. ~crashed' /\ (Running(t)' => Phase(t)') /\ (~Running(t)' => Whole')
    BY <1>7, <2>1, <2>2
       DEF Begin, Solo, SoloInv, PhaseInv, Phase, Whole, Running, At, Decoding, Encoding, Texting,
          Generating, Goto, GotoVia,
           Pick, Panic, DestroyBoth, AfterError, IInv, TypeOK, NextInv, LoadedInv
  <2> QED  BY <2>2, <2>3
<1>8. ASSUME NEW t \in Tasks, Unload(t) PROVE PhaseInv'
  <2> SUFFICES ASSUME ~overlapped', ~failed'
               PROVE  /\ ~crashed'
                      /\ (\A u \in Tasks : ~Running(u)') => Whole'
                      /\ \A u \in Tasks : Running(u)' => Phase(u)'
    BY DEF PhaseInv
  <2>1. ~overlapped /\ ~failed /\ Running(t) /\ \A v \in Tasks : Running(v) => v = t
    BY <1>8 DEF Unload, Running, SoloInv, Generating, IInv, TypeOK
  <2>2. \A v \in Tasks : Running(v)' => v = t
    BY <1>8, <2>1 DEF Unload, Running, Goto, GotoVia, Pick, Panic, IInv, TypeOK
  <2>3. ~crashed' /\ (Running(t)' => Phase(t)') /\ (~Running(t)' => Whole')
    BY <1>8, <2>1, <2>2
       DEF Unload, Solo, SoloInv, PhaseInv, Phase, Whole, Running, At, Decoding, Encoding,
          Texting, Generating, Goto, GotoVia,
           Pick, Panic, DestroyBoth, AfterError, IInv, TypeOK, NextInv, LoadedInv
  <2> QED  BY <2>2, <2>3
<1>9. ASSUME NEW t \in Tasks, Ensure(t) PROVE PhaseInv'
  <2> SUFFICES ASSUME ~overlapped', ~failed'
               PROVE  /\ ~crashed'
                      /\ (\A u \in Tasks : ~Running(u)') => Whole'
                      /\ \A u \in Tasks : Running(u)' => Phase(u)'
    BY DEF PhaseInv
  <2>1. ~overlapped /\ ~failed /\ Running(t) /\ \A v \in Tasks : Running(v) => v = t
    BY <1>9 DEF Ensure, Running, SoloInv, Generating, IInv, TypeOK
  <2>2. \A v \in Tasks : Running(v)' => v = t
    BY <1>9, <2>1 DEF Ensure, Running, Goto, GotoVia, Pick, Panic, IInv, TypeOK
  <2>3. ~crashed' /\ Phase(t)' /\ Running(t)'
    <3>1. live = {} /\ inference = NoSet /\ encoder = NoSet /\ ~crashed
      BY <1>9, <2>1 DEF Ensure, PhaseInv, Phase
    <3>2. /\ pc'[t] = "encode" /\ encoder' = made + 1 /\ live' = {made + 1}
          /\ UNCHANGED <<inference, crashed>>
      BY <1>9, <3>1 DEF Ensure, Goto, IInv, TypeOK
    <3> QED  BY <3>1, <3>2 DEF Phase, At, Encoding, Running
  <2> QED  BY <2>2, <2>3
<1>10. ASSUME NEW t \in Tasks, Encode(t) PROVE PhaseInv'
  <2> SUFFICES ASSUME ~overlapped', ~failed'
               PROVE  /\ ~crashed'
                      /\ (\A u \in Tasks : ~Running(u)') => Whole'
                      /\ \A u \in Tasks : Running(u)' => Phase(u)'
    BY DEF PhaseInv
  <2>1. ~overlapped /\ ~failed /\ Running(t) /\ \A v \in Tasks : Running(v) => v = t
    BY <1>10 DEF Encode, Running, SoloInv, Generating, IInv, TypeOK
  <2>2. \A v \in Tasks : Running(v)' => v = t
    BY <1>10, <2>1 DEF Encode, Running, Goto, GotoVia, Pick, Panic, IInv, TypeOK
  <2>3. ~crashed' /\ (Running(t)' => Phase(t)') /\ (~Running(t)' => Whole')
    BY <1>10, <2>1, <2>2
       DEF Encode, Solo, SoloInv, PhaseInv, Phase, Whole, Running, At, Decoding, Encoding,
          Texting, Generating, Goto, GotoVia,
           Pick, Panic, DestroyBoth, AfterError, IInv, TypeOK, NextInv, LoadedInv
  <2> QED  BY <2>2, <2>3
<1>11. ASSUME NEW t \in Tasks, Encoded(t) PROVE PhaseInv'
  <2> SUFFICES ASSUME ~overlapped', ~failed'
               PROVE  /\ ~crashed'
                      /\ (\A u \in Tasks : ~Running(u)') => Whole'
                      /\ \A u \in Tasks : Running(u)' => Phase(u)'
    BY DEF PhaseInv
  <2>1. ~overlapped /\ ~failed /\ Running(t) /\ \A v \in Tasks : Running(v) => v = t
    BY <1>11 DEF Encoded, Running, SoloInv, Generating, IInv, TypeOK
  <2>2. \A v \in Tasks : Running(v)' => v = t
    BY <1>11, <2>1 DEF Encoded, Running, Goto, GotoVia, Pick, Panic, IInv, TypeOK
  <2>3. ~crashed' /\ (Running(t)' => Phase(t)') /\ (~Running(t)' => Whole')
    BY <1>11, <2>1, <2>2
       DEF Encoded, Solo, SoloInv, PhaseInv, Phase, Whole, Running, At, Decoding, Encoding,
          Texting, Generating, Goto, GotoVia,
           Pick, Panic, DestroyBoth, AfterError, IInv, TypeOK, NextInv, LoadedInv
  <2> QED  BY <2>2, <2>3
<1>12. ASSUME NEW t \in Tasks, Check(t) PROVE PhaseInv'
  <2> SUFFICES ASSUME ~overlapped', ~failed'
               PROVE  /\ ~crashed'
                      /\ (\A u \in Tasks : ~Running(u)') => Whole'
                      /\ \A u \in Tasks : Running(u)' => Phase(u)'
    BY DEF PhaseInv
  <2>1. ~overlapped /\ ~failed /\ Running(t) /\ \A v \in Tasks : Running(v) => v = t
    BY <1>12 DEF Check, Running, SoloInv, Generating, IInv, TypeOK
  <2>2. \A v \in Tasks : Running(v)' => v = t
    BY <1>12, <2>1 DEF Check, Running, Goto, GotoVia, Pick, Panic, IInv, TypeOK
  <2>3. ~crashed' /\ (Running(t)' => Phase(t)') /\ (~Running(t)' => Whole')
    BY <1>12, <2>1, <2>2
       DEF Check, Solo, SoloInv, PhaseInv, Phase, Whole, Running, At, Decoding, Encoding, Texting,
          Generating, Goto, GotoVia,
           Pick, Panic, DestroyBoth, AfterError, IInv, TypeOK, NextInv, LoadedInv
  <2> QED  BY <2>2, <2>3
<1>13. ASSUME NEW t \in Tasks, Take(t) PROVE PhaseInv'
  <2> SUFFICES ASSUME ~overlapped', ~failed'
               PROVE  /\ ~crashed'
                      /\ (\A u \in Tasks : ~Running(u)') => Whole'
                      /\ \A u \in Tasks : Running(u)' => Phase(u)'
    BY DEF PhaseInv
  <2>1. ~overlapped /\ ~failed /\ Running(t) /\ \A v \in Tasks : Running(v) => v = t
    BY <1>13 DEF Take, Running, SoloInv, Generating, IInv, TypeOK
  <2>2. \A v \in Tasks : Running(v)' => v = t
    BY <1>13, <2>1 DEF Take, Running, Goto, GotoVia, Pick, Panic, IInv, TypeOK
  <2>3. ~crashed' /\ (Running(t)' => Phase(t)') /\ (~Running(t)' => Whole')
    BY <1>13, <2>1, <2>2
       DEF Take, Solo, SoloInv, PhaseInv, Phase, Whole, Running, At, Decoding, Encoding, Texting,
          Generating, Goto, GotoVia,
           Pick, Panic, DestroyBoth, AfterError, IInv, TypeOK, NextInv, LoadedInv
  <2> QED  BY <2>2, <2>3
<1>14. ASSUME NEW t \in Tasks, Cancel(t) PROVE PhaseInv'
  <2> SUFFICES ASSUME ~overlapped', ~failed'
               PROVE  /\ ~crashed'
                      /\ (\A u \in Tasks : ~Running(u)') => Whole'
                      /\ \A u \in Tasks : Running(u)' => Phase(u)'
    BY DEF PhaseInv
  <2>1. ~overlapped /\ ~failed /\ Running(t) /\ \A v \in Tasks : Running(v) => v = t
    BY <1>14 DEF Cancel, Running, SoloInv, Generating, IInv, TypeOK
  <2>2. \A v \in Tasks : Running(v)' => v = t
    BY <1>14, <2>1 DEF Cancel, Running, Goto, GotoVia, Pick, Panic, IInv, TypeOK
  <2>3. ~crashed' /\ (Running(t)' => Phase(t)') /\ (~Running(t)' => Whole')
    BY <1>14, <2>1, <2>2
       DEF Cancel, Solo, SoloInv, PhaseInv, Phase, Whole, Running, At, Decoding, Encoding,
          Texting, Generating, Goto, GotoVia,
           Pick, Panic, DestroyBoth, AfterError, IInv, TypeOK, NextInv, LoadedInv
  <2> QED  BY <2>2, <2>3
<1>15. ASSUME NEW t \in Tasks, Interrupted(t) PROVE PhaseInv'
  <2> SUFFICES ASSUME ~overlapped', ~failed'
               PROVE  /\ ~crashed'
                      /\ (\A u \in Tasks : ~Running(u)') => Whole'
                      /\ \A u \in Tasks : Running(u)' => Phase(u)'
    BY DEF PhaseInv
  <2>1. ~overlapped /\ ~failed /\ Running(t) /\ \A v \in Tasks : Running(v) => v = t
    BY <1>15 DEF Interrupted, Running, SoloInv, Generating, IInv, TypeOK
  <2>2. \A v \in Tasks : Running(v)' => v = t
    BY <1>15, <2>1 DEF Interrupted, Running, Goto, GotoVia, Pick, Panic, IInv, TypeOK
  <2>3. ~crashed' /\ (Running(t)' => Phase(t)') /\ (~Running(t)' => Whole')
    BY <1>15, <2>1, <2>2
       DEF Interrupted, Solo, SoloInv, PhaseInv, Phase, Whole, Running, At, Decoding, Encoding,
          Texting, Generating, Goto, GotoVia,
           Pick, Panic, DestroyBoth, AfterError, IInv, TypeOK, NextInv, LoadedInv
  <2> QED  BY <2>2, <2>3
<1>16. ASSUME NEW t \in Tasks, Generate(t) PROVE PhaseInv'
  <2> SUFFICES ASSUME ~overlapped', ~failed'
               PROVE  /\ ~crashed'
                      /\ (\A u \in Tasks : ~Running(u)') => Whole'
                      /\ \A u \in Tasks : Running(u)' => Phase(u)'
    BY DEF PhaseInv
  <2>1. ~overlapped /\ ~failed /\ Running(t) /\ \A v \in Tasks : Running(v) => v = t
    BY <1>16 DEF Generate, Running, SoloInv, Generating, IInv, TypeOK
  <2>2. \A v \in Tasks : Running(v)' => v = t
    BY <1>16, <2>1 DEF Generate, Running, Goto, GotoVia, Pick, Panic, IInv, TypeOK
  <2>3. ~crashed' /\ (Running(t)' => Phase(t)') /\ (~Running(t)' => Whole')
    BY <1>16, <2>1, <2>2
       DEF Generate, Solo, SoloInv, PhaseInv, Phase, Whole, Running, At, Decoding, Encoding,
          Texting, Generating, Goto, GotoVia,
           Pick, Panic, DestroyBoth, AfterError, IInv, TypeOK, NextInv, LoadedInv
  <2> QED  BY <2>2, <2>3
<1>17. ASSUME NEW t \in Tasks, GenerateLock(t) PROVE PhaseInv'
  <2> SUFFICES ASSUME ~overlapped', ~failed'
               PROVE  /\ ~crashed'
                      /\ (\A u \in Tasks : ~Running(u)') => Whole'
                      /\ \A u \in Tasks : Running(u)' => Phase(u)'
    BY DEF PhaseInv
  <2>1. ~overlapped /\ ~failed /\ Running(t) /\ \A v \in Tasks : Running(v) => v = t
    BY <1>17 DEF GenerateLock, Running, SoloInv, Generating, IInv, TypeOK
  <2>2. \A v \in Tasks : Running(v)' => v = t
    BY <1>17, <2>1 DEF GenerateLock, Running, Goto, GotoVia, Pick, Panic, IInv, TypeOK
  <2>3. ~crashed' /\ (Running(t)' => Phase(t)') /\ (~Running(t)' => Whole')
    BY <1>17, <2>1, <2>2
       DEF GenerateLock, Solo, SoloInv, PhaseInv, Phase, Whole, Running, At, Decoding, Encoding,
          Texting, Generating, Goto, GotoVia,
           Pick, Panic, DestroyBoth, AfterError, IInv, TypeOK, NextInv, LoadedInv
  <2> QED  BY <2>2, <2>3
<1>18. ASSUME NEW t \in Tasks, GenerateRun(t) PROVE PhaseInv'
  <2> SUFFICES ASSUME ~overlapped', ~failed'
               PROVE  /\ ~crashed'
                      /\ (\A u \in Tasks : ~Running(u)') => Whole'
                      /\ \A u \in Tasks : Running(u)' => Phase(u)'
    BY DEF PhaseInv
  <2>1. ~overlapped /\ ~failed /\ Running(t) /\ \A v \in Tasks : Running(v) => v = t
    BY <1>18 DEF GenerateRun, Running, SoloInv, Generating, IInv, TypeOK
  <2>2. \A v \in Tasks : Running(v)' => v = t
    BY <1>18, <2>1 DEF GenerateRun, Running, Goto, GotoVia, Pick, Panic, IInv, TypeOK
  <2>3. ~crashed' /\ (Running(t)' => Phase(t)') /\ (~Running(t)' => Whole')
    BY <1>18, <2>1, <2>2
       DEF GenerateRun, Solo, SoloInv, PhaseInv, Phase, Whole, Running, At, Decoding, Encoding,
          Texting, Generating, Goto, GotoVia,
           Pick, Panic, DestroyBoth, AfterError, IInv, TypeOK, NextInv, LoadedInv
  <2> QED  BY <2>2, <2>3
<1>19. ASSUME NEW t \in Tasks, GenerateFrames(t) PROVE PhaseInv'
  <2> SUFFICES ASSUME ~overlapped', ~failed'
               PROVE  /\ ~crashed'
                      /\ (\A u \in Tasks : ~Running(u)') => Whole'
                      /\ \A u \in Tasks : Running(u)' => Phase(u)'
    BY DEF PhaseInv
  <2>1. ~overlapped /\ ~failed /\ Running(t) /\ \A v \in Tasks : Running(v) => v = t
    BY <1>19 DEF GenerateFrames, Running, SoloInv, Generating, IInv, TypeOK
  <2>2. \A v \in Tasks : Running(v)' => v = t
    BY <1>19, <2>1 DEF GenerateFrames, Running, Goto, GotoVia, Pick, Panic, IInv, TypeOK
  <2>3. ~crashed' /\ (Running(t)' => Phase(t)') /\ (~Running(t)' => Whole')
    BY <1>19, <2>1, <2>2
       DEF GenerateFrames, Solo, SoloInv, PhaseInv, Phase, Whole, Running, At, Decoding, Encoding,
          Texting, Generating, Goto, GotoVia,
           Pick, Panic, DestroyBoth, AfterError, IInv, TypeOK, NextInv, LoadedInv
  <2> QED  BY <2>2, <2>3
<1>20. ASSUME NEW t \in Tasks, GenerateEnd(t) PROVE PhaseInv'
  <2> SUFFICES ASSUME ~overlapped', ~failed'
               PROVE  /\ ~crashed'
                      /\ (\A u \in Tasks : ~Running(u)') => Whole'
                      /\ \A u \in Tasks : Running(u)' => Phase(u)'
    BY DEF PhaseInv
  <2>1. ~overlapped /\ ~failed /\ Running(t) /\ \A v \in Tasks : Running(v) => v = t
    BY <1>20 DEF GenerateEnd, Running, SoloInv, Generating, IInv, TypeOK
  <2>2. \A v \in Tasks : Running(v)' => v = t
    BY <1>20, <2>1 DEF GenerateEnd, Running, Goto, GotoVia, Pick, Panic, IInv, TypeOK
  <2>3. ~crashed' /\ (Running(t)' => Phase(t)') /\ (~Running(t)' => Whole')
    BY <1>20, <2>1, <2>2
       DEF GenerateEnd, Solo, SoloInv, PhaseInv, Phase, Whole, Running, At, Decoding, Encoding,
          Texting, Generating, Goto, GotoVia,
           Pick, Panic, DestroyBoth, AfterError, IInv, TypeOK, NextInv, LoadedInv
  <2> QED  BY <2>2, <2>3
<1>21. ASSUME NEW t \in Tasks, Decode(t) PROVE PhaseInv'
  <2> SUFFICES ASSUME ~overlapped', ~failed'
               PROVE  /\ ~crashed'
                      /\ (\A u \in Tasks : ~Running(u)') => Whole'
                      /\ \A u \in Tasks : Running(u)' => Phase(u)'
    BY DEF PhaseInv
  <2>1. ~overlapped /\ ~failed /\ Running(t) /\ \A v \in Tasks : Running(v) => v = t
    BY <1>21 DEF Decode, Running, SoloInv, Generating, IInv, TypeOK
  <2>2. \A v \in Tasks : Running(v)' => v = t
    BY <1>21, <2>1 DEF Decode, Running, Goto, GotoVia, Pick, Panic, IInv, TypeOK
  <2>3. ~crashed' /\ (Running(t)' => Phase(t)') /\ (~Running(t)' => Whole')
    BY <1>21, <2>1, <2>2
       DEF Decode, Solo, SoloInv, PhaseInv, Phase, Whole, Running, At, Decoding, Encoding,
          Texting, Generating, Goto, GotoVia,
           Pick, Panic, DestroyBoth, AfterError, IInv, TypeOK, NextInv, LoadedInv
  <2> QED  BY <2>2, <2>3
<1>22. ASSUME NEW t \in Tasks, Decoded(t) PROVE PhaseInv'
  <2> SUFFICES ASSUME ~overlapped', ~failed'
               PROVE  /\ ~crashed'
                      /\ (\A u \in Tasks : ~Running(u)') => Whole'
                      /\ \A u \in Tasks : Running(u)' => Phase(u)'
    BY DEF PhaseInv
  <2>1. ~overlapped /\ ~failed /\ Running(t) /\ \A v \in Tasks : Running(v) => v = t
    BY <1>22 DEF Decoded, Running, SoloInv, Generating, IInv, TypeOK
  <2>2. \A v \in Tasks : Running(v)' => v = t
    BY <1>22, <2>1 DEF Decoded, Running, Goto, GotoVia, Pick, Panic, IInv, TypeOK
  <2>3. ~crashed' /\ (Running(t)' => Phase(t)') /\ (~Running(t)' => Whole')
    BY <1>22, <2>1, <2>2
       DEF Decoded, Solo, SoloInv, PhaseInv, Phase, Whole, Running, At, Decoding, Encoding,
          Texting, Generating, Goto, GotoVia,
           Pick, Panic, DestroyBoth, AfterError, IInv, TypeOK, NextInv, LoadedInv
  <2> QED  BY <2>2, <2>3
<1>23. ASSUME NEW t \in Tasks, End(t) PROVE PhaseInv'
  <2> SUFFICES ASSUME ~overlapped', ~failed'
               PROVE  /\ ~crashed'
                      /\ (\A u \in Tasks : ~Running(u)') => Whole'
                      /\ \A u \in Tasks : Running(u)' => Phase(u)'
    BY DEF PhaseInv
  <2>1. ~overlapped /\ ~failed /\ Running(t) /\ \A v \in Tasks : Running(v) => v = t
    BY <1>23 DEF End, Running, SoloInv, Generating, IInv, TypeOK
  <2>2. \A v \in Tasks : Running(v)' => v = t
    BY <1>23, <2>1 DEF End, Running, Goto, GotoVia, Pick, Panic, IInv, TypeOK
  <2>3. ~crashed' /\ (Running(t)' => Phase(t)') /\ (~Running(t)' => Whole')
    BY <1>23, <2>1, <2>2
       DEF End, Solo, SoloInv, PhaseInv, Phase, Whole, Running, At, Decoding, Encoding, Texting,
          Generating, Goto, GotoVia,
           Pick, Panic, DestroyBoth, AfterError, IInv, TypeOK, NextInv, LoadedInv
  <2> QED  BY <2>2, <2>3
<1> QED
  BY <1>1, <1>2, <1>3, <1>4, <1>5, <1>6, <1>7, <1>8, <1>9, <1>10, <1>11, <1>12, <1>13,
     <1>14, <1>15, <1>16, <1>17, <1>18, <1>19, <1>20, <1>21, <1>22, <1>23 DEF Next,
     LoadStep, EncodeStep, TextStep

LEMMA AloneInit == Init => SoloInv /\ PhaseInv
<1> SUFFICES ASSUME Init PROVE SoloInv /\ PhaseInv  OBVIOUS
<1>1. \A t \in Tasks : ~Running(t)  BY DEF Init, Running
<1>2. Whole /\ ~crashed  BY DEF Init, Whole
<1> QED  BY <1>1, <1>2 DEF SoloInv, PhaseInv

(* What holds of a worker whose tasks have not overlapped. *)
THEOREM AloneInvariance == Spec => [](IInv /\ SoloInv /\ PhaseInv)
<1> HIDE DEF IInv
<1> DEFINE Inv == IInv /\ SoloInv /\ PhaseInv
<1>1. Init => Inv
  BY InitInv, AloneInit
<1>2. Inv /\ [Next]_vars => Inv'
  <2> SUFFICES ASSUME Inv, [Next]_vars PROVE Inv'
    OBVIOUS
  <2>1. IInv'
    BY StepInv
  <2>2. CASE Next
    BY <2>1, <2>2, SoloStep, PhaseStep
  <2>3. CASE UNCHANGED vars
    BY <2>1, <2>3
    DEF vars, SoloInv, Solo, PhaseInv, Phase, Whole, Decoding, At, Running
  <2> QED
    BY <2>2, <2>3
<1> HIDE DEF Inv
<1>3. Spec => []Inv
  BY <1>1, <1>2, PTL DEF Spec
<1> QED
  BY <1>3 DEF Inv

(* A worker whose tasks have not overlapped runs no session that was destroyed, across *)
(* encoding, resets, interruptions and failures to load (ttsruntime.go:670).           *)
THEOREM NothingStale == Spec => []NothingStaleAlone
<1>1. IInv /\ SoloInv => NothingStaleAlone
  <2> HIDE DEF IInv
  <2> SUFFICES ASSUME IInv, SoloInv, ~overlapped, NEW t \in Tasks, pc[t] = "running"
               PROVE  using[t] \in live
    BY DEF NothingStaleAlone
  <2>1. Solo(t) /\ next[t] \in {"encoded", "gen", "frames", "decoded"}
    BY DEF SoloInv, Running, IInv, NextInv
  <2>2. CASE next[t] = "encoded"
    BY <2>1, <2>2 DEF Solo, At, Encoding, IInv, LoadedInv
  <2>3. CASE next[t] # "encoded"
    BY <2>1, <2>3 DEF Solo, At, Decoding, IInv, LoadedInv
  <2> QED
    BY <2>2, <2>3
<1> HIDE DEF IInv
<1> QED
  BY <1>1, AloneInvariance, PTL

(* As long as no load has failed, such a worker has one set of sessions in memory at  *)
(* most: those of encoding and those of inference replace each other (runtime.go:49). *)
THEOREM PhasesExclude == Spec => []PhasesApart
<1>1. IInv /\ SoloInv /\ PhaseInv => PhasesApart
  <2> SUFFICES ASSUME NextInv, SoloInv, PhaseInv, ~overlapped, ~failed
               PROVE  Cardinality(live) <= 1
    BY DEF PhasesApart
  <2>1. live = {} \/ \E s : live = {s}
    <3>1. CASE \A t \in Tasks : ~Running(t)
      BY <3>1 DEF PhaseInv, Whole
    <3>2. ASSUME NEW t \in Tasks, Running(t) PROVE live = {} \/ \E s : live = {s}
      <4>1. Phase(t)
        BY <3>2 DEF PhaseInv
      <4>2. CASE At(t, {"ensure", "load", "install"} \cup Encoding)
        <5>1. live = {} \/ live = {encoder} \/ live = {using[t]}
          BY <4>1, <4>2, <3>2 DEF Phase, At, NextInv
        <5> QED
          BY <5>1
      <4>3. CASE ~At(t, {"ensure", "load", "install"} \cup Encoding)
        BY <4>1, <4>3 DEF Phase, Whole
      <4> QED
        BY <4>2, <4>3
    <3> QED
      BY <3>1, <3>2
  <2>2. Cardinality({}) = 0 /\ \A s : Cardinality({s}) = 1
    BY FS_EmptySet, FS_Singleton
  <2>3. Cardinality(live) = 0 \/ Cardinality(live) = 1
    BY <2>1, <2>2
  <2> QED
    BY <2>3
<1> HIDE DEF IInv
<1> QED
  BY <1>1, AloneInvariance, PTL

(* Neither does such a worker panic on a missing session. *)
THEOREM NoPanic == Spec => []NoPanicAlone
<1>1. PhaseInv => NoPanicAlone
  BY DEF PhaseInv, NoPanicAlone
<1> HIDE DEF IInv
<1> QED
  BY <1>1, AloneInvariance, PTL
=============================================================================

--------------------------- MODULE DownloadsProofs ---------------------------
(***************************************************************************)
(* Proofs about Downloads, for all sets of files and every number of       *)
(* faults: a complete file is never written again, and a start mends what  *)
(* earlier ones have left.                                                 *)
(*                                                                         *)
(* IInv says why: what is opened for writing was absent or empty when it   *)
(* was looked at and nothing has written to it since (TargetInv), what a   *)
(* program without faults has on its disk at each place of the start       *)
(* (FaultlessInv), and what a start without a fault has done with the      *)
(* files of the listings behind it (MendInv).                              *)
(***************************************************************************)
EXTENDS Downloads, TLAPS

PCs == {"libs", "libs_create", "libs_copy", "ffmpeg", "ffmpeg_create", "ffmpeg_copy", "models",
        "list", "fetch", "copy", "stalled", "load", "ready", "failed", "error"}

Typed ==
  /\ pc \in PCs
  /\ disk \in [AllFiles -> {"absent", "empty", "partial", "whole"}]
  /\ repo \in {"TTS", "Codec"} /\ source \in {"mirror", "default"}
  /\ todo \subseteq Files(repo) /\ file \in ModelFiles
  /\ faults \in 0 .. MaxFaults /\ clean \in BOOLEAN /\ asked \in BOOLEAN /\ damaged \subseteq AllFiles

(* The places of a start before it has the models, and those where it asks for them. *)
Early == {"libs", "libs_create", "libs_copy", "ffmpeg", "ffmpeg_create", "ffmpeg_copy", "models"}
Asking == {"list", "fetch", "copy"}

(* What is opened for writing is not whole; nothing is left to do between two listings. *)
TargetInv ==
  /\ pc \in Early \cup {"list"} => todo = {}
  /\ pc = "libs_create" => disk[Lib] = "absent"
  /\ pc = "libs_copy" => disk[Lib] = "empty"
  /\ pc = "ffmpeg_create" => disk[FFmpeg] = "absent"
  /\ pc = "ffmpeg_copy" => disk[FFmpeg] = "empty"
  /\ pc = "fetch" => \A f \in todo : disk[f] \in {"absent", "empty"}
  /\ pc = "copy" => /\ file \in todo /\ disk[file] \in {"empty", "partial"}
                    /\ \A f \in todo \ {file} : disk[f] \in {"absent", "empty"}

(* Without faults: the library is whole as soon as it is past, FFmpeg too or absent; the *)
(* models are all absent until a start asks for them, and all whole after it has.        *)
FaultlessInv ==
  faults = 0 =>
    /\ pc # "failed" /\ pc # "error" /\ pc # "stalled"
    /\ pc = "libs" => disk[Lib] \in {"absent", "whole"}
    /\ pc \notin {"libs", "libs_create", "libs_copy"} => disk[Lib] = "whole"
    /\ pc \notin {"ffmpeg_copy"} => disk[FFmpeg] \in {"absent", "whole"}
    /\ pc \in Early => \/ \A f \in ModelFiles : disk[f] = "absent"
                       \/ \A f \in ModelFiles : disk[f] = "whole"
    /\ pc = "list" => \A f \in ModelFiles :
         disk[f] = IF f \in TTSFiles /\ repo = "Codec" THEN "whole" ELSE "absent"
    /\ pc \in {"fetch", "copy"} => \A f \in ModelFiles :
         disk[f] \in IF f \in todo THEN (IF pc = "copy" /\ f = file THEN {"empty", "partial"} ELSE {"absent"})
                     ELSE IF f \in TTSFiles \/ repo = "Codec" THEN {"whole"} ELSE {"absent"}
    /\ pc \in {"load", "ready"} => \A f \in ModelFiles : disk[f] = "whole"

Mended(f) == disk[f] = "whole" \/ f \in damaged

(* A start without a fault: what is cut off was so when it began, or is being written; *)
(* what is behind it in the listings is mended.                                        *)
MendInv ==
  /\ pc \in Early => ~asked
  /\ pc = "list" /\ repo = "TTS" /\ clean => ~asked
  /\ clean =>
       /\ \A f \in ModelFiles : disk[f] = "partial" => f \in damaged \/ (pc = "copy" /\ f = file)
       /\ pc \in Asking /\ repo = "Codec" => \A f \in TTSFiles : Mended(f)
       /\ pc \in {"fetch", "copy"} => \A f \in Files(repo) \ todo : Mended(f)
       /\ asked /\ pc \in {"load", "ready", "error"} => \A f \in ModelFiles : Mended(f)

IInv == Typed /\ TargetInv /\ FaultlessInv /\ MendInv
----------------------------------------------------------------------------
USE DownloadAssumption DEF Files, ModelFiles, AllFiles, PCs, Early, Asking

LEMMA FirstType == First \in {"mirror", "default"}
  BY DEF First

LEMMA FaultType == ASSUME Typed, Fault PROVE faults' \in 0 .. MaxFaults /\ clean' \in BOOLEAN
  <1>1. faults' \in 0 .. MaxFaults
    <2>1. faults \in 0 .. MaxFaults /\ faults < MaxFaults /\ faults' = faults + 1  BY DEF Typed, Fault
    <2>2. MaxFaults \in Nat  OBVIOUS
    <2> QED  BY ONLY <2>1, <2>2
  <1>2. clean' \in BOOLEAN
    <2>1. clean' = FALSE  BY DEF Fault
    <2> QED  BY ONLY <2>1
  <1> QED  BY <1>1, <1>2

LEMMA InitInv == Init => IInv
  <1> SUFFICES ASSUME Init PROVE IInv  OBVIOUS
  <1>1. Typed
    <2>1. pc \in PCs /\ disk \in [AllFiles -> {"absent", "empty", "partial", "whole"}]
      BY DEF Init
    <2>2. repo \in {"TTS", "Codec"} /\ source \in {"mirror", "default"}  BY FirstType DEF Init
    <2>3. todo \subseteq Files(repo) /\ file \in ModelFiles /\ damaged \subseteq AllFiles
      BY DEF Init
    <2>4. faults \in 0 .. MaxFaults  BY DEF Init
    <2>5. clean \in BOOLEAN /\ asked \in BOOLEAN  BY DEF Init
    <2> QED  BY <2>1, <2>2, <2>3, <2>4, <2>5 DEF Typed
  <1>2. TargetInv /\ FaultlessInv /\ MendInv  BY DEF Init, TargetInv, FaultlessInv, MendInv
  <1> QED  BY <1>1, <1>2 DEF IInv

(* EnsureNativeLibs and EnsureFFmpeg: only the library's and FFmpeg's own file is touched. *)

LEMMA LibsThereInv == ASSUME IInv, LibsThere PROVE IInv'
  <1> USE DEF LibsThere, Exists, NoFault, loopVars, startVars, IInv
  <1>2. Typed'  BY DEF Typed
  <1>3. TargetInv'  BY DEF Typed, TargetInv
  <1>4. FaultlessInv'  BY DEF Typed, TargetInv, FaultlessInv
  <1>5. MendInv'  BY DEF Typed, TargetInv, MendInv, Mended
  <1> QED  BY <1>2, <1>3, <1>4, <1>5

LEMMA LibsDownloadInv == ASSUME IInv, LibsDownload PROVE IInv'
  <1> USE DEF LibsDownload, Exists, Fault, NoFault, loopVars, startVars, IInv
  <1>2. Typed'  BY FaultType DEF Typed
  <1>3. TargetInv'  BY DEF Typed, TargetInv
  <1>4. FaultlessInv'  BY DEF Typed, TargetInv, FaultlessInv
  <1>5. MendInv'  BY DEF Typed, TargetInv, MendInv, Mended
  <1> QED  BY <1>2, <1>3, <1>4, <1>5

LEMMA LibsCreateInv == ASSUME IInv, LibsCreate PROVE IInv'
  <1> USE DEF LibsCreate, Put, Fault, NoFault, loopVars, startVars, IInv
  <1>2. Typed'  BY FaultType DEF Typed
  <1>3. TargetInv'  BY DEF Typed, TargetInv
  <1>4. FaultlessInv'  BY DEF Typed, TargetInv, FaultlessInv
  <1>5. MendInv'  BY DEF Typed, TargetInv, MendInv, Mended
  <1> QED  BY <1>2, <1>3, <1>4, <1>5

LEMMA LibsCopyInv == ASSUME IInv, LibsCopy PROVE IInv'
  <1> USE DEF LibsCopy, Put, Fault, NoFault, loopVars, startVars, IInv
  <1>2. Typed'  BY FaultType DEF Typed
  <1>3. TargetInv'  BY DEF Typed, TargetInv
  <1>4. FaultlessInv'  BY DEF Typed, TargetInv, FaultlessInv
  <1>5. MendInv'  BY DEF Typed, TargetInv, MendInv, Mended
  <1> QED  BY <1>2, <1>3, <1>4, <1>5

LEMMA FFmpegThereInv == ASSUME IInv, FFmpegThere PROVE IInv'
  <1> USE DEF FFmpegThere, Exists, NoFault, loopVars, startVars, IInv
  <1>2. Typed'  BY DEF Typed
  <1>3. TargetInv'  BY DEF Typed, TargetInv
  <1>4. FaultlessInv'  BY DEF Typed, TargetInv, FaultlessInv
  <1>5. MendInv'  BY DEF Typed, TargetInv, MendInv, Mended
  <1> QED  BY <1>2, <1>3, <1>4, <1>5

LEMMA FFmpegDownloadInv == ASSUME IInv, FFmpegDownload PROVE IInv'
  <1> USE DEF FFmpegDownload, Exists, Fault, NoFault, loopVars, startVars, IInv
  <1>2. Typed'  BY FaultType DEF Typed
  <1>3. TargetInv'  BY DEF Typed, TargetInv
  <1>4. FaultlessInv'  BY DEF Typed, TargetInv, FaultlessInv
  <1>5. MendInv'  BY DEF Typed, TargetInv, MendInv, Mended
  <1> QED  BY <1>2, <1>3, <1>4, <1>5

LEMMA FFmpegCreateInv == ASSUME IInv, FFmpegCreate PROVE IInv'
  <1> USE DEF FFmpegCreate, Put, Fault, NoFault, loopVars, startVars, IInv
  <1>2. Typed'  BY FaultType DEF Typed
  <1>3. TargetInv'  BY DEF Typed, TargetInv
  <1>4. FaultlessInv'  BY DEF Typed, TargetInv, FaultlessInv
  <1>5. MendInv'  BY DEF Typed, TargetInv, MendInv, Mended
  <1> QED  BY <1>2, <1>3, <1>4, <1>5

LEMMA FFmpegCopyInv == ASSUME IInv, FFmpegCopy PROVE IInv'
  <1> USE DEF FFmpegCopy, Put, Fault, NoFault, loopVars, startVars, IInv
  <1>2. Typed'  BY FaultType DEF Typed
  <1>3. TargetInv'  BY DEF Typed, TargetInv
  <1>4. FaultlessInv'  BY DEF Typed, TargetInv, FaultlessInv
  <1>5. MendInv'  BY DEF Typed, TargetInv, MendInv, Mended
  <1> QED  BY <1>2, <1>3, <1>4, <1>5

(* EnsureModels: the files of the listing are behind, open, or still as they were listed. *)

LEMMA ModelsThereInv == ASSUME IInv, ModelsThere PROVE IInv'
  <1> USE DEF ModelsThere, Exists, NoFault, loopVars, startVars, IInv
  <1>2. Typed'  BY DEF Typed
  <1>3. TargetInv'  BY DEF Typed, TargetInv
  <1>4. FaultlessInv'  BY DEF Typed, TargetInv, FaultlessInv
  <1>5. MendInv'  BY DEF Typed, TargetInv, MendInv, Mended
  <1> QED  BY <1>2, <1>3, <1>4, <1>5

LEMMA ModelsMissingInv == ASSUME IInv, ModelsMissing PROVE IInv'
  <1> USE DEF ModelsMissing, Exists, NoFault, startVars, IInv
  <1>2. Typed'  BY FirstType DEF Typed, TargetInv
  <1>3. TargetInv'  BY DEF Typed, TargetInv
  <1>4. FaultlessInv'  BY DEF Typed, TargetInv, FaultlessInv
  <1>5. MendInv'  BY DEF Typed, TargetInv, MendInv, Mended
  <1> QED  BY <1>2, <1>3, <1>4, <1>5

LEMMA ListInv == ASSUME IInv, List PROVE IInv'
  <1> USE DEF List, Missing, NoFault, IInv
  <1>2. Typed'  BY DEF Typed
  <1>3. TargetInv'  BY DEF Typed, TargetInv
  <1>4. FaultlessInv'  BY DEF Typed, TargetInv, FaultlessInv
  <1>5. MendInv'  BY DEF Typed, TargetInv, MendInv, Mended
  <1> QED  BY <1>2, <1>3, <1>4, <1>5

LEMMA ListFailsInv == ASSUME IInv, ListFails PROVE IInv'
  <1> USE DEF ListFails, Fault, startVars, IInv
  <1>2. Typed'  BY FaultType DEF Typed
  <1>3. TargetInv'  BY DEF Typed, TargetInv
  <1>4. FaultlessInv'  BY DEF Typed, TargetInv, FaultlessInv
  <1>5. MendInv'  BY DEF Typed, TargetInv, MendInv, Mended
  <1> QED  BY <1>2, <1>3, <1>4, <1>5

LEMMA FetchInv == ASSUME IInv, NEW f \in todo, Fetch(f) PROVE IInv'
  <1> USE DEF Fetch, Put, Fault, NoFault, startVars, IInv
  <1>2. Typed'  BY FaultType DEF Typed
  <1>3. TargetInv'  BY DEF Typed, TargetInv
  <1>4. FaultlessInv'  BY DEF Typed, TargetInv, FaultlessInv
  <1>5. MendInv'  BY DEF Typed, TargetInv, MendInv, Mended
  <1> QED  BY <1>2, <1>3, <1>4, <1>5

LEMMA CopyPartInv == ASSUME IInv, CopyPart PROVE IInv'
  <1> USE DEF CopyPart, Put, NoFault, loopVars, startVars, IInv
  <1>2. Typed'  BY DEF Typed
  <1>3. TargetInv'  BY DEF Typed, TargetInv
  <1>4. FaultlessInv'  BY DEF Typed, TargetInv, FaultlessInv
  <1>5. MendInv'  BY DEF Typed, TargetInv, MendInv, Mended
  <1> QED  BY <1>2, <1>3, <1>4, <1>5

LEMMA CopiedInv == ASSUME IInv, Copied PROVE IInv'
  <1> USE DEF Copied, Put, Fault, NoFault, startVars, IInv
  <1>2. Typed'  BY FaultType DEF Typed
  <1>3. TargetInv'  BY DEF Typed, TargetInv
  <1>4. FaultlessInv'  BY DEF Typed, TargetInv, FaultlessInv
  <1>5. MendInv'  BY DEF Typed, TargetInv, MendInv, Mended
  <1> QED  BY <1>2, <1>3, <1>4, <1>5

LEMMA RepoEndsInv == ASSUME IInv, RepoEnds PROVE IInv'
  <1> USE DEF RepoEnds, NoFault, startVars, IInv
  <1>2. Typed'  BY FirstType DEF Typed
  <1>3. TargetInv'  BY DEF Typed, TargetInv
  <1>4. FaultlessInv'  BY DEF Typed, TargetInv, FaultlessInv
  <1>5. MendInv'  BY DEF Typed, TargetInv, MendInv, Mended
  <1> QED  BY <1>2, <1>3, <1>4, <1>5

(* A silent source; the end of a start, and the next one. *)

LEMMA StallInv == ASSUME IInv, Stall PROVE IInv'
  <1> USE DEF Stall, Exists, Fault, loopVars, startVars, IInv
  <1>2. Typed'  BY FaultType DEF Typed
  <1>3. TargetInv'  BY DEF Typed, TargetInv
  <1>4. FaultlessInv'  BY DEF Typed, TargetInv, FaultlessInv
  <1>5. MendInv'  BY DEF Typed, TargetInv, MendInv, Mended
  <1> QED  BY <1>2, <1>3, <1>4, <1>5

LEMMA LoadInv == ASSUME IInv, Load PROVE IInv'
  <1> USE DEF Load, Loadable, NoFault, loopVars, startVars, IInv
  <1>2. Typed'  BY DEF Typed
  <1>3. TargetInv'  BY DEF Typed, TargetInv
  <1>4. FaultlessInv'  BY DEF Typed, TargetInv, FaultlessInv
  <1>5. MendInv'  BY DEF Typed, TargetInv, MendInv, Mended
  <1> QED  BY <1>2, <1>3, <1>4, <1>5

LEMMA RestartInv == ASSUME IInv, Restart PROVE IInv'
  <1> USE DEF Restart, StartAgain, Ended, IInv
  <1>2. Typed'  BY FirstType DEF Typed
  <1>3. TargetInv'  BY DEF Typed, TargetInv
  <1>4. FaultlessInv'  BY DEF Typed, TargetInv, FaultlessInv
  <1>5. MendInv'  BY DEF Typed, TargetInv, MendInv, Mended
  <1> QED  BY <1>2, <1>3, <1>4, <1>5

LEMMA CrashInv == ASSUME IInv, Crash PROVE IInv'
  <1> USE DEF Crash, StartAgain, Ended, IInv
  <1>1. faults' \in 0 .. MaxFaults  BY DEF Typed
  <1>2. Typed'  BY <1>1, FirstType DEF Typed
  <1>3. TargetInv'  BY DEF Typed, TargetInv
  <1>4. FaultlessInv'  BY DEF Typed, TargetInv, FaultlessInv
  <1>5. MendInv'  BY DEF Typed, TargetInv, MendInv, Mended
  <1> QED  BY <1>2, <1>3, <1>4, <1>5

LEMMA StepInv == ASSUME IInv, [Next]_vars PROVE IInv'
  <1>1. CASE Archive
    BY <1>1, LibsThereInv, LibsDownloadInv, LibsCreateInv, LibsCopyInv, FFmpegThereInv,
       FFmpegDownloadInv, FFmpegCreateInv, FFmpegCopyInv DEF Archive
  <1>2. CASE Models
    BY <1>2, ModelsThereInv, ModelsMissingInv, ListInv, ListFailsInv, FetchInv, CopyPartInv,
       CopiedInv, RepoEndsInv DEF Models
  <1>3. CASE Load \/ Stall \/ Restart \/ Crash  BY <1>3, LoadInv, StallInv, RestartInv, CrashInv
  <1>4. CASE UNCHANGED vars
    BY <1>4 DEF vars, IInv, Typed, TargetInv, FaultlessInv, MendInv, Mended
  <1> QED  BY <1>1, <1>2, <1>3, <1>4 DEF Next

LEMMA Invariance == Spec => []IInv
  BY InitInv, StepInv, PTL DEF Spec

----------------------------------------------------------------------------
(* What follows from it. *)

(* The variables keep their types; without a fault, the only file that is neither absent *)
(* nor whole is the one being written (all of deps.go that writes to the disk).          *)
THEOREM TypeCorrect == Spec => []TypeOK
  <1>1. ASSUME IInv PROVE TypeOK
    BY <1>1 DEF IInv, Typed, TargetInv, FaultlessInv, TypeOK
  <1> QED  BY <1>1, Invariance, PTL

(* No step of any start opens a complete file for writing (deps.go:373 skips files that *)
(* are not empty, the archives' files are only written if absent).                      *)
THEOREM WholeFilesStay == Spec => WholeStaysWhole
  <1>1. ASSUME IInv, [Next]_vars, NEW f \in AllFiles, disk[f] = "whole" PROVE disk'[f] = "whole"
    <2> USE DEF IInv, Typed, TargetInv
    <2>1. CASE Archive
      BY <1>1, <2>1 DEF Archive, LibsThere, LibsDownload, LibsCreate, LibsCopy, FFmpegThere,
         FFmpegDownload, FFmpegCreate, FFmpegCopy, Put
    <2>2. CASE Models
      BY <1>1, <2>2 DEF Models, ModelsThere, ModelsMissing, List, ListFails, Fetch, CopyPart,
         Copied, RepoEnds, Put
    <2>3. CASE Load \/ Stall \/ Restart \/ Crash \/ UNCHANGED vars
      BY <1>1, <2>3 DEF Load, Stall, Restart, Crash, vars
    <2> QED  BY <1>1, <2>1, <2>2, <2>3 DEF Next
  <1>2. ASSUME IInv, [Next]_vars
        PROVE  [\A f \in AllFiles : disk[f] = "whole" => disk'[f] = "whole"]_disk
    BY <1>1, <1>2
  <1> QED  BY <1>2, Invariance, PTL DEF Spec, WholeStaysWhole

(* Only a fault makes a start fail, and a start without one that asks for the listings *)
(* mends every model file except those that were cut off in the middle (EnsureModels,  *)
(* downloadHFRepo).                                                                    *)
THEOREM StartsMend == Spec => []StartMends
  <1>1. ASSUME IInv PROVE ErrorNeedsFault  BY <1>1 DEF IInv, Typed, FaultlessInv, ErrorNeedsFault
  <1>2. ASSUME IInv PROVE RestartCompletes
    BY <1>2 DEF IInv, MendInv, Mended, RestartCompletes
  <1> QED  BY <1>1, <1>2, Invariance, PTL DEF StartMends
=============================================================================

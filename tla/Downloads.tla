------------------------------- MODULE Downloads -------------------------------
(***************************************************************************)
(* What the start of the program downloads, and what it makes of what an   *)
(* earlier start has left (src/pkg/deps/deps.go): the library and FFmpeg   *)
(* from archives, the models file by file from one of two sources.         *)
(*                                                                         *)
(* A source may refuse, break off, or accept and then say nothing more: no *)
(* request has a time-out once the connection is made.                     *)
(*                                                                         *)
(* A file is absent, empty, partial or whole.  The program never asks      *)
(* whether a file is whole: the library, FFmpeg and the manifest count if  *)
(* they exist, a model file if it is not empty.  Whether all is there      *)
(* shows when the pool loads it.                                           *)
(***************************************************************************)
EXTENDS Naturals

CONSTANTS
  Lib, FFmpeg, \* what the two archives are for
  TTSFiles,    \* the set of the files of the TTS repository
  CodecFiles,  \* the set of the files of the codec repository
  Manifest,    \* the file of TTSFiles that tells EnsureModels that the models are there
  UseMirror,   \* the mirror is asked first
  MaxFaults    \* bound of the model on failures, silent sources and crashes

Files(repo) == IF repo = "TTS" THEN TTSFiles ELSE CodecFiles
ModelFiles == TTSFiles \cup CodecFiles
AllFiles == ModelFiles \cup {Lib, FFmpeg}

ASSUME DownloadAssumption ==
  /\ Manifest \in TTSFiles
  /\ Lib # FFmpeg /\ {Lib, FFmpeg} \cap ModelFiles = {}
  /\ TTSFiles \cap CodecFiles = {}
  /\ UseMirror \in BOOLEAN /\ MaxFaults \in Nat

VARIABLES
  pc,      \* where the start is
  disk,    \* [AllFiles -> "absent", "empty", "partial" or "whole"]
  repo,    \* the repository that is downloaded: "TTS" or "Codec"
  source,  \* where from: "mirror" or "default"
  todo,    \* the files downloadHFRepo has still to download, in the order of a listing that
           \* the server chooses
  file,    \* the one of todo that is downloaded
  faults,  \* failures, silent sources and crashes so far
  clean,   \* history: no fault in this start
  asked,   \* history: this start has listed the repositories
  damaged  \* history: the files that were partial when this start began

vars == <<pc, disk, repo, source, todo, file, faults, clean, asked, damaged>>
loopVars == <<repo, source, todo, file>>
startVars == <<asked, damaged>>

Exists(f) == disk[f] # "absent"
First == IF UseMirror THEN "mirror" ELSE "default"

Init ==
  /\ pc = "libs" /\ disk = [f \in AllFiles |-> "absent"]
  /\ repo = "TTS" /\ source = First /\ todo = {} /\ file = Manifest
  /\ faults = 0 /\ clean = TRUE /\ asked = FALSE /\ damaged = {}

Fault == faults < MaxFaults /\ faults' = faults + 1 /\ clean' = FALSE
NoFault == UNCHANGED <<faults, clean>>
Put(f, how) == disk' = [disk EXCEPT ![f] = how]

----------------------------------------------------------------------------
(* EnsureNativeLibs and EnsureFFmpeg: an archive is downloaded to a temporary file that *)
(* does not outlive the call, and files of it are extracted in place.  Lib stands for   *)
(* the one that findOrtLib asks for; the loop extracts the others, for which nobody     *)
(* asks, in the same way.                                                               *)

LibsThere == pc = "libs" /\ Exists(Lib) /\ pc' = "ffmpeg" /\ NoFault
             /\ UNCHANGED <<disk, loopVars, startVars>>

LibsDownload ==
  /\ pc = "libs" /\ ~Exists(Lib)
  /\ \/ pc' = "libs_create" /\ NoFault
     \/ pc' = "failed" /\ Fault
  /\ UNCHANGED <<disk, loopVars, startVars>>

(* os.Create of an archive's file fails: the file is passed over, and missed afterwards. *)
LibsCreate ==
  /\ pc = "libs_create"
  /\ \/ Put(Lib, "empty") /\ pc' = "libs_copy" /\ NoFault
     \/ pc' = "failed" /\ Fault /\ UNCHANGED disk
  /\ UNCHANGED <<loopVars, startVars>>

(* The copy breaks off: what there is stays.  Either the archive is damaged, which ends *)
(* the extraction with an error, or it goes on with the next file.                      *)
LibsCopy ==
  /\ pc = "libs_copy"
  /\ \/ Put(Lib, "whole") /\ pc' = "ffmpeg" /\ NoFault
     \/ Put(Lib, "partial") /\ pc' \in {"ffmpeg", "failed"} /\ Fault
  /\ UNCHANGED <<loopVars, startVars>>

FFmpegThere == pc = "ffmpeg" /\ Exists(FFmpeg) /\ pc' = "models" /\ NoFault
               /\ UNCHANGED <<disk, loopVars, startVars>>

(* Whatever goes wrong with FFmpeg, the start goes on. *)
FFmpegDownload ==
  /\ pc = "ffmpeg" /\ ~Exists(FFmpeg)
  /\ \/ pc' = "ffmpeg_create" /\ NoFault
     \/ pc' = "models" /\ Fault
  /\ UNCHANGED <<disk, loopVars, startVars>>

FFmpegCreate ==
  /\ pc = "ffmpeg_create"
  /\ \/ Put(FFmpeg, "empty") /\ pc' = "ffmpeg_copy" /\ NoFault
     \/ pc' = "models" /\ Fault /\ UNCHANGED disk
  /\ UNCHANGED <<loopVars, startVars>>

FFmpegCopy ==
  /\ pc = "ffmpeg_copy" /\ pc' = "models"
  /\ \/ Put(FFmpeg, "whole") /\ NoFault
     \/ Put(FFmpeg, "partial") /\ Fault
  /\ UNCHANGED <<loopVars, startVars>>

----------------------------------------------------------------------------
(* EnsureModels *)

ModelsThere == pc = "models" /\ Exists(Manifest) /\ pc' = "load" /\ NoFault
               /\ UNCHANGED <<disk, loopVars, startVars>>

ModelsMissing ==
  /\ pc = "models" /\ ~Exists(Manifest)
  /\ pc' = "list" /\ repo' = "TTS" /\ source' = First
  /\ NoFault /\ UNCHANGED <<disk, todo, file, startVars>>

(* Mutant: downloadHFRepo takes all files again. *)
Everything(files) == files

(* Mutant: the size is not looked at. *)
MissingAbsent(files) == {f \in files : disk[f] = "absent"}

Missing(files) == {f \in files : disk[f] \in {"absent", "empty"}}

List ==
  /\ pc = "list"
  /\ todo' = Missing(Files(repo)) /\ pc' = "fetch" /\ asked' = TRUE
  /\ NoFault /\ UNCHANGED <<disk, repo, source, file, damaged>>

(* Mutant: the mirror is asked again and again. *)
ListFailsForGood ==
  /\ pc = "list"
  /\ pc' = "list" /\ source' = IF source = "mirror" THEN "default" ELSE "mirror"
  /\ NoFault /\ UNCHANGED <<disk, repo, todo, file, startVars>>

ListFails ==
  /\ pc = "list" /\ Fault
  /\ \/ source = "mirror" /\ source' = "default" /\ UNCHANGED pc
     \/ source = "default" /\ pc' = "failed" /\ UNCHANGED source
  /\ UNCHANGED <<disk, repo, todo, file, startVars>>

(* downloadFileTracked, for the next file of the listing; a failure is only logged. *)
Fetch(f) ==
  /\ pc = "fetch" /\ f \in todo /\ file' = f
  /\ \/ Put(f, "empty") /\ pc' = "copy" /\ NoFault /\ UNCHANGED todo
     \/ todo' = todo \ {f} /\ Fault /\ UNCHANGED <<pc, disk>>
  /\ UNCHANGED <<repo, source, startVars>>

CopyPart ==
  /\ pc = "copy" /\ disk[file] = "empty"
  /\ Put(file, "partial")
  /\ NoFault /\ UNCHANGED <<pc, loopVars, startVars>>

Copied ==
  /\ pc = "copy"
  /\ \/ Put(file, "whole") /\ NoFault
     \/ Fault /\ UNCHANGED disk
  /\ todo' = todo \ {file} /\ pc' = "fetch"
  /\ UNCHANGED <<repo, source, file, startVars>>

RepoEnds ==
  /\ pc = "fetch" /\ todo = {}
  /\ \/ repo = "TTS" /\ repo' = "Codec" /\ source' = First /\ pc' = "list"
     \/ repo = "Codec" /\ pc' = "load" /\ UNCHANGED <<repo, source>>
  /\ NoFault /\ UNCHANGED <<disk, todo, file, startVars>>

(* client.Get or a read of the body waits for a source that has fallen silent: for an *)
(* archive, a listing, or the answer or the rest of a file.                           *)
Stall ==
  /\ \/ pc = "libs" /\ ~Exists(Lib)
     \/ pc = "ffmpeg" /\ ~Exists(FFmpeg)
     \/ pc = "fetch" /\ todo # {}
     \/ pc \in {"list", "copy"}
  /\ pc' = "stalled" /\ Fault
  /\ UNCHANGED <<disk, loopVars, startVars>>

----------------------------------------------------------------------------
(* The pool loads the library and the models, which fails for what is not whole. *)
Loadable == \A f \in ModelFiles \cup {Lib} : disk[f] = "whole"

Load ==
  /\ pc = "load" /\ pc' = IF Loadable THEN "ready" ELSE "error"
  /\ NoFault /\ UNCHANGED <<disk, loopVars, startVars>>

StartAgain ==
  /\ pc' = "libs" /\ repo' = "TTS" /\ source' = First /\ todo' = {} /\ UNCHANGED file
  /\ asked' = FALSE
  /\ damaged' = {f \in AllFiles : disk[f] = "partial"}

Ended == {"ready", "failed", "error"}

(* The program is stopped and started again; or it dies. *)
Restart ==
  /\ pc \in Ended \cup {"stalled"}
  /\ StartAgain /\ clean' = TRUE /\ UNCHANGED <<disk, faults>>

Crash ==
  /\ pc \notin Ended \cup {"stalled"} /\ faults < MaxFaults /\ faults' = faults + 1
  /\ StartAgain /\ clean' = TRUE /\ UNCHANGED disk

Archive ==
  \/ LibsThere \/ LibsDownload \/ LibsCreate \/ LibsCopy
  \/ FFmpegThere \/ FFmpegDownload \/ FFmpegCreate \/ FFmpegCopy

Models ==
  \/ ModelsThere \/ ModelsMissing \/ List \/ ListFails
  \/ (\E f \in todo : Fetch(f)) \/ CopyPart \/ Copied \/ RepoEnds

Next == Archive \/ Models \/ Load \/ Stall \/ Restart \/ Crash

Spec == Init /\ [][Next]_vars

(* A start goes on unless it waits for a silent source; nothing is assumed of restarts, *)
(* nor of a source that it speaks again.                                               *)
FairSpec == Spec /\ WF_vars(Archive \/ Models \/ Load)

----------------------------------------------------------------------------
(* Properties *)

(* The values the variables may have; only the file that is written right now, or that a *)
(* fault has left, is neither absent nor whole.                                          *)
TypeOK ==
  /\ pc \in {"libs", "libs_create", "libs_copy", "ffmpeg", "ffmpeg_create", "ffmpeg_copy", "models",
             "list", "fetch", "copy", "stalled", "load", "ready", "failed", "error"}
  /\ disk \in [AllFiles -> {"absent", "empty", "partial", "whole"}]
  /\ repo \in {"TTS", "Codec"} /\ source \in {"mirror", "default"}
  /\ todo \subseteq Files(repo) /\ file \in ModelFiles
  /\ faults \in 0 .. MaxFaults /\ clean \in BOOLEAN /\ asked \in BOOLEAN /\ damaged \subseteq AllFiles
  /\ faults = 0 => \A f \in AllFiles :
       disk[f] \in {"empty", "partial"} =>
         f = CASE pc = "libs_copy" -> Lib [] pc = "ffmpeg_copy" -> FFmpeg [] OTHER -> file

(* A file that was downloaded completely is never opened for writing again, by this *)
(* start or a later one, whatever has failed in between.                            *)
WholeStaysWhole == [][\A f \in AllFiles : disk[f] = "whole" => disk'[f] = "whole"]_disk

(* A program that was never interrupted starts: an error needs a fault, this time or *)
(* before.                                                                           *)
ErrorNeedsFault == pc \in {"failed", "error"} => faults > 0

(* A start without a fault that asks for the listings mends what earlier ones have  *)
(* left, except for files that were cut off in the middle.                          *)
RestartCompletes ==
  clean /\ asked /\ pc \in {"load", "ready", "error"} =>
    \A f \in ModelFiles : disk[f] = "whole" \/ f \in damaged

(* A start that meets no fault succeeds as far as earlier faults allow. *)
StartMends == ErrorNeedsFault /\ RestartCompletes

(* Every start comes to an end, whichever source fails and however often, unless one *)
(* that has accepted a request falls silent: that holds the start for ever.          *)
StartEnds == pc = "libs" ~> pc \in Ended \cup {"stalled"}

----------------------------------------------------------------------------
(* What messages in the code say and the code does not do *)

(* deps.go:290 "the models are ready" when the manifest exists, and main.go:265 "all *)
(* dependencies and models are downloaded": other files may be missing or cut off.   *)
ReadyMeansComplete == pc = "load" => \A f \in ModelFiles : disk[f] = "whole"

(* deps.go:300 "downloading from the mirror failed, trying the default source": not if *)
(* the mirror accepts the request and then says nothing.                               *)
SilentSourceGivenUp == pc = "stalled" ~> pc # "stalled"
=============================================================================

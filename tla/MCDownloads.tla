---------------------------- MODULE MCDownloads ----------------------------
(* Small instances of Downloads for TLC. *)
EXTENDS Downloads

CONSTANTS lib, ff, manifest, model, codec

MCTTSFiles == {manifest, model}
MCCodecFiles == {codec}
=============================================================================

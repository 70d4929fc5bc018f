---------------------------- MODULE MCVoiceIntake ----------------------------
(* Small instances of VoiceIntake: up to two captures. *)
EXTENDS VoiceIntake

CONSTANTS c1, c2
=============================================================================

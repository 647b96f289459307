------------------------- MODULE MCTeamSyncStateFile -------------------------
(* Instances of TeamSyncStateFile for TLC. *)
EXTENDS TeamSyncStateFile, TLC

CONSTANTS c, d

Keys == Permutations({c, d})

=============================================================================

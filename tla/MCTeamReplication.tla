-------------------------- MODULE MCTeamReplication --------------------------
(***************************************************************************)
(* Instances of TeamReplication for TLC.                                   *)
(***************************************************************************)
EXTENDS TeamReplication, TLC

CONSTANTS a, b, task, conf, msg

OneWriter  == [o \in Object |-> {a}]
TwoWriters == [o \in Object |-> {a, b}]
Peers      == Permutations({a, b})

==============================================================================

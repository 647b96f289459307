------------------------- MODULE ReplicatedRegister -------------------------
(***************************************************************************)
(* What replication promises for objects that one node edits: every other  *)
(* copy holds a version that node wrote, and only ever moves forward.      *)
(***************************************************************************)
EXTENDS Naturals

CONSTANTS Node, Object,
  Version, \* positive numbers
  Owner    \* Owner[o]: the node at which o is edited

VARIABLES
  written,  \* versions written, as <<object, version>>
  copy      \* version each node holds, 0 when it has none

rvars == <<written, copy>>

RInit ==
  /\ written = {}
  /\ copy = [n \in Node |-> [o \in Object |-> 0]]

Write(o, v) ==
  /\ v > copy[Owner[o]][o]
  /\ \A w \in written : w[1] = o => w[2] < v
  /\ written' = written \cup {<<o, v>>}
  /\ copy' = [copy EXCEPT ![Owner[o]][o] = v]

Adopt(n, o, v) ==
  /\ n # Owner[o]
  /\ <<o, v>> \in written
  /\ v > copy[n][o]
  /\ copy' = [copy EXCEPT ![n][o] = v]
  /\ UNCHANGED written

RNext ==
  \/ \E o \in Object, v \in Version : Write(o, v)
  \/ \E n \in Node, o \in Object, v \in Version : Adopt(n, o, v)

RSpec == RInit /\ [][RNext]_rvars

=============================================================================

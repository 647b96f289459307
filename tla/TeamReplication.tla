--------------------------- MODULE TeamReplication ---------------------------
(***************************************************************************)
(* The receiving side of team replication: ApplyReplicatedSync of          *)
(* internal/aip2p/team/sync.go on every node, and the network between      *)
(* them.  Versioned objects (tasks, artifacts, policies, channels, channel *)
(* configurations) travel as whole snapshots and the newer version wins;   *)
(* deletions travel as history events; messages are appended once.         *)
(*                                                                         *)
(* GossipSub may lose, repeat, delay and reorder: `net` keeps everything   *)
(* ever published and each node handles any of it, any number of times or  *)
(* never.  Every Apply function first READS the store and then writes it   *)
(* under the team lock without reading again, so a handler is two steps    *)
(* and the users of the node, or a handler that outlived its timeout, may  *)
(* write in between.                                                       *)
(***************************************************************************)
EXTENDS Naturals, FiniteSets

CONSTANTS
  Node, Object, Message,
  Writers,      \* Writers[o]: the nodes whose users edit o
  Deletable,    \* objects that can be deleted (tasks, artifacts)
  Restamped,    \* objects stored under the receiver's clock (channel configurations)
  EditsOverlap, \* TRUE when two users of a node may edit the same object at once
  MaxVersion,   \* bound on the version stamps given
  MaxHandlers,  \* handlers running at once on a node: 1 unless one timed out
  MaxCrashes    \* bound on the crashes of all nodes together

ASSUME ReplicationAssumption ==
  /\ Writers \in [Object -> SUBSET Node]
  /\ Deletable \subseteq Object /\ Restamped \subseteq Object
  /\ EditsOverlap \in BOOLEAN
  /\ MaxVersion \in Nat /\ MaxHandlers \in Nat \ {0} /\ MaxCrashes \in Nat

VARIABLES
  rec,       \* rec[n][o]: version of o in the store of n, 0 when absent
  hist,      \* hist[n]: deletion events in the history of n
  copies,    \* copies[n][m]: how often message m is in the channel of n
  drafts,    \* drafts[n]: edits stamped by a handler of n and not saved yet
  unlogged,  \* deletions of a user whose history event is not written yet
  net,       \* everything published
  handling,  \* handling[n]: the handlers that decided to write, as <<envelope, step, number>>
  handled,   \* handled[n]: envelopes a handler of n is done with
  clock,     \* latest version stamp given by any node's clock
  edits,     \* <<object, version>> saved by users
  crashes

vars == <<rec, hist, copies, drafts, unlogged, net, handling, handled, clock, edits, crashes>>

-----------------------------------------------------------------------------
Snapshot == [type : {"snapshot"}, obj : Object, ver : 1..MaxVersion, src : Node]
Deletion == [type : {"deletion"}, obj : Object, ver : 1..MaxVersion, src : Node]
Posting  == [type : {"message"}, msg : Message, src : Node]
Envelope == Snapshot \cup Deletion \cup Posting

Event == [obj : Object, ver : 1..MaxVersion]
EditDraft == [obj : Object, ver : 1..MaxVersion, new : BOOLEAN]
EventOf(e) == [obj |-> e.obj, ver |-> e.ver]

\* time.Now() on any node, told apart by order only: the clocks of the nodes agree, and
\* no two writes get the same instant.
Now == clock + 1

Tick ==
  /\ clock < MaxVersion
  /\ clock' = Now

-----------------------------------------------------------------------------
(* Users of a node, through its HTTP API.                                  *)

\* handleTeamTaskUpdate and its like stamp the object with the clock of the node ...
Draft(n, o) ==
  /\ n \in Writers[o] /\ o \notin Restamped
  /\ EditsOverlap \/ \A d \in drafts[n] : d.obj # o
  /\ Tick
  /\ drafts' = [drafts EXCEPT ![n] = @ \cup {[obj |-> o, ver |-> Now, new |-> rec[n][o] = 0]}]
  /\ UNCHANGED <<rec, hist, copies, unlogged, net, handling, handled, edits, crashes>>

\* ... and then save it under the team lock, whatever the store holds by now: an update
\* fails only when the object is gone.
Save(n, d) ==
  /\ drafts' = [drafts EXCEPT ![n] = @ \ {d}]
  /\ IF d.new \/ rec[n][d.obj] # 0
     THEN /\ rec' = [rec EXCEPT ![n][d.obj] = d.ver]
          /\ edits' = edits \cup {<<d.obj, d.ver>>}
     ELSE UNCHANGED <<rec, edits>>
  /\ UNCHANGED <<hist, copies, unlogged, net, handling, handled, clock, crashes>>

\* saveChannelConfigNoCtx stamps under the lock.
SaveConfig(n, o) ==
  /\ n \in Writers[o] /\ o \in Restamped
  /\ Tick
  /\ rec' = [rec EXCEPT ![n][o] = Now]
  /\ edits' = edits \cup {<<o, Now>>}
  /\ UNCHANGED <<hist, copies, drafts, unlogged, net, handling, handled, crashes>>

\* handleTeamTaskDelete deletes first and then appends the event.
Delete(n, o) ==
  /\ n \in Writers[o] /\ o \in Deletable /\ rec[n][o] # 0
  /\ rec' = [rec EXCEPT ![n][o] = 0]
  /\ unlogged' = unlogged \cup {<<n, o>>}
  /\ UNCHANGED <<hist, copies, drafts, net, handling, handled, clock, edits, crashes>>

LogDeletion(n, o) ==
  /\ <<n, o>> \in unlogged
  /\ Tick
  /\ unlogged' = unlogged \ {<<n, o>>}
  /\ hist' = [hist EXCEPT ![n] = @ \cup {[obj |-> o, ver |-> Now]}]
  /\ UNCHANGED <<rec, copies, drafts, net, handling, handled, edits, crashes>>

Post(n, m) ==
  /\ \A k \in Node : copies[k][m] = 0
  /\ copies' = [copies EXCEPT ![n][m] = 1]
  /\ UNCHANGED <<rec, hist, drafts, unlogged, net, handling, handled, clock, edits, crashes>>

-----------------------------------------------------------------------------
(* Publishing: the scan sends what the store holds, when it was not seen,  *)
(* when it was not acked, and again when the seen set has forgotten it.    *)

PublishObject(n, o) ==
  /\ rec[n][o] # 0
  /\ net' = net \cup {[type |-> "snapshot", obj |-> o, ver |-> rec[n][o], src |-> n]}
  /\ UNCHANGED <<rec, hist, copies, drafts, unlogged, handling, handled, clock, edits, crashes>>

PublishHistory(n) ==
  /\ \E d \in hist[n] :
       net' = net \cup {[type |-> "deletion", obj |-> d.obj, ver |-> d.ver, src |-> n]}
  /\ UNCHANGED <<rec, hist, copies, drafts, unlogged, handling, handled, clock, edits, crashes>>

PublishMessage(n, m) ==
  /\ copies[n][m] > 0
  /\ net' = net \cup {[type |-> "message", msg |-> m, src |-> n]}
  /\ UNCHANGED <<rec, hist, copies, drafts, unlogged, handling, handled, clock, edits, crashes>>

-----------------------------------------------------------------------------
(* Handling.                                                               *)

\* Mutant: the version test is dropped and every snapshot is applied.
AcceptsAny(n, e) == e.ver > 0

\* replicatedVersionAfter; a channel configuration equal to the stored one passes too.
Accepts(n, e) ==
  \/ e.ver > rec[n][e.obj]
  \/ e.obj \in Restamped /\ e.ver = rec[n][e.obj]

\* Mutant: HasMessageID and HasHistoryEventID are not asked.
WantedAgain(n, e) == e.type = "snapshot" => Accepts(n, e)

\* Mutant: the deletion of an object this node does not hold is skipped.
WantedIfHeld(n, e) ==
  \/ e.type = "snapshot" /\ Accepts(n, e)
  \/ e.type = "deletion" /\ EventOf(e) \notin hist[n] /\ rec[n][e.obj] # 0
  \/ e.type = "message" /\ copies[n][e.msg] = 0

Wanted(n, e) ==
  \/ e.type = "snapshot" /\ Accepts(n, e)
  \/ e.type = "deletion" /\ EventOf(e) \notin hist[n]
  \/ e.type = "message" /\ copies[n][e.msg] = 0

\* A handler of e starts at n. An envelope that is delivered again while a handler of it
\* is under way (it outlived pubsubHandlerTimeout) gets a handler of its own.
Start(n, e) ==
  \E i \in 1..MaxHandlers :
    /\ \A h \in handling[n] : h[1] = e => h[3] # i
    /\ \A j \in 1..(i - 1) : \E h \in handling[n] : h[1] = e /\ h[3] = j
    /\ handling' = [handling EXCEPT ![n] = @ \cup {<<e, "apply", i>>}]

\* Mutant: an envelope is remembered as done before it is applied.
ReceiveOnce(n, e) ==
  /\ e.src # n /\ e \notin handled[n]
  /\ Cardinality(handling[n]) < MaxHandlers
  /\ handled' = [handled EXCEPT ![n] = @ \cup {e}]
  /\ IF Wanted(n, e) THEN Start(n, e) ELSE UNCHANGED handling
  /\ UNCHANGED <<rec, hist, copies, drafts, unlogged, net, clock, edits, crashes>>

\* The handler of n is called with e and reads the store: it goes on or skips e.
Receive(n, e) ==
  /\ e.src # n
  /\ Cardinality(handling[n]) < MaxHandlers
  /\ IF Wanted(n, e)
     THEN Start(n, e) /\ UNCHANGED handled
     ELSE /\ handled' = [handled EXCEPT ![n] = @ \cup {e}]
          /\ UNCHANGED handling
  /\ UNCHANGED <<rec, hist, copies, drafts, unlogged, net, clock, edits, crashes>>

Finish(n, h, step) ==
  /\ h \in handling[n] /\ h[2] = step
  /\ handling' = [handling EXCEPT ![n] = @ \ {h}]
  /\ handled' = [handled EXCEPT ![n] = @ \cup {h[1]}]

\* Mutant: every object keeps the version it came with.
StoredAsSent(n, e) == e.ver

\* saveChannelConfigNoCtx overwrites UpdatedAt; the other objects keep their version.
Stored(n, e) == IF e.obj \in Restamped THEN Now ELSE e.ver

\* upsertReplicatedTask and its like: the snapshot replaces what is there by now.
ApplySnapshot(n, h) ==
  LET e == h[1]
  IN  /\ e.type = "snapshot"
      /\ Finish(n, h, "apply")
      /\ rec' = [rec EXCEPT ![n][e.obj] = Stored(n, e)]
      /\ IF Stored(n, e) = Now THEN Tick ELSE UNCHANGED clock
      /\ UNCHANGED <<hist, copies, drafts, unlogged, net, edits, crashes>>

\* A handler goes on from the history to the object.
Proceed(n, h) ==
  /\ h \in handling[n] /\ h[2] = "apply" /\ h[1].type = "deletion"
  /\ handling' = [handling EXCEPT ![n] = (@ \ {h}) \cup {<<h[1], "delete", h[3]>>}]
  /\ UNCHANGED <<rec, copies, drafts, unlogged, net, handled, clock, edits, crashes>>

\* Mutant: the object is deleted before the event is in the history.
ApplyEventLate(n, h) == Proceed(n, h) /\ UNCHANGED hist

\* ApplyReplicatedHistory appends the event, then deletes the object.
ApplyEvent(n, h) ==
  /\ Proceed(n, h)
  /\ hist' = [hist EXCEPT ![n] = @ \cup {EventOf(h[1])}]

ApplyDeletion(n, h) ==
  /\ Finish(n, h, "delete")
  /\ rec' = [rec EXCEPT ![n][h[1].obj] = 0]
  /\ UNCHANGED <<hist, copies, drafts, unlogged, net, clock, edits, crashes>>

ApplyMessage(n, h) ==
  /\ h[1].type = "message"
  /\ Finish(n, h, "apply")
  /\ copies' = [copies EXCEPT ![n][h[1].msg] = @ + 1]
  /\ UNCHANGED <<rec, hist, drafts, unlogged, net, clock, edits, crashes>>

\* The processes of n stop: handlers, drafts and half-done deletions are lost, files stay.
Crash(n) ==
  /\ crashes < MaxCrashes
  /\ crashes' = crashes + 1
  /\ handling' = [handling EXCEPT ![n] = {}]
  /\ drafts' = [drafts EXCEPT ![n] = {}]
  /\ unlogged' = {d \in unlogged : d[1] # n}
  /\ UNCHANGED <<rec, hist, copies, net, handled, clock, edits>>

-----------------------------------------------------------------------------
Init ==
  /\ rec = [n \in Node |-> [o \in Object |-> 0]]
  /\ hist = [n \in Node |-> {}]
  /\ copies = [n \in Node |-> [m \in Message |-> 0]]
  /\ drafts = [n \in Node |-> {}]
  /\ unlogged = {}
  /\ net = {}
  /\ handling = [n \in Node |-> {}]
  /\ handled = [n \in Node |-> {}]
  /\ clock = 0
  /\ edits = {}
  /\ crashes = 0

\* Handlers alike in all but their number are interchangeable: the last of them goes first.
Apply(n) ==
  \E h \in handling[n] :
    /\ \A g \in handling[n] : g[1] = h[1] /\ g[2] = h[2] => g[3] <= h[3]
    /\ \/ ApplySnapshot(n, h) \/ ApplyEvent(n, h)
       \/ ApplyDeletion(n, h) \/ ApplyMessage(n, h)

Next ==
  \/ \E n \in Node, o \in Object :
       Draft(n, o) \/ SaveConfig(n, o) \/ Delete(n, o) \/ LogDeletion(n, o) \/ PublishObject(n, o)
  \/ \E n \in Node, m \in Message : Post(n, m) \/ PublishMessage(n, m)
  \/ \E n \in Node : PublishHistory(n) \/ Apply(n) \/ Crash(n)
  \/ \E n \in Node : (\E d \in drafts[n] : Save(n, d)) \/ (\E e \in net : Receive(n, e))

Spec == Init /\ [][Next]_vars

\* The scan publishes what it holds, and pruneSeen makes it publish again every half
\* hour, so a current snapshot or a message is handled again and again by every peer
\* that stays connected; a handler that was started ends.
FairSpec ==
  /\ Spec
  /\ \A n \in Node, o \in Object : WF_vars(PublishObject(n, o))
  /\ \A n \in Node, m \in Message : WF_vars(PublishMessage(n, m))
  /\ \A n \in Node : WF_vars(Apply(n))
  /\ \A n, k \in Node, o \in Object :
       SF_vars(\E e \in net : e.src = k /\ e.type = "snapshot" /\ e.obj = o
                              /\ e.ver = rec[k][o] /\ Receive(n, e))
  /\ \A n, k \in Node, m \in Message :
       SF_vars(\E e \in net : e.src = k /\ e.type = "message" /\ e.msg = m /\ Receive(n, e))

-----------------------------------------------------------------------------
TypeOK ==
  /\ rec \in [Node -> [Object -> 0..MaxVersion]]
  /\ hist \in [Node -> SUBSET Event]
  /\ copies \in [Node -> [Message -> Nat]]
  /\ drafts \in [Node -> SUBSET EditDraft]
  /\ unlogged \subseteq Node \X Object
  /\ net \subseteq Envelope
  /\ handling \in [Node -> SUBSET (   (Envelope \X {"apply"} \X (1..MaxHandlers))
                                  \cup (Deletion \X {"delete"} \X (1..MaxHandlers)))]
  /\ handled \in [Node -> SUBSET Envelope]
  /\ clock \in 0..MaxVersion
  /\ edits \subseteq Object \X (1..MaxVersion)
  /\ crashes \in 0..MaxCrashes

\* Nothing is under way: every node has published what it holds, and has handled
\* everything published by the others.
Quiet ==
  /\ unlogged = {}
  /\ \A n \in Node :
       /\ handling[n] = {} /\ drafts[n] = {}
       /\ \A e \in net : e.src # n => e \in handled[n]
       /\ \A o \in Object : rec[n][o] # 0 =>
            [type |-> "snapshot", obj |-> o, ver |-> rec[n][o], src |-> n] \in net
       /\ \A d \in hist[n] :
            [type |-> "deletion", obj |-> d.obj, ver |-> d.ver, src |-> n] \in net
       /\ \A m \in Message : copies[n][m] > 0 => [type |-> "message", msg |-> m, src |-> n] \in net

\* Objects edited on one node by one user at a time, one handler at a time, nothing deleted
\* or restamped.
SingleWriter ==
  /\ ~EditsOverlap /\ MaxHandlers = 1 /\ Deletable = {} /\ Restamped = {}
  /\ \A o \in Object : \E n \in Node : Writers[o] = {n}

Owner == [o \in Object |-> CHOOSE n \in Node : n \in Writers[o]]

Register == INSTANCE ReplicatedRegister WITH
  Version <- 1..MaxVersion, written <- edits, copy <- rec

\* The copies of an object edited on one node are a replicated register: each one holds
\* a version its user wrote there, or none, and only moves forward.
IsRegister == Register!RSpec

\* ApplyReplicatedMessage asks HasMessageID outside the lock it appends under, every peer
\* relays a message and pruneSeen sends it again: a message is in the log of a channel at
\* most as often as handlers can be under way at once, so only once as long as no handler
\* outlives its timeout, and each further copy takes a handler that did.
OneCopyPerHandler == \A n \in Node, m \in Message : copies[n][m] <= MaxHandlers

\* Last writer wins: when nothing is under way no node holds less than the newest edit.
LastWriterWins ==
  Quiet => \A n \in Node : \A w \in edits : rec[n][w[1]] >= w[2]

\* The stamp under the lock buys this: the version of a channel configuration in a store
\* never goes back, not even when a handler that read the store long ago writes at last,
\* so the checkpoint of the publishing scan never passes a version it has yet to send.
ConfigNeverRollsBack ==
  [][\A n \in Node, o \in Restamped : rec'[n][o] >= rec[n][o]]_vars

\* The histories converge too: a deletion logged anywhere is known everywhere when nothing
\* is under way, also on nodes that never held the object (HasHistoryEventID).
HistoryAgrees == Quiet => \A n, k \in Node : hist[n] = hist[k]

\* An object disappears from a node only after its deletion is in the history of that
\* node, or by the hand of a user of that node whose event is still to be logged.
LossIsRecorded ==
  [][\A n \in Node, o \in Object :
       rec[n][o] # 0 /\ rec'[n][o] = 0 =>
         <<n, o>> \in unlogged' \/ \E d \in hist[n] : d.obj = o]_vars

\* Every edit and every message reaches every node: the copies end up equal and no older
\* than any edit, whatever was lost, repeated, reordered or cut short on the way
\* (replicatedVersionAfter, HasMessageID).
EventuallyAgree ==
  <>[](\A n \in Node :
         /\ \A w \in edits : rec[n][w[1]] >= w[2]
         /\ \A k \in Node : /\ rec[n] = rec[k]
                            /\ \A m \in Message : copies[n][m] > 0 <=> copies[k][m] > 0)

=============================================================================

------------------------ MODULE TeamReplication_proofs ------------------------
(***************************************************************************)
(* Proofs about TeamReplication: its types; that a message is in a log at  *)
(* most as often as handlers run at once; that objects edited on one node  *)
(* are replicated registers; that a loss is recorded; and that the         *)
(* histories of the nodes agree.                                           *)
(***************************************************************************)
EXTENDS TeamReplication, TLAPS, FiniteSetTheorems

-----------------------------------------------------------------------------
(* Types.                                                                  *)

LEMMA EnvelopeKinds ==
  ASSUME NEW e \in Envelope
  PROVE  /\ e.type = "snapshot" => e \in Snapshot
         /\ e.type = "deletion" => e \in Deletion
         /\ e.type = "message" => e \in Posting
         /\ e \in Snapshot => e.type = "snapshot"
         /\ e \in Deletion => e.type = "deletion" /\ EventOf(e) \in Event
         /\ e \in Posting => e.type = "message"
  BY DEF Envelope, Snapshot, Deletion, Posting, EventOf, Event

Handlers ==
  SUBSET (   (Envelope \X {"apply"} \X (1..MaxHandlers))
          \cup (Deletion \X {"delete"} \X (1..MaxHandlers)))

\* What finishing a handler leaves.
LEMMA FinishType ==
  ASSUME TypeOK, NEW n \in Node, NEW h, NEW step, Finish(n, h, step)
  PROVE  /\ handling' \in [Node -> Handlers]
         /\ handled' \in [Node -> SUBSET Envelope]
         /\ h[1] \in Envelope
         /\ step = "delete" => h[1] \in Deletion
<1>1. h[1] \in Envelope /\ (step = "delete" => h[1] \in Deletion)
  BY DEF TypeOK, Finish, Envelope
<1>2. QED  BY <1>1 DEF TypeOK, Finish, Handlers

\* What starting one leaves: one handler more, of this envelope, unlike all the others.
LEMMA StartType ==
  ASSUME TypeOK, NEW n \in Node, NEW e \in Envelope, Start(n, e)
  PROVE  \E h \in Envelope \X {"apply"} \X (1..MaxHandlers) :
           /\ h[1] = e /\ h[2] = "apply" /\ h \notin handling[n]
           /\ handling' = [handling EXCEPT ![n] = @ \cup {h}]
           /\ handling'[n] = handling[n] \cup {h}
           /\ \A k \in Node \ {n} : handling'[k] = handling[k]
           /\ handling' \in [Node -> Handlers]
<1>1. PICK i \in 1..MaxHandlers :
        /\ \A h \in handling[n] : h[1] = e => h[3] # i
        /\ handling' = [handling EXCEPT ![n] = @ \cup {<<e, "apply", i>>}]
  BY DEF Start
<1> DEFINE h == <<e, "apply", i>>
<1>2. h \in Envelope \X {"apply"} \X (1..MaxHandlers) /\ h[1] = e /\ h[2] = "apply" /\ h[3] = i
  OBVIOUS
<1>3. h \notin handling[n]
  BY <1>1, <1>2
<1> HIDE DEF h
<1>4. /\ handling' = [handling EXCEPT ![n] = @ \cup {h}]
      /\ handling'[n] = handling[n] \cup {h}
      /\ \A k \in Node \ {n} : handling'[k] = handling[k]
  BY <1>1 DEF h, TypeOK
<1>5. handling' \in [Node -> Handlers]
  BY <1>2, <1>4 DEF TypeOK, Handlers
<1>6. QED  BY <1>2, <1>3, <1>4, <1>5

\* What going on from the history to the object leaves.
LEMMA ProceedType ==
  ASSUME TypeOK, NEW n \in Node, NEW h \in handling[n], Proceed(n, h)
  PROVE  /\ h[1] \in Deletion /\ h[1].type = "deletion"
         /\ handling' \in [Node -> Handlers]
         /\ handling'[n] = (handling[n] \ {h}) \cup {<<h[1], "delete", h[3]>>}
         /\ \A k \in Node \ {n} : handling'[k] = handling[k]
<1>1. h[1] \in Envelope /\ h[3] \in 1..MaxHandlers
  BY DEF TypeOK, Envelope
<1>2. h[1] \in Deletion /\ h[1].type = "deletion"
  BY <1>1, EnvelopeKinds DEF Proceed
<1> DEFINE g == <<h[1], "delete", h[3]>>
<1>3. g \in Deletion \X {"delete"} \X (1..MaxHandlers)
  BY <1>1, <1>2
<1> HIDE DEF g
<1>4. handling' = [handling EXCEPT ![n] = (@ \ {h}) \cup {g}]
  BY DEF Proceed, g
<1>5. handling' \in [Node -> Handlers]
  BY <1>3, <1>4 DEF TypeOK, Handlers
<1>6. QED  BY <1>2, <1>4, <1>5 DEF TypeOK, g

\* What receiving leaves: at most a new handler, of an envelope that is wanted.
LEMMA ReceiveType ==
  ASSUME TypeOK, NEW n \in Node, NEW e \in net, Receive(n, e)
  PROVE  /\ handling' \in [Node -> Handlers]
         /\ handled' \in [Node -> SUBSET Envelope]
         /\ \A k \in Node : \A h \in handling'[k] :
              h \in handling[k] \/ (k = n /\ h[1] = e /\ h[2] = "apply" /\ Wanted(n, e))
<1>1. e \in Envelope
  BY DEF TypeOK
<1>2. CASE Wanted(n, e)
  <2>1. Start(n, e) /\ handled' = handled
    BY <1>2 DEF Receive
  <2>2. PICK h : /\ h[1] = e /\ h[2] = "apply" /\ handling'[n] = handling[n] \cup {h}
                 /\ \A k \in Node \ {n} : handling'[k] = handling[k]
                 /\ handling' \in [Node -> Handlers]
    BY <1>1, <2>1, StartType
  <2>3. QED  BY <1>2, <2>1, <2>2 DEF TypeOK
<1>3. CASE ~Wanted(n, e)
  <2>1. handled' = [handled EXCEPT ![n] = @ \cup {e}] /\ handling' = handling
    BY <1>3 DEF Receive
  <2>2. handled' \in [Node -> SUBSET Envelope]
    BY <1>1, <2>1 DEF TypeOK
  <2>3. QED  BY <2>1, <2>2 DEF TypeOK, Handlers
<1>4. QED  BY <1>2, <1>3

LEMMA TypeStep ==
  ASSUME TypeOK, [Next]_vars
  PROVE  TypeOK'
<1> USE ReplicationAssumption
<1>1. ASSUME NEW n \in Node, NEW o \in Object, Draft(n, o) \/ SaveConfig(n, o) PROVE TypeOK'
  <2>1. CASE Draft(n, o)
    <3> DEFINE d == [obj |-> o, ver |-> Now, new |-> rec[n][o] = 0]
    <3>1. /\ clock' \in 0..MaxVersion
          /\ Now \in 1..MaxVersion
      BY <2>1 DEF TypeOK, Draft, Tick, Now
    <3>2. (rec[n][o] = 0) \in BOOLEAN
      OBVIOUS
    <3>3. d \in EditDraft
      BY <3>1, <3>2, Zenon DEF EditDraft
    <3>4. drafts' = [drafts EXCEPT ![n] = @ \cup {d}]
      BY <2>1 DEF Draft
    <3>5. drafts' \in [Node -> SUBSET EditDraft]
      BY <3>3, <3>4 DEF TypeOK
    <3>6. UNCHANGED <<rec, hist, copies, unlogged, net, handling, handled, edits, crashes>>
      BY <2>1 DEF Draft
    <3>7. QED  BY <3>1, <3>5, <3>6 DEF TypeOK
  <2>2. CASE SaveConfig(n, o)
    BY <2>2 DEF TypeOK, SaveConfig, Tick, Now
  <2>3. QED  BY <1>1, <2>1, <2>2
<1>13. ASSUME NEW n \in Node, NEW d \in drafts[n], Save(n, d) PROVE TypeOK'
  <2>1. d \in EditDraft
    BY DEF TypeOK
  <2>2. d.obj \in Object /\ d.ver \in 1..MaxVersion
    BY <2>1 DEF EditDraft
  <2>3. drafts' \in [Node -> SUBSET EditDraft]
    BY <1>13 DEF TypeOK, Save
  <2>4. rec' \in [Node -> [Object -> 0..MaxVersion]] /\ edits' \subseteq Object \X (1..MaxVersion)
    <3>1. \/ /\ rec' = [rec EXCEPT ![n][d.obj] = d.ver]
             /\ edits' = edits \cup {<<d.obj, d.ver>>}
          \/ UNCHANGED <<rec, edits>>
      BY <1>13 DEF Save
    <3>2. d.ver \in 0..MaxVersion
      BY <2>2
    <3>3. rec' \in [Node -> [Object -> 0..MaxVersion]]
      <4>1. rec \in [Node -> [Object -> 0..MaxVersion]]
        BY DEF TypeOK
      <4>2. [rec EXCEPT ![n][d.obj] = d.ver] \in [Node -> [Object -> 0..MaxVersion]]
        BY <4>1, <2>2, <3>2
      <4>3. QED  BY <3>1, <4>1, <4>2
    <3>4. <<d.obj, d.ver>> \in Object \X (1..MaxVersion)
      BY <2>2
    <3>5. edits' \subseteq Object \X (1..MaxVersion)
      BY <3>1, <3>4 DEF TypeOK
    <3>6. QED  BY <3>3, <3>5
  <2>5. UNCHANGED <<hist, copies, unlogged, net, handling, handled, clock, crashes>>
    BY <1>13 DEF Save
  <2>6. QED  BY <2>3, <2>4, <2>5 DEF TypeOK
<1>2. ASSUME NEW n \in Node, NEW o \in Object, Delete(n, o) PROVE TypeOK'
  BY <1>2 DEF TypeOK, Delete
<1>3. ASSUME NEW n \in Node, NEW o \in Object, LogDeletion(n, o) PROVE TypeOK'
  BY <1>3 DEF TypeOK, LogDeletion, Tick, Now, Event
<1>4. ASSUME NEW n \in Node, NEW o \in Object, PublishObject(n, o) PROVE TypeOK'
  BY <1>4 DEF TypeOK, PublishObject, Envelope, Snapshot
<1>5. ASSUME NEW n \in Node, NEW m \in Message, Post(n, m) PROVE TypeOK'
  BY <1>5 DEF TypeOK, Post
<1>6. ASSUME NEW n \in Node, NEW m \in Message, PublishMessage(n, m) PROVE TypeOK'
  BY <1>6 DEF TypeOK, PublishMessage, Envelope, Posting
<1>7. ASSUME NEW n \in Node, PublishHistory(n) PROVE TypeOK'
  <2>1. PICK d \in hist[n] :
          net' = net \cup {[type |-> "deletion", obj |-> d.obj, ver |-> d.ver, src |-> n]}
    BY <1>7 DEF PublishHistory
  <2>2. [type |-> "deletion", obj |-> d.obj, ver |-> d.ver, src |-> n] \in Deletion
    BY DEF TypeOK, Event, Deletion
  <2>3. QED  BY <1>7, <2>1, <2>2 DEF TypeOK, PublishHistory, Envelope
<1>8. ASSUME NEW n \in Node, Apply(n) PROVE TypeOK'
  <2>1. PICK h \in handling[n] : \/ ApplySnapshot(n, h) \/ ApplyEvent(n, h)
                                 \/ ApplyDeletion(n, h) \/ ApplyMessage(n, h)
    BY <1>8 DEF Apply
  <2> DEFINE e == h[1]
  <2>2. e \in Envelope
    BY DEF TypeOK, Envelope
  <2>3. CASE ApplySnapshot(n, h)
    <3>1. e \in Snapshot
      BY <2>2, <2>3, EnvelopeKinds DEF ApplySnapshot
    <3>2. rec' \in [Node -> [Object -> 0..MaxVersion]] /\ clock' \in 0..MaxVersion
      BY <2>3, <3>1 DEF TypeOK, ApplySnapshot, Snapshot, Stored, Tick, Now
    <3>3. QED  BY <2>3, <3>2, FinishType DEF TypeOK, ApplySnapshot, Handlers
  <2>4. CASE ApplyEvent(n, h)
    <3>1. Proceed(n, h)
      BY <2>4 DEF ApplyEvent
    <3>2. handling' \in [Node -> Handlers] /\ EventOf(e) \in Event
      BY <2>2, <3>1, ProceedType, EnvelopeKinds
    <3>3. hist' \in [Node -> SUBSET Event]
      BY <2>4, <3>2 DEF ApplyEvent, TypeOK
    <3>4. QED  BY <3>1, <3>2, <3>3 DEF Proceed, TypeOK, Handlers
  <2>5. CASE ApplyDeletion(n, h)
    <3>1. e \in Deletion
      BY <2>5, FinishType DEF ApplyDeletion
    <3>2. QED  BY <2>5, <3>1, FinishType DEF TypeOK, ApplyDeletion, Handlers, Deletion
  <2>6. CASE ApplyMessage(n, h)
    <3>1. e \in Posting
      BY <2>2, <2>6, EnvelopeKinds DEF ApplyMessage
    <3>2. QED  BY <2>6, <3>1, FinishType DEF TypeOK, ApplyMessage, Handlers, Posting
  <2>7. QED  BY <2>1, <2>3, <2>4, <2>5, <2>6
<1>9. ASSUME NEW n \in Node, Crash(n) PROVE TypeOK'
  BY <1>9 DEF TypeOK, Crash
<1>10. ASSUME NEW n \in Node, NEW e \in net, Receive(n, e) PROVE TypeOK'
  <2>1. UNCHANGED <<rec, hist, copies, drafts, unlogged, net, clock, edits, crashes>>
    BY <1>10 DEF Receive
  <2>2. QED  BY <1>10, <2>1, ReceiveType DEF TypeOK, Handlers
<1>11. CASE UNCHANGED vars
  BY <1>11 DEF TypeOK, vars
<1>12. QED
  BY <1>1, <1>2, <1>3, <1>4, <1>5, <1>6, <1>7, <1>8, <1>9, <1>10, <1>11, <1>13 DEF Next

LEMMA TypeInit == Init => TypeOK
  BY ReplicationAssumption DEF Init, TypeOK

\* The state of every node keeps its type.
THEOREM TypeCorrect == Spec => []TypeOK
<1>1. TypeOK /\ [Next]_vars => TypeOK'
  BY TypeStep
<1>2. QED  BY TypeInit, <1>1, PTL DEF Spec

-----------------------------------------------------------------------------
(* Handlers.                                                               *)

\* What a handler was started with was published.
HandledWasPublished == \A n \in Node : \A h \in handling[n] : h[1] \in net

\* A step that publishes and starts handlers of what was published only.
LEMMA PublishedFrame ==
  ASSUME HandledWasPublished, net \subseteq net',
         \A n \in Node : \A h \in handling'[n] : h[1] \in net \/ h \in handling[n]
  PROVE  HandledWasPublished' /\ net \subseteq net'
  BY DEF HandledWasPublished

LEMMA PublishedStep ==
  ASSUME TypeOK, HandledWasPublished, [Next]_vars
  PROVE  HandledWasPublished' /\ net \subseteq net'
<1> DEFINE Goal == HandledWasPublished' /\ net \subseteq net'
<1>1. ASSUME NEW n \in Node, NEW o \in Object,
             \/ Draft(n, o) \/ SaveConfig(n, o) \/ Delete(n, o)
             \/ LogDeletion(n, o) \/ PublishObject(n, o)
      PROVE  Goal
  BY <1>1 DEF Draft, SaveConfig, Delete, LogDeletion, PublishObject, HandledWasPublished
<1>2. ASSUME NEW n \in Node, NEW m \in Message, Post(n, m) \/ PublishMessage(n, m) PROVE Goal
  BY <1>2 DEF Post, PublishMessage, HandledWasPublished
<1>3. ASSUME NEW n \in Node, PublishHistory(n) PROVE Goal
  BY <1>3 DEF PublishHistory, HandledWasPublished
<1>4. ASSUME NEW n \in Node, Apply(n) PROVE Goal
  <2>1. PICK h \in handling[n] : \/ ApplySnapshot(n, h) \/ ApplyEvent(n, h)
                                 \/ ApplyDeletion(n, h) \/ ApplyMessage(n, h)
    BY <1>4 DEF Apply
  <2>2. h[1] \in net
    BY DEF HandledWasPublished
  <2>3. CASE ApplyEvent(n, h)
    <3>1. Proceed(n, h) /\ net' = net
      BY <2>3 DEF ApplyEvent, Proceed
    <3>2. \A k \in Node : \A g \in handling'[k] : g \in handling[k] \/ g[1] = h[1]
      BY <3>1, ProceedType
    <3>3. QED  BY <2>2, <3>1, <3>2, PublishedFrame
  <2>4. CASE ApplySnapshot(n, h) \/ ApplyDeletion(n, h) \/ ApplyMessage(n, h)
    <3>1. net' = net /\ \A k \in Node : handling'[k] \subseteq handling[k]
      BY <2>4 DEF ApplySnapshot, ApplyDeletion, ApplyMessage, Finish, TypeOK
    <3>2. QED  BY <3>1, PublishedFrame
  <2>5. QED  BY <2>1, <2>3, <2>4
<1>5. ASSUME NEW n \in Node, Crash(n) PROVE Goal
  BY <1>5 DEF Crash, TypeOK, HandledWasPublished
<1>6. ASSUME NEW n \in Node, NEW e \in net, Receive(n, e) PROVE Goal
  <2>1. net' = net
    BY <1>6 DEF Receive
  <2>2. QED  BY <1>6, <2>1, ReceiveType, PublishedFrame
<1>7. CASE UNCHANGED vars
  BY <1>7 DEF vars, HandledWasPublished
<1>8. ASSUME NEW n \in Node, NEW d \in drafts[n], Save(n, d) PROVE Goal
  BY <1>8 DEF Save, HandledWasPublished
<1>9. QED  BY <1>1, <1>2, <1>3, <1>4, <1>5, <1>6, <1>7, <1>8 DEF Next

\* Never more than MaxHandlers handlers are under way on a node.
HandlersCounted ==
  \A n \in Node : IsFiniteSet(handling[n]) /\ Cardinality(handling[n]) <= MaxHandlers

\* A handler that starts adds one, to fewer than MaxHandlers.
LEMMA StartCounted ==
  ASSUME TypeOK, HandlersCounted, NEW n \in Node, NEW e \in net, Receive(n, e)
  PROVE  HandlersCounted'
<1>1. e \in Envelope /\ MaxHandlers \in Nat
  BY ReplicationAssumption DEF TypeOK
<1>2. CASE Wanted(n, e)
  <2>1. Start(n, e) /\ Cardinality(handling[n]) < MaxHandlers
    BY <1>2 DEF Receive
  <2>2. PICK h : /\ handling'[n] = handling[n] \cup {h} /\ h \notin handling[n]
                 /\ \A k \in Node \ {n} : handling'[k] = handling[k]
    BY <1>1, <2>1, StartType
  <2>3. IsFiniteSet(handling[n]) /\ Cardinality(handling[n]) \in Nat
    BY FS_CardinalityType DEF HandlersCounted
  <2>4. /\ IsFiniteSet(handling'[n])
        /\ Cardinality(handling'[n]) = Cardinality(handling[n]) + 1
    BY <2>2, <2>3, FS_AddElement
  <2>5. Cardinality(handling'[n]) <= MaxHandlers
    BY <1>1, <2>1, <2>3, <2>4
  <2>6. QED  BY <2>2, <2>4, <2>5 DEF HandlersCounted
<1>3. CASE ~Wanted(n, e)
  BY <1>3 DEF Receive, HandlersCounted
<1>4. QED  BY <1>2, <1>3

LEMMA CountedInit == Init => HandlersCounted
<1>1. IsFiniteSet({}) /\ Cardinality({}) = 0 /\ 0 <= MaxHandlers
  BY FS_EmptySet, ReplicationAssumption
<1>2. QED  BY <1>1 DEF Init, HandlersCounted

LEMMA CountedStep ==
  ASSUME TypeOK, HandlersCounted, [Next]_vars
  PROVE  HandlersCounted'
<1>1. ASSUME NEW n \in Node, NEW o \in Object,
             \/ Draft(n, o) \/ SaveConfig(n, o) \/ Delete(n, o)
             \/ LogDeletion(n, o) \/ PublishObject(n, o)
      PROVE  UNCHANGED handling
  BY <1>1 DEF Draft, SaveConfig, Delete, LogDeletion, PublishObject
<1>2. ASSUME NEW n \in Node, NEW m \in Message, Post(n, m) \/ PublishMessage(n, m)
      PROVE  UNCHANGED handling
  BY <1>2 DEF Post, PublishMessage
<1>3. ASSUME NEW n \in Node, PublishHistory(n) PROVE UNCHANGED handling
  BY <1>3 DEF PublishHistory
<1>4. ASSUME NEW n \in Node, NEW d \in drafts[n], Save(n, d) PROVE UNCHANGED handling
  BY <1>4 DEF Save
<1>5. ASSUME NEW n \in Node, Apply(n) PROVE HandlersCounted'
  <2>1. PICK h \in handling[n] : \/ ApplySnapshot(n, h) \/ ApplyEvent(n, h)
                                 \/ ApplyDeletion(n, h) \/ ApplyMessage(n, h)
    BY <1>5 DEF Apply
  <2> DEFINE rest == handling[n] \ {h}
  <2>2. /\ IsFiniteSet(handling[n]) /\ Cardinality(handling[n]) <= MaxHandlers
        /\ Cardinality(handling[n]) \in Nat /\ MaxHandlers \in Nat
    BY FS_CardinalityType, ReplicationAssumption DEF HandlersCounted
  <2>3. IsFiniteSet(rest) /\ Cardinality(rest) = Cardinality(handling[n]) - 1
    BY <2>2, FS_RemoveElement
  <2>4. Cardinality(rest) \in Nat
    BY <2>3, FS_CardinalityType
  <2>5. ASSUME NEW g, NEW after, after = rest \cup {g}
        PROVE  IsFiniteSet(after) /\ Cardinality(after) <= MaxHandlers
    <3>1. CASE g \in rest
      <4>1. after = rest
        BY <2>5, <3>1
      <4>2. QED  BY <2>2, <2>3, <2>4, <4>1
    <3>2. CASE g \notin rest
      <4>1. IsFiniteSet(after) /\ Cardinality(after) = Cardinality(rest) + 1
        BY <2>3, <2>5, <3>2, FS_AddElement
      <4>2. QED  BY <2>2, <2>3, <2>4, <4>1
    <3>3. QED  BY <3>1, <3>2
  <2>6. \A k \in Node \ {n} : handling'[k] = handling[k]
    BY <2>1, ProceedType DEF ApplySnapshot, ApplyEvent, ApplyDeletion, ApplyMessage, Finish, TypeOK
  <2>7. handling'[n] = rest \/ handling'[n] = rest \cup {<<h[1], "delete", h[3]>>}
    BY <2>1, ProceedType DEF ApplySnapshot, ApplyEvent, ApplyDeletion, ApplyMessage, Finish, TypeOK
  <2>8. IsFiniteSet(handling'[n]) /\ Cardinality(handling'[n]) <= MaxHandlers
    <3>1. CASE handling'[n] = rest
      BY <2>2, <2>3, <3>1
    <3>2. CASE handling'[n] = rest \cup {<<h[1], "delete", h[3]>>}
      BY <2>5, <3>2
    <3>3. QED  BY <2>7, <3>1, <3>2
  <2>9. QED  BY <2>6, <2>8 DEF HandlersCounted
<1>6. ASSUME NEW n \in Node, Crash(n) PROVE HandlersCounted'
  <2>1. handling'[n] = {} /\ \A k \in Node \ {n} : handling'[k] = handling[k]
    BY <1>6 DEF Crash, TypeOK
  <2>2. IsFiniteSet({}) /\ Cardinality({}) = 0 /\ 0 <= MaxHandlers
    BY FS_EmptySet, ReplicationAssumption
  <2>3. QED  BY <2>1, <2>2 DEF HandlersCounted
<1>7. ASSUME NEW n \in Node, NEW e \in net, Receive(n, e) PROVE HandlersCounted'
  BY <1>7, StartCounted
<1>8. ASSUME UNCHANGED handling PROVE HandlersCounted'
  BY <1>8 DEF HandlersCounted
<1>9. UNCHANGED vars => UNCHANGED handling
  BY DEF vars
<1>10. QED  BY <1>1, <1>2, <1>3, <1>4, <1>5, <1>6, <1>7, <1>8, <1>9 DEF Next

\* With MaxHandlers = 1 all handlers of a node are the same one.
LEMMA OneHandler ==
  ASSUME MaxHandlers = 1, HandlersCounted, NEW n \in Node, NEW g \in handling[n], NEW h \in handling[n]
  PROVE  g = h
<1>1. IsFiniteSet(handling[n]) /\ Cardinality(handling[n]) <= 1
  BY DEF HandlersCounted
<1>2. SUFFICES ASSUME g # h PROVE FALSE
  OBVIOUS
<1>3. {g, h} \subseteq handling[n] /\ Cardinality({g, h}) = 2
  <2>1. IsFiniteSet({h}) /\ Cardinality({h}) = 1
    BY FS_Singleton
  <2>2. g \notin {h} /\ {h} \cup {g} = {g, h}
    BY <1>2
  <2>3. QED  BY <2>1, <2>2, FS_AddElement
<1>4. Cardinality({g, h}) <= Cardinality(handling[n]) /\ Cardinality(handling[n]) \in Nat
  BY <1>1, <1>3, FS_Subset, FS_CardinalityType
<1>5. QED  BY <1>1, <1>3, <1>4

-----------------------------------------------------------------------------
(* Messages.                                                               *)

PostedIsHeld == \A e \in net : e.type = "message" => copies[e.src][e.msg] > 0

\* The handlers of n that will append m.
Appending(n, m) == {h \in handling[n] : h[1].type = "message" /\ h[1].msg = m}

\* A message that is in the log, with what the handlers under way will still add, is there
\* at most as often as handlers run at once.
AppendsCounted ==
  \A n \in Node, m \in Message :
    copies[n][m] > 0 => copies[n][m] + Cardinality(Appending(n, m)) <= MaxHandlers

MessageInv ==
  /\ TypeOK /\ HandlersCounted /\ HandledWasPublished
  /\ PostedIsHeld /\ AppendsCounted

LEMMA AppendingCounted ==
  ASSUME HandlersCounted, NEW n \in Node, NEW m
  PROVE  /\ IsFiniteSet(Appending(n, m))
         /\ Cardinality(Appending(n, m)) \in Nat
         /\ Cardinality(Appending(n, m)) <= Cardinality(handling[n])
         /\ Cardinality(handling[n]) \in Nat /\ Cardinality(handling[n]) <= MaxHandlers
<1>1. IsFiniteSet(handling[n]) /\ Cardinality(handling[n]) <= MaxHandlers
  BY DEF HandlersCounted
<1>2. Appending(n, m) \subseteq handling[n]
  BY DEF Appending
<1>3. QED  BY <1>1, <1>2, FS_Subset, FS_CardinalityType

\* A step that appends nothing, publishes no new message and starts only handlers of
\* messages that are absent.
LEMMA MessageFrame ==
  ASSUME MessageInv, UNCHANGED copies,
         \A e \in net' : e.type = "message" => e \in net,
         \A n \in Node : \A h \in handling'[n] :
           h[1].type = "message" => h \in handling[n] \/ copies[n][h[1].msg] = 0
  PROVE  PostedIsHeld' /\ AppendsCounted'
<1>1. PostedIsHeld'
  BY DEF MessageInv, PostedIsHeld
<1>2. AppendsCounted'
  <2> SUFFICES ASSUME NEW n \in Node, NEW m \in Message, copies[n][m] > 0
               PROVE  copies[n][m] + Cardinality(Appending(n, m)') <= MaxHandlers
    BY DEF AppendsCounted
  <2>1. Appending(n, m)' \subseteq Appending(n, m)
    BY DEF Appending, MessageInv, TypeOK
  <2>2. /\ Cardinality(Appending(n, m)') <= Cardinality(Appending(n, m))
        /\ Cardinality(Appending(n, m)') \in Nat
        /\ Cardinality(Appending(n, m)) \in Nat
    BY <2>1, AppendingCounted, FS_Subset, FS_CardinalityType DEF MessageInv
  <2>3. /\ copies[n][m] \in Nat /\ MaxHandlers \in Nat
        /\ copies[n][m] + Cardinality(Appending(n, m)) <= MaxHandlers
    BY ReplicationAssumption DEF MessageInv, TypeOK, AppendsCounted
  <2>4. QED  BY <2>2, <2>3
<1>3. QED  BY <1>1, <1>2

\* A message is posted once, so nobody is handling it.
LEMMA PostStep ==
  ASSUME MessageInv, NEW n \in Node, NEW m \in Message, Post(n, m)
  PROVE  PostedIsHeld' /\ AppendsCounted'
<1> USE DEF MessageInv
<1>1. \A k \in Node, x \in Message :
        copies'[k][x] = IF k = n /\ x = m THEN 1 ELSE copies[k][x]
  BY DEF Post, TypeOK
<1>2. \A k \in Node : Appending(k, m) = {}
  <2> SUFFICES ASSUME NEW k \in Node, NEW h \in handling[k],
                      h[1].type = "message", h[1].msg = m
               PROVE FALSE
    BY DEF Appending
  <2>1. h[1] \in net /\ h[1] \in Envelope
    BY DEF HandledWasPublished, TypeOK
  <2>2. h[1] \in Posting
    BY <2>1, EnvelopeKinds
  <2>3. h[1].src \in Node /\ copies[h[1].src][m] > 0
    BY <2>1, <2>2 DEF PostedIsHeld, Posting
  <2>4. QED  BY <2>3 DEF Post
<1>3. PostedIsHeld'
  <2> SUFFICES ASSUME NEW e \in net, e.type = "message"
               PROVE  copies'[e.src][e.msg] > 0
    BY DEF Post, PostedIsHeld
  <2>1. e \in Posting
    BY EnvelopeKinds DEF TypeOK
  <2>2. QED  BY <1>1, <2>1 DEF PostedIsHeld, Posting
<1>4. AppendsCounted'
  <2> SUFFICES ASSUME NEW k \in Node, NEW x \in Message, copies'[k][x] > 0
               PROVE  copies'[k][x] + Cardinality(Appending(k, x)') <= MaxHandlers
    BY DEF AppendsCounted
  <2>1. Appending(k, x)' = Appending(k, x)
    BY DEF Post, Appending
  <2>2. CASE k = n /\ x = m
    <3>1. Cardinality(Appending(k, x)') = 0 /\ copies'[k][x] = 1
      BY <1>1, <1>2, <2>1, <2>2, FS_EmptySet
    <3>2. QED  BY <3>1, ReplicationAssumption
  <2>3. CASE ~(k = n /\ x = m)
    BY <1>1, <2>1, <2>3 DEF AppendsCounted
  <2>4. QED  BY <2>2, <2>3
<1>5. QED  BY <1>3, <1>4

\* A handler that appends is one less to append.
LEMMA AppendStep ==
  ASSUME MessageInv, NEW n \in Node, NEW h \in handling[n], ApplyMessage(n, h)
  PROVE  PostedIsHeld' /\ AppendsCounted'
<1> USE DEF MessageInv
<1> DEFINE m == h[1].msg
<1>1. h[1] \in Posting /\ m \in Message
  BY EnvelopeKinds DEF TypeOK, HandledWasPublished, ApplyMessage, Posting
<1>2. \A k \in Node, x \in Message :
        copies'[k][x] = IF k = n /\ x = m THEN copies[n][m] + 1 ELSE copies[k][x]
  BY <1>1 DEF ApplyMessage, TypeOK
<1>3. handling'[n] = handling[n] \ {h} /\ \A k \in Node \ {n} : handling'[k] = handling[k]
  BY DEF ApplyMessage, Finish, TypeOK
<1>4. PostedIsHeld'
  <2> SUFFICES ASSUME NEW f \in net, f.type = "message"
               PROVE  copies'[f.src][f.msg] > 0
    BY DEF ApplyMessage, PostedIsHeld
  <2>1. f \in Posting
    BY EnvelopeKinds DEF TypeOK
  <2>2. f.src \in Node /\ f.msg \in Message /\ copies[f.src][f.msg] > 0
    BY <2>1 DEF PostedIsHeld, Posting
  <2>3. copies[f.src][f.msg] \in Nat
    BY <2>2 DEF TypeOK
  <2>4. QED  BY <1>1, <1>2, <2>2, <2>3
<1>5. AppendsCounted'
  <2> SUFFICES ASSUME NEW k \in Node, NEW x \in Message, copies'[k][x] > 0
               PROVE  copies'[k][x] + Cardinality(Appending(k, x)') <= MaxHandlers
    BY DEF AppendsCounted
  <2>1. CASE k = n /\ x = m
    <3>1. h \in Appending(n, m)
      BY DEF Appending, ApplyMessage
    <3>2. Appending(n, m)' = Appending(n, m) \ {h}
      BY <1>3 DEF Appending
    <3>3. /\ IsFiniteSet(Appending(n, m)) /\ Cardinality(Appending(n, m)) \in Nat
          /\ Cardinality(Appending(n, m)) <= MaxHandlers
      BY AppendingCounted, ReplicationAssumption
    <3>4. Cardinality(Appending(n, m)') = Cardinality(Appending(n, m)) - 1
      BY <3>1, <3>2, <3>3, FS_RemoveElement
    <3>5. copies[n][m] \in Nat /\ copies'[n][m] = copies[n][m] + 1
      BY <1>1, <1>2 DEF TypeOK
    <3>6. copies[n][m] > 0 => copies[n][m] + Cardinality(Appending(n, m)) <= MaxHandlers
      BY <1>1 DEF AppendsCounted
    <3>7. QED  BY <2>1, <3>3, <3>4, <3>5, <3>6, ReplicationAssumption
  <2>2. CASE ~(k = n /\ x = m)
    <3>1. Appending(k, x)' = Appending(k, x)
      <4>1. CASE k # n
        BY <1>3, <4>1 DEF Appending
      <4>2. CASE k = n /\ x # m
        BY <1>3, <4>2 DEF Appending
      <4>3. QED  BY <2>2, <4>1, <4>2
    <3>2. copies'[k][x] = copies[k][x]
      BY <1>2, <2>2
    <3>3. QED  BY <3>1, <3>2 DEF AppendsCounted
  <2>3. QED  BY <2>1, <2>2
<1>6. QED  BY <1>4, <1>5

LEMMA MessageStep ==
  ASSUME MessageInv, [Next]_vars
  PROVE  MessageInv'
<1> USE DEF MessageInv
<1>0. TypeOK' /\ HandlersCounted' /\ HandledWasPublished' /\ net \subseteq net'
  BY TypeStep, CountedStep, PublishedStep
<1> DEFINE Goal == PostedIsHeld' /\ AppendsCounted'
<1>1. ASSUME NEW n \in Node, NEW o \in Object,
             \/ Draft(n, o) \/ SaveConfig(n, o) \/ Delete(n, o)
             \/ LogDeletion(n, o) \/ PublishObject(n, o)
      PROVE  Goal
  BY <1>1, MessageFrame DEF Draft, SaveConfig, Delete, LogDeletion, PublishObject
<1>2. ASSUME NEW n \in Node, NEW m \in Message, Post(n, m) PROVE Goal
  BY <1>2, PostStep
<1>3. ASSUME NEW n \in Node, NEW m \in Message, PublishMessage(n, m) PROVE Goal
  <2>1. copies' = copies /\ handling' = handling
    BY <1>3 DEF PublishMessage
  <2>2. PostedIsHeld'
    BY <1>3, <2>1 DEF PublishMessage, PostedIsHeld
  <2>3. AppendsCounted'
    BY <2>1 DEF AppendsCounted, Appending
  <2>4. QED  BY <2>2, <2>3
<1>4. ASSUME NEW n \in Node, PublishHistory(n) PROVE Goal
  BY <1>4, MessageFrame DEF PublishHistory
<1>5. ASSUME NEW n \in Node, Apply(n) PROVE Goal
  <2>1. PICK h \in handling[n] : \/ ApplySnapshot(n, h) \/ ApplyEvent(n, h)
                                 \/ ApplyDeletion(n, h) \/ ApplyMessage(n, h)
    BY <1>5 DEF Apply
  <2>2. CASE ApplySnapshot(n, h) \/ ApplyDeletion(n, h)
    <3>1. /\ copies' = copies /\ net' = net
          /\ Finish(n, h, "apply") \/ Finish(n, h, "delete")
      BY <2>2 DEF ApplySnapshot, ApplyDeletion
    <3>2. \A k \in Node : handling'[k] \subseteq handling[k]
      BY <3>1 DEF Finish, TypeOK
    <3>3. QED  BY <3>1, <3>2, MessageFrame
  <2>3. CASE ApplyEvent(n, h)
    <3>1. Proceed(n, h) /\ UNCHANGED <<copies, net>>
      BY <2>3 DEF ApplyEvent, Proceed
    <3>2. \A k \in Node : \A g \in handling'[k] : g \in handling[k] \/ g[1].type = "deletion"
      BY <3>1, ProceedType
    <3>3. QED  BY <3>1, <3>2, MessageFrame
  <2>4. CASE ApplyMessage(n, h)
    BY <2>4, AppendStep
  <2>5. QED  BY <2>1, <2>2, <2>3, <2>4
<1>6. ASSUME NEW n \in Node, Crash(n) PROVE Goal
  BY <1>6, MessageFrame DEF Crash, TypeOK
<1>7. ASSUME NEW n \in Node, NEW e \in net, Receive(n, e) PROVE Goal
  <2>1. e.type = "message" /\ Wanted(n, e) => copies[n][e.msg] = 0
    BY DEF Wanted
  <2>2. UNCHANGED <<copies, net>>
    BY <1>7 DEF Receive
  <2>3. \A k \in Node : \A h \in handling'[k] :
          h \in handling[k] \/ (k = n /\ h[1] = e /\ Wanted(n, e))
    BY <1>7, ReceiveType
  <2>4. QED  BY <2>1, <2>2, <2>3, MessageFrame
<1>8. ASSUME UNCHANGED vars PROVE Goal
  <2>1. copies' = copies /\ net' = net /\ handling' = handling
    BY <1>8 DEF vars
  <2>2. QED  BY <2>1, MessageFrame
<1>9. ASSUME NEW n \in Node, NEW d \in drafts[n], Save(n, d) PROVE Goal
  BY <1>9, MessageFrame DEF Save
<1>10. Goal
  BY <1>1, <1>2, <1>3, <1>4, <1>5, <1>6, <1>7, <1>8, <1>9 DEF Next
<1>11. QED  BY <1>0, <1>10

\* However many handlers outlive their timeout, whatever the network repeats and however
\* often the nodes crash, the log of a channel has a message at most as often as handlers
\* can run at once on its node: HasMessageID is asked outside the lock, but it is asked.
THEOREM OneCopyPerHandlerHolds == Spec => []OneCopyPerHandler
<1>1. Init => MessageInv
  BY TypeInit, CountedInit
  DEF Init, MessageInv, HandledWasPublished, PostedIsHeld, AppendsCounted
<1>2. MessageInv /\ [Next]_vars => MessageInv'
  BY MessageStep
<1>3. MessageInv => OneCopyPerHandler
  <2> SUFFICES ASSUME MessageInv, NEW n \in Node, NEW m \in Message
               PROVE  copies[n][m] <= MaxHandlers
    BY DEF OneCopyPerHandler
  <2>1. copies[n][m] \in Nat /\ MaxHandlers \in Nat
    BY ReplicationAssumption DEF MessageInv, TypeOK
  <2>2. Cardinality(Appending(n, m)) \in Nat
    BY AppendingCounted DEF MessageInv
  <2>3. QED  BY <2>1, <2>2 DEF MessageInv, AppendsCounted
<1>4. QED  BY <1>1, <1>2, <1>3, PTL DEF Spec

-----------------------------------------------------------------------------
(* Objects edited on one node.                                             *)

LEMMA OwnerWrites ==
  ASSUME SingleWriter
  PROVE  /\ Owner \in [Object -> Node]
         /\ \A o \in Object, n \in Node : n \in Writers[o] <=> n = Owner[o]
<1> SUFFICES ASSUME NEW o \in Object
             PROVE  /\ Owner[o] \in Node
                    /\ \A n \in Node : n \in Writers[o] <=> n = Owner[o]
  BY DEF Owner
<1>1. PICK n \in Node : Writers[o] = {n}
  BY DEF SingleWriter
<1>2. Owner[o] = n
  BY <1>1 DEF Owner
<1>3. QED  BY <1>1, <1>2

\* No version stamp is later than the clock; every copy, and everything published, is an
\* edit; the node that edits an object holds the newest one; and a handler that decided
\* to write still brings something newer.
NothingDeleted == unlogged = {} /\ \A n \in Node : hist[n] = {}
EditsInThePast == \A w \in edits : w[2] <= clock
CopiesAreEdits == \A n \in Node, o \in Object : rec[n][o] # 0 => <<o, rec[n][o]>> \in edits
NetIsEdits     == \A e \in net : /\ e.type # "deletion"
                                 /\ e.type = "snapshot" => <<e.obj, e.ver>> \in edits
OwnerIsNewest  == \A w \in edits : w[2] <= rec[Owner[w[1]]][w[1]]
DraftsAreNews ==
  \A n \in Node : \A d \in drafts[n] :
    /\ n = Owner[d.obj] /\ d.ver <= clock
    /\ \A w \in edits : w[1] = d.obj => w[2] < d.ver
    /\ \A c \in drafts[n] : c.obj = d.obj => c = d
HandlersBringNews ==
  \A n \in Node : \A h \in handling[n] :
    h[1].type = "snapshot" => h[1].ver > rec[n][h[1].obj]

RegisterInv ==
  /\ TypeOK /\ HandlersCounted /\ HandledWasPublished
  /\ NothingDeleted /\ EditsInThePast /\ CopiesAreEdits /\ NetIsEdits
  /\ OwnerIsNewest /\ DraftsAreNews /\ HandlersBringNews

\* What the register and its clock depend on; steps that leave it alone keep the invariant
\* as long as they publish copies only and start only handlers that bring news.
LEMMA RegisterFrame ==
  ASSUME SingleWriter, RegisterInv, UNCHANGED <<rec, hist, unlogged, clock, edits>>,
         \A n \in Node : drafts'[n] \subseteq drafts[n],
         \A e \in net' : \/ e \in net
                         \/ e.type = "message"
                         \/ /\ e.type = "snapshot"
                            /\ \E n \in Node : e.obj \in Object /\ e.ver = rec[n][e.obj] /\ e.ver # 0,
         \A n \in Node : \A h \in handling'[n] :
           \/ h \in handling[n]
           \/ h[1].type = "snapshot" => h[1].ver > rec[n][h[1].obj]
  PROVE  /\ NothingDeleted' /\ EditsInThePast' /\ CopiesAreEdits' /\ NetIsEdits'
         /\ OwnerIsNewest' /\ DraftsAreNews' /\ HandlersBringNews'
<1>1. NothingDeleted'
  BY DEF RegisterInv, NothingDeleted
<1>2. EditsInThePast'
  BY DEF RegisterInv, EditsInThePast
<1>3. CopiesAreEdits'
  BY DEF RegisterInv, CopiesAreEdits
<1>4. NetIsEdits'
  BY DEF RegisterInv, NetIsEdits, CopiesAreEdits
<1>5. OwnerIsNewest'
  BY DEF RegisterInv, OwnerIsNewest
<1>6. HandlersBringNews'
  BY DEF RegisterInv, HandlersBringNews
<1>7. DraftsAreNews'
  BY DEF RegisterInv, DraftsAreNews
<1>8. QED  BY <1>1, <1>2, <1>3, <1>4, <1>5, <1>6, <1>7

\* A draft is later than everything stamped before.
LEMMA DraftStep ==
  ASSUME SingleWriter, RegisterInv, NEW n \in Node, NEW o \in Object, Draft(n, o)
  PROVE  /\ NothingDeleted' /\ EditsInThePast' /\ CopiesAreEdits' /\ NetIsEdits'
         /\ OwnerIsNewest' /\ DraftsAreNews' /\ HandlersBringNews'
         /\ UNCHANGED Register!rvars
<1> USE DEF RegisterInv
<1> DEFINE new == [obj |-> o, ver |-> Now, new |-> rec[n][o] = 0]
<1>1. /\ n = Owner[o] /\ clock \in Nat /\ clock' = clock + 1 /\ Now = clock + 1
      /\ drafts' = [drafts EXCEPT ![n] = @ \cup {new}]
      /\ \A d \in drafts[n] : d.obj # o
      /\ UNCHANGED <<rec, hist, unlogged, net, handling, edits>>
  BY OwnerWrites, ReplicationAssumption DEF Draft, Tick, Now, TypeOK, SingleWriter
<1>2. \A w \in edits : w[1] \in Object /\ w[2] \in Nat /\ w[2] <= clock /\ w[2] < Now
  BY <1>1 DEF EditsInThePast, TypeOK
<1>3. NothingDeleted' /\ CopiesAreEdits' /\ NetIsEdits' /\ OwnerIsNewest' /\ HandlersBringNews'
  BY <1>1 DEF NothingDeleted, CopiesAreEdits, NetIsEdits, OwnerIsNewest, HandlersBringNews
<1>4. EditsInThePast'
  BY <1>1, <1>2 DEF EditsInThePast
<1>5. DraftsAreNews'
  <2> SUFFICES ASSUME NEW k \in Node, NEW d \in drafts'[k]
               PROVE  /\ k = Owner[d.obj] /\ d.ver <= Now
                      /\ \A w \in edits : w[1] = d.obj => w[2] < d.ver
                      /\ \A c \in drafts'[k] : c.obj = d.obj => c = d
    BY <1>1 DEF DraftsAreNews
  <2>1. drafts'[k] = IF k = n THEN drafts[n] \cup {new} ELSE drafts[k]
    BY <1>1 DEF TypeOK
  <2>2. CASE d \in drafts[k]
    <3>1. d.ver \in Nat /\ d.ver <= clock
      BY <2>2 DEF DraftsAreNews, TypeOK, EditDraft
    <3>2. d.ver <= Now
      BY <1>1, <3>1
    <3>3. \A c \in drafts'[k] : c.obj = d.obj => c = d
      BY <1>1, <2>1, <2>2 DEF DraftsAreNews
    <3>4. QED  BY <2>2, <3>2, <3>3 DEF DraftsAreNews
  <2>3. CASE d \notin drafts[k]
    <3>1. k = n /\ d = new
      BY <2>1, <2>3
    <3>2. \A w \in edits : w[2] < d.ver
      BY <1>2, <3>1
    <3>3. \A c \in drafts'[k] : c.obj = o => c = d
      BY <1>1, <2>1, <3>1
    <3>4. d.ver = Now /\ d.obj = o
      BY <3>1
    <3>5. d.ver <= Now
      BY <1>1, <3>4
    <3>6. QED  BY <1>1, <3>1, <3>2, <3>3, <3>4, <3>5
  <2>4. QED  BY <2>2, <2>3
<1>6. UNCHANGED Register!rvars
  BY <1>1 DEF Register!rvars
<1>7. QED  BY <1>3, <1>4, <1>5, <1>6

\* A saved edit: the owner moves past everything saved before.
LEMMA SaveStep ==
  ASSUME SingleWriter, RegisterInv, NEW n \in Node, NEW d \in drafts[n], Save(n, d),
         d.new \/ rec[n][d.obj] # 0
  PROVE  /\ NothingDeleted' /\ EditsInThePast' /\ CopiesAreEdits' /\ NetIsEdits'
         /\ OwnerIsNewest' /\ DraftsAreNews' /\ HandlersBringNews'
         /\ d.obj \in Object /\ d.ver \in 1..MaxVersion
         /\ Register!Write(d.obj, d.ver)
<1> USE DEF RegisterInv
<1> DEFINE o == d.obj
           v == d.ver
<1>1. /\ o \in Object /\ v \in 1..MaxVersion /\ v \in Nat /\ clock \in Nat
      /\ n = Owner[o] /\ v <= clock
      /\ \A w \in edits : w[1] = o => w[2] < v
  BY ReplicationAssumption DEF TypeOK, EditDraft, DraftsAreNews
<1>2. /\ edits' = edits \cup {<<o, v>>}
      /\ rec' = [rec EXCEPT ![n][o] = v]
      /\ drafts' = [drafts EXCEPT ![n] = @ \ {d}]
      /\ UNCHANGED <<hist, unlogged, net, handling, clock>>
  BY DEF Save
<1>3. \A k \in Node, x \in Object :
        rec'[k][x] = IF k = n /\ x = o THEN v ELSE rec[k][x]
  BY <1>1, <1>2 DEF TypeOK
<1>4. NothingDeleted' /\ NetIsEdits'
  BY <1>2 DEF NothingDeleted, NetIsEdits
<1>5. EditsInThePast'
  BY <1>1, <1>2 DEF EditsInThePast
<1>6. CopiesAreEdits'
  BY <1>2, <1>3 DEF CopiesAreEdits
<1>7. OwnerIsNewest'
  <2> SUFFICES ASSUME NEW w \in edits' PROVE w[2] <= rec'[Owner[w[1]]][w[1]]
    BY DEF OwnerIsNewest
  <2>1. CASE w \in edits
    <3>1. w[1] \in Object /\ w[2] \in Nat
      BY <2>1 DEF TypeOK
    <3>2. CASE w[1] = o
      BY <1>1, <1>3, <2>1, <3>1, <3>2
    <3>3. CASE w[1] # o
      BY <1>3, <2>1, <3>1, <3>3, OwnerWrites DEF OwnerIsNewest
    <3>4. QED  BY <3>2, <3>3
  <2>2. CASE w = <<o, v>>
    BY <1>1, <1>3, <2>2
  <2>3. QED  BY <1>2, <2>1, <2>2
<1>8. DraftsAreNews'
  <2>1. \A k \in Node : drafts'[k] = IF k = n THEN drafts[n] \ {d} ELSE drafts[k]
    BY <1>2 DEF TypeOK
  <2> SUFFICES ASSUME NEW k \in Node, NEW c \in drafts'[k]
               PROVE  /\ k = Owner[c.obj] /\ c.ver <= clock
                      /\ \A w \in edits' : w[1] = c.obj => w[2] < c.ver
                      /\ \A b \in drafts'[k] : b.obj = c.obj => b = c
    BY <1>2 DEF DraftsAreNews
  <2>2. c \in drafts[k]
    BY <2>1
  <2>3. c.obj # o
    <3> SUFFICES ASSUME c.obj = o PROVE FALSE
      OBVIOUS
    <3>1. k = n
      BY <1>1, <2>2 DEF DraftsAreNews
    <3>2. c = d
      BY <2>2, <3>1 DEF DraftsAreNews
    <3>3. QED  BY <2>1, <3>1, <3>2
  <2>4. QED  BY <1>2, <2>1, <2>2, <2>3 DEF DraftsAreNews
<1>9. HandlersBringNews'
  <2> SUFFICES ASSUME NEW k \in Node, NEW h \in handling[k], h[1].type = "snapshot"
               PROVE  h[1].ver > rec'[k][h[1].obj]
    BY <1>2 DEF HandlersBringNews
  <2>1. /\ h[1] \in net /\ h[1] \in Snapshot /\ <<h[1].obj, h[1].ver>> \in edits
        /\ h[1].ver > rec[k][h[1].obj]
    BY EnvelopeKinds DEF TypeOK, HandledWasPublished, NetIsEdits, HandlersBringNews
  <2>2. ~(k = n /\ h[1].obj = o)
    <3> SUFFICES ASSUME k = n, h[1].obj = o PROVE FALSE
      OBVIOUS
    <3>1. h[1].ver <= rec[n][o]
      BY <1>1, <2>1 DEF OwnerIsNewest
    <3>2. QED  BY <2>1, <3>1 DEF TypeOK, Snapshot
  <2>3. QED  BY <1>3, <2>1, <2>2 DEF Snapshot
<1>10. Register!Write(o, v)
  <2>1. v > rec[Owner[o]][o]
    <3>1. CASE rec[n][o] = 0
      BY <1>1, <3>1
    <3>2. CASE <<o, rec[n][o]>> \in edits
      <4> DEFINE w == <<o, rec[n][o]>>
      <4>1. w[2] < v
        BY <1>1, <3>2
      <4>2. QED  BY <1>1, <4>1
    <3>3. QED  BY <1>1, <3>1, <3>2 DEF CopiesAreEdits
  <2>2. QED  BY <1>1, <1>2, <2>1 DEF Register!Write
<1>11. QED  BY <1>1, <1>4, <1>5, <1>6, <1>7, <1>8, <1>9, <1>10

\* An applied snapshot: a node other than the owner moves to a newer edit.
LEMMA ApplyStep ==
  ASSUME SingleWriter, RegisterInv, NEW n \in Node, NEW h, ApplySnapshot(n, h)
  PROVE  /\ NothingDeleted' /\ EditsInThePast' /\ CopiesAreEdits' /\ NetIsEdits'
         /\ OwnerIsNewest' /\ DraftsAreNews' /\ HandlersBringNews'
         /\ h[1].obj \in Object /\ h[1].ver \in 1..MaxVersion
         /\ Register!Adopt(n, h[1].obj, h[1].ver)
<1> DEFINE e == h[1]
<1> USE DEF RegisterInv
<1>1. /\ e \in net /\ e \in Snapshot /\ h \in handling[n]
      /\ <<e.obj, e.ver>> \in edits /\ e.ver > rec[n][e.obj]
  BY EnvelopeKinds DEF ApplySnapshot, Finish, TypeOK, HandledWasPublished, NetIsEdits,
                       HandlersBringNews
<1>2. e.obj \in Object /\ e.ver \in 1..MaxVersion /\ e.ver <= clock /\ clock \in Nat
  BY <1>1 DEF Snapshot, EditsInThePast, TypeOK
<1>3. /\ rec' = [rec EXCEPT ![n][e.obj] = e.ver]
      /\ UNCHANGED <<hist, drafts, unlogged, net, clock, edits>>
  BY <1>2 DEF ApplySnapshot, Stored, SingleWriter, Now
<1>4. \A k \in Node, x \in Object :
        rec'[k][x] = IF k = n /\ x = e.obj THEN e.ver ELSE rec[k][x]
  BY <1>2, <1>3 DEF TypeOK
<1>5. n # Owner[e.obj]
  <2> SUFFICES ASSUME n = Owner[e.obj] PROVE FALSE
    OBVIOUS
  <2>1. e.ver <= rec[n][e.obj]
    BY <1>1 DEF OwnerIsNewest
  <2>2. QED  BY <1>1, <1>2, <2>1 DEF TypeOK
<1>6. NothingDeleted' /\ EditsInThePast' /\ NetIsEdits' /\ DraftsAreNews'
  BY <1>3 DEF NothingDeleted, EditsInThePast, NetIsEdits, DraftsAreNews
<1>7. CopiesAreEdits'
  BY <1>1, <1>3, <1>4 DEF CopiesAreEdits
<1>8. OwnerIsNewest'
  <2> SUFFICES ASSUME NEW w \in edits PROVE w[2] <= rec'[Owner[w[1]]][w[1]]
    BY <1>3 DEF OwnerIsNewest
  <2>1. w[1] \in Object
    BY DEF TypeOK
  <2>2. rec'[Owner[w[1]]][w[1]] = rec[Owner[w[1]]][w[1]]
    BY <1>4, <1>5, <2>1, OwnerWrites
  <2>3. QED  BY <2>2 DEF OwnerIsNewest
<1>9. HandlersBringNews'
  <2>1. handling'[n] = {} /\ \A k \in Node \ {n} : handling'[k] = handling[k]
    <3>1. \A g \in handling[n] : g = h
      BY <1>1, OneHandler DEF SingleWriter
    <3>2. QED  BY <1>1, <3>1 DEF ApplySnapshot, Finish, TypeOK
  <2> SUFFICES ASSUME NEW k \in Node \ {n}, NEW m \in handling[k], m[1].type = "snapshot"
               PROVE  m[1].ver > rec'[k][m[1].obj]
    BY <2>1 DEF HandlersBringNews
  <2>2. m[1] \in Snapshot
    BY EnvelopeKinds DEF TypeOK, HandledWasPublished
  <2>3. QED  BY <1>4, <2>2 DEF HandlersBringNews, Snapshot
<1>10. Register!Adopt(n, e.obj, e.ver)
  BY <1>1, <1>3, <1>5 DEF Register!Adopt
<1>11. QED  BY <1>2, <1>6, <1>7, <1>8, <1>9, <1>10

LEMMA RegisterStep ==
  ASSUME SingleWriter, RegisterInv, [Next]_vars
  PROVE  RegisterInv' /\ [Register!RNext]_(Register!rvars)
<1>0. /\ TypeOK /\ HandlersCounted /\ HandledWasPublished
      /\ TypeOK' /\ HandlersCounted' /\ HandledWasPublished'
  BY TypeStep, CountedStep, PublishedStep DEF RegisterInv
<1> DEFINE Parts == /\ NothingDeleted' /\ EditsInThePast' /\ CopiesAreEdits' /\ NetIsEdits'
                    /\ OwnerIsNewest' /\ DraftsAreNews' /\ HandlersBringNews'
           Map == [Register!RNext]_(Register!rvars)
<1>1. ASSUME NEW n \in Node, NEW d \in drafts[n], Save(n, d) PROVE Parts /\ Map
  <2>1. CASE d.new \/ rec[n][d.obj] # 0
    BY <1>1, <2>1, SaveStep DEF Register!RNext
  <2>2. CASE ~(d.new \/ rec[n][d.obj] # 0)
    <3>1. /\ UNCHANGED <<rec, hist, unlogged, clock, edits>>
          /\ net' = net /\ handling' = handling
      BY <1>1, <2>2 DEF Save
    <3>2. \A k \in Node : drafts'[k] \subseteq drafts[k]
      BY <1>0, <1>1 DEF Save, TypeOK
    <3>3. Parts
      BY <3>1, <3>2, RegisterFrame
    <3>4. QED  BY <3>1, <3>3 DEF Register!rvars
  <2>3. QED  BY <2>1, <2>2
<1>12. ASSUME NEW n \in Node, NEW o \in Object, Draft(n, o) PROVE Parts /\ Map
  BY <1>12, DraftStep
<1>2. ASSUME NEW n \in Node, NEW o \in Object,
             SaveConfig(n, o) \/ Delete(n, o) \/ LogDeletion(n, o)
      PROVE  FALSE
  BY <1>2 DEF SaveConfig, Delete, LogDeletion, SingleWriter, RegisterInv, NothingDeleted
<1>3. ASSUME NEW n \in Node, NEW o \in Object, PublishObject(n, o) PROVE Parts /\ Map
  <2>1. /\ UNCHANGED <<rec, hist, unlogged, clock, edits>> /\ handling' = handling /\ drafts' = drafts
        /\ rec[n][o] # 0
        /\ net' = net \cup {[type |-> "snapshot", obj |-> o, ver |-> rec[n][o], src |-> n]}
    BY <1>3 DEF PublishObject
  <2>2. Parts
    BY <2>1, RegisterFrame
  <2>3. QED  BY <2>1, <2>2 DEF Register!rvars
<1>4. ASSUME NEW n \in Node, NEW m \in Message, Post(n, m) \/ PublishMessage(n, m)
      PROVE  Parts /\ Map
  <2>1. /\ UNCHANGED <<rec, hist, unlogged, clock, edits>> /\ handling' = handling /\ drafts' = drafts
        /\ \A e \in net' : e \in net \/ e.type = "message"
    BY <1>4 DEF Post, PublishMessage
  <2>2. Parts
    BY <2>1, RegisterFrame
  <2>3. QED  BY <2>1, <2>2 DEF Register!rvars
<1>5. ASSUME NEW n \in Node, PublishHistory(n) PROVE FALSE
  BY <1>5 DEF PublishHistory, RegisterInv, NothingDeleted
<1>6. ASSUME NEW n \in Node, Apply(n) PROVE Parts /\ Map
  <2>1. PICK h \in handling[n] : \/ ApplySnapshot(n, h) \/ ApplyEvent(n, h)
                                 \/ ApplyDeletion(n, h) \/ ApplyMessage(n, h)
    BY <1>6 DEF Apply
  <2>2. CASE ApplySnapshot(n, h)
    BY <2>2, ApplyStep DEF Register!RNext
  <2>3. CASE ApplyEvent(n, h) \/ ApplyDeletion(n, h)
    <3>1. h[1].type = "deletion" /\ h[1] \in net
      <4>1. h[1] \in net
        BY <1>0 DEF HandledWasPublished
      <4>2. CASE ApplyEvent(n, h)
        BY <4>1, <4>2 DEF ApplyEvent, Proceed
      <4>3. CASE ApplyDeletion(n, h)
        BY <1>0, <4>1, <4>3, FinishType, EnvelopeKinds DEF ApplyDeletion
      <4>4. QED  BY <2>3, <4>2, <4>3
    <3>2. QED  BY <3>1 DEF RegisterInv, NetIsEdits
  <2>4. CASE ApplyMessage(n, h)
    <3>1. /\ UNCHANGED <<rec, hist, unlogged, clock, edits>> /\ net' = net /\ drafts' = drafts
          /\ Finish(n, h, "apply") /\ drafts' = drafts
      BY <2>4 DEF ApplyMessage
    <3>2. \A k \in Node : handling'[k] \subseteq handling[k]
      BY <1>0, <3>1 DEF Finish, TypeOK
    <3>3. Parts
      BY <3>1, <3>2, RegisterFrame
    <3>4. QED  BY <3>1, <3>3 DEF Register!rvars
  <2>5. QED  BY <2>1, <2>2, <2>3, <2>4
<1>7. ASSUME NEW n \in Node, Crash(n) PROVE Parts /\ Map
  <2>1. UNCHANGED <<rec, hist, clock, edits>> /\ net' = net
    BY <1>7 DEF Crash
  <2>2. unlogged' = unlogged
    BY <1>7 DEF Crash, RegisterInv, NothingDeleted
  <2>3. \A k \in Node : handling'[k] \subseteq handling[k] /\ drafts'[k] \subseteq drafts[k]
    BY <1>0, <1>7 DEF Crash, TypeOK
  <2>4. Parts
    BY <2>1, <2>2, <2>3, RegisterFrame
  <2>5. QED  BY <2>1, <2>4 DEF Register!rvars
<1>8. ASSUME NEW n \in Node, NEW e \in net, Receive(n, e) PROVE Parts /\ Map
  <2>1. UNCHANGED <<rec, hist, unlogged, clock, edits>> /\ net' = net /\ drafts' = drafts
    BY <1>8 DEF Receive
  <2>2. \A k \in Node : \A h \in handling'[k] :
          h \in handling[k] \/ (k = n /\ h[1] = e /\ Wanted(n, e))
    BY <1>0, <1>8, ReceiveType
  <2>3. e.type = "snapshot" /\ Wanted(n, e) => e.ver > rec[n][e.obj]
    BY DEF Wanted, Accepts, SingleWriter
  <2>4. Parts
    BY <2>1, <2>2, <2>3, RegisterFrame
  <2>5. QED  BY <2>1, <2>4 DEF Register!rvars
<1>9. ASSUME UNCHANGED vars PROVE Parts /\ Map
  <2>1. /\ UNCHANGED <<rec, hist, unlogged, clock, edits>> /\ net' = net /\ handling' = handling
        /\ drafts' = drafts
    BY <1>9 DEF vars
  <2>2. Parts
    BY <2>1, RegisterFrame
  <2>3. QED  BY <2>1, <2>2 DEF Register!rvars
<1>10. Parts /\ Map
  BY <1>1, <1>2, <1>3, <1>4, <1>5, <1>6, <1>7, <1>8, <1>9, <1>12 DEF Next
<1>11. QED  BY <1>0, <1>10 DEF RegisterInv

\* Objects edited on one node are replicated registers: whatever the network loses, repeats
\* or reorders and whenever nodes crash, a copy holds what the editing node wrote and only
\* moves forward.
THEOREM RefinesRegister ==
  ASSUME SingleWriter
  PROVE  Spec => IsRegister
<1>1. Init => RegisterInv /\ Register!RInit
  BY TypeInit, CountedInit DEF Init, RegisterInv, HandledWasPublished, NothingDeleted,
       EditsInThePast, CopiesAreEdits, NetIsEdits, OwnerIsNewest, DraftsAreNews, HandlersBringNews,
       Register!RInit
<1>2. RegisterInv /\ [Next]_vars => RegisterInv' /\ [Register!RNext]_(Register!rvars)
  BY RegisterStep
<1>3. QED  BY <1>1, <1>2, PTL DEF Spec, IsRegister, Register!RSpec

-----------------------------------------------------------------------------
(* Last writer wins.                                                       *)

\* Copies never move backward.
LEMMA CopiesGrow ==
  ASSUME SingleWriter, RegisterInv, [Next]_vars, NEW n \in Node, NEW o \in Object
  PROVE  rec[n][o] <= rec'[n][o]
<1>1. [Register!RNext]_(Register!rvars)
  BY RegisterStep
<1>2. rec[n][o] \in Nat /\ rec \in [Node -> [Object -> 0..MaxVersion]]
  BY ReplicationAssumption DEF RegisterInv, TypeOK
<1>3. Owner \in [Object -> Node]
  BY OwnerWrites
<1>4. CASE UNCHANGED Register!rvars
  BY <1>2, <1>4 DEF Register!rvars
<1>5. ASSUME NEW x \in Object, NEW v \in 1..MaxVersion, Register!Write(x, v)
      PROVE  rec[n][o] <= rec'[n][o]
  BY <1>2, <1>3, <1>5, ReplicationAssumption DEF Register!Write
<1>6. ASSUME NEW k \in Node, NEW x \in Object, NEW v \in 1..MaxVersion, Register!Adopt(k, x, v)
      PROVE  rec[n][o] <= rec'[n][o]
  BY <1>2, <1>6, ReplicationAssumption DEF Register!Adopt
<1>7. QED  BY <1>1, <1>4, <1>5, <1>6 DEF Register!RNext

\* A node that is done with a snapshot holds that version or a newer one.
HandledIsOld ==
  \A n \in Node : \A e \in handled[n] : e.type = "snapshot" => e.ver <= rec[n][e.obj]

LEMMA HandledStep ==
  ASSUME SingleWriter, RegisterInv, HandledIsOld, [Next]_vars
  PROVE  HandledIsOld'
<1>0. TypeOK
  BY DEF RegisterInv
<1>1. \A n \in Node : \A e \in handled'[n] :
        \/ e \in handled[n]
        \/ e \in Envelope /\ (e.type = "snapshot" => e.ver <= rec'[n][e.obj])
  <2>1. ASSUME NEW k \in Node, Apply(k)
        PROVE  \A n \in Node : \A e \in handled'[n] :
                 \/ e \in handled[n]
                 \/ e \in Envelope /\ (e.type = "snapshot" => e.ver <= rec'[n][e.obj])
    <3>1. PICK h \in handling[k] : \/ ApplySnapshot(k, h) \/ ApplyEvent(k, h)
                                   \/ ApplyDeletion(k, h) \/ ApplyMessage(k, h)
      BY <2>1 DEF Apply
    <3> DEFINE f == h[1]
    <3>2. f \in Envelope
      BY <1>0 DEF TypeOK, Envelope
    <3>3. \A n \in Node : \A e \in handled'[n] : e \in handled[n] \/ (n = k /\ e = f)
      BY <1>0, <3>1 DEF ApplySnapshot, ApplyEvent, Proceed, ApplyDeletion, ApplyMessage, Finish, TypeOK
    <3>4. CASE ApplySnapshot(k, h)
      <4>1. /\ Register!Adopt(k, f.obj, f.ver)
            /\ f.obj \in Object /\ f.ver \in 1..MaxVersion
        BY <3>4, ApplyStep
      <4>2. rec'[k][f.obj] = f.ver
        BY <1>0, <4>1 DEF Register!Adopt, TypeOK
      <4>3. QED  BY <3>2, <3>3, <4>1, <4>2, ReplicationAssumption
    <3>5. CASE ApplyMessage(k, h)
      BY <3>2, <3>3, <3>5 DEF ApplyMessage
    <3>6. CASE ApplyEvent(k, h)
      BY <3>6 DEF ApplyEvent, Proceed
    <3>7. CASE ApplyDeletion(k, h)
      <4>1. f.type = "deletion"
        BY <1>0, <3>7, FinishType, EnvelopeKinds DEF ApplyDeletion
      <4>2. QED  BY <3>2, <3>3, <4>1
    <3>8. QED  BY <3>1, <3>4, <3>5, <3>6, <3>7
  <2>2. ASSUME NEW k \in Node, NEW f \in net, Receive(k, f)
        PROVE  \A n \in Node : \A e \in handled'[n] :
                 \/ e \in handled[n]
                 \/ e \in Envelope /\ (e.type = "snapshot" => e.ver <= rec'[n][e.obj])
    <3>1. f \in Envelope /\ rec' = rec
      BY <1>0, <2>2 DEF TypeOK, Receive
    <3>2. \A n \in Node : \A e \in handled'[n] :
            e \in handled[n] \/ (n = k /\ e = f /\ ~Wanted(k, f))
      BY <1>0, <2>2 DEF Receive, TypeOK
    <3>3. f.type = "snapshot" /\ ~Wanted(k, f) => f.ver <= rec[k][f.obj]
      <4> SUFFICES ASSUME f.type = "snapshot", ~Wanted(k, f) PROVE f.ver <= rec[k][f.obj]
        OBVIOUS
      <4>1. f \in Snapshot
        BY <3>1, EnvelopeKinds
      <4>2. rec[k][f.obj] \in Nat /\ f.ver \in Nat
        BY <1>0, <4>1, ReplicationAssumption DEF TypeOK, Snapshot
      <4>3. QED  BY <4>2 DEF Wanted, Accepts
    <3>4. QED  BY <3>1, <3>2, <3>3
  <2>3. ASSUME UNCHANGED handled
        PROVE  \A n \in Node : \A e \in handled'[n] : e \in handled[n]
    BY <2>3
  <2>4. ASSUME NEW n \in Node, NEW o \in Object,
               \/ Draft(n, o) \/ SaveConfig(n, o) \/ Delete(n, o)
             \/ LogDeletion(n, o) \/ PublishObject(n, o)
        PROVE  UNCHANGED handled
    BY <2>4 DEF Draft, SaveConfig, Delete, LogDeletion, PublishObject
  <2>5. ASSUME NEW n \in Node, NEW m \in Message, Post(n, m) \/ PublishMessage(n, m)
        PROVE  UNCHANGED handled
    BY <2>5 DEF Post, PublishMessage
  <2>6. ASSUME NEW n \in Node, PublishHistory(n) \/ Crash(n) PROVE UNCHANGED handled
    BY <2>6 DEF PublishHistory, Crash
  <2>7. UNCHANGED vars => UNCHANGED handled
    BY DEF vars
  <2>8. ASSUME NEW n \in Node, NEW d \in drafts[n], Save(n, d) PROVE UNCHANGED handled
    BY <2>8 DEF Save
  <2>9. QED  BY <2>1, <2>2, <2>3, <2>4, <2>5, <2>6, <2>7, <2>8 DEF Next
<1>2. SUFFICES ASSUME NEW n \in Node, NEW e \in handled'[n], e.type = "snapshot"
               PROVE  e.ver <= rec'[n][e.obj]
  BY DEF HandledIsOld
<1>3. CASE e \in handled[n]
  <2>1. e \in Snapshot
    <3>1. e \in Envelope
      BY <1>0, <1>3 DEF TypeOK
    <3>2. QED  BY <1>2, <3>1, EnvelopeKinds
  <2>2. e.ver <= rec[n][e.obj] /\ rec[n][e.obj] <= rec'[n][e.obj]
    BY <1>2, <1>3, <2>1, CopiesGrow DEF HandledIsOld, Snapshot
  <2>3. e.ver \in Nat /\ rec[n][e.obj] \in Nat /\ rec'[n][e.obj] \in Nat
    BY <1>0, <2>1, TypeStep, ReplicationAssumption DEF TypeOK, Snapshot
  <2>4. QED  BY <2>2, <2>3
<1>4. CASE e \notin handled[n]
  BY <1>1, <1>2, <1>4
<1>5. QED  BY <1>3, <1>4

\* At rest the node that edits the object holds the newest edit and has published it, and
\* the others are done with that snapshot.
LEMMA RestIsNewest ==
  ASSUME SingleWriter, RegisterInv, HandledIsOld
  PROVE  LastWriterWins
<1> SUFFICES ASSUME Quiet, NEW n \in Node, NEW w \in edits
             PROVE  rec[n][w[1]] >= w[2]
  BY DEF LastWriterWins
<1> DEFINE o == w[1]
           v == rec[Owner[o]][o]
           e == [type |-> "snapshot", obj |-> o, ver |-> v, src |-> Owner[o]]
<1>1. /\ o \in Object /\ w[2] \in 1..MaxVersion /\ Owner[o] \in Node
      /\ v \in Nat /\ rec[n][o] \in Nat /\ w[2] \in Nat
  BY OwnerWrites, ReplicationAssumption DEF RegisterInv, TypeOK
<1>2. w[2] <= v
  BY DEF RegisterInv, OwnerIsNewest
<1>3. e \in net
  BY <1>1, <1>2 DEF Quiet
<1>4. CASE n = Owner[o]
  BY <1>1, <1>2, <1>4
<1>5. CASE n # Owner[o]
  <2>1. e \in handled[n]
    BY <1>3, <1>5 DEF Quiet
  <2>2. v <= rec[n][o]
    BY <2>1 DEF HandledIsOld
  <2>3. QED  BY <1>1, <1>2, <2>2
<1>6. QED  BY <1>4, <1>5

\* At rest no copy of an object edited on one node is older than its newest edit.
THEOREM LastWriterWinsHolds ==
  ASSUME SingleWriter
  PROVE  Spec => []LastWriterWins
<1>1. Init => RegisterInv /\ HandledIsOld
  BY TypeInit, CountedInit DEF Init, RegisterInv, HandledWasPublished, NothingDeleted,
       EditsInThePast, CopiesAreEdits, NetIsEdits, OwnerIsNewest, DraftsAreNews, HandlersBringNews,
       HandledIsOld
<1>2. RegisterInv /\ HandledIsOld /\ [Next]_vars => RegisterInv' /\ HandledIsOld'
  BY RegisterStep, HandledStep
<1>3. RegisterInv /\ HandledIsOld => LastWriterWins
  BY RestIsNewest
<1>4. QED  BY <1>1, <1>2, <1>3, PTL DEF Spec

-----------------------------------------------------------------------------
(* Deletions.                                                              *)

\* A handler that is about to delete has its event in the history.
LossInv ==
  \A n \in Node : \A h \in handling[n] : h[2] = "delete" => EventOf(h[1]) \in hist[n]

Recorded ==
  \A n \in Node, o \in Object :
    rec[n][o] # 0 /\ rec'[n][o] = 0 => <<n, o>> \in unlogged' \/ \E d \in hist[n] : d.obj = o

\* A step that loses no object, forgets no event and starts no deletion.
LEMMA LossFrame ==
  ASSUME LossInv,
         \A n \in Node : /\ hist[n] \subseteq hist'[n]
                          /\ \A h \in handling'[n] : h \in handling[n] \/ h[2] # "delete",
         \A n \in Node, o \in Object : rec[n][o] # 0 => rec'[n][o] # 0
  PROVE  LossInv' /\ Recorded
  BY DEF LossInv, Recorded

LEMMA LossStep ==
  ASSUME TypeOK, LossInv, [Next]_vars
  PROVE  LossInv' /\ Recorded
<1>1. ASSUME NEW n \in Node, NEW o \in Object, Draft(n, o) \/ PublishObject(n, o)
      PROVE  LossInv' /\ Recorded
  BY <1>1, LossFrame DEF Draft, PublishObject
<1>2. ASSUME NEW n \in Node, NEW o \in Object, SaveConfig(n, o) PROVE LossInv' /\ Recorded
  <2>1. \A k \in Node, x \in Object : rec'[k][x] = IF k = n /\ x = o THEN Now ELSE rec[k][x]
    BY <1>2 DEF SaveConfig, TypeOK
  <2>2. Now # 0
    BY ReplicationAssumption DEF Now, TypeOK
  <2>3. QED  BY <1>2, <2>1, <2>2, LossFrame DEF SaveConfig
<1>3. ASSUME NEW n \in Node, NEW o \in Object, Delete(n, o) PROVE LossInv' /\ Recorded
  <2>1. \A k \in Node, x \in Object : rec'[k][x] = IF k = n /\ x = o THEN 0 ELSE rec[k][x]
    BY <1>3 DEF Delete, TypeOK
  <2>2. <<n, o>> \in unlogged' /\ UNCHANGED <<hist, handling>>
    BY <1>3 DEF Delete
  <2>3. QED  BY <2>1, <2>2 DEF LossInv, Recorded
<1>4. ASSUME NEW n \in Node, NEW o \in Object, LogDeletion(n, o) PROVE LossInv' /\ Recorded
  <2>1. \A k \in Node : hist[k] \subseteq hist'[k]
    BY <1>4 DEF LogDeletion, TypeOK
  <2>2. QED  BY <1>4, <2>1, LossFrame DEF LogDeletion
<1>5. ASSUME NEW n \in Node, NEW m \in Message, Post(n, m) \/ PublishMessage(n, m)
      PROVE  LossInv' /\ Recorded
  BY <1>5, LossFrame DEF Post, PublishMessage
<1>6. ASSUME NEW n \in Node, PublishHistory(n) PROVE LossInv' /\ Recorded
  BY <1>6, LossFrame DEF PublishHistory
<1>7. ASSUME NEW n \in Node, Apply(n) PROVE LossInv' /\ Recorded
  <2>1. PICK h \in handling[n] : \/ ApplySnapshot(n, h) \/ ApplyEvent(n, h)
                                 \/ ApplyDeletion(n, h) \/ ApplyMessage(n, h)
    BY <1>7 DEF Apply
  <2> DEFINE e == h[1]
  <2>2. e \in Envelope
    BY DEF TypeOK, Envelope
  <2>3. CASE ApplySnapshot(n, h)
    <3>1. e \in Snapshot
      BY <2>2, <2>3, EnvelopeKinds DEF ApplySnapshot
    <3>2. Stored(n, e) # 0
      BY <3>1, ReplicationAssumption DEF Stored, Now, Snapshot, TypeOK
    <3>3. \A k \in Node, x \in Object :
            rec'[k][x] = IF k = n /\ x = e.obj THEN Stored(n, e) ELSE rec[k][x]
      BY <2>3 DEF ApplySnapshot, TypeOK
    <3>4. hist' = hist /\ \A k \in Node : handling'[k] \subseteq handling[k]
      BY <2>3 DEF ApplySnapshot, Finish, TypeOK
    <3>5. QED  BY <3>2, <3>3, <3>4, LossFrame
  <2>4. CASE ApplyEvent(n, h)
    <3>1. \A k \in Node : /\ hist[k] \subseteq hist'[k]
                          /\ k # n => handling'[k] = handling[k]
      BY <2>4, ProceedType DEF ApplyEvent, TypeOK
    <3>2. EventOf(e) \in hist'[n]
      BY <2>4 DEF ApplyEvent, TypeOK
    <3>3. \A g \in handling'[n] : g \in handling[n] \/ g[1] = e
      BY <2>4, ProceedType DEF ApplyEvent
    <3>4. LossInv'
      BY <3>1, <3>2, <3>3 DEF LossInv
    <3>5. rec' = rec
      BY <2>4 DEF ApplyEvent, Proceed
    <3>6. QED  BY <3>4, <3>5 DEF Recorded
  <2>5. CASE ApplyDeletion(n, h)
    <3>1. EventOf(e) \in hist[n]
      BY <2>5 DEF ApplyDeletion, Finish, LossInv
    <3>2. EventOf(e).obj = e.obj
      BY DEF EventOf
    <3>3. \A k \in Node, x \in Object :
            rec'[k][x] = IF k = n /\ x = e.obj THEN 0 ELSE rec[k][x]
      BY <2>5 DEF ApplyDeletion, TypeOK
    <3>4. hist' = hist /\ \A k \in Node : handling'[k] \subseteq handling[k]
      BY <2>5 DEF ApplyDeletion, Finish, TypeOK
    <3>5. Recorded
      BY <3>1, <3>2, <3>3 DEF Recorded
    <3>6. QED  BY <3>4, <3>5 DEF LossInv
  <2>6. CASE ApplyMessage(n, h)
    <3>1. hist' = hist /\ rec' = rec /\ \A k \in Node : handling'[k] \subseteq handling[k]
      BY <2>6 DEF ApplyMessage, Finish, TypeOK
    <3>2. QED  BY <3>1, LossFrame
  <2>7. QED  BY <2>1, <2>3, <2>4, <2>5, <2>6
<1>8. ASSUME NEW n \in Node, Crash(n) PROVE LossInv' /\ Recorded
  <2>1. hist' = hist /\ rec' = rec /\ \A k \in Node : handling'[k] \subseteq handling[k]
    BY <1>8 DEF Crash, TypeOK
  <2>2. QED  BY <2>1, LossFrame
<1>9. ASSUME NEW n \in Node, NEW d \in drafts[n], Save(n, d) PROVE LossInv' /\ Recorded
  <2>1. d.ver # 0
    BY DEF TypeOK, EditDraft
  <2>2. \A k \in Node, x \in Object :
          rec'[k][x] = rec[k][x] \/ rec'[k][x] = d.ver
    <3>1. rec' = [rec EXCEPT ![n][d.obj] = d.ver] \/ rec' = rec
      BY <1>9 DEF Save
    <3>2. rec \in [Node -> [Object -> 0..MaxVersion]]
      BY DEF TypeOK
    <3>3. QED  BY <3>1, <3>2
  <2>3. hist' = hist /\ handling' = handling
    BY <1>9 DEF Save
  <2>4. QED  BY <2>1, <2>2, <2>3, LossFrame
<1>10. ASSUME NEW n \in Node, NEW e \in net, Receive(n, e) PROVE LossInv' /\ Recorded
  <2>1. \A k \in Node : \A h \in handling'[k] : h \in handling[k] \/ h[2] = "apply"
    BY <1>10, ReceiveType
  <2>2. hist' = hist /\ rec' = rec
    BY <1>10 DEF Receive
  <2>3. QED  BY <2>1, <2>2, LossFrame
<1>11. CASE UNCHANGED vars
  BY <1>11, LossFrame DEF vars
<1>12. QED
  BY <1>1, <1>2, <1>3, <1>4, <1>5, <1>6, <1>7, <1>8, <1>9, <1>10, <1>11 DEF Next

\* An object disappears only by the hand of a user of the node or after its deletion is
\* in the history, with any writers, overlapping edits and handlers, and crashes.
THEOREM LossIsRecordedHolds == Spec => LossIsRecorded
<1>1. Init => TypeOK /\ LossInv
  BY TypeInit DEF Init, LossInv
<1>2. TypeOK /\ LossInv /\ [Next]_vars => TypeOK' /\ LossInv' /\ [Recorded]_vars
  BY TypeStep, LossStep
<1>3. QED  BY <1>1, <1>2, PTL DEF Spec, LossIsRecorded, Recorded

-----------------------------------------------------------------------------
(* Channel configurations, which cannot be deleted.                        *)

\* No stored configuration is ahead of the clock, and what is drafted or deleted is
\* something else.
ConfigInv ==
  /\ \A n \in Node, o \in Restamped : rec[n][o] <= clock
  /\ \A n \in Node : \A d \in drafts[n] : d.obj \notin Restamped
  /\ \A d \in unlogged : d[2] \notin Restamped
  /\ \A n \in Node : \A d \in hist[n] : d.obj \notin Restamped
  /\ \A e \in net : e.type = "deletion" => e.obj \notin Restamped
  /\ \A n \in Node : \A h \in handling[n] : h[1].type = "deletion" => h[1].obj \notin Restamped

Forward == \A n \in Node, o \in Restamped : rec'[n][o] >= rec[n][o]

\* Every step leaves a configuration alone or stamps it with the next instant.
NextInstant ==
  /\ clock' \in Nat /\ clock' >= clock
  /\ \A n \in Node, o \in Restamped : rec'[n][o] = rec[n][o] \/ rec'[n][o] = clock'

\* Such a step that drafts, deletes, publishes and starts nothing about configurations.
LEMMA ConfigFrame ==
  ASSUME TypeOK, ConfigInv, NextInstant,
         \A n \in Node : \A d \in drafts'[n] : d \in drafts[n] \/ d.obj \notin Restamped,
         \A d \in unlogged' : d \in unlogged \/ d[2] \notin Restamped,
         \A n \in Node : \A d \in hist'[n] : d \in hist[n] \/ d.obj \notin Restamped,
         \A e \in net' : e \in net \/ (e.type = "deletion" => e.obj \notin Restamped),
         \A n \in Node : \A h \in handling'[n] :
           h \in handling[n] \/ (h[1].type = "deletion" => h[1].obj \notin Restamped)
  PROVE  ConfigInv' /\ Forward
<1>1. clock \in Nat /\ \A n \in Node, o \in Restamped : rec[n][o] \in Nat
  BY ReplicationAssumption DEF TypeOK
<1>2. \A n \in Node, o \in Restamped : rec'[n][o] <= clock' /\ rec'[n][o] >= rec[n][o]
  BY <1>1 DEF ConfigInv, NextInstant
<1>3. QED  BY <1>2 DEF ConfigInv, Forward

LEMMA ConfigStep ==
  ASSUME Deletable \cap Restamped = {}, TypeOK, ConfigInv, [Next]_vars
  PROVE  ConfigInv' /\ Forward
<1>0. clock \in Nat /\ Now \in Nat /\ Now >= clock /\ rec \in [Node -> [Object -> 0..MaxVersion]]
  BY ReplicationAssumption DEF TypeOK, Now
<1>1. ASSUME NEW n \in Node, NEW o \in Object, Draft(n, o) PROVE ConfigInv' /\ Forward
  <2>1. NextInstant
    BY <1>0, <1>1 DEF Draft, Tick, NextInstant
  <2>2. \A k \in Node : \A d \in drafts'[k] : d \in drafts[k] \/ d.obj = o
    BY <1>1 DEF Draft, TypeOK
  <2>3. QED  BY <1>1, <2>1, <2>2, ConfigFrame DEF Draft
<1>2. ASSUME NEW n \in Node, NEW o \in Object, SaveConfig(n, o) PROVE ConfigInv' /\ Forward
  <2>1. NextInstant
    BY <1>0, <1>2 DEF SaveConfig, Tick, NextInstant
  <2>2. QED  BY <1>2, <2>1, ConfigFrame DEF SaveConfig
<1>3. ASSUME NEW n \in Node, NEW o \in Object, Delete(n, o) PROVE ConfigInv' /\ Forward
  <2>1. o \notin Restamped
    BY <1>3 DEF Delete
  <2>2. NextInstant
    BY <1>0, <1>3, <2>1 DEF Delete, NextInstant
  <2>3. \A d \in unlogged' : d \in unlogged \/ d[2] \notin Restamped
    BY <1>3, <2>1 DEF Delete
  <2>4. QED  BY <1>3, <2>2, <2>3, ConfigFrame DEF Delete
<1>4. ASSUME NEW n \in Node, NEW o \in Object, LogDeletion(n, o) PROVE ConfigInv' /\ Forward
  <2>1. o \notin Restamped
    BY <1>4 DEF LogDeletion, ConfigInv
  <2>2. NextInstant
    BY <1>0, <1>4 DEF LogDeletion, Tick, NextInstant
  <2>3. \A k \in Node : \A d \in hist'[k] : d \in hist[k] \/ d.obj \notin Restamped
    BY <1>4, <2>1 DEF LogDeletion, TypeOK
  <2>4. QED  BY <1>4, <2>2, <2>3, ConfigFrame DEF LogDeletion
<1>5. ASSUME NEW n \in Node, NEW o \in Object, PublishObject(n, o) PROVE ConfigInv' /\ Forward
  <2>1. NextInstant
    BY <1>0, <1>5 DEF PublishObject, NextInstant
  <2>2. QED  BY <1>5, <2>1, ConfigFrame DEF PublishObject
<1>6. ASSUME NEW n \in Node, NEW m \in Message, Post(n, m) \/ PublishMessage(n, m)
      PROVE  ConfigInv' /\ Forward
  <2>1. NextInstant
    BY <1>0, <1>6 DEF Post, PublishMessage, NextInstant
  <2>2. QED  BY <1>6, <2>1, ConfigFrame DEF Post, PublishMessage
<1>7. ASSUME NEW n \in Node, PublishHistory(n) PROVE ConfigInv' /\ Forward
  <2>1. NextInstant
    BY <1>0, <1>7 DEF PublishHistory, NextInstant
  <2>2. \A e \in net' : e \in net \/ e.obj \notin Restamped
    BY <1>7 DEF PublishHistory, ConfigInv
  <2>3. QED  BY <1>7, <2>1, <2>2, ConfigFrame DEF PublishHistory
<1>8. ASSUME NEW n \in Node, Apply(n) PROVE ConfigInv' /\ Forward
  <2>1. PICK h \in handling[n] : \/ ApplySnapshot(n, h) \/ ApplyEvent(n, h)
                                 \/ ApplyDeletion(n, h) \/ ApplyMessage(n, h)
    BY <1>8 DEF Apply
  <2> DEFINE e == h[1]
  <2>2. e \in Envelope
    BY DEF TypeOK, Envelope
  <2>3. CASE ApplySnapshot(n, h)
    <3>1. /\ UNCHANGED <<drafts, unlogged, hist, net>>
          /\ \A k \in Node : handling'[k] \subseteq handling[k]
      BY <2>3 DEF ApplySnapshot, Finish, TypeOK
    <3>2. \A k \in Node, x \in Object :
            rec'[k][x] = IF k = n /\ x = e.obj THEN Stored(n, e) ELSE rec[k][x]
      BY <1>0, <2>3 DEF ApplySnapshot
    <3>3. clock' = clock \/ clock' = Now
      BY <2>3 DEF ApplySnapshot, Tick
    <3>4. e.obj \in Restamped => Stored(n, e) = Now /\ clock' = Now
      BY <2>3 DEF ApplySnapshot, Tick, Stored
    <3>5. NextInstant
      BY <1>0, <3>2, <3>3, <3>4, ReplicationAssumption DEF NextInstant
    <3>6. QED  BY <3>1, <3>5, ConfigFrame
  <2>4. CASE ApplyEvent(n, h)
    <3>1. e.obj \notin Restamped
      BY <2>4 DEF ApplyEvent, Proceed, ConfigInv
    <3>2. /\ UNCHANGED <<drafts, unlogged, net>>
          /\ \A k \in Node : \A g \in handling'[k] : g \in handling[k] \/ g[1] = e
          /\ \A k \in Node : \A d \in hist'[k] : d \in hist[k] \/ d = EventOf(e)
      BY <2>4, ProceedType DEF ApplyEvent, Proceed, TypeOK
    <3>3. NextInstant
      BY <1>0, <2>4 DEF ApplyEvent, Proceed, NextInstant
    <3>4. QED  BY <3>1, <3>2, <3>3, ConfigFrame DEF EventOf
  <2>5. CASE ApplyDeletion(n, h)
    <3>1. e.type = "deletion" /\ h \in handling[n]
      BY <2>5, FinishType, EnvelopeKinds DEF ApplyDeletion, Finish
    <3>2. e.obj \notin Restamped
      BY <3>1 DEF ConfigInv
    <3>3. /\ UNCHANGED <<drafts, unlogged, hist, net>>
          /\ \A k \in Node : handling'[k] \subseteq handling[k]
      BY <2>5 DEF ApplyDeletion, Finish, TypeOK
    <3>4. NextInstant
      BY <1>0, <2>5, <3>2 DEF ApplyDeletion, NextInstant
    <3>5. QED  BY <3>3, <3>4, ConfigFrame
  <2>6. CASE ApplyMessage(n, h)
    <3>1. /\ UNCHANGED <<drafts, unlogged, hist, net>>
          /\ \A k \in Node : handling'[k] \subseteq handling[k]
      BY <2>6 DEF ApplyMessage, Finish, TypeOK
    <3>2. NextInstant
      BY <1>0, <2>6 DEF ApplyMessage, NextInstant
    <3>3. QED  BY <3>1, <3>2, ConfigFrame
  <2>7. QED  BY <2>1, <2>3, <2>4, <2>5, <2>6
<1>9. ASSUME NEW n \in Node, Crash(n) PROVE ConfigInv' /\ Forward
  <2>1. /\ UNCHANGED <<hist, net>> /\ unlogged' \subseteq unlogged
        /\ \A k \in Node : handling'[k] \subseteq handling[k] /\ drafts'[k] \subseteq drafts[k]
    BY <1>9 DEF Crash, TypeOK
  <2>2. NextInstant
    BY <1>0, <1>9 DEF Crash, NextInstant
  <2>3. QED  BY <2>1, <2>2, ConfigFrame
<1>10. ASSUME NEW n \in Node, NEW d \in drafts[n], Save(n, d) PROVE ConfigInv' /\ Forward
  <2>1. d.obj \notin Restamped
    BY DEF ConfigInv
  <2>2. rec' = [rec EXCEPT ![n][d.obj] = d.ver] \/ rec' = rec
    BY <1>10 DEF Save
  <2>3. \A k \in Node, x \in Restamped : rec'[k][x] = rec[k][x]
    BY <1>0, <2>1, <2>2, ReplicationAssumption
  <2>4. clock' = clock
    BY <1>10 DEF Save
  <2>5. /\ UNCHANGED <<hist, net, unlogged, handling>>
        /\ \A k \in Node : drafts'[k] \subseteq drafts[k]
    BY <1>10 DEF Save, TypeOK
  <2>6. NextInstant
    BY <1>0, <2>3, <2>4 DEF NextInstant
  <2>7. QED  BY <2>5, <2>6, ConfigFrame
<1>11. ASSUME NEW n \in Node, NEW e \in net, Receive(n, e) PROVE ConfigInv' /\ Forward
  <2>1. /\ UNCHANGED <<drafts, unlogged, hist, net>>
        /\ \A k \in Node : \A h \in handling'[k] : h \in handling[k] \/ h[1] = e
    BY <1>11, ReceiveType DEF Receive
  <2>2. NextInstant
    BY <1>0, <1>11 DEF Receive, NextInstant
  <2>3. e.type = "deletion" => e.obj \notin Restamped
    BY DEF ConfigInv
  <2>4. QED  BY <2>1, <2>2, <2>3, ConfigFrame
<1>12. CASE UNCHANGED vars
  <2>1. NextInstant
    BY <1>0, <1>12 DEF vars, NextInstant
  <2>2. QED  BY <1>12, <2>1, ConfigFrame DEF vars
<1>13. QED
  BY <1>1, <1>2, <1>3, <1>4, <1>5, <1>6, <1>7, <1>8, <1>9, <1>10, <1>11, <1>12 DEF Next

\* The stored version of a channel configuration never goes back, although handlers
\* write without reading again.
THEOREM ConfigNeverRollsBackHolds ==
  ASSUME Deletable \cap Restamped = {}
  PROVE  Spec => ConfigNeverRollsBack
<1>1. Init => TypeOK /\ ConfigInv
  BY TypeInit, ReplicationAssumption DEF Init, ConfigInv
<1>2. TypeOK /\ ConfigInv /\ [Next]_vars => TypeOK' /\ ConfigInv' /\ [Forward]_vars
  BY TypeStep, ConfigStep
<1>3. QED  BY <1>1, <1>2, PTL DEF Spec, ConfigNeverRollsBack, Forward

-----------------------------------------------------------------------------
(* The histories converge.                                                 *)

\* An envelope is done with only when its event is in the history, and an object is
\* deleted only after it is there.
DoneIsLogged ==
  \A n \in Node : \A e \in handled[n] : e.type = "deletion" => EventOf(e) \in hist[n]

DeletesAreLogged ==
  \A n \in Node : \A h \in handling[n] : h[2] = "delete" => EventOf(h[1]) \in hist[n]

LogInv == TypeOK /\ DoneIsLogged /\ DeletesAreLogged

\* A step that removes nothing from a history and moves handlers only past what is logged.
LEMMA LogFrame ==
  ASSUME LogInv,
         \A n \in Node : hist[n] \subseteq hist'[n],
         \A n \in Node : \A e \in handled'[n] :
           e \in handled[n] \/ (e.type = "deletion" => EventOf(e) \in hist'[n]),
         \A n \in Node : \A h \in handling'[n] :
           h \in handling[n] \/ (h[2] = "delete" => EventOf(h[1]) \in hist'[n])
  PROVE  DoneIsLogged' /\ DeletesAreLogged'
<1>1. DoneIsLogged'
  BY DEF LogInv, DoneIsLogged, EventOf
<1>2. DeletesAreLogged'
  BY DEF LogInv, DeletesAreLogged, EventOf
<1>3. QED  BY <1>1, <1>2

LEMMA LogStep ==
  ASSUME LogInv, [Next]_vars
  PROVE  LogInv'
<1> DEFINE Goal == DoneIsLogged' /\ DeletesAreLogged'
<1>0. TypeOK'
  BY TypeStep DEF LogInv
<1>1. ASSUME UNCHANGED <<hist, handled, handling>> PROVE Goal
  BY <1>1, LogFrame
<1>2. ASSUME NEW n \in Node, NEW o \in Object,
             \/ Draft(n, o) \/ SaveConfig(n, o) \/ Delete(n, o) \/ PublishObject(n, o)
      PROVE  Goal
  BY <1>1, <1>2 DEF Draft, SaveConfig, Delete, PublishObject
<1>3. ASSUME NEW n \in Node, NEW o \in Object, LogDeletion(n, o) PROVE Goal
  <2>1. \A k \in Node : hist[k] \subseteq hist'[k]
    BY <1>3 DEF LogDeletion, LogInv, TypeOK
  <2>2. handled' = handled /\ handling' = handling
    BY <1>3 DEF LogDeletion
  <2>3. QED  BY <2>1, <2>2, LogFrame
<1>4. ASSUME NEW n \in Node, NEW m \in Message, Post(n, m) \/ PublishMessage(n, m) PROVE Goal
  BY <1>1, <1>4 DEF Post, PublishMessage
<1>5. ASSUME NEW n \in Node, PublishHistory(n) PROVE Goal
  BY <1>1, <1>5 DEF PublishHistory
<1>6. ASSUME NEW n \in Node, NEW d \in drafts[n], Save(n, d) PROVE Goal
  BY <1>1, <1>6 DEF Save
<1>7. ASSUME NEW n \in Node, Crash(n) PROVE Goal
  <2>1. /\ hist' = hist /\ handled' = handled
        /\ \A k \in Node : handling'[k] \subseteq handling[k]
    BY <1>7 DEF Crash, LogInv, TypeOK
  <2>2. QED  BY <2>1, LogFrame
<1>8. ASSUME NEW n \in Node, NEW e \in net, Receive(n, e) PROVE Goal
  <2>1. hist' = hist
    BY <1>8 DEF Receive
  <2>2. CASE Wanted(n, e)
    <3>1. handled' = handled
      BY <1>8, <2>2 DEF Receive
    <3>2. \A k \in Node : \A h \in handling'[k] : h \in handling[k] \/ h[2] = "apply"
      BY <1>8, ReceiveType DEF LogInv
    <3>3. QED  BY <2>1, <3>1, <3>2, LogFrame
  <2>3. CASE ~Wanted(n, e)
    <3>1. e.type = "deletion" => EventOf(e) \in hist[n]
      BY <2>3 DEF Wanted
    <3>2. /\ handling' = handling
          /\ \A k \in Node : \A f \in handled'[k] : f \in handled[k] \/ (k = n /\ f = e)
      BY <1>8, <2>3 DEF Receive, LogInv, TypeOK
    <3>3. QED  BY <2>1, <3>1, <3>2, LogFrame
  <2>4. QED  BY <2>2, <2>3
<1>9. ASSUME NEW n \in Node, Apply(n) PROVE Goal
  <2>1. PICK h \in handling[n] : \/ ApplySnapshot(n, h) \/ ApplyEvent(n, h)
                                 \/ ApplyDeletion(n, h) \/ ApplyMessage(n, h)
    BY <1>9 DEF Apply
  <2> DEFINE e == h[1]
  <2>2. ASSUME NEW step, Finish(n, h, step)
        PROVE  /\ h[2] = step
               /\ \A k \in Node : \A f \in handled'[k] : f \in handled[k] \/ (k = n /\ f = e)
               /\ \A k \in Node : handling'[k] \subseteq handling[k]
    BY <2>2 DEF Finish, LogInv, TypeOK
  <2>3. CASE ApplySnapshot(n, h) \/ ApplyMessage(n, h)
    <3>1. e.type # "deletion" /\ hist' = hist /\ Finish(n, h, "apply")
      BY <2>3 DEF ApplySnapshot, ApplyMessage
    <3>2. QED  BY <3>1, <2>2, LogFrame
  <2>4. CASE ApplyEvent(n, h)
    <3>1. hist' = [hist EXCEPT ![n] = @ \cup {EventOf(e)}] /\ handled' = handled
      BY <2>4 DEF ApplyEvent, Proceed
    <3>2. EventOf(e) \in hist'[n] /\ \A k \in Node : hist[k] \subseteq hist'[k]
      BY <3>1 DEF LogInv, TypeOK
    <3>3. \A k \in Node : \A g \in handling'[k] :
            g \in handling[k] \/ (k = n /\ g[1] = e)
      BY <2>4, ProceedType DEF ApplyEvent, LogInv
    <3>4. QED  BY <3>1, <3>2, <3>3, LogFrame
  <2>5. CASE ApplyDeletion(n, h)
    <3>1. hist' = hist /\ Finish(n, h, "delete")
      BY <2>5 DEF ApplyDeletion
    <3>2. EventOf(e) \in hist[n]
      BY <3>1, <2>2 DEF LogInv, DeletesAreLogged
    <3>3. QED  BY <3>1, <3>2, <2>2, LogFrame
  <2>6. QED  BY <2>1, <2>3, <2>4, <2>5
<1>10. ASSUME UNCHANGED vars PROVE Goal
  BY <1>1, <1>10 DEF vars
<1>11. Goal
  BY <1>2, <1>3, <1>4, <1>5, <1>6, <1>7, <1>8, <1>9, <1>10 DEF Next
<1>12. QED  BY <1>0, <1>11 DEF LogInv

\* Whatever was lost, repeated, reordered or cut short, and however many handlers and users
\* were at work at once: when nothing is under way, every node's history has the same
\* deletions (ApplyReplicatedHistory asks HasHistoryEventID and logs before it deletes).
THEOREM HistoryAgreesHolds == Spec => []HistoryAgrees
<1>1. Init => LogInv
  BY TypeInit DEF Init, LogInv, DoneIsLogged, DeletesAreLogged
<1>2. LogInv /\ [Next]_vars => LogInv'
  BY LogStep
<1>3. LogInv => HistoryAgrees
  <2>0. ASSUME \A n, k \in Node : hist[n] \subseteq hist[k]
        PROVE  \A n, k \in Node : hist[n] = hist[k]
    BY <2>0
  <2> SUFFICES ASSUME LogInv, Quiet, NEW n \in Node, NEW k \in Node, NEW d \in hist[n]
               PROVE  d \in hist[k]
    BY <2>0, Zenon DEF HistoryAgrees
  <2> DEFINE e == [type |-> "deletion", obj |-> d.obj, ver |-> d.ver, src |-> n]
  <2>1. e \in net
    BY DEF Quiet
  <2>2. CASE k = n
    BY <2>2
  <2>3. CASE k # n
    <3>1. e \in handled[k]
      BY <2>1, <2>3 DEF Quiet
    <3>2. EventOf(e) \in hist[k]
      BY <3>1 DEF LogInv, DoneIsLogged
    <3>3. d \in Event
      BY DEF LogInv, TypeOK
    <3>4. EventOf(e) = d
      BY <3>3 DEF EventOf, Event
    <3>5. QED  BY <3>2, <3>4
  <2>4. QED  BY <2>2, <2>3
<1>4. QED  BY <1>1, <1>2, <1>3, PTL DEF Spec

=============================================================================

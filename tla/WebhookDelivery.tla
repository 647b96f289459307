--------------------------- MODULE WebhookDelivery ---------------------------
(***************************************************************************)
(* The events of a team (internal/aip2p/team/store.go, publish) and their  *)
(* delivery to webhooks (webhook_delivery.go): each matching webhook gets  *)
(* a goroutine that posts the event up to MaxAttempts times and keeps a    *)
(* record of the outcome in webhook-deliveries.json, a file all of them    *)
(* load, change and rewrite under the lock of the team.                    *)
(***************************************************************************)
EXTENDS Naturals, FiniteSets

CONSTANTS
    EventKinds,      \* the kinds of event a webhook may ask for
    Deliveries,      \* deliveries that may be begun
    KeepDeliveries,  \* 200, the records the file keeps
    MaxAttempts,     \* 3, the posts of one delivery
    StreamRoom,      \* 32, the events a subscriber's channel holds
    MaxHookStops     \* bound: processes that stop

ASSUME HookConstants ==
    /\ Deliveries \subseteq Nat \ {0} /\ IsFiniteSet(Deliveries)
    /\ KeepDeliveries \in Nat \ {0} /\ MaxAttempts \in Nat \ {0}
    /\ StreamRoom \in Nat /\ MaxHookStops \in Nat

VARIABLES
    hooks,       \* webhooks.json: the kinds of event asked for, {} when there is no webhook
    stream,      \* the events in the channel of a subscriber
    deliveries,  \* webhook-deliveries.json: whether it can be read, and its records
    hookLock,    \* the delivery that holds the lock of the team
    sender,      \* what the goroutine of each delivery does, and the records it read
    stamp,       \* the time stamps given to records
    wrote,       \* history: the last record each delivery wrote
    hookStops

hookvars == <<hooks, stream, deliveries, hookLock, sender, stamp, wrote, hookStops>>

FinalStates == {"delivered", "failed", "dead_letter"}
NoOne == 0
Unused == [pc |-> "unused", attempt |-> 0, status |-> "pending", at |-> 0, read |-> {}]
Gone == [Unused EXCEPT !.pc = "gone"]

HooksInit ==
    /\ hooks = {} /\ stream = 0 /\ hookLock = NoOne /\ stamp = 0 /\ hookStops = 0
    /\ deliveries = [readable |-> TRUE, records |-> {}]
    /\ sender = [d \in Deliveries |-> Unused] /\ wrote = {}

Startable(d) == sender[d].pc = "unused" /\ \A e \in Deliveries : e < d => sender[e].pc # "unused"
(* sendWebhookWithRecord begins with a pending record. *)
Send(d) ==
    /\ Startable(d) /\ stamp' = stamp + 1
    /\ sender' = [sender EXCEPT ![d] = [Unused EXCEPT !.pc = "open", !.at = stamp']]
    /\ UNCHANGED <<deliveries, hookLock, wrote, hookStops>>
-----------------------------------------------------------------------------
(* SaveWebhookConfigs; a file that cannot be read, or is being rewritten, is no webhook. *)
SaveWebhooks == \E kinds \in SUBSET EventKinds :
    hooks' = kinds /\ UNCHANGED <<stream, deliveries, hookLock, sender, stamp, wrote, hookStops>>

(* publish: an event that does not fit into the channel of a subscriber is dropped, and
   one that a webhook asks for is sent. *)
Publish == \E kind \in EventKinds :
    /\ stream' = (IF stream < StreamRoom THEN stream + 1 ELSE stream)
    /\ UNCHANGED hooks
    /\ IF kind \in hooks THEN \E d \in Deliveries : Send(d)
       ELSE UNCHANGED <<deliveries, hookLock, sender, stamp, wrote, hookStops>>
(* handleAPITeamEvents writes the events out; a new subscriber starts with none. *)
TakeEvent == stream > 0 /\ stream' = stream - 1
             /\ UNCHANGED <<hooks, deliveries, hookLock, sender, stamp, wrote, hookStops>>

(* ReplayWebhookDelivery: what the file still has a record of is sent again, as a delivery
   of its own. *)
Replay == \E d \in Deliveries :
    /\ deliveries.readable /\ deliveries.records # {} /\ Send(d) /\ UNCHANGED <<hooks, stream>>
-----------------------------------------------------------------------------
(* What a goroutine does once its record is written, or could not be. *)
Proceeds(d) ==
    LET s == sender[d] IN
    IF s.status \in FinalStates THEN sender' = [sender EXCEPT ![d] = Gone] /\ UNCHANGED stamp
    ELSE IF s.attempt < MaxAttempts THEN sender' = [sender EXCEPT ![d].pc = "post", ![d].read = {}] /\ UNCHANGED stamp
    ELSE /\ stamp' = stamp + 1
         /\ sender' = [sender EXCEPT ![d] = [s EXCEPT !.pc = "open", !.status = "dead_letter", !.at = stamp', !.read = {}]]

(* An attempt is stamped before the request goes out. *)
StartAttempt(d) ==
    /\ sender[d].pc = "post" /\ stamp' = stamp + 1
    /\ sender' = [sender EXCEPT ![d].pc = "wait", ![d].attempt = @ + 1, ![d].at = stamp']
    /\ UNCHANGED <<hooks, stream, deliveries, hookLock, wrote, hookStops>>
(* 2xx; a status that is neither 429 nor 5xx, or no request at all; anything else. *)
Answer(d) ==
    /\ sender[d].pc = "wait"
    /\ \E s \in {"delivered", "failed", "retrying"} :
         sender' = [sender EXCEPT ![d].pc = "open", ![d].status = s]
    /\ UNCHANGED <<hooks, stream, deliveries, hookLock, stamp, wrote, hookStops>>

(* updateWebhookDeliveryLocked loads the file and rewrites it: the newest KeepDeliveries records, this one replaced. *)
RecordOf(d) == [id |-> d, status |-> sender[d].status, at |-> sender[d].at]
Recent(rs) == {r \in rs : Cardinality({q \in rs : q.at > r.at}) < KeepDeliveries}
Replaced(rs, d) == {r \in rs : r.id # d} \cup {RecordOf(d)}
OpenDeliveries(d) ==
    /\ sender[d].pc = "open" /\ hookLock = NoOne
    /\ IF deliveries.readable
       THEN /\ hookLock' = d /\ deliveries' = [deliveries EXCEPT !.readable = FALSE]
            /\ sender' = [sender EXCEPT ![d].pc = "fill", ![d].read = deliveries.records] /\ UNCHANGED stamp
       ELSE UNCHANGED <<deliveries, hookLock>> /\ Proceeds(d)
    /\ UNCHANGED <<hooks, stream, wrote, hookStops>>
(* Mutant: a record the file no longer has is not added again. *)
FillKnownOnly(d) ==
    /\ sender[d].pc = "fill" /\ hookLock' = NoOne
    /\ deliveries' = [readable |-> TRUE, records |->
         IF sender[d].status = "pending" \/ \E r \in sender[d].read : r.id = d
         THEN Recent(Replaced(sender[d].read, d)) ELSE sender[d].read]
    /\ wrote' = Replaced(wrote, d) /\ Proceeds(d)
    /\ UNCHANGED <<hooks, stream, hookStops>>
FillDeliveries(d) ==
    /\ sender[d].pc = "fill" /\ hookLock' = NoOne
    /\ deliveries' = [readable |-> TRUE, records |-> Recent(Replaced(sender[d].read, d))]
    /\ wrote' = Replaced(wrote, d) /\ Proceeds(d)
    /\ UNCHANGED <<hooks, stream, hookStops>>
(* The lock is not had within 10 s: the record is left as it is. *)
UpdateTimesOut(d) ==
    /\ sender[d].pc = "open" /\ hookLock # NoOne /\ Proceeds(d)
    /\ UNCHANGED <<hooks, stream, deliveries, hookLock, wrote, hookStops>>
(* The process stops, and with it every delivery: nothing takes them up again. *)
StopHooks ==
    /\ hookStops < MaxHookStops /\ hookStops' = hookStops + 1 /\ hookLock' = NoOne /\ stream' = 0
    /\ sender' = [d \in Deliveries |-> IF sender[d] = Unused THEN Unused ELSE Gone]
    /\ UNCHANGED <<hooks, deliveries, stamp, wrote>>

Deliver(d) == StartAttempt(d) \/ Answer(d) \/ OpenDeliveries(d) \/ FillDeliveries(d) \/ UpdateTimesOut(d)
HooksNext == SaveWebhooks \/ Publish \/ TakeEvent \/ Replay \/ StopHooks \/ \E d \in Deliveries : Deliver(d)
HooksSpec == HooksInit /\ [][HooksNext]_hookvars
-----------------------------------------------------------------------------
HooksTypeOK ==
    /\ hooks \subseteq EventKinds /\ stream \in 0..StreamRoom /\ hookLock \in Deliveries \cup {NoOne}
    /\ deliveries.readable \in BOOLEAN /\ \A r \in deliveries.records : r.id \in Deliveries
    /\ \A d \in Deliveries : sender[d].attempt \in 0..MaxAttempts

(* A delivery file that can be read holds the last record of every delivery, except those
   that KeepDeliveries newer ones pushed out: no goroutine undoes the record of another,
   and a record pushed out while its delivery went on comes back with its outcome when
   that is newer (updateWebhookDeliveryLocked, read and rewritten under the lock). *)
NewestDeliveriesKept == deliveries.readable => deliveries.records = Recent(wrote)
=============================================================================

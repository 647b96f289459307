---------------------------- MODULE PeerDiscovery ----------------------------
(* How the sync daemon finds other nodes (libp2p.go, lanpeer.go, live/lan_bootstrap.go).  At
   its start it asks the configured LAN peers for the address of the node they are, adds the
   configured bootstrap peers and the peers it was connected to in the last days, and dials
   one address of each on every status report.  The host a LAN peer once named for itself
   is kept in a file, which live sessions of the same user write too. *)
EXTENDS Integers, FiniteSets, Sequences

CONSTANTS
    Nodes, Hosts,   \* nodes and the hosts they run on
    LANPeers,       \* the hosts configured as LAN peers
    FirstRuns,      \* where the nodes may run at first
    Bootstrap,      \* the configured address of some peers: [Nodes -> Hosts \cup {Nowhere}]
    Nowhere, Torn,     \* no host or no address; what a file holds that was cut short
    KnownGoodTTL, KnownGoodRefresh, KnownGoodMax,
    MaxEvents       \* bound on moves, live sessions and stopped programs together

ASSUME DiscoveryConstants ==
    /\ LANPeers \subseteq Hosts /\ Nowhere # Torn /\ Nowhere \notin Hosts \cup Nodes
    /\ FirstRuns \subseteq [Hosts -> Nodes \cup {Nowhere}]
    /\ \A r \in FirstRuns : \A h, i \in Hosts : h # i /\ r[h] = r[i] => r[h] = Nowhere
    /\ Bootstrap \in [Nodes -> Hosts \cup {Nowhere}]
    /\ {KnownGoodTTL, KnownGoodRefresh, KnownGoodMax, MaxEvents} \subseteq Nat
    /\ KnownGoodRefresh <= KnownGoodTTL

VARIABLES
    runs,       \* the node on each host
    known,      \* the known-good file: the address of some peers, and its age
    health,     \* the LAN health file: the host each LAN peer named, or Torn
    tmp,        \* its temporary file, which both programs use: Nowhere, Torn, or its content
    asking,     \* the daemon and a live session: how far each is, what it holds of the
                \* health file, and which file it has open: Nowhere, "tmp", "health" or "gone"
    dials,      \* the bootstrap peers: the one address that is dialled of each, or Nowhere
    linked,     \* the peers the daemon is connected to
    reported,   \* a status was written since time last passed
    events      \* moves, live sessions and stops so far

dvars == <<runs, known, health, tmp, asking, dials, linked, reported, events>>

Programs == {"daemon", "live"}
NoHost == [h \in LANPeers |-> Nowhere]
Off(pc) == [pc |-> pc, cache |-> NoHost, opened |-> Nowhere]
At(w, pc) == asking[w].pc = pc
TurnsTo(w, pc) == asking' = [asking EXCEPT ![w].pc = pc]
NodesStay == UNCHANGED <<runs, events>>
LinksStay == UNCHANGED <<known, dials, linked, reported>>
Happens == events < MaxEvents /\ events' = events + 1

DiscoveryInit ==
    /\ runs \in FirstRuns
    /\ known = [p \in Nodes |-> [addr |-> Nowhere, age |-> 0]]
    /\ health = NoHost /\ tmp = Nowhere
    /\ asking = [w \in Programs |-> Off(IF w = "daemon" THEN "down" ELSE "idle")]
    /\ dials = Nowhere /\ linked = {} /\ reported = FALSE
    /\ events = 0

(* resolveLANBootstrapPeers: when the file cannot be read, it goes on with an empty one. *)
Load(w) ==
    asking' = [asking EXCEPT ![w] = [pc |-> "ask", opened |-> Nowhere,
                                     cache |-> IF health = Torn THEN NoHost ELSE health]]
DiscoveryStarts == At("daemon", "down") /\ Load("daemon") /\ NodesStay /\ LinksStay /\ UNCHANGED <<health, tmp>>
Probe ==
    /\ At("daemon", "up") /\ reported /\ Load("daemon")
    /\ NodesStay /\ UNCHANGED <<health, tmp, known, dials, linked>> /\ reported' = FALSE
LiveStarts ==
    /\ At("live", "idle") /\ Happens /\ Load("live")
    /\ LinksStay /\ UNCHANGED <<runs, health, tmp>>

(* fetchLANBootstrapPeer: the host the peer named last, then the configured one.  Whatever
   node of the network answers there is taken; it names its own host. *)
Targets(cache, h) == IF cache[h] = Nowhere THEN <<h>> ELSE <<cache[h], h>>
Answering(cache, h) ==
    LET up == SelectSeq(Targets(cache, h), LAMBDA i : runs[i] # Nowhere) IN IF up = <<>> THEN Nowhere ELSE up[1]
(* EffectiveLibP2PBootstrapPeersWithKnownGood and parseBootstrapPeers: what the LAN peers
   said, the configured ones, the known-good ones; the first address of a peer is kept. *)
FreshKnown(p) == known[p].addr # Nowhere /\ known[p].age <= KnownGoodTTL
(* Mutant: without the known-good peers. *)
FirstIgnoringKnown(lan, p) == IF lan # Nowhere THEN lan ELSE Bootstrap[p]
FirstOf(lan, p) ==
    IF lan # Nowhere THEN lan ELSE IF Bootstrap[p] # Nowhere THEN Bootstrap[p] ELSE IF FreshKnown(p) THEN known[p].addr ELSE Nowhere
Said(answers, p) ==
    LET hosts == {h \in LANPeers : answers[h] # Nowhere /\ runs[answers[h]] = p} IN
    IF hosts = {} THEN Nowhere ELSE answers[CHOOSE h \in hosts : TRUE]
Starting(w) == w = "daemon" /\ dials = Nowhere
Ask(w) ==
    /\ At(w, "ask")
    /\ \E silent \in SUBSET LANPeers :
          LET cache == asking[w].cache
              answers == [h \in LANPeers |-> IF h \in silent THEN Nowhere ELSE Answering(cache, h)] IN
          /\ asking' = [asking EXCEPT ![w].pc = "open",
                 ![w].cache = [h \in LANPeers |-> IF answers[h] = Nowhere THEN @[h] ELSE answers[h]]]
          /\ dials' = IF Starting(w) THEN [p \in Nodes |-> FirstOf(Said(answers, p), p)] ELSE dials
    /\ NodesStay /\ UNCHANGED <<known, linked, reported, health, tmp>>

(* saveLANPeerHealthCache: the temporary file is emptied, filled, and renamed.  Who has it
   open while another renames it writes into the file itself. *)
OpenTmp(w) ==
    /\ At(w, "open") /\ tmp' = Torn
    /\ asking' = [asking EXCEPT ![w].pc = "write", ![w].opened = "tmp"]
    /\ NodesStay /\ LinksStay /\ UNCHANGED health
(* Two that write the same file leave the longer one's end behind the other's. *)
Filled(file, content) == IF file = Torn THEN {content} ELSE {content, Torn}
WriteTmp(w) ==
    /\ At(w, "write") /\ TurnsTo(w, "rename")
    /\ CASE asking[w].opened = "tmp" -> tmp' \in Filled(tmp, asking[w].cache) /\ UNCHANGED health
         [] asking[w].opened = "health" -> health' \in Filled(health, asking[w].cache) /\ UNCHANGED tmp
         [] OTHER -> UNCHANGED <<health, tmp>>
    /\ NodesStay /\ LinksStay
Moved(opened) == CASE opened = "tmp" -> "health" [] opened = "health" -> "gone" [] OTHER -> opened
RenameTmp(w) ==
    /\ At(w, "rename")
    /\ IF tmp = Nowhere THEN TurnsTo(w, "end") /\ UNCHANGED <<health, tmp>>
       ELSE /\ health' = tmp /\ tmp' = Nowhere
            /\ asking' = [v \in Programs |-> [asking[v] EXCEPT !.pc = IF v = w THEN "end" ELSE @, !.opened = Moved(@)]]
    /\ NodesStay /\ LinksStay
ResolveEnds(w) ==
    /\ At(w, "end") /\ asking' = [asking EXCEPT ![w] = Off(IF w = "daemon" THEN "up" ELSE "idle")]
    /\ NodesStay /\ LinksStay /\ UNCHANGED <<health, tmp>>

(* libp2pRuntime.Status: every bootstrap peer without a connection is dialled; the address
   of each that is connected is recorded, at most once every few minutes, and the newest
   entries are kept. *)
There(p) == dials[p] # Nowhere /\ runs[dials[p]] = p
Recorded(now) == [p \in Nodes |->
    IF p \in now /\ dials[p] # Nowhere /\ ~(known[p].addr = dials[p] /\ known[p].age < KnownGoodRefresh)
    THEN [addr |-> dials[p], age |-> 0] ELSE known[p]]
Kept(entries) == {keep \in SUBSET {p \in Nodes : entries[p].addr # Nowhere} :
    /\ Cardinality(keep) <= KnownGoodMax
    /\ \A p \in Nodes \ keep : entries[p].addr # Nowhere =>
          Cardinality(keep) = KnownGoodMax /\ \A q \in keep : entries[q].age <= entries[p].age}
SaveKnown(entries) == \E keep \in Kept(entries) :
    known' = [p \in Nodes |-> IF p \in keep THEN entries[p] ELSE [addr |-> Nowhere, age |-> 0]]
Status(new) ==
    /\ At("daemon", "up") /\ new \subseteq {p \in Nodes : There(p)} /\ linked' = linked \cup new
    /\ IF Recorded(linked') = known THEN known' = known ELSE SaveKnown(Recorded(linked'))
    /\ reported' = TRUE /\ NodesStay /\ UNCHANGED <<health, tmp, asking, dials>>
(* ensurePeerConnected and mDNS: a connection to a peer that is no bootstrap peer. *)
PeerFound(p) ==
    /\ At("daemon", "up") /\ dials[p] = Nowhere /\ \E h \in Hosts : runs[h] = p
    /\ linked' = linked \cup {p} /\ NodesStay /\ UNCHANGED <<known, health, tmp, asking, dials, reported>>

(* Nodes move to another host or stop, and connections break. *)
NodeMoves ==
    /\ Happens
    /\ \E h \in Hosts : \E i \in Hosts \cup {Nowhere} :
          /\ runs[h] # Nowhere /\ (i # Nowhere => runs[i] = Nowhere)
          /\ runs' = [j \in Hosts |-> IF j = i THEN runs[h] ELSE IF j = h THEN Nowhere ELSE runs[j]]
          /\ linked' = linked \ {runs[h]}
    /\ UNCHANGED <<known, health, tmp, asking, dials, reported>>
LinkBreaks(p) ==
    /\ p \in linked /\ linked' = linked \ {p}
    /\ NodesStay /\ UNCHANGED <<known, health, tmp, asking, dials, reported>>
(* While the daemon is up, a status is written in every unit of time. *)
TimePasses ==
    /\ At("daemon", "down") \/ (At("daemon", "up") /\ reported)
    /\ known' = [p \in Nodes |-> [known[p] EXCEPT !.age = IF @ > KnownGoodTTL \/ known[p].addr = Nowhere THEN @ ELSE @ + 1]]
    /\ known' # known /\ reported' = FALSE
    /\ NodesStay /\ UNCHANGED <<health, tmp, asking, dials, linked>>
ProgramStops(w) ==
    /\ asking[w].pc \notin {"down", "idle"} /\ Happens
    /\ asking' = [asking EXCEPT ![w] = Off(IF w = "daemon" THEN "down" ELSE "idle")]
    /\ IF w = "daemon" THEN dials' = Nowhere /\ linked' = {} ELSE UNCHANGED <<dials, linked>>
    /\ UNCHANGED <<runs, known, health, tmp, reported>>

ResolveStep(w) == Ask(w) \/ OpenTmp(w) \/ WriteTmp(w) \/ RenameTmp(w) \/ ResolveEnds(w)
DaemonGoes == DiscoveryStarts \/ Probe \/ ResolveStep("daemon")
DiscoveryNext ==
    \/ DaemonGoes \/ LiveStarts \/ ResolveStep("live")
    \/ \E new \in SUBSET Nodes : Status(new)
    \/ \E p \in Nodes : PeerFound(p) \/ LinkBreaks(p)
    \/ NodeMoves \/ TimePasses \/ \E w \in Programs : ProgramStops(w)

(* A daemon that stopped is started again, its loop goes on, and who dials a peer that is
   there again and again reaches it. *)
DiscoveryFair ==
    /\ SF_dvars(DaemonGoes) /\ WF_dvars(Status({}))
    /\ \A p \in Nodes : SF_dvars(\E new \in SUBSET Nodes : p \in new \ linked /\ Status(new))
DiscoverySpec == DiscoveryInit /\ [][DiscoveryNext]_dvars /\ DiscoveryFair

(* Each start of the daemon connects it again to a peer it knew that is still where it was,
   also when no LAN peer answers (known_good_libp2p_peers.json); a configured address of
   that peer would hide the known one. *)
StartsKnowing(p, h) ==
    At("daemon", "ask") /\ dials = Nowhere /\ FreshKnown(p) /\ known[p].addr = h /\ runs[h] = p
PeersComeBack ==
    \A p \in {q \in Nodes : Bootstrap[q] = Nowhere} : \A h \in Hosts :
        StartsKnowing(p, h) ~> p \in linked \/ runs[h] # p \/ At("daemon", "down")

(* The health file that two programs left torn is whole again after a probe. *)
HealthHeals == health = Torn ~> health # Torn

(* What stops or overlapping writers leave behind does not keep the daemon from its peers. *)
DiscoveryRecovers == PeersComeBack /\ HealthHeals
=============================================================================

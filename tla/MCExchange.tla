------------------------------ MODULE MCExchange ------------------------------
(* What nodes exchange besides bundles, and how they find each other: the records of teams,
   the proofs of credit, and the peers of the overlay.  The three share no state in the
   model, so "part" picks the one that runs and the others rest: the states are the sum. *)
EXTENDS MCTeamReplication, CreditExchange, PeerDiscovery

(* One author, online in both windows of a day; the proof of the first reaches one daemon
   and that of the second the other, whose clock is one behind. *)
Proof(start) ==
    [author |-> "a", start |-> start, seeds |-> {"x"},
     witness |-> [author |-> "b", requested |-> start + 1, witnessed |-> start + 1, seen |-> {"x"}]]
TwoProofs == {Proof(0), Proof(1)}
OneDaemonEach == [p \in TwoProofs |-> {p.start + 1}]
SecondLags == [n \in {1, 2} |-> n - 1]

(* Two nodes, each on a host of its own; the second one's host is configured. *)
SecondConfigured == [p \in Nodes |-> IF p = "q" THEN "h2" ELSE Nowhere]
OneEach == [h \in Hosts |-> IF h = "h1" THEN "p" ELSE "q"]
OneEachOnly == {OneEach}

VARIABLE part
evars == <<part, vars, xvars, dvars>>

EInit ==
    /\ part \in {"team", "credits", "peers"} /\ Init /\ ExchangeInit /\ DiscoveryInit

TeamRuns(A) == part = "team" /\ A /\ UNCHANGED <<part, xvars, dvars>>
CreditsRun(A) == part = "credits" /\ A /\ UNCHANGED <<part, vars, dvars>>
PeersRun(A) == part = "peers" /\ A /\ UNCHANGED <<part, vars, xvars>>
ENext == TeamRuns(Next) \/ CreditsRun(ExchangeNext) \/ PeersRun(DiscoveryNext)

(* The fairness of the three specifications.  Only one part runs, so fairness of a step of
   one part or of another is fairness of each. *)
Pair(k) == IF k = a THEN 1 ELSE 2
Current(n, k) == \E e \in net : e.src = k /\ e.type = "snapshot" /\ e.ver = rec[k][task] /\ Receive(n, e)
Sent(n, k) == \E e \in net : e.src = k /\ e.type = "message" /\ Receive(n, e)
Reaches(p) == \E new \in SUBSET Nodes : p \in new \ linked /\ Status(new)
EFairness ==
    /\ \A k \in Node :
          /\ WF_evars(TeamRuns(PublishObject(k, task)) \/ CreditsRun(ExchangeStep(Pair(k))))
          /\ WF_evars(TeamRuns(PublishMessage(k, msg)) \/ CreditsRun(TickEnds(Pair(k))))
          /\ WF_evars(TeamRuns(Apply(k)) \/ PeersRun(k = a /\ Status({})))
    /\ \A n \in Node : \A k \in Node \ {n} :
          /\ SF_evars(TeamRuns(Current(n, k)) \/ CreditsRun(FetchDay(Pair(n))) \/ PeersRun(n = a /\ DaemonGoes))
          /\ SF_evars(TeamRuns(Sent(n, k)) \/ PeersRun(n = a /\ Reaches("p")))
ESpec == EInit /\ [][ENext]_evars /\ EFairness
===============================================================================

---------------------------- MODULE CreditExchange ----------------------------
(* How online proofs get from daemon to daemon (credit_proof.go, credit_bundle.go, the
   credit part of sync.go and pubsub.go).  A daemon saves the valid proofs that gossip
   brings, announces once what is less than an hour old, and republishes the proofs of the
   day before as a bundle on every tick, which others fetch and import.  Nothing puts a
   bundle into the "seeded" list of a daemon, so none makes or witnesses a proof of its
   own (sync.go:686): the proofs come from other programs of the network. *)
EXTENDS Integers, FiniteSets, FiniteSetsExt

CONSTANTS
    Daemons,
    Made,           \* the proofs other programs make
    Near,           \* the daemons that the gossip of each of these reaches
    Lag,            \* how far the clock of each daemon is behind
    ProofWindow, ProofMaxAge, WitnessTTL, DayLength,
    FirstClock, LastClock,
    MaxDaemonStops  \* a bound

ASSUME ExchangeConstants ==
    /\ {ProofWindow, DayLength} \subseteq Nat \ {0} /\ {ProofMaxAge, WitnessTTL, FirstClock, LastClock} \subseteq Nat
    /\ DayLength % ProofWindow = 0
    /\ Near \in [Made -> SUBSET Daemons] /\ Lag \in [Daemons -> Nat] /\ MaxDaemonStops \in Nat

VARIABLES
    time,       \* the time everywhere, which the daemons' clocks are behind of
    proofs,     \* the proof files of each daemon
    told,       \* announcedProofs, in memory
    offers,     \* the daily bundles in each daemon's store: [day, has, as], where "last" is the
                \* one the state file of the day names, "new" is published, "left" is neither
    held,       \* the bundles each daemon has fetched: <<daemon, day, has>>
    loop,       \* what the loop of each daemon is doing
    daemonStops

xvars == <<time, proofs, told, offers, held, loop, daemonStops>>

DayOfProof(p) == p.start \div DayLength
TimeAt(n) == time - Lag[n]
Yesterday(n) == TimeAt(n) \div DayLength - 1

(* ValidateOnlineProof without a clock, as SaveProof calls it: what it demands of the window,
   of the witness and of what the witness saw.  Signatures hold. *)
WindowEnd(p) == p.start + ProofWindow
Aligned(p) == p.start % ProofWindow = 0
ValidWitness(p, w) ==
    /\ w.seen # {} /\ w.seen \subseteq p.seeds
    /\ w.requested >= p.start /\ w.requested <= WindowEnd(p) + ProofMaxAge
    /\ w.witnessed >= w.requested /\ w.witnessed <= w.requested + WitnessTTL
Eligible(p) == p.witness.author # p.author
ValidProof(p) == Aligned(p) /\ p.seeds # {} /\ ValidWitness(p, p.witness) /\ Eligible(p)
SameProof(p, q) == p.author = q.author /\ p.start = q.start
(* SaveProof: the file is named for the author's key and the window, and the first stays. *)
Saved(kept, some) == kept \cup {p \in some : ValidProof(p) /\ \A q \in kept : ~SameProof(p, q)}

ExchangeInit ==
    /\ time = FirstClock
    /\ proofs = [n \in Daemons |-> {}] /\ told = [n \in Daemons |-> {}]
    /\ offers = [n \in Daemons |-> {}] /\ held = [n \in Daemons |-> {}]
    /\ loop = [n \in Daemons |-> "bundle"] /\ daemonStops = 0

Goes(n, to) == loop' = [loop EXCEPT ![n] = to]
Quietly == UNCHANGED <<time, daemonStops>>

(* publishCreditProofBundle: each new bundle carries the time it was made, so that it
   differs from the last one; it is published, the last one is removed, and only then
   the state file says so. *)

(* Mutant: the bundle of a day is made once. *)
BundledOnce(n) ==
    IF \E o \in offers[n] : o.day = Yesterday(n) THEN {} ELSE {p \in proofs[n] : DayOfProof(p) = Yesterday(n)}
Bundled(n) == {p \in proofs[n] : DayOfProof(p) = Yesterday(n)}
PublishDay(n) ==
    /\ loop[n] = "bundle"
    /\ IF Bundled(n) = {} THEN Goes(n, "announce") /\ UNCHANGED <<offers, held>>
       ELSE /\ Goes(n, "replace")
            /\ offers' = [offers EXCEPT ![n] = @ \cup {[day |-> Yesterday(n), has |-> Bundled(n), as |-> "new"]}]
            /\ held' = [m \in Daemons |-> held[m] \ {<<n, Yesterday(n), Bundled(n)>>}]
    /\ Quietly /\ UNCHANGED <<proofs, told>>
Replaced(n) == {o \in offers[n] : o.as = "last" /\ \E new \in offers[n] : new.as = "new" /\ new.day = o.day}
NewIs(n, as, kept) == [offers EXCEPT ![n] = {[o EXCEPT !.as = IF @ = "new" THEN as ELSE @] : o \in kept}]
ReplaceDay(n) ==
    /\ loop[n] = "replace" /\ Goes(n, "announce")
    /\ offers' = NewIs(n, "last", offers[n] \ Replaced(n))
    /\ Quietly /\ UNCHANGED <<proofs, told, held>>

(* handleCreditProof, beside the loop of each daemon that hears of some proofs. *)
Heard(to, some) == proofs' = [n \in Daemons |-> IF n \in to THEN Saved(proofs[n], some) ELSE proofs[n]]
Up == {n \in Daemons : loop[n] # "down"}

(* announceLocalCreditProofs: the proofs of the last hour, the oldest first; at a failure
   the rest waits for the next tick.  What gossip does not deliver is not sent again. *)
Due(n) == {p \in proofs[n] \ told[n] : p.start >= TimeAt(n) - ProofMaxAge}
AnnounceProofs(n) ==
    /\ loop[n] = "announce" /\ Goes(n, "fetch")
    /\ \E sent \in {Due(n)} \cup {{q \in Due(n) : q.start < p.start} : p \in Due(n)}, to \in SUBSET (Up \ {n}) :
          told' = [told EXCEPT ![n] = @ \cup sent] /\ Heard(to, sent)
    /\ Quietly /\ UNCHANGED <<offers, held>>

(* processQueue: a bundle another daemon offers is fetched, and its proofs are saved one
   by one; a bundle that is already there is not read again. *)
Fetches(n, o, m) ==
    LET bundle == <<m, o.day, o.has>> IN bundle \notin held[n] /\ held' = [held EXCEPT ![n] = @ \cup {bundle}]
FetchDay(n) ==
    /\ loop[n] = "fetch"
    /\ \E m \in Up \ {n} : \E o \in offers[m] : Fetches(n, o, m) /\ Heard({n}, o.has)
    /\ Quietly /\ UNCHANGED <<told, offers, loop>>
StopsImporting(n) ==
    /\ loop[n] = "fetch" /\ daemonStops < MaxDaemonStops /\ daemonStops' = daemonStops + 1
    /\ \E m \in Up \ {n} : \E o \in offers[m] : Fetches(n, o, m) /\ \E p \in o.has :
          Heard({n}, {q \in o.has : q.start < p.start})
    /\ Goes(n, "down") /\ told' = [told EXCEPT ![n] = {}]
    /\ UNCHANGED <<time, offers>>
TickEnds(n) ==
    /\ loop[n] = "fetch" /\ Goes(n, "bundle")
    /\ Quietly /\ UNCHANGED <<proofs, told, offers, held>>

(* Another program announces a proof of a window that has passed, which reaches some
   daemons, sooner or later. *)
MadeElsewhere(p) ==
    /\ WindowEnd(p) <= time
    /\ \E n \in Near[p] \cap Up : p \notin proofs[n] /\ Heard({n}, {p})
    /\ UNCHANGED <<time, told, offers, held, loop, daemonStops>>
TimeGoes ==
    /\ time < LastClock /\ time' = time + 1
    /\ UNCHANGED <<proofs, told, offers, held, loop, daemonStops>>
(* A stop before the last bundle is removed, or before the state file is written. *)
DaemonStops(n) ==
    /\ loop[n] # "down" /\ daemonStops < MaxDaemonStops /\ daemonStops' = daemonStops + 1
    /\ Goes(n, "down") /\ told' = [told EXCEPT ![n] = {}]
    /\ \E gone \in {{}, Replaced(n)} : offers' = NewIs(n, "left", offers[n] \ gone)
    /\ UNCHANGED <<time, proofs, held>>
DaemonStarts(n) ==
    /\ loop[n] = "down" /\ Goes(n, "bundle")
    /\ Quietly /\ UNCHANGED <<proofs, told, offers, held>>

ExchangeStep(n) == \/ PublishDay(n) \/ ReplaceDay(n) \/ AnnounceProofs(n)
               \/ FetchDay(n) \/ TickEnds(n) \/ DaemonStarts(n)
ExchangeNext ==
    \/ \E n \in Daemons : ExchangeStep(n) \/ DaemonStops(n) \/ StopsImporting(n)
    \/ \E p \in Made : MadeElsewhere(p)
    \/ TimeGoes

(* The loop goes on, a pass over the queue ends and a daemon that stopped is started again; a
   bundle that is offered anew on every tick is fetched some time. *)
ExchangeFair == \A n \in Daemons : WF_xvars(ExchangeStep(n)) /\ WF_xvars(TickEnds(n)) /\ SF_xvars(FetchDay(n))
ExchangeSpec == ExchangeInit /\ [][ExchangeNext]_xvars /\ ExchangeFair

(* Whatever gossip loses, a proof that one daemon holds on the day after reaches
   every other daemon before that day ends, if it lasts long enough: the bundle is made again
   whenever a proof came late, and imported again by who stopped half-way. *)
YesterdaysCreditsSpread ==
    \A p \in Made : \A n \in Daemons : \A m \in Daemons \ {n} :
        p \in proofs[n] /\ DayOfProof(p) = Yesterday(n) ~>
            (\E q \in proofs[m] : SameProof(p, q)) \/ DayOfProof(p) # Yesterday(n)

(* Once a daemon has offered the proofs of a day, a whole bundle of that day is on offer
   ever after, wherever the replacing of the bundle is cut short. *)
DayStaysOffered ==
    [][\A n \in Daemons : \A o \in offers[n] : \E q \in offers'[n] : q.day = o.day]_xvars

(* What a daemon knows of yesterday gets to the others and is not taken back. *)
CreditsSpread == YesterdaysCreditsSpread /\ DayStaysOffered
=============================================================================

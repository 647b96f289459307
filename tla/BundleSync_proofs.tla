--------------------------- MODULE BundleSync_proofs ---------------------------
(***************************************************************************)
(* Proofs about the daemon's files and its supervisor: a complete bundle   *)
(* stays complete (BundleStore), the supervisor bounds its restarts,       *)
(* leaves no worker and sees progress (SyncSupervisor), the two queue      *)
(* files lose no reference that is still owed (SyncQueue), and the index   *)
(* of the pages is no older than the probe it is known by (ContentIndex).  *)
(***************************************************************************)
EXTENDS BundleStore, SyncSupervisor, SyncQueue, ContentIndex,
        FiniteSetTheorems, SequenceTheorems, WellFoundedInduction, TLAPS

-----------------------------------------------------------------------------
(* BundleStore: types, then what ties a directory to its name and the serve process to
   the bundle it makes. *)
LEMMA BundleNames == Nothing \notin Bundles /\ Partial \notin Bundles /\ Nothing # Partial
  BY BundleConstants DEF Nothing, Partial

\* A directory holds a bundle of its own name; what is being published has no torrent yet
\* and is not fetched.
HoldsItsOwn == \A n \in Names : dir[n] \in Bundles => DirName[dir[n]] = n
MakesOwn == maker.at \in {"message", "torrent"} => maker.bundle \in Own /\ torrent[maker.bundle] = "none"
GetsOthers == getter.bundle \notin Own
BInv == BTypeOK /\ HoldsItsOwn /\ MakesOwn /\ GetsOthers

LEMMA BInitInv == BInit => BInv
<1> SUFFICES ASSUME BInit PROVE BInv
  OBVIOUS
<1>1. BTypeOK
  BY BundleConstants DEF BInit, BTypeOK, Resting
<1>2. HoldsItsOwn /\ MakesOwn /\ GetsOthers
  BY BundleNames, BundleConstants DEF BInit, HoldsItsOwn, MakesOwn, GetsOthers, Resting
<1> QED BY <1>1, <1>2 DEF BInv

\* A torrent file that is written holds a torrent or is gone.
LEMMA FilledType ==
  ASSUME BTypeOK, NEW b \in Bundles
  PROVE  /\ Filled(b) \in [Bundles -> {"none", "torn", "ok"}]
         /\ \A c \in Bundles : Filled(b)[c] = torrent[c] \/ (torrent[c] = "torn" /\ Filled(b)[c] = "ok")
  BY DEF BTypeOK, Filled

LEMMA BNextType == BInv /\ [BNext]_bvars => BTypeOK'
<1> SUFFICES ASSUME BInv, [BNext]_bvars PROVE BTypeOK'
  OBVIOUS
<1> USE BundleConstants DEF BInv, BTypeOK, daemonVars, Resting, At
<1>1. CASE UNCHANGED bvars
  BY <1>1 DEF bvars
<1>2. ASSUME NEW b \in Bundles, MakeBody(b) PROVE BTypeOK'
  BY <1>2 DEF MakeBody
<1>3. ASSUME NEW b \in Bundles, MakeMessage(b) PROVE BTypeOK'
  BY <1>3 DEF MakeMessage
<1>4. ASSUME NEW b \in Bundles, MakeTorrent(b) PROVE BTypeOK'
  BY <1>4 DEF MakeTorrent, Loads
<1>5. ASSUME NEW b \in Bundles, WriteTorrent(b) PROVE BTypeOK'
  BY <1>5, FilledType DEF WriteTorrent
<1>6. ASSUME NEW b \in Bundles, Unpack(b) PROVE BTypeOK'
  BY <1>6 DEF Unpack
<1>7. ASSUME NEW b \in Bundles, Rebuild(b) PROVE BTypeOK'
  BY <1>7 DEF Rebuild
<1>8. ASSUME NEW b \in Bundles, FinishTorrent(b) PROVE BTypeOK'
  BY <1>8, FilledType DEF FinishTorrent
<1>9. ASSUME NEW b \in Bundles, Import(b) PROVE BTypeOK'
  BY <1>9 DEF Import
<1>10. ASSUME NEW b \in Bundles, Announce(b) PROVE BTypeOK'
  BY <1>10 DEF Announce, ComesTo, Announcing
<1>11. CASE ListBundles \/ EndPass \/ FetchNothing
  BY <1>11 DEF ListBundles, EndPass, FetchNothing, Announcing
<1>12. CASE ServeCrash
  BY <1>12 DEF ServeCrash
<1>13. CASE DaemonCrash
  BY <1>13 DEF DaemonCrash
<1> QED
  BY <1>1, <1>2, <1>3, <1>4, <1>5, <1>6, <1>7, <1>8, <1>9, <1>10, <1>11, <1>12, <1>13
  DEF BNext, LoopRuns, Making, Fetching

LEMMA BNextInv == BInv /\ [BNext]_bvars => BInv'
<1> SUFFICES ASSUME BInv, [BNext]_bvars PROVE HoldsItsOwn' /\ MakesOwn' /\ GetsOthers'
  BY BNextType DEF BInv
<1> USE BundleConstants, BundleNames DEF BInv, BTypeOK, daemonVars, HoldsItsOwn, MakesOwn, GetsOthers, Resting, At
<1>1. CASE UNCHANGED bvars
  BY <1>1 DEF bvars
<1>2. ASSUME NEW b \in Bundles, MakeBody(b) PROVE HoldsItsOwn' /\ MakesOwn' /\ GetsOthers'
  BY <1>2 DEF MakeBody
<1>3. ASSUME NEW b \in Bundles, MakeMessage(b) PROVE HoldsItsOwn' /\ MakesOwn' /\ GetsOthers'
  BY <1>3 DEF MakeMessage
<1>4. ASSUME NEW b \in Bundles, MakeTorrent(b) PROVE HoldsItsOwn' /\ MakesOwn' /\ GetsOthers'
  BY <1>4 DEF MakeTorrent, Loads
<1>5. ASSUME NEW b \in Bundles, WriteTorrent(b) PROVE HoldsItsOwn' /\ MakesOwn' /\ GetsOthers'
  BY <1>5, FilledType DEF WriteTorrent
<1>6. ASSUME NEW b \in Bundles, Unpack(b) PROVE HoldsItsOwn' /\ MakesOwn' /\ GetsOthers'
  BY <1>6 DEF Unpack
<1>7. ASSUME NEW b \in Bundles, Rebuild(b) PROVE HoldsItsOwn' /\ MakesOwn' /\ GetsOthers'
  BY <1>7 DEF Rebuild
<1>8. ASSUME NEW b \in Bundles, FinishTorrent(b) PROVE HoldsItsOwn' /\ MakesOwn' /\ GetsOthers'
  BY <1>8, FilledType DEF FinishTorrent
<1>9. ASSUME NEW b \in Bundles, Import(b) PROVE HoldsItsOwn' /\ MakesOwn' /\ GetsOthers'
  BY <1>9 DEF Import
<1>10. ASSUME NEW b \in Bundles, Announce(b) PROVE HoldsItsOwn' /\ MakesOwn' /\ GetsOthers'
  BY <1>10 DEF Announce, ComesTo, Announcing
<1>11. CASE ListBundles \/ EndPass \/ FetchNothing
  BY <1>11 DEF ListBundles, EndPass, FetchNothing, Announcing
<1>12. CASE ServeCrash
  BY <1>12 DEF ServeCrash
<1>13. CASE DaemonCrash
  BY <1>13 DEF DaemonCrash
<1> QED
  BY <1>1, <1>2, <1>3, <1>4, <1>5, <1>6, <1>7, <1>8, <1>9, <1>10, <1>11, <1>12, <1>13
  DEF BNext, LoopRuns, Making, Fetching

(* The files of the store and the two processes that write them keep the invariant. *)
THEOREM BundleInvariant == BSpec => []BInv
<1>1. BInit => BInv
  BY BInitInv
<1>2. BInv /\ [BNext]_bvars => BInv'
  BY BNextInv
<1> QED BY <1>1, <1>2, PTL DEF BSpec

(* A complete bundle stays complete unless one of the same directory name is published or
   fetched (internal/aip2p/transfer.go, bundle.go). *)
\* What costs a settled bundle b its place.
Overwritten(b) == \E c \in Bundles \ {b} : DirName[c] = DirName[b] /\ (Making(c) \/ Fetching(c))

LEMMA SettledStays ==
  ASSUME BInv, [BNext]_bvars, NEW b \in Bundles, Settled(b), ~Settled(b)'
  PROVE  Overwritten(b)
<1> USE BundleConstants, BundleNames DEF BInv, BTypeOK, HoldsItsOwn, MakesOwn, GetsOthers, Resting, At, Settled, daemonVars
<1>1. CASE UNCHANGED bvars
  BY <1>1 DEF bvars
<1>2. ASSUME NEW c \in Bundles, Making(c), DirName[c] # DirName[b] \/ c = b PROVE FALSE
  <2>1. CASE MakeBody(c)
    BY <1>2, <2>1 DEF MakeBody
  <2>2. CASE MakeMessage(c)
    BY <1>2, <2>2 DEF MakeMessage
  <2>3. CASE MakeTorrent(c)
    BY <1>2, <2>3 DEF MakeTorrent, Loads
  <2>4. CASE WriteTorrent(c)
    BY <1>2, <2>4, FilledType DEF WriteTorrent
  <2> QED BY <1>2, <2>1, <2>2, <2>3, <2>4 DEF Making
<1>3. ASSUME NEW c \in Bundles, Fetching(c), DirName[c] # DirName[b] \/ c = b PROVE FALSE
  <2>1. CASE Unpack(c)
    BY <1>3, <2>1 DEF Unpack, Whole, Loads
  <2>2. CASE Rebuild(c)
    BY <1>3, <2>2 DEF Rebuild
  <2>3. CASE FinishTorrent(c)
    BY <1>3, <2>3, FilledType DEF FinishTorrent
  <2>4. CASE Import(c)
    BY <1>3, <2>4 DEF Import
  <2> QED BY <1>3, <2>1, <2>2, <2>3, <2>4 DEF Fetching
<1>4. ASSUME NEW c \in Bundles, Announce(c) PROVE FALSE
  BY <1>4 DEF Announce, Announcing
<1>5. CASE ListBundles \/ EndPass \/ FetchNothing
  BY <1>5 DEF ListBundles, EndPass, FetchNothing, Announcing
<1>6. CASE ServeCrash
  BY <1>6 DEF ServeCrash
<1>7. CASE DaemonCrash
  BY <1>7 DEF DaemonCrash
<1> QED
  BY <1>1, <1>2, <1>3, <1>4, <1>5, <1>6, <1>7 DEF BNext, LoopRuns, Overwritten

THEOREM CompleteStaysHolds == BSpec => CompleteStays
<1>1. BInv /\ [BNext]_bvars =>
        [\A b \in Bundles : Settled(b) /\ ~Settled(b)' =>
            \E c \in Bundles \ {b} : DirName[c] = DirName[b] /\ (Making(c) \/ Fetching(c))]_bvars
  BY SettledStays DEF Overwritten
<1> QED BY <1>1, BundleInvariant, PTL DEF BSpec, CompleteStays
-----------------------------------------------------------------------------
(* SyncSupervisor: its lists of ages first. *)

\* A set of numbers has a least one: the intervals below its members have a least one.
LEMMA LeastNumber ==
  ASSUME NEW T, T \subseteq Nat, T # {}
  PROVE  \E x \in T : \A y \in T : x <= y
<1> DEFINE Below(n) == 0..(n - 1)
           B == {Below(n) : n \in T}
<1>1. \A n \in T : Below(n) \in FiniteSubsetsOf(Nat)
  <2> SUFFICES ASSUME NEW n \in T PROVE Below(n) \in FiniteSubsetsOf(Nat)
    OBVIOUS
  <2>1. n \in Nat /\ n - 1 \in Int
    OBVIOUS
  <2>2. IsFiniteSet(0..(n - 1))
    BY <2>1, FS_Interval
  <2>3. 0..(n - 1) \subseteq Nat
    BY <2>1
  <2> QED BY <2>2, <2>3 DEF FiniteSubsetsOf
<1>2. B \subseteq FiniteSubsetsOf(Nat) /\ B # {}
  BY <1>1
<1>3. PICK b \in B : \A c \in B : ~(<<c, b>> \in StrictSubsetOrdering(Nat))
  <2> HIDE DEF B
  <2> QED BY <1>2, FS_StrictSubsetOrderingWellFounded, WFMin
<1>4. PICK x \in T : b = Below(x)
  OBVIOUS
<1>5. ASSUME NEW y \in T, ~(x <= y) PROVE FALSE
  <2>1. x \in Nat /\ y \in Nat /\ y < x
    BY <1>5
  <2>2. Below(y) \subseteq Below(x) /\ y \in Below(x) /\ y \notin Below(y)
    BY <2>1
  <2>3. Below(y) \in SUBSET Nat /\ Below(x) \in SUBSET Nat
    BY <2>1
  <2>4. <<Below(y), Below(x)>> \in StrictSubsetOrdering(Nat)
    <3> HIDE DEF Below
    <3> QED BY <2>2, <2>3 DEF StrictSubsetOrdering
  <2> QED BY <1>3, <1>4, <2>4
<1> QED BY <1>5

\* The restarts are listed in the order they happened.
Sorted(s) == \A i, j \in 1..Len(s) : i <= j => s[i] >= s[j]

LEMMA TooOldProperties ==
  ASSUME NEW s \in Seq(Nat), Sorted(s), NEW age \in Nat
  PROVE  /\ TooOld(s, age) \in 0..Len(s)
         /\ \A i \in 1..Len(s) : i <= TooOld(s, age) <=> s[i] >= age
<1> DEFINE T == {k \in 0..Len(s) : \A i \in 1..Len(s) : i > k => s[i] < age}
<1>1. Len(s) \in Nat /\ s \in [1..Len(s) -> Nat]
  BY LenProperties
<1>2. T \subseteq Nat /\ Len(s) \in T
  BY <1>1
<1>3. PICK k \in T : \A l \in T : k <= l
  BY <1>2, LeastNumber
<1>4. \A i \in 1..Len(s) : i <= k <=> s[i] >= age
  <2> SUFFICES ASSUME NEW i \in 1..Len(s), i <= k PROVE s[i] >= age
    BY <1>1, <1>3
  <2> k \in 0..Len(s) /\ i \in Nat
    BY <1>1
  <2>0. k - 1 \in 0..Len(s) /\ ~(k <= k - 1)
    BY <1>1
  <2>1. k - 1 \in 0..Len(s) /\ k - 1 \notin T
    <3> HIDE DEF T
    <3> QED BY <2>0, <1>3
  <2>2. PICK j \in 1..Len(s) : j > k - 1 /\ ~(s[j] < age)
    BY <2>1
  <2>3. j = k
    BY <1>1, <1>3, <2>2
  <2> QED BY <1>1, <2>2, <2>3 DEF Sorted
<1> QED BY <1>3, <1>4 DEF TooOld

\* What Younger keeps: the end of the list, in its order.
LEMMA YoungerProperties ==
  ASSUME NEW s \in Seq(Nat), Sorted(s), NEW age \in Nat
  PROVE  LET y == Younger(s, age)
             k == TooOld(s, age)
         IN /\ k \in 0..Len(s)
            /\ y \in Seq(Nat) /\ Sorted(y)
            /\ Len(y) = Len(s) - k
            /\ \A i \in 1..Len(y) : y[i] = s[k + i] /\ y[i] < age
            /\ \A i \in 1..k : s[i] >= age
<1> DEFINE k == TooOld(s, age)
           y == Younger(s, age)
<1>1. Len(s) \in Nat /\ s \in [1..Len(s) -> Nat]
  BY LenProperties
<1>2. k \in 0..Len(s) /\ \A i \in 1..Len(s) : i <= k <=> s[i] >= age
  BY TooOldProperties
<1> HIDE DEF k
<1>3. \A i \in (k + 1)..Len(s) : s[i] \in Nat
  BY <1>1, <1>2
<1>4. /\ SubSeq(s, k + 1, Len(s)) \in Seq(Nat)
      /\ Len(SubSeq(s, k + 1, Len(s))) = IF k + 1 <= Len(s) THEN Len(s) - (k + 1) + 1 ELSE 0
      /\ \A i \in 1..(Len(s) - (k + 1) + 1) : SubSeq(s, k + 1, Len(s))[i] = s[(k + 1) + i - 1]
  BY <1>1, <1>2, <1>3, SubSeqProperties
<1>5. y = SubSeq(s, k + 1, Len(s))
  BY DEF Younger, k
<1> HIDE DEF y
<1>6. k \in Nat /\ Len(s) - k \in Nat /\ Len(s) - (k + 1) + 1 = Len(s) - k
  BY <1>1, <1>2
<1>7. y \in Seq(Nat) /\ Len(y) = Len(s) - k
  <2>1. y \in Seq(Nat) /\ Len(y) = IF k + 1 <= Len(s) THEN Len(s) - (k + 1) + 1 ELSE 0
    BY <1>4, <1>5, Zenon
  <2>2. CASE k + 1 <= Len(s)
    BY <1>6, <2>1, <2>2
  <2>3. CASE ~(k + 1 <= Len(s))
    <3>1. k = Len(s)
      <4>1. Len(s) \in Nat
        BY <1>1
      <4>2. k \in 0..Len(s)
        BY <1>2
      <4> HIDE <1>1, <1>2
      <4> QED BY <4>1, <4>2, <2>3
    <3>2. Len(y) = 0
      BY <2>1, <2>3
    <3> QED BY <1>1, <2>1, <3>1, <3>2
  <2> QED BY <2>2, <2>3
<1>8. \A i \in 1..Len(y) : y[i] = s[k + i] /\ k + i \in 1..Len(s) /\ k + i > k
  <2> SUFFICES ASSUME NEW i \in 1..Len(y) PROVE y[i] = s[k + i] /\ k + i \in 1..Len(s) /\ k + i > k
    OBVIOUS
  <2>1. i \in Nat /\ (k + 1) + i - 1 = k + i /\ i \in 1..(Len(s) - (k + 1) + 1)
    BY <1>6, <1>7
  <2>2. y[i] = s[k + i]
    BY <1>4, <1>5, <2>1
  <2> QED BY <1>1, <1>6, <1>7, <2>1, <2>2
<1>9. Sorted(y)
  BY <1>1, <1>6, <1>7, <1>8 DEF Sorted
<1>10. \A i \in 1..Len(y) : y[i] < age
  BY <1>1, <1>2, <1>8
<1> QED BY <1>1, <1>2, <1>7, <1>8, <1>9, <1>10 DEF k, y

LEMMA AgedProperties ==
  ASSUME NEW s \in Seq(Nat), Sorted(s)
  PROVE  /\ Aged(s) \in Seq(Nat) /\ Sorted(Aged(s))
         /\ Len(Aged(s)) = Len(s) /\ \A i \in 1..Len(s) : Aged(s)[i] = s[i] + 1
<1>1. Len(s) \in Nat /\ s \in [1..Len(s) -> Nat] /\ DOMAIN s = 1..Len(s)
  BY LenProperties
<1>2. Aged(s) = [i \in 1..Len(s) |-> s[i] + 1]
  BY <1>1 DEF Aged
<1>3. Aged(s) \in [1..Len(s) -> Nat]
  BY <1>1, <1>2
<1>4. Aged(s) \in Seq(Nat) /\ Len(Aged(s)) = Len(s)
  BY <1>1, <1>2, <1>3
<1>5. \A i \in 1..Len(s) : Aged(s)[i] = s[i] + 1
  BY <1>2
<1> QED BY <1>1, <1>4, <1>5 DEF Sorted

\* A restart of now is the youngest.
LEMMA NewRestart ==
  ASSUME NEW s \in Seq(Nat), Sorted(s)
  PROVE  /\ Append(s, 0) \in Seq(Nat) /\ Sorted(Append(s, 0))
         /\ Len(Append(s, 0)) = Len(s) + 1 /\ Append(s, 0)[Len(s) + 1] = 0
         /\ \A i \in 1..Len(s) : Append(s, 0)[i] = s[i]
<1>1. Len(s) \in Nat /\ s \in [1..Len(s) -> Nat]
  BY LenProperties
<1>2. /\ Append(s, 0) \in Seq(Nat)
      /\ Len(Append(s, 0)) = Len(s) + 1 /\ Append(s, 0)[Len(s) + 1] = 0
      /\ \A i \in 1..Len(s) : Append(s, 0)[i] = s[i]
  BY AppendProperties
<1> HIDE DEF Sorted
<1>3. Sorted(Append(s, 0))
  BY <1>1, <1>2 DEF Sorted
<1> QED BY <1>2, <1>3
-----------------------------------------------------------------------------
(* The supervisor's invariant.  What the list of restarts forgot when the circuit opened is
   as old as the circuit is open, so it is out of the window when the circuit closes; while
   it is closed, the restarts of the window are the newest of the list. *)
Times == restarts \in Seq(Nat) /\ recorded \in Seq(Nat) /\ Sorted(restarts) /\ Sorted(recorded)
WithinWindow ==
    /\ \A i \in 1..Len(restarts) : restarts[i] <= Window
    /\ \A i \in 1..Len(recorded) : recorded[i] < Window
NewestOf(r, s) ==
    /\ Len(r) <= Len(s)
    /\ \A i \in 1..Len(r) : r[i] = s[Len(s) - Len(r) + i]
CircuitClosed == circuit = 0 => NewestOf(recorded, restarts) /\ Len(restarts) < Threshold
CircuitOpen ==
    circuit > 0 =>
        /\ restarts = <<>> /\ Len(recorded) <= Threshold /\ loopAt \notin {"start", "running"}
        /\ \A i \in 1..Len(recorded) : recorded[i] >= Cooldown - circuit
\* Only a running loop has a worker; a snapshot of the last event is no older than the event.
WorkerOfLoop == loopAt # "running" => worker = "none"
SnapshotOfEvent ==
    /\ status.event = events
    /\ progress # Blank => /\ progress.event <= events /\ progress.age <= Old
                           /\ progress.event = events => progress.age <= eventAge
SupTypes ==
    /\ loopAt \in {"check", "start", "running", "delay", "stopped"} /\ cancelled \in BOOLEAN
    /\ worker \in {"none", "alive", "exited"}
    /\ status \in [event: 0..MaxEvents, queued: BOOLEAN, age: 0..(Old + 1)]
    /\ events \in 0..MaxEvents /\ eventAge \in 0..Old
    /\ progress \in [event: 0..MaxEvents, age: 0..(Old + 1)]
    /\ circuit \in 0..Cooldown
SInv == SupTypes /\ Times /\ WithinWindow /\ CircuitClosed /\ CircuitOpen /\ WorkerOfLoop /\ SnapshotOfEvent

LEMMA NoRestarts == <<>> \in Seq(Nat) /\ Sorted(<<>>) /\ Len(<<>>) = 0
  BY EmptySeq DEF Sorted

LEMMA SupInitInv == SupInit => SInv
<1> SUFFICES ASSUME SupInit PROVE SInv
  OBVIOUS
<1> USE SupervisorConstants DEF SupInit
<1>1. SupTypes
  <2>1. StaleAfter \in Nat
    OBVIOUS
  <2>2. NoStatus \in [event: 0..MaxEvents, queued: BOOLEAN, age: 0..(Old + 1)]
    BY <2>1 DEF NoStatus, Old
  <2>3. Blank \in [event: 0..MaxEvents, age: 0..(Old + 1)]
    BY <2>1 DEF Blank, Old
  <2>4. Old \in 0..Old
    BY <2>1 DEF Old
  <2>5. 0 \in 0..MaxEvents /\ 0 \in 0..Cooldown
    OBVIOUS
  <2> QED BY <2>2, <2>3, <2>4, <2>5 DEF SupTypes
<1>2. Times /\ WithinWindow /\ CircuitClosed /\ CircuitOpen
  BY NoRestarts DEF Times, WithinWindow, CircuitClosed, CircuitOpen, NewestOf
<1>3. WorkerOfLoop /\ SnapshotOfEvent
  BY DEF WorkerOfLoop, SnapshotOfEvent, NoStatus, Blank
<1> QED BY <1>1, <1>2, <1>3 DEF SInv

\* Time drops from both lists what is out of the window, and from the shorter one no less.
\* The arithmetic of ages.
LEMMA NotYounger == \A w \in Nat : \A n \in Nat : w + 1 <= n => ~(n < w)
  OBVIOUS
LEMMA AgedOut ==
  ASSUME NEW c \in Nat, NEW w \in Nat, c >= w
  PROVE  \A n \in Nat : n >= c - 1 => ~(n + 1 < w)
  OBVIOUS
LEMMA AgedBoth == \A c, d, n \in Nat : n >= c - d => n + 1 >= c - (d - 1)
  OBVIOUS

LEMMA TickKeepsNewest ==
  ASSUME NEW r \in Seq(Nat), NEW s \in Seq(Nat), Sorted(r), Sorted(s), NewestOf(r, s), NEW w \in Nat
  PROVE  NewestOf(Younger(Aged(r), w), Younger(Aged(s), w + 1))
<1> DEFINE ra == Aged(r)
           sa == Aged(s)
           k == TooOld(ra, w)
           l == TooOld(sa, w + 1)
           yr == Younger(ra, w)
           ys == Younger(sa, w + 1)
<1>1. /\ ra \in Seq(Nat) /\ Sorted(ra) /\ Len(ra) = Len(r) /\ \A i \in 1..Len(r) : ra[i] = r[i] + 1
      /\ sa \in Seq(Nat) /\ Sorted(sa) /\ Len(sa) = Len(s) /\ \A i \in 1..Len(s) : sa[i] = s[i] + 1
  BY AgedProperties
<1> HIDE DEF ra, sa
<1>2. /\ k \in 0..Len(ra) /\ Len(yr) = Len(ra) - k
      /\ \A i \in 1..Len(yr) : yr[i] = ra[k + i] /\ yr[i] < w
      /\ \A i \in 1..k : ra[i] >= w
  BY <1>1, YoungerProperties
<1>3. /\ l \in 0..Len(sa) /\ Len(ys) = Len(sa) - l
      /\ \A i \in 1..Len(ys) : ys[i] = sa[l + i] /\ ys[i] < w + 1
      /\ \A i \in 1..l : sa[i] >= w + 1
  <2>1. w + 1 \in Nat
    OBVIOUS
  <2> QED BY <1>1, <2>1, YoungerProperties
<1> HIDE DEF k, l, yr, ys
<1>4. Len(r) \in Nat /\ Len(s) \in Nat /\ Len(r) <= Len(s) /\ r \in [1..Len(r) -> Nat] /\ s \in [1..Len(s) -> Nat]
  BY LenProperties DEF NewestOf
<1>5. \A i \in 1..Len(r) : ra[i] = sa[Len(s) - Len(r) + i]
  <2> SUFFICES ASSUME NEW i \in 1..Len(r) PROVE ra[i] = sa[Len(s) - Len(r) + i]
    OBVIOUS
  <2>1. Len(s) - Len(r) + i \in 1..Len(s)
    BY <1>4
  <2>2. r[i] = s[Len(s) - Len(r) + i]
    BY DEF NewestOf
  <2> QED BY <1>1, <2>1, <2>2
<1>6. Len(yr) <= Len(ys)
  <2> SUFFICES ASSUME Len(ys) < Len(yr) PROVE FALSE
    BY <1>1, <1>2, <1>3, <1>4
  <2>1. /\ k \in Nat /\ l \in Nat /\ Len(s) - l < Len(r) - k /\ l <= Len(s) /\ k <= Len(r)
    BY <1>1, <1>2, <1>3, <1>4
  <2>2. l - (Len(s) - Len(r)) - k \in 1..Len(yr) /\ l \in 1..l
    BY <1>1, <1>2, <1>4, <2>1
  <2>3. l - (Len(s) - Len(r)) \in 1..Len(r)
    BY <1>4, <2>1
  <2>4. ra[l - (Len(s) - Len(r))] < w
    <3>1. k + (l - (Len(s) - Len(r)) - k) = l - (Len(s) - Len(r))
      BY <1>4, <2>1
    <3> QED BY <1>2, <2>2, <3>1
  <2>5. sa[l] >= w + 1
    BY <1>3, <2>2
  <2>6. ra[l - (Len(s) - Len(r))] = sa[l]
    <3>1. Len(s) - Len(r) + (l - (Len(s) - Len(r))) = l
      BY <1>4, <2>1
    <3> QED BY <1>5, <2>3, <3>1
  <2>7. sa[l] \in Nat
    <3>1. l \in 1..Len(s)
      BY <1>4, <2>1, <2>2
    <3>2. sa[l] = s[l] + 1 /\ s[l] \in Nat
      BY <1>1, <1>4, <3>1
    <3> QED BY <3>2
  <2>8. w + 1 <= sa[l] /\ sa[l] < w
    BY <2>4, <2>5, <2>6
  <2> QED BY <2>7, <2>8, NotYounger, Zenon
<1>7. \A i \in 1..Len(yr) : yr[i] = ys[Len(ys) - Len(yr) + i]
  <2> SUFFICES ASSUME NEW i \in 1..Len(yr) PROVE yr[i] = ys[Len(ys) - Len(yr) + i]
    OBVIOUS
  <2>1. k \in Nat /\ l \in Nat /\ i \in Nat /\ k <= Len(r) /\ l <= Len(s) /\ Len(yr) = Len(r) - k /\ Len(ys) = Len(s) - l
    BY <1>1, <1>2, <1>3, <1>4
  <2>2. Len(ys) - Len(yr) + i \in 1..Len(ys) /\ k + i \in 1..Len(r)
    BY <1>4, <1>6, <2>1
  <2>3. yr[i] = ra[k + i] /\ ys[Len(ys) - Len(yr) + i] = sa[l + (Len(ys) - Len(yr) + i)]
    BY <1>2, <1>3, <2>2
  <2>4. l + (Len(ys) - Len(yr) + i) = Len(s) - Len(r) + (k + i)
    BY <1>4, <2>1
  <2> QED BY <1>5, <2>2, <2>3, <2>4
<1> QED BY <1>6, <1>7 DEF NewestOf, yr, ys, ra, sa
LEMMA TickInv == SInv /\ Tick => SInv'
<1> SUFFICES ASSUME SInv, Tick PROVE SInv'
  OBVIOUS
<1> USE SupervisorConstants
<1>1. /\ Aged(restarts) \in Seq(Nat) /\ Sorted(Aged(restarts)) /\ Len(Aged(restarts)) = Len(restarts)
      /\ Aged(recorded) \in Seq(Nat) /\ Sorted(Aged(recorded)) /\ Len(Aged(recorded)) = Len(recorded)
      /\ \A i \in 1..Len(recorded) : Aged(recorded)[i] = recorded[i] + 1
  BY AgedProperties DEF SInv, Times
<1>2. Window \in Nat /\ Window + 1 \in Nat
  OBVIOUS
<1>3. /\ restarts' \in Seq(Nat) /\ Sorted(restarts') /\ Len(restarts') <= Len(restarts)
      /\ \A i \in 1..Len(restarts') : restarts'[i] < Window + 1
  <2> DEFINE k == TooOld(Aged(restarts), Window + 1)
  <2>1. /\ k \in 0..Len(Aged(restarts)) /\ restarts' \in Seq(Nat) /\ Sorted(restarts')
        /\ Len(restarts') = Len(Aged(restarts)) - k
        /\ \A i \in 1..Len(restarts') : restarts'[i] < Window + 1
    BY <1>1, <1>2, YoungerProperties DEF Tick
  <2> QED BY <1>1, <2>1, LenProperties
<1>4. /\ recorded' \in Seq(Nat) /\ Sorted(recorded') /\ Len(recorded') <= Len(recorded)
      /\ \A i \in 1..Len(recorded') : recorded'[i] < Window
      /\ \A i \in 1..Len(recorded') : \E j \in 1..Len(recorded) : recorded'[i] = recorded[j] + 1
  <2> DEFINE k == TooOld(Aged(recorded), Window)
  <2>1. /\ k \in 0..Len(Aged(recorded)) /\ recorded' \in Seq(Nat) /\ Sorted(recorded')
        /\ Len(recorded') = Len(Aged(recorded)) - k
        /\ \A i \in 1..Len(recorded') : recorded'[i] = Aged(recorded)[k + i] /\ recorded'[i] < Window
    BY <1>1, <1>2, YoungerProperties DEF Tick
  <2> HIDE DEF k
  <2>2. Len(recorded) \in Nat /\ Len(recorded') \in Nat
    BY <2>1, LenProperties DEF SInv, Times
  <2>3. ASSUME NEW i \in 1..Len(recorded') PROVE \E j \in 1..Len(recorded) : recorded'[i] = recorded[j] + 1
    <3>1. k + i \in 1..Len(recorded)
      BY <1>1, <2>1, <2>2
    <3> QED BY <1>1, <2>1, <3>1
  <2> QED BY <1>1, <2>1, <2>2, <2>3
<1>5. SupTypes' /\ WorkerOfLoop' /\ SnapshotOfEvent'
  <2>1. Old \in Nat
    BY DEF Old
  <2>2. SupTypes'
    BY <2>1 DEF SInv, SupTypes, Tick, NoStatus, Blank, Older
  <2>3. WorkerOfLoop'
    BY DEF SInv, WorkerOfLoop, Tick
  <2>4. status'.event = status.event /\ progress'.event = progress.event
    BY DEF SInv, SupTypes, Tick, NoStatus, Blank
  <2>5. progress' # Blank => progress # Blank /\ progress'.age = Older(progress.age, Old)
    BY DEF SInv, SupTypes, Tick
  <2>6. SnapshotOfEvent'
    BY <2>1, <2>4, <2>5 DEF SInv, SupTypes, SnapshotOfEvent, Tick, Older
  <2> QED BY <2>2, <2>3, <2>6
<1>6. Times' /\ WithinWindow'
  <2>1. \A i \in 1..Len(restarts') : restarts'[i] <= Window
    <3>1. \A i \in 1..Len(restarts') : restarts'[i] \in Nat
      BY <1>3, ElementOfSeq
    <3> QED BY <1>3, <3>1
  <2> QED BY <1>3, <1>4, <2>1 DEF Times, WithinWindow
<1>7. CircuitClosed'
  <2>1. CASE circuit = 0
    <3>1. NewestOf(recorded', restarts')
      BY <1>2, <2>1, TickKeepsNewest DEF SInv, Times, CircuitClosed, Tick
    <3>2. Len(restarts) < Threshold /\ Len(restarts) \in Nat /\ Len(restarts') \in Nat
      BY <1>3, <2>1, LenProperties DEF SInv, Times, CircuitClosed
    <3> QED BY <1>3, <3>1, <3>2 DEF CircuitClosed
  <2>2. CASE circuit = 1
    <3>1. \A i \in 1..Len(recorded) : recorded[i] >= Cooldown - 1
      BY <2>2 DEF SInv, CircuitOpen
    <3>2. \A i \in 1..Len(recorded) : recorded[i] \in Nat
      BY ElementOfSeq DEF SInv, Times
    <3>3. ASSUME NEW i \in 1..Len(recorded') PROVE FALSE
      <4>1. PICK j \in 1..Len(recorded) : recorded'[i] = recorded[j] + 1
        BY <1>4
      <4>2. recorded[j] \in Nat /\ recorded[j] >= Cooldown - 1 /\ recorded[j] + 1 < Window
        BY <1>4, <3>1, <3>2, <4>1
      <4>3. Cooldown \in Nat /\ Window \in Nat /\ Cooldown >= Window
        OBVIOUS
      <4> QED BY <4>2, <4>3, AgedOut, Zenon
    <3>4. Len(recorded') = 0 /\ Len(restarts') = 0
      <4>1. Len(recorded') \in Nat /\ Len(restarts') \in Nat
        BY <1>3, <1>4, LenProperties
      <4>2. Len(restarts) = 0
        BY <2>2, NoRestarts DEF SInv, CircuitOpen
      <4> QED BY <1>3, <3>3, <4>1, <4>2
    <3> QED BY <3>3, <3>4 DEF CircuitClosed, NewestOf
  <2>3. CASE circuit > 1
    BY <2>3 DEF CircuitClosed, SInv, SupTypes, Tick
  <2> QED BY <2>1, <2>2, <2>3 DEF SInv, SupTypes
<1>8. CircuitOpen'
  <2> SUFFICES ASSUME circuit' > 0
               PROVE  /\ restarts' = <<>> /\ Len(recorded') <= Threshold /\ loopAt' \notin {"start", "running"}
                      /\ \A i \in 1..Len(recorded') : recorded'[i] >= Cooldown - circuit'
    BY DEF CircuitOpen
  <2>1. circuit > 0 /\ circuit' = circuit - 1 /\ circuit \in Nat
    BY DEF SInv, SupTypes, Tick
  <2>2. /\ restarts = <<>> /\ Len(recorded) <= Threshold /\ loopAt' \notin {"start", "running"}
        /\ \A i \in 1..Len(recorded) : recorded[i] >= Cooldown - circuit
    BY <2>1 DEF SInv, CircuitOpen, Tick
  <2>3. restarts' = <<>>
    <3>1. Len(restarts') \in Nat /\ Len(restarts) = 0
      BY <1>3, <2>2, LenProperties, NoRestarts
    <3>2. Len(restarts') = 0
      BY <1>3, <3>1
    <3> QED BY <1>3, <3>2, EmptySeq
  <2>4. Len(recorded') <= Threshold
    <3>1. Len(recorded') \in Nat /\ Len(recorded) \in Nat
      BY <1>4, LenProperties DEF SInv, Times
    <3> QED BY <1>4, <2>2, <3>1
  <2>5. \A i \in 1..Len(recorded) : recorded[i] \in Nat
    BY ElementOfSeq DEF SInv, Times
  <2>6. ASSUME NEW i \in 1..Len(recorded') PROVE recorded'[i] >= Cooldown - circuit'
    <3>1. PICK j \in 1..Len(recorded) : recorded'[i] = recorded[j] + 1
      BY <1>4
    <3>2. recorded[j] \in Nat /\ recorded[j] >= Cooldown - circuit
      BY <2>2, <2>5
    <3>3. recorded[j] + 1 >= Cooldown - (circuit - 1)
      <4>1. Cooldown \in Nat
        OBVIOUS
      <4> QED BY <2>1, <3>2, <4>1, AgedBoth, Zenon
    <3> QED BY <2>1, <3>1, <3>3, Zenon
  <2> QED BY <2>2, <2>3, <2>4, <2>6
<1> QED BY <1>5, <1>6, <1>7, <1>8 DEF SInv
\* A restart is recorded only while the circuit is closed, at the end of both lists.
LEMMA RecordInv ==
  ASSUME SInv, RecordRestart, circuit = 0, loopAt' \notin {"start", "running"}
  PROVE  Times' /\ WithinWindow' /\ CircuitClosed' /\ CircuitOpen' /\ circuit' \in 0..Cooldown
<1> USE SupervisorConstants
<1>1. /\ restarts \in Seq(Nat) /\ recorded \in Seq(Nat) /\ Sorted(restarts) /\ Sorted(recorded)
      /\ NewestOf(recorded, restarts) /\ Len(restarts) < Threshold
  BY DEF SInv, Times, CircuitClosed
<1>2. Len(restarts) \in Nat /\ Len(recorded) \in Nat /\ Len(recorded) <= Len(restarts)
  BY <1>1, LenProperties DEF NewestOf
<1>3. /\ recorded' = Append(recorded, 0) /\ recorded' \in Seq(Nat) /\ Sorted(recorded')
      /\ Len(recorded') = Len(recorded) + 1 /\ recorded'[Len(recorded) + 1] = 0
      /\ \A i \in 1..Len(recorded) : recorded'[i] = recorded[i]
  BY <1>1, NewRestart DEF RecordRestart
<1>4. /\ Append(restarts, 0) \in Seq(Nat) /\ Sorted(Append(restarts, 0))
      /\ Len(Append(restarts, 0)) = Len(restarts) + 1 /\ Append(restarts, 0)[Len(restarts) + 1] = 0
      /\ \A i \in 1..Len(restarts) : Append(restarts, 0)[i] = restarts[i]
  BY <1>1, NewRestart
<1>5. \A i \in 1..Len(recorded') : recorded'[i] < Window
  <2> SUFFICES ASSUME NEW i \in 1..Len(recorded') PROVE recorded'[i] < Window
    OBVIOUS
  <2>1. i \in 1..Len(recorded) \/ i = Len(recorded) + 1
    BY <1>2, <1>3
  <2>2. \A j \in 1..Len(recorded) : recorded[j] < Window
    BY DEF SInv, WithinWindow
  <2>3. 0 < Window
    OBVIOUS
  <2> QED BY <1>3, <2>1, <2>2, <2>3, Zenon
<1>6. CASE Len(restarts) + 1 >= Threshold
  <2>1. restarts' = <<>> /\ circuit' = Cooldown
    BY <1>6 DEF RecordRestart
  <2>2. Len(recorded') <= Threshold
    BY <1>1, <1>2, <1>3
  <2>3. \A i \in 1..Len(recorded') : recorded'[i] >= Cooldown - Cooldown
    BY <1>3, ElementOfSeq
  <2>4. restarts' \in Seq(Nat) /\ Sorted(restarts') /\ Len(restarts') = 0
    BY <2>1, NoRestarts
  <2> QED BY <1>3, <1>5, <2>1, <2>2, <2>3, <2>4 DEF Times, WithinWindow, CircuitClosed, CircuitOpen
<1>7. CASE ~(Len(restarts) + 1 >= Threshold)
  <2>1. restarts' = Append(restarts, 0) /\ circuit' = 0
    BY <1>7 DEF RecordRestart
  <2>2. Len(restarts') < Threshold
    BY <1>2, <1>4, <1>7, <2>1
  <2>3. \A i \in 1..Len(restarts') : restarts'[i] <= Window
    <3> SUFFICES ASSUME NEW i \in 1..Len(restarts') PROVE restarts'[i] <= Window
      OBVIOUS
    <3>1. i \in 1..Len(restarts) \/ i = Len(restarts) + 1
      BY <1>2, <1>4, <2>1
    <3>2. \A j \in 1..Len(restarts) : restarts[j] <= Window
      BY DEF SInv, WithinWindow
    <3>3. 0 <= Window
      OBVIOUS
    <3> QED BY <1>4, <2>1, <3>1, <3>2, <3>3, Zenon
  <2>4. NewestOf(recorded', restarts')
    <3>1. Len(recorded') <= Len(restarts')
      BY <1>2, <1>3, <1>4, <2>1
    <3>2. ASSUME NEW i \in 1..Len(recorded')
          PROVE  recorded'[i] = restarts'[Len(restarts') - Len(recorded') + i]
      <4>1. Len(restarts') - Len(recorded') + i = Len(restarts) - Len(recorded) + i
        BY <1>2, <1>3, <1>4, <2>1
      <4>2. CASE i \in 1..Len(recorded)
        <5>1. Len(restarts) - Len(recorded) + i \in 1..Len(restarts)
          BY <1>2, <4>2
        <5>2. recorded[i] = restarts[Len(restarts) - Len(recorded) + i]
          BY <1>1, <4>2 DEF NewestOf
        <5> QED BY <1>3, <1>4, <2>1, <4>1, <4>2, <5>1, <5>2
      <4>3. CASE i = Len(recorded) + 1
        <5>1. Len(restarts) - Len(recorded) + i = Len(restarts) + 1
          BY <1>2, <4>3
        <5> QED BY <1>3, <1>4, <2>1, <4>1, <4>3, <5>1
      <4> QED BY <1>2, <1>3, <4>2, <4>3
    <3> QED BY <3>1, <3>2 DEF NewestOf
  <2> QED BY <1>3, <1>4, <1>5, <2>1, <2>2, <2>3, <2>4 DEF Times, WithinWindow, CircuitClosed, CircuitOpen
<1> QED BY <1>6, <1>7

\* While a worker is to be started or runs, the circuit is closed.
LEMMA ClosedWhileRunning == SInv /\ loopAt \in {"start", "running"} => circuit = 0
  BY DEF SInv, SupTypes, CircuitOpen

\* What leaves the lists alone and starts no worker under an open circuit keeps their part.
LEMMA QuietInv ==
  ASSUME SInv, restarts' = restarts, recorded' = recorded, circuit' = circuit,
         circuit = 0 \/ loopAt' \notin {"start", "running"}
  PROVE  Times' /\ WithinWindow' /\ CircuitClosed' /\ CircuitOpen' /\ circuit' \in 0..Cooldown
  BY SupervisorConstants DEF SInv, Times, WithinWindow, CircuitClosed, CircuitOpen, SupTypes

\* The snapshots of evaluateSyncHealth.
LEMMA HealthInv ==
  ASSUME SInv
  PROVE  /\ Health.next \in [event: 0..MaxEvents, age: 0..(Old + 1)]
         /\ Health.next # Blank =>
               /\ Health.next.event <= events /\ Health.next.age <= Old
               /\ Health.next.event = events => Health.next.age <= eventAge
<1> USE SupervisorConstants
<1>1. Old \in Nat /\ Blank \in [event: 0..MaxEvents, age: 0..(Old + 1)]
  BY DEF Old, Blank
<1>2. /\ progress \in [event: 0..MaxEvents, age: 0..(Old + 1)]
      /\ progress # Blank => /\ progress.event <= events /\ progress.age <= Old
                             /\ progress.event = events => progress.age <= eventAge
  BY DEF SInv, SupTypes, SnapshotOfEvent
<1>3. status.event = events /\ events \in 0..MaxEvents /\ eventAge \in 0..Old
  BY DEF SInv, SupTypes, SnapshotOfEvent
<1>4. Health.next \in {Blank, progress, [event |-> events, age |-> 0]}
  BY <1>3 DEF Health, NextSnapshot
<1>5. [event |-> events, age |-> 0] \in [event: 0..MaxEvents, age: 0..(Old + 1)]
  BY <1>1, <1>3
<1> QED BY <1>1, <1>2, <1>3, <1>4, <1>5

LEMMA SupNextInv == SInv /\ [SupNext]_supvars => SInv'
<1> SUFFICES ASSUME SInv, [SupNext]_supvars PROVE SInv'
  OBVIOUS
<1> DEFINE Lists == Times' /\ WithinWindow' /\ CircuitClosed' /\ CircuitOpen' /\ circuit' \in 0..Cooldown
<1> DEFINE RunHeld == SupTypes' /\ WorkerOfLoop' /\ SnapshotOfEvent'
<1> USE DEF Quiet
<1>1. CASE UNCHANGED supvars
  <2>1. Lists
    BY <1>1, QuietInv, ClosedWhileRunning DEF supvars
  <2>2. RunHeld
    BY <1>1 DEF supvars, SInv, SupTypes, WorkerOfLoop, SnapshotOfEvent
  <2> QED BY <2>1, <2>2 DEF SInv
<1>2. CASE Tick
  BY <1>2, TickInv
<1>3. CASE LoopHead
  <2>1. Lists
    BY <1>3, QuietInv DEF LoopHead
  <2>2. RunHeld
    BY <1>3, <2>1 DEF LoopHead, SInv, SupTypes, WorkerOfLoop, SnapshotOfEvent
  <2> QED BY <2>1, <2>2 DEF SInv
<1>4. CASE CancelledWhileWaiting
  <2>1. Lists
    BY <1>4, QuietInv DEF CancelledWhileWaiting
  <2>2. RunHeld
    BY <1>4, <2>1 DEF CancelledWhileWaiting, SInv, SupTypes, WorkerOfLoop, SnapshotOfEvent
  <2> QED BY <2>1, <2>2 DEF SInv
<1>5. CASE StartChild
  <2>1. Lists
    BY <1>5, QuietInv, ClosedWhileRunning DEF StartChild
  <2>2. RunHeld
    BY <1>5, <2>1 DEF StartChild, SInv, SupTypes, WorkerOfLoop, SnapshotOfEvent
  <2> QED BY <2>1, <2>2 DEF SInv
<1>6. CASE StartFails
  <2>1. Lists
    BY <1>6, RecordInv, ClosedWhileRunning DEF StartFails
  <2>2. RunHeld
    BY <1>6, <2>1 DEF StartFails, SInv, SupTypes, WorkerOfLoop, SnapshotOfEvent
  <2> QED BY <2>1, <2>2 DEF SInv
<1>7. CASE StopRunning
  <2>1. Lists
    BY <1>7, QuietInv DEF StopRunning
  <2>2. RunHeld
    BY <1>7, <2>1 DEF StopRunning, SInv, SupTypes, WorkerOfLoop, SnapshotOfEvent
  <2> QED BY <2>1, <2>2 DEF SInv
<1>8. CASE WorkerExited
  <2>1. Lists
    BY <1>8, RecordInv, ClosedWhileRunning DEF WorkerExited
  <2>2. Blank \in [event: 0..MaxEvents, age: 0..(Old + 1)]
    BY SupervisorConstants DEF Blank, Old
  <2>3. RunHeld
    BY <1>8, <2>1, <2>2 DEF WorkerExited, SInv, SupTypes, WorkerOfLoop, SnapshotOfEvent
  <2> QED BY <2>1, <2>3 DEF SInv
<1>9. CASE KillWorker
  <2>1. Lists
    BY <1>9, RecordInv, ClosedWhileRunning DEF KillWorker
  <2>2. RunHeld
    BY <1>9, <2>1, HealthInv DEF KillWorker, SInv, SupTypes, WorkerOfLoop, SnapshotOfEvent
  <2> QED BY <2>1, <2>2 DEF SInv
<1>10. CASE DelayOver
  <2>1. Lists
    BY <1>10, QuietInv DEF DelayOver
  <2>2. RunHeld
    BY <1>10, <2>1 DEF DelayOver, SInv, SupTypes, WorkerOfLoop, SnapshotOfEvent
  <2> QED BY <2>1, <2>2 DEF SInv
<1>11. CASE CheckHealthy
  <2>1. Lists
    BY <1>11, QuietInv, ClosedWhileRunning DEF CheckHealthy
  <2>2. RunHeld
    BY <1>11, <2>1, HealthInv DEF CheckHealthy, SInv, SupTypes, WorkerOfLoop, SnapshotOfEvent
  <2> QED BY <2>1, <2>2 DEF SInv
<1>12. CASE WorkerReports
  <2>1. Lists
    BY <1>12, QuietInv, ClosedWhileRunning DEF WorkerReports
  <2>2. WorkerOfLoop'
    BY <1>12 DEF WorkerReports, SInv, WorkerOfLoop
  <2>3. PICK q \in BOOLEAN :
          \/ /\ status' = [event |-> status.event, queued |-> q, age |-> 0]
             /\ UNCHANGED <<events, eventAge>>
          \/ /\ events < MaxEvents /\ events' = events + 1 /\ eventAge' = 0
             /\ status' = [event |-> events + 1, queued |-> q, age |-> 0]
    BY <1>12 DEF WorkerReports
  <2>4. Old \in Nat /\ MaxEvents \in Nat
    BY SupervisorConstants DEF Old
  <2>5. progress' = progress /\ loopAt' = loopAt /\ cancelled' = cancelled /\ worker' = worker /\ circuit' = circuit
    BY <1>12 DEF WorkerReports
  <2>6. status.event \in 0..MaxEvents /\ status.event = events /\ events \in 0..MaxEvents /\ eventAge \in 0..Old
    BY DEF SInv, SupTypes, SnapshotOfEvent
  <2>7. SupTypes' /\ SnapshotOfEvent'
    <3>1. SupTypes'
      BY <2>3, <2>4, <2>5, <2>6 DEF SInv, SupTypes
    <3>2. SnapshotOfEvent'
      BY <2>3, <2>4, <2>5, <2>6 DEF SInv, SupTypes, SnapshotOfEvent
    <3> QED BY <3>1, <3>2
  <2> QED BY <2>1, <2>2, <2>7 DEF SInv
<1>13. CASE WorkerDies
  <2>1. Lists
    BY <1>13, QuietInv, ClosedWhileRunning DEF WorkerDies
  <2>2. RunHeld
    BY <1>13, <2>1 DEF WorkerDies, SInv, SupTypes, WorkerOfLoop, SnapshotOfEvent
  <2> QED BY <2>1, <2>2 DEF SInv
<1>14. CASE Stop
  <2>1. Lists
    BY <1>14, QuietInv, ClosedWhileRunning DEF Stop
  <2>2. RunHeld
    BY <1>14, <2>1 DEF Stop, SInv, SupTypes, WorkerOfLoop, SnapshotOfEvent
  <2> QED BY <2>1, <2>2 DEF SInv
<1> QED
  BY <1>1, <1>2, <1>3, <1>4, <1>5, <1>6, <1>7, <1>8, <1>9, <1>10, <1>11, <1>12, <1>13, <1>14
  DEF SupNext, LoopStep

(* The supervisor keeps its invariant for every window, threshold and staleness. *)
THEOREM SupervisorInvariant == SupSpec => []SInv
<1>1. SupInit => SInv
  BY SupInitInv
<1>2. SInv /\ [SupNext]_supvars => SInv'
  BY SupNextInv
<1> QED BY <1>1, <1>2, PTL DEF SupSpec

(* The types of the supervisor's state (internal/plugins/aip2p/sync_supervisor.go). *)
LEMMA UpTo ==
  ASSUME NEW s \in Seq(Nat), NEW n \in Nat, \A i \in 1..Len(s) : s[i] <= n
  PROVE  s \in Seq(0..n)
<1>1. Len(s) \in Nat /\ s \in [1..Len(s) -> Nat]
  BY LenProperties
<1>2. s \in [1..Len(s) -> 0..n]
  BY <1>1
<1> QED BY <1>1, <1>2, SeqDef

THEOREM SupervisorTypes == SupSpec => []SupTypeOK
<1>1. SInv => SupTypeOK
  <2> SUFFICES ASSUME SInv PROVE SupTypeOK
    OBVIOUS
  <2>1. Window \in Nat /\ Window - 1 \in Nat
    BY SupervisorConstants
  <2>2. restarts \in Seq(0..Window)
    BY <2>1, UpTo DEF SInv, Times, WithinWindow
  <2>3. \A i \in 1..Len(recorded) : recorded[i] \in Nat /\ recorded[i] <= Window - 1
    BY <2>1, ElementOfSeq DEF SInv, Times, WithinWindow
  <2>4. recorded \in Seq(0..(Window - 1))
    BY <2>1, <2>3, UpTo DEF SInv, Times
  <2> QED BY <2>2, <2>4 DEF SInv, SupTypes, SupTypeOK
<1> QED BY <1>1, SupervisorInvariant, PTL

(* No more than Threshold restarts happen in a window, also across an opening of the circuit,
   and a stopped supervisor leaves no worker (sync_supervisor.go:171, 257). *)
THEOREM WorkersBoundedHolds == SupSpec => []WorkersBounded
<1>1. SInv => WorkersBounded
  <2> SUFFICES ASSUME SInv PROVE WorkersBounded
    OBVIOUS
  <2>1. Len(recorded) <= Threshold
    <3>1. CASE circuit = 0
      <4>1. Len(recorded) \in Nat /\ Len(restarts) \in Nat
        BY LenProperties DEF SInv, Times
      <4>2. Len(recorded) <= Len(restarts) /\ Len(restarts) < Threshold
        BY <3>1 DEF SInv, CircuitClosed, NewestOf
      <4> QED BY SupervisorConstants, <4>1, <4>2
    <3>2. CASE circuit > 0
      BY <3>2 DEF SInv, CircuitOpen
    <3> QED BY <3>1, <3>2, SupervisorConstants DEF SInv, SupTypes
  <2>2. StopLeavesNoWorker
    BY DEF SInv, WorkerOfLoop, StopLeavesNoWorker
  <2> QED BY <2>1, <2>2 DEF WorkersBounded, NoRestartStorm
<1> QED BY <1>1, SupervisorInvariant, PTL

(* A snapshot that makes the health check say "stalled_queue" is of the worker's last event
   and no older than it. *)
LEMMA StalledIsOld ==
  ASSUME SInv, Health.reason = "stalled_queue"
  PROVE  eventAge > StaleAfter
<1>1. NextSnapshot.age > StaleAfter
  BY DEF Health
<1>2. StaleAfter \in Nat /\ StaleAfter > 0
  BY SupervisorConstants
<1>3. progress # Blank /\ progress.event = status.event /\ progress.age > StaleAfter
  BY <1>1, <1>2 DEF NextSnapshot
<1>4. progress.age <= eventAge /\ progress.age \in Nat /\ eventAge \in Nat
  BY <1>3, SupervisorConstants DEF SInv, SupTypes, SnapshotOfEvent, Old
<1> QED BY <1>2, <1>3, <1>4

(* A worker is killed as stalled only when its last event is old, whatever snapshot the
   supervisor inherited (sync_supervisor.go:382). *)
THEOREM ProgressIsSeenHolds == SupSpec => ProgressIsSeen
<1>1. SInv /\ [SupNext]_supvars =>
        [KillWorker /\ Health.reason = "stalled_queue" => eventAge > StaleAfter]_supvars
  BY StalledIsOld
<1> QED BY <1>1, SupervisorInvariant, PTL DEF SupSpec, ProgressIsSeen

-----------------------------------------------------------------------------
(* The queue files. *)
(* The place of k among the kept ones. *)
PlaceIn(kept, k) == Cardinality({j \in kept : j <= k})

(* The places of a finite set of numbers: the first is 1, no two agree, none is left out. *)
LEMMA PlacesOfSet ==
  ASSUME NEW kept, IsFiniteSet(kept), kept \subseteq Int
  PROVE  /\ Cardinality(kept) \in Nat
         /\ \A k \in kept : PlaceIn(kept, k) \in 1..Cardinality(kept)
         /\ \A k, j \in kept : PlaceIn(kept, k) = PlaceIn(kept, j) => k = j
         /\ \A n \in 1..Cardinality(kept) : \E k \in kept : PlaceIn(kept, k) = n
<1> DEFINE place == [k \in kept |-> Cardinality({j \in kept : j <= k})]
<1> DEFINE upto(k) == {j \in kept : j <= k}
<1>1. Cardinality(kept) \in Nat
  BY FS_CardinalityType
<1>2. ASSUME NEW k \in kept
      PROVE  IsFiniteSet(upto(k)) /\ Cardinality(upto(k)) \in Nat /\ Cardinality(upto(k)) <= Cardinality(kept)
  <2>1. upto(k) \in SUBSET kept
    OBVIOUS
  <2>2. IsFiniteSet(upto(k)) /\ Cardinality(upto(k)) <= Cardinality(kept)
    BY <2>1, FS_Subset
  <2> QED BY <2>2, FS_CardinalityType
<1>3. ASSUME NEW k \in kept PROVE place[k] \in 1..Cardinality(kept)
  <2>1. k \in upto(k)
    OBVIOUS
  <2>2. Cardinality(upto(k)) # 0
    BY <1>2, <2>1, FS_EmptySet
  <2> HIDE DEF upto
  <2>3. Cardinality(upto(k)) \in 1..Cardinality(kept)
    BY <1>1, <1>2, <2>2
  <2> QED BY <2>3 DEF upto
<1>4. ASSUME NEW k \in kept, NEW j \in kept, j < k PROVE place[j] < place[k]
  <2>1. upto(j) \in SUBSET upto(k) /\ k \in upto(k) /\ k \notin upto(j)
    <3>1. \A i \in kept : i \in Int
      OBVIOUS
    <3>2. \A i \in kept : i <= j => i <= k
      BY <1>4, <3>1
    <3>3. k <= k /\ ~(k <= j)
      BY <1>4, <3>1
    <3> QED BY <3>2, <3>3
  <2>2. upto(j) # upto(k)
    BY <2>1
  <2>3. Cardinality(upto(j)) <= Cardinality(upto(k)) /\ Cardinality(upto(j)) # Cardinality(upto(k))
    <3> HIDE DEF upto
    <3> QED BY <1>2, <2>1, <2>2, FS_Subset
  <2>4. place[j] = Cardinality(upto(j)) /\ place[k] = Cardinality(upto(k))
    OBVIOUS
  <2> HIDE DEF upto
  <2> QED BY <1>2, <2>3, <2>4
<1>5. \A k, j \in kept : place[k] = place[j] => k = j
  <2> SUFFICES ASSUME NEW k \in kept, NEW j \in kept, place[k] = place[j] PROVE k = j
    OBVIOUS
  <2>1. place[k] \in Int /\ place[j] \in Int /\ k \in Int /\ j \in Int
    BY <1>1, <1>3
  <2>2. ~(j < k) /\ ~(k < j)
    BY <1>4, <2>1
  <2> QED BY <2>1, <2>2
<1>6. \A n \in 1..Cardinality(kept) : \E k \in kept : place[k] = n
  <2> DEFINE T == 1..Cardinality(kept)
  <2>1. IsFiniteSet(T) /\ Cardinality(T) = Cardinality(kept)
    <3>1. IsFiniteSet(T) /\ Cardinality(T) = IF 1 > Cardinality(kept) THEN 0 ELSE Cardinality(kept) - 1 + 1
      BY <1>1, FS_Interval
    <3> QED BY <1>1, <3>1
  <2>2. place \in Injection(kept, T)
    BY <1>3, <1>5 DEF Injection, IsInjective
  <2> HIDE DEF T
  <2>3. place \in Surjection(kept, T)
    BY <2>1, <2>2, FS_Injection
  <2> QED BY <2>3 DEF Surjection, T
<1>7. \A k \in kept : PlaceIn(kept, k) = place[k]
  BY DEF PlaceIn
<1> HIDE DEF place
<1> QED BY <1>1, <1>3, <1>5, <1>6, <1>7


(* Picking the elements at some places of a sequence. *)
LEMMA PickedProperties ==
  ASSUME NEW S, NEW s \in Seq(S), NEW I \in SUBSET DOMAIN s
  PROVE  /\ Picked(s, I) \in Seq(S)
         /\ \A n \in DOMAIN Picked(s, I) : \E k \in I : Picked(s, I)[n] = s[k]
         /\ \A k \in I : \E n \in DOMAIN Picked(s, I) : Picked(s, I)[n] = s[k]
<1> DEFINE N == Cardinality(I)
           from(n) == CHOOSE k \in I : PlaceIn(I, k) = n
<1>1. IsFiniteSet(I) /\ I \subseteq Int
  <2>1. DOMAIN s = 1..Len(s) /\ Len(s) \in Nat
    OBVIOUS
  <2>2. IsFiniteSet(1..Len(s))
    BY <2>1, FS_Interval
  <2>3. IsFiniteSet(I)
    BY <2>1, <2>2, FS_Subset
  <2> QED BY <2>1, <2>3
<1>2. /\ N \in Nat
      /\ \A k \in I : PlaceIn(I, k) \in 1..N
      /\ \A k, j \in I : PlaceIn(I, k) = PlaceIn(I, j) => k = j
      /\ \A n \in 1..N : \E k \in I : PlaceIn(I, k) = n
  BY <1>1, PlacesOfSet
<1>3. Picked(s, I) = [n \in 1..N |-> s[from(n)]]
  BY DEF Picked, PlaceIn
<1>4. \A n \in 1..N : from(n) \in I /\ PlaceIn(I, from(n)) = n
  <2> HIDE DEF N
  <2> QED BY <1>2
<1>5. ASSUME NEW k \in I PROVE from(PlaceIn(I, k)) = k
  <2> HIDE DEF N
  <2> QED BY <1>2, <1>4
<1> HIDE DEF N, from
<1>6. \A k \in DOMAIN s : s[k] \in S
  BY ElementOfSeq
<1>7. Picked(s, I) \in [1..N -> S]
  <2>1. \A n \in 1..N : s[from(n)] \in S
    BY <1>4, <1>6
  <2> QED BY <1>3, <2>1
<1>8. Picked(s, I) \in Seq(S)
  BY <1>2, <1>7, SeqDef
<1>9. \A k \in I : \E n \in DOMAIN Picked(s, I) : Picked(s, I)[n] = s[k]
  BY <1>2, <1>3, <1>5
<1>10. \A n \in DOMAIN Picked(s, I) : \E k \in I : Picked(s, I)[n] = s[k]
  BY <1>3, <1>4
<1> QED BY <1>8, <1>9, <1>10

(* What the file operations and the queues are made of. *)
Acts == {"enqueue", "append", "remove", "settle", "write", "writing"}
Ops == [act : Acts, queue : Queues, line : Lines, lines : Seq(Lines)]
Good == [ref : Refs, clean : BOOLEAN]
Files == [Queues -> Seq(Lines)]
Adds(o) == o.act \in {"enqueue", "append"}
Removes(o) == o.act \in {"remove", "settle"}
Writes(o) == o.act \in {"write", "writing"}
Other(k) == IF k = "realtime" THEN "history" ELSE "realtime"
Handed(t) == {t[i].line.ref : i \in {j \in DOMAIN t : Adds(t[j])}}
Hand(t) == UNION {IF Adds(t[i]) THEN {t[i].line.ref} ELSE RefsOf(t[i].lines) : i \in DOMAIN t}
Pending(t, k) == \E i \in DOMAIN t : Writes(t[i]) /\ t[i].queue = k

(* An operation that adds or removes is about a reference and has no lines; only the first
   one removes, and what it takes away to put back is put back by a later one. *)
OpsSound(t) ==
    \A i \in DOMAIN t :
        /\ ~Writes(t[i]) => t[i].line \in Good /\ t[i].lines = <<>>
        /\ Removes(t[i]) => i = 1
        /\ t[i].act = "remove" => t[i].line.ref \in Handed(t)
(* Before a file is rewritten only the other one is appended to, and one is rewritten at most. *)
Alone(t) ==
    \A i, j \in DOMAIN t : i < j /\ ~Adds(t[j]) => Adds(t[i]) /\ t[i].queue # t[j].queue
(* What is in a file that is about to be rewritten, and still owed, is in the new lines, will
   be added, is in the other file, or was appended since the new lines were computed. *)
Covered(t, q, o, r) ==
    \A i \in DOMAIN t : Writes(t[i]) =>
        o \cap RefsOf(q[t[i].queue])
          \subseteq RefsOf(t[i].lines) \cup Handed(t) \cup RefsOf(q[Other(t[i].queue)]) \cup r
Safe(t, q, o, r) == o \subseteq RefsOf(q["realtime"]) \cup RefsOf(q["history"]) \cup Hand(t) \cup r
Held(t, q, o, r) == t \in Seq(Ops) /\ OpsSound(t) /\ Alone(t) /\ Covered(t, q, o, r) /\ Safe(t, q, o, r)

LEMMA RefsIn == \A s, e : e \in RefsOf(s) <=> \E i \in DOMAIN s : s[i] # Torn /\ s[i].ref = e
BY DEF RefsOf
LEMMA HandedIn == \A t, e : e \in Handed(t) <=> \E i \in DOMAIN t : Adds(t[i]) /\ t[i].line.ref = e
BY DEF Handed
LEMMA HandIn ==
  \A t, e : e \in Hand(t) <=> \/ e \in Handed(t)
                              \/ \E i \in DOMAIN t : ~Adds(t[i]) /\ e \in RefsOf(t[i].lines)
BY DEF Handed, Hand
LEMMA NoLines == RefsOf(<<>>) = {}
BY DEF RefsOf
LEMMA GoodLines == \A l \in Good : l \in Lines /\ l # Torn /\ l.ref \in Refs
BY QueueConstants DEF Good, Lines, Torn

LEMMA RefsAppended ==
  ASSUME NEW s \in Seq(Lines), NEW l \in Lines
  PROVE  /\ Append(s, l) \in Seq(Lines)
         /\ RefsOf(Append(s, l)) = IF l = Torn THEN RefsOf(s) ELSE RefsOf(s) \cup {l.ref}
<1>1. /\ Append(s, l) \in Seq(Lines) /\ DOMAIN Append(s, l) = DOMAIN s \cup {Len(s) + 1}
      /\ Append(s, l)[Len(s) + 1] = l /\ \A i \in DOMAIN s : Append(s, l)[i] = s[i]
  OBVIOUS
<1>2. PICK u : u = Append(s, l)
  OBVIOUS
<1>3. /\ DOMAIN u = DOMAIN s \cup {Len(s) + 1}
      /\ u[Len(s) + 1] = l /\ \A i \in DOMAIN s : u[i] = s[i]
  BY <1>1, <1>2
<1>4. RefsOf(u) = IF l = Torn THEN RefsOf(s) ELSE RefsOf(s) \cup {l.ref}
  <2>1. \A e : e \in RefsOf(u) <=> e \in RefsOf(s) \/ (l # Torn /\ e = l.ref)
    BY <1>3, RefsIn
  <2> QED BY <2>1
<1> QED BY <1>1, <1>2, <1>4

LEMMA WithoutRefs ==
  ASSUME NEW s \in Seq(Lines), NEW r \in Refs
  PROVE  Without(s, r) \in Seq(Lines) /\ RefsOf(Without(s, r)) = RefsOf(s) \ {r}
<1> DEFINE I == {i \in DOMAIN s : s[i] = Torn \/ s[i].ref # r}
<1>1. PICK p : p = Without(s, r)
  OBVIOUS
<1>2. /\ p \in Seq(Lines)
      /\ \A n \in DOMAIN p : \E k \in I : p[n] = s[k]
      /\ \A k \in I : \E n \in DOMAIN p : p[n] = s[k]
  <2>1. p = Picked(s, I)
    BY <1>1 DEF Without
  <2>2. I \in SUBSET DOMAIN s
    OBVIOUS
  <2> HIDE DEF I
  <2> QED BY <2>1, <2>2, PickedProperties
<1>3. \A e : e \in RefsOf(p) <=> e \in RefsOf(s) /\ e # r
  BY <1>2, RefsIn
<1> QED BY <1>1, <1>2, <1>3

LEMMA FirstChanged ==
  ASSUME NEW S, NEW t \in Seq(S), t # <<>>, NEW x \in S
  PROVE  /\ <<x>> \o Tail(t) \in Seq(S) /\ DOMAIN (<<x>> \o Tail(t)) = DOMAIN t /\ 1 \in DOMAIN t
         /\ (<<x>> \o Tail(t))[1] = x /\ \A i \in DOMAIN t : i # 1 => (<<x>> \o Tail(t))[i] = t[i]
         /\ Head(t) = t[1] /\ t[1] \in S
OBVIOUS

LEMMA FirstGone ==
  ASSUME NEW S, NEW t \in Seq(S), t # <<>>
  PROVE  /\ Tail(t) \in Seq(S) /\ 1 \in DOMAIN t /\ Head(t) = t[1] /\ t[1] \in S
         /\ \A i \in DOMAIN Tail(t) : i \in Nat /\ i + 1 \in DOMAIN t /\ i + 1 # 1 /\ Tail(t)[i] = t[i + 1]
         /\ \A i \in DOMAIN t : i # 1 => i - 1 \in DOMAIN Tail(t) /\ Tail(t)[i - 1] = t[i]
OBVIOUS

LEMMA SameHands ==
  ASSUME NEW t, NEW u, DOMAIN u = DOMAIN t,
         \A i \in DOMAIN t : /\ Adds(u[i]) <=> Adds(t[i])
                            /\ u[i].line = t[i].line /\ u[i].lines = t[i].lines
  PROVE  Handed(u) = Handed(t) /\ Hand(u) = Hand(t)
<1>1. \A e : e \in Handed(u) <=> e \in Handed(t)
  BY HandedIn
<1>2. \A e : e \in Hand(u) <=> e \in Hand(t)
  BY <1>1, HandIn
<1> QED BY <1>1, <1>2

(* What is in the hands of the daemon when the first operation is done, or is another one. *)
LEMMA HandOfTail ==
  ASSUME NEW t \in Seq(Ops), t # <<>>, OpsSound(t), Alone(t)
  PROVE  /\ OpsSound(Tail(t)) /\ Alone(Tail(t))
         /\ Adds(t[1]) => Handed(t) \subseteq Handed(Tail(t)) \cup {t[1].line.ref}
         /\ ~Adds(t[1]) => Handed(t) = Handed(Tail(t)) /\ \A i \in DOMAIN Tail(t) : Adds(Tail(t)[i])
<1>1. PICK u : u = Tail(t)
  OBVIOUS
<1>2. /\ u \in Seq(Ops) /\ 1 \in DOMAIN t
      /\ \A i \in DOMAIN u : i \in Nat /\ i + 1 \in DOMAIN t /\ i + 1 # 1 /\ u[i] = t[i + 1]
      /\ \A i \in DOMAIN t : i # 1 => i - 1 \in DOMAIN u /\ u[i - 1] = t[i]
  BY <1>1, FirstGone
<1>3. \A i, j \in DOMAIN u : i < j => i + 1 < j + 1
  BY <1>2
<1>4. \A i \in DOMAIN u : 1 < i + 1
  BY <1>2
<1>5. Alone(u)
  <2> SUFFICES ASSUME NEW i \in DOMAIN u, NEW j \in DOMAIN u, i < j, ~Adds(u[j])
               PROVE  Adds(u[i]) /\ u[i].queue # u[j].queue
    BY DEF Alone
  <2>1. i + 1 \in DOMAIN t /\ j + 1 \in DOMAIN t /\ i + 1 < j + 1 /\ u[i] = t[i + 1] /\ u[j] = t[j + 1]
    BY <1>2, <1>3
  <2> QED BY <2>1 DEF Alone
<1>6. \A e : e \in Handed(t) => e \in Handed(u) \/ (Adds(t[1]) /\ e = t[1].line.ref)
  <2> SUFFICES ASSUME NEW e \in Handed(t) PROVE e \in Handed(u) \/ (Adds(t[1]) /\ e = t[1].line.ref)
    OBVIOUS
  <2>1. PICK i \in DOMAIN t : Adds(t[i]) /\ t[i].line.ref = e
    BY HandedIn
  <2>2. CASE i # 1
    BY <1>2, <2>1, <2>2, HandedIn
  <2> QED BY <2>1, <2>2
<1>7. \A e : e \in Handed(u) => e \in Handed(t)
  <2> SUFFICES ASSUME NEW e \in Handed(u) PROVE e \in Handed(t)
    OBVIOUS
  <2>1. PICK i \in DOMAIN u : Adds(u[i]) /\ u[i].line.ref = e
    BY HandedIn
  <2> QED BY <1>2, <2>1, HandedIn
<1>8. OpsSound(u)
  BY <1>2 DEF OpsSound, Removes
<1>9. ~Adds(t[1]) => \A i \in DOMAIN u : Adds(u[i])
  BY <1>2, <1>4 DEF Alone
<1> QED BY <1>1, <1>5, <1>6, <1>7, <1>8, <1>9

(* The reference to add is in its file. *)
LEMMA AddDone ==
  ASSUME NEW t \in Seq(Ops), NEW q \in Files, NEW o, NEW r, Held(t, q, o, r), t # <<>>,
         Adds(t[1]), t[1].line.ref \in RefsOf(q[t[1].queue])
  PROVE  Held(Tail(t), q, o, r)
<1>1. PICK u : u = Tail(t)
  OBVIOUS
<1>2. /\ u \in Seq(Ops) /\ 1 \in DOMAIN t /\ t[1] \in Ops
      /\ \A i \in DOMAIN u : i \in Nat /\ i + 1 \in DOMAIN t /\ i + 1 # 1 /\ u[i] = t[i + 1]
      /\ \A i \in DOMAIN t : i # 1 => i - 1 \in DOMAIN u /\ u[i - 1] = t[i]
  BY <1>1, FirstGone
<1>3. OpsSound(u) /\ Alone(u) /\ Handed(t) \subseteq Handed(u) \cup {t[1].line.ref}
  BY <1>1, HandOfTail DEF Held
<1>4. \A i \in DOMAIN u : 1 < i + 1
  BY <1>2
<1>5. \A i \in DOMAIN u : Writes(u[i]) => t[1].queue = Other(u[i].queue)
  <2> SUFFICES ASSUME NEW i \in DOMAIN u, Writes(u[i]) PROVE t[1].queue = Other(u[i].queue)
    OBVIOUS
  <2>1. t[i + 1] \in Ops /\ ~Adds(t[i + 1]) /\ t[1].queue # t[i + 1].queue
    BY <1>2, <1>4, ElementOfSeq DEF Held, Alone, Writes, Adds
  <2> QED BY <1>2, <2>1 DEF Ops, Queues, Other
<1>6. Covered(u, q, o, r)
  BY <1>2, <1>3, <1>5 DEF Held, Covered
<1>7. t[1].queue \in {"realtime", "history"}
  BY <1>2 DEF Ops, Queues
<1>8. \A e : e \in Hand(t) => e \in Hand(u) \/ e = t[1].line.ref
  <2> SUFFICES ASSUME NEW e \in Hand(t), e # t[1].line.ref PROVE e \in Hand(u)
    OBVIOUS
  <2>1. CASE e \in Handed(t)
    BY <1>3, <2>1, HandIn
  <2>2. ASSUME NEW i \in DOMAIN t, ~Adds(t[i]), e \in RefsOf(t[i].lines) PROVE e \in Hand(u)
    BY <1>2, <2>2, HandIn
  <2> QED BY <2>1, <2>2, HandIn
<1>9. Safe(u, q, o, r)
  BY <1>7, <1>8 DEF Held, Safe
<1> QED BY <1>1, <1>2, <1>3, <1>6, <1>9 DEF Held

(* A line is appended to a file, by the daemon or another. *)
LEMMA Appended ==
  ASSUME NEW t \in Seq(Ops), NEW q \in Files, NEW o, NEW r, Held(t, q, o, r),
         NEW k \in Queues, NEW l \in Good
  PROVE  LET q2 == [q EXCEPT ![k] = Append(@, l)]
         IN /\ q2 \in Files /\ l.ref \in RefsOf(q2[k])
            /\ Held(t, q2, o \cup {l.ref}, IF Pending(t, k) THEN r \cup {l.ref} ELSE r)
<1>1. PICK s : s = Append(q[k], l)
  OBVIOUS
<1>2. s \in Seq(Lines) /\ RefsOf(s) = RefsOf(q[k]) \cup {l.ref}
  BY <1>1, RefsAppended, GoodLines DEF Files
<1>3. PICK q2 : q2 = [q EXCEPT ![k] = Append(@, l)]
  OBVIOUS
<1>4. q2 \in Files /\ q2[k] = s /\ \A j \in Queues : j # k => q2[j] = q[j]
  BY <1>1, <1>2, <1>3 DEF Files
<1>5. \A j \in Queues : RefsOf(q[j]) \subseteq RefsOf(q2[j])
  BY <1>2, <1>4
<1>6. l.ref \in RefsOf(q2[k])
  BY <1>2, <1>4
<1>7. PICK r2 : r2 = IF Pending(t, k) THEN r \cup {l.ref} ELSE r
  OBVIOUS
<1>8. Covered(t, q2, o \cup {l.ref}, r2)
  <2> SUFFICES ASSUME NEW i \in DOMAIN t, Writes(t[i]),
                      NEW e \in (o \cup {l.ref}) \cap RefsOf(q2[t[i].queue])
               PROVE  e \in RefsOf(t[i].lines) \cup Handed(t) \cup RefsOf(q2[Other(t[i].queue)]) \cup r2
    BY DEF Covered
  <2>1. t[i] \in Ops
    BY ElementOfSeq
  <2>5. t[i].queue \in Queues /\ Other(t[i].queue) \in Queues
    BY <2>1 DEF Ops, Queues, Other
  <2>2. CASE e # l.ref
    BY <1>2, <1>4, <1>5, <1>7, <2>5, <2>2 DEF Held, Covered
  <2>3. CASE e = l.ref /\ t[i].queue = k
    BY <1>7, <2>3 DEF Pending
  <2>4. CASE e = l.ref /\ t[i].queue # k
    BY <1>6, <2>5, <2>4 DEF Other, Queues
  <2> QED BY <2>2, <2>3, <2>4
<1>9. Safe(t, q2, o \cup {l.ref}, r2)
  BY <1>5, <1>6, <1>7 DEF Held, Safe, Queues
<1> QED BY <1>3, <1>4, <1>6, <1>7, <1>8, <1>9 DEF Held

(* The look before an append found nothing. *)
LEMMA AddBegun ==
  ASSUME NEW t \in Seq(Ops), NEW q \in Files, NEW o, NEW r, Held(t, q, o, r), t # <<>>,
         t[1].act = "enqueue"
  PROVE  Held(<<[t[1] EXCEPT !.act = "append"]>> \o Tail(t), q, o, r)
<1>1. 1 \in DOMAIN t /\ t[1] \in Ops
  BY FirstGone
<1>2. PICK x : x = [t[1] EXCEPT !.act = "append"]
  OBVIOUS
<1>3. /\ x \in Ops /\ x.act = "append" /\ x.queue = t[1].queue /\ x.line = t[1].line
      /\ x.lines = t[1].lines
  BY <1>1, <1>2 DEF Ops, Acts
<1>4. PICK u : u = <<x>> \o Tail(t)
  OBVIOUS
<1>5. /\ u \in Seq(Ops) /\ DOMAIN u = DOMAIN t
      /\ u[1] = x /\ \A i \in DOMAIN t : i # 1 => u[i] = t[i]
  BY <1>3, <1>4, FirstChanged
<1>6. \A i \in DOMAIN t : /\ Adds(u[i]) <=> Adds(t[i])
                          /\ Writes(u[i]) <=> Writes(t[i])
                          /\ Removes(u[i]) <=> Removes(t[i])
                          /\ u[i].act = "remove" <=> t[i].act = "remove"
                          /\ u[i].queue = t[i].queue /\ u[i].line = t[i].line /\ u[i].lines = t[i].lines
  BY <1>3, <1>5 DEF Adds, Writes, Removes
<1>7. Handed(u) = Handed(t) /\ Hand(u) = Hand(t)
  BY <1>5, <1>6, SameHands
<1>8. OpsSound(u) /\ Alone(u)
  BY <1>5, <1>6, <1>7 DEF Held, OpsSound, Alone
<1>9. Covered(u, q, o, r) /\ Safe(u, q, o, r)
  BY <1>5, <1>6, <1>7 DEF Held, Covered, Safe
<1> QED BY <1>2, <1>4, <1>5, <1>8, <1>9 DEF Held

(* The new lines of a file without a reference are computed. *)
LEMMA RemoveBegun ==
  ASSUME NEW t \in Seq(Ops), NEW q \in Files, NEW o, NEW r, Held(t, q, o, r), t # <<>>,
         Removes(t[1])
  PROVE  Held(<<WriteOp(t[1].queue, Without(q[t[1].queue], t[1].line.ref))>> \o Tail(t), q,
              IF t[1].act = "settle" THEN o \ {t[1].line.ref} ELSE o, r)
<1>1. 1 \in DOMAIN t /\ t[1] \in Ops
  BY FirstGone
<1>2. t[1].line.ref \in Refs /\ t[1].queue \in Queues /\ t[1].lines = <<>> /\ ~Adds(t[1]) /\ ~Writes(t[1])
  BY <1>1, GoodLines DEF Held, OpsSound, Removes, Writes, Adds, Ops
<1>3. PICK s : s = Without(q[t[1].queue], t[1].line.ref)
  OBVIOUS
<1>4. s \in Seq(Lines) /\ RefsOf(s) = RefsOf(q[t[1].queue]) \ {t[1].line.ref}
  BY <1>2, <1>3, WithoutRefs DEF Files
<1>5. PICK x : x = WriteOp(t[1].queue, s)
  OBVIOUS
<1>6. x \in Ops /\ Writes(x) /\ ~Adds(x) /\ ~Removes(x) /\ x.act # "remove" /\ x.queue = t[1].queue /\ x.lines = s
  BY <1>2, <1>4, <1>5 DEF WriteOp, Ops, Acts, Lines, Writes, Adds, Removes
<1>7. PICK u : u = <<x>> \o Tail(t)
  OBVIOUS
<1>8. /\ u \in Seq(Ops) /\ DOMAIN u = DOMAIN t
      /\ u[1] = x /\ \A i \in DOMAIN t : i # 1 => u[i] = t[i]
  BY <1>6, <1>7, FirstChanged
<1>9. Handed(u) = Handed(t)
  <2>1. \A i \in DOMAIN t : Adds(u[i]) <=> Adds(t[i])
    BY <1>2, <1>6, <1>8
  <2>2. \A i \in DOMAIN t : Adds(u[i]) => u[i].line = t[i].line
    BY <1>6, <1>8
  <2>3. \A e : e \in Handed(u) <=> e \in Handed(t)
    BY <1>8, <2>1, <2>2, HandedIn
  <2> QED BY <2>3
<1>10. OpsSound(u) /\ Alone(u)
  BY <1>2, <1>6, <1>8, <1>9 DEF Held, OpsSound, Alone
<1>11. \A i \in DOMAIN t : i # 1 => Adds(t[i])
  <2>1. \A i \in DOMAIN t : i # 1 => 1 < i
    OBVIOUS
  <2> QED BY <1>1, <1>2, <2>1 DEF Held, Alone
<1>12. PICK o2 : o2 = IF t[1].act = "settle" THEN o \ {t[1].line.ref} ELSE o
  OBVIOUS
<1>13. t[1].line.ref \in Handed(t) \/ t[1].line.ref \notin o2
  BY <1>1, <1>12 DEF Held, OpsSound, Removes
<1>14. \A i \in DOMAIN u : Writes(u[i]) => i = 1
  BY <1>8, <1>11 DEF Adds, Writes
<1>15. o2 \subseteq o
  BY <1>12
<1>16. Covered(u, q, o2, r)
  BY <1>4, <1>6, <1>8, <1>9, <1>13, <1>14, <1>15 DEF Covered
<1>17. Hand(t) \subseteq Hand(u)
  BY <1>2, <1>8, <1>9, <1>11, HandIn, NoLines
<1>18. Safe(u, q, o2, r)
  BY <1>15, <1>17 DEF Held, Safe
<1> QED BY <1>3, <1>5, <1>7, <1>8, <1>10, <1>12, <1>16, <1>18 DEF Held

(* The file to rewrite is emptied. *)
LEMMA WriteBegun ==
  ASSUME NEW t \in Seq(Ops), NEW q \in Files, NEW o, NEW r, Held(t, q, o, r), t # <<>>,
         t[1].act = "write"
  PROVE  /\ [q EXCEPT ![t[1].queue] = <<>>] \in Files
         /\ Held(<<[t[1] EXCEPT !.act = "writing"]>> \o Tail(t), [q EXCEPT ![t[1].queue] = <<>>], o, r)
<1>1. 1 \in DOMAIN t /\ t[1] \in Ops /\ Writes(t[1]) /\ ~Adds(t[1])
  BY FirstGone DEF Writes, Adds
<1>2. PICK x : x = [t[1] EXCEPT !.act = "writing"]
  OBVIOUS
<1>3. /\ x \in Ops /\ x.act = "writing" /\ x.queue = t[1].queue /\ x.line = t[1].line
      /\ x.lines = t[1].lines /\ t[1].queue \in Queues
  BY <1>1, <1>2 DEF Ops, Acts
<1>4. PICK u : u = <<x>> \o Tail(t)
  OBVIOUS
<1>5. /\ u \in Seq(Ops) /\ DOMAIN u = DOMAIN t
      /\ u[1] = x /\ \A i \in DOMAIN t : i # 1 => u[i] = t[i]
  BY <1>3, <1>4, FirstChanged
<1>6. \A i \in DOMAIN t : /\ Adds(u[i]) <=> Adds(t[i])
                          /\ Writes(u[i]) <=> Writes(t[i])
                          /\ Removes(u[i]) <=> Removes(t[i])
                          /\ u[i].act = "remove" <=> t[i].act = "remove"
                          /\ u[i].queue = t[i].queue /\ u[i].line = t[i].line /\ u[i].lines = t[i].lines
  BY <1>1, <1>3, <1>5 DEF Adds, Writes, Removes
<1>7. Handed(u) = Handed(t) /\ Hand(u) = Hand(t)
  BY <1>5, <1>6, SameHands
<1>8. OpsSound(u) /\ Alone(u)
  BY <1>5, <1>6, <1>7 DEF Held, OpsSound, Alone
<1>9. \A i \in DOMAIN u : Writes(u[i]) => i = 1
  <2>1. \A i \in DOMAIN t : i # 1 => 1 < i
    OBVIOUS
  <2> QED BY <1>1, <1>5, <1>6, <2>1 DEF Held, Alone, Writes, Adds
<1>10. PICK q2 : q2 = [q EXCEPT ![t[1].queue] = <<>>]
  OBVIOUS
<1>11. q2 \in Files /\ q2[t[1].queue] = <<>> /\ \A j \in Queues : j # t[1].queue => q2[j] = q[j]
  BY <1>3, <1>10 DEF Files
<1>12. Covered(u, q2, o, r)
  BY <1>3, <1>5, <1>9, <1>11, NoLines DEF Covered
<1>13. t[1].queue \in {"realtime", "history"} /\ Other(t[1].queue) \in Queues /\ Other(t[1].queue) # t[1].queue
  BY <1>3 DEF Queues, Other
<1>14. \A e \in o : e \in RefsOf(q[t[1].queue]) => e \in Hand(u) \cup RefsOf(q2[Other(t[1].queue)]) \cup r
  BY <1>1, <1>7, <1>11, <1>13, HandIn DEF Held, Covered
<1>15. Safe(u, q2, o, r)
  BY <1>7, <1>11, <1>13, <1>14 DEF Held, Safe, Queues, Other
<1> QED BY <1>2, <1>4, <1>5, <1>8, <1>10, <1>11, <1>12, <1>15 DEF Held

(* The file is filled, perhaps with the end of a longer line left behind. *)
LEMMA WriteDone ==
  ASSUME NEW t \in Seq(Ops), NEW q \in Files, NEW o, NEW r, Held(t, q, o, r), t # <<>>,
         Writes(t[1]), NEW s \in Seq(Lines), RefsOf(s) = RefsOf(t[1].lines)
  PROVE  /\ [q EXCEPT ![t[1].queue] = s] \in Files
         /\ Held(Tail(t), [q EXCEPT ![t[1].queue] = s], o, r)
<1>1. PICK u : u = Tail(t)
  OBVIOUS
<1>2. /\ u \in Seq(Ops) /\ 1 \in DOMAIN t /\ t[1] \in Ops /\ ~Adds(t[1])
      /\ \A i \in DOMAIN t : i # 1 => i - 1 \in DOMAIN u /\ u[i - 1] = t[i]
  BY <1>1, FirstGone DEF Adds, Writes
<1>3. /\ OpsSound(u) /\ Alone(u) /\ Handed(t) = Handed(u)
      /\ \A i \in DOMAIN u : Adds(u[i])
  BY <1>1, <1>2, HandOfTail DEF Held
<1>4. Hand(t) \subseteq Handed(u) \cup RefsOf(t[1].lines)
  BY <1>2, <1>3, HandIn
<1>5. PICK q2 : q2 = [q EXCEPT ![t[1].queue] = s]
  OBVIOUS
<1>6. t[1].queue \in Queues
  BY <1>2 DEF Ops
<1>7. q2 \in Files /\ q2[t[1].queue] = s /\ \A j \in Queues : j # t[1].queue => q2[j] = q[j]
  BY <1>5, <1>6 DEF Files
<1>8. Covered(u, q2, o, r)
  BY <1>3 DEF Covered, Adds, Writes
<1>9. \A e \in o : e \in RefsOf(q[t[1].queue])
          => e \in RefsOf(q2[t[1].queue]) \cup Handed(u) \cup RefsOf(q[Other(t[1].queue)]) \cup r
  BY <1>2, <1>3, <1>7 DEF Held, Covered
<1>10. Handed(u) \subseteq Hand(u)
  BY HandIn
<1>11. Safe(u, q2, o, r)
  BY <1>4, <1>6, <1>7, <1>9, <1>10 DEF Held, Safe, Queues, Other
<1> QED BY <1>1, <1>2, <1>3, <1>5, <1>7, <1>8, <1>11 DEF Held

(* The daemon goes on to its next operations when it has done all. *)
LEMMA OpsBegun ==
  ASSUME NEW q \in Files, NEW o, NEW r, Held(<<>>, q, o, r),
         NEW t \in Seq(Ops), OpsSound(t), Alone(t), Covered(t, q, o, r)
  PROVE  Held(t, q, o, r)
<1>1. Hand(<<>>) = {}
  BY HandIn, HandedIn
<1>2. Safe(t, q, o, r)
  BY <1>1 DEF Held, Safe
<1> QED BY <1>2 DEF Held

-----------------------------------------------------------------------------
Batches == [ref : Refs, queue : Queues \cup {NoQueue}]
Phases == {"migrate", "realtime", "history", "lan", "manifests", "collect", "process",
           "again", "round", "complete", "dead", "down"}
Adders == {"pubsub", "serve"}
Adding == [queue : Queues, line : Good] \cup {Nobody}
QTypes ==
    /\ queue \in Files /\ stored \subseteq Refs /\ owed \subseteq Refs /\ atRisk \subseteq Refs
    /\ phase \in Phases /\ batch \in Seq(Batches)
    /\ round \in 0..(Rounds - 1) /\ direct \in {Direct, <<>>} /\ added \in BOOLEAN
    /\ bootstrap \in {"new", "recent", "steady"}
    /\ adding \in [Adders -> Adding]
    /\ arrivals \in 0..MaxArrivals /\ queueCrashes \in 0..MaxQueueCrashes
(* What is owed and not in a file is in the hands of the daemon or at risk; and what the
   daemon still has to do to the files keeps it so. *)
QInv == QTypes /\ Held(todo, queue, owed, atRisk)

LEMMA InHandIs == InHand = Hand(todo)
BY DEF InHand, Hand, Adds

LEMMA RefsOfLines == \A s \in Seq(Lines) : RefsOf(s) \subseteq Refs
<1> SUFFICES ASSUME NEW s \in Seq(Lines), NEW e \in RefsOf(s) PROVE e \in Refs
  OBVIOUS
<1>1. PICK i \in DOMAIN s : s[i] # Torn /\ s[i].ref = e
  BY RefsIn
<1>2. s[i] \in Lines
  BY ElementOfSeq
<1> QED BY <1>1, <1>2 DEF Lines

LEMMA HandIsRefs ==
  ASSUME NEW t \in Seq(Ops), OpsSound(t)
  PROVE  Hand(t) \subseteq Refs
<1> SUFFICES ASSUME NEW e \in Hand(t) PROVE e \in Refs
  OBVIOUS
<1>1. \A i \in DOMAIN t : t[i] \in Ops
  BY ElementOfSeq
<1>2. CASE e \in Handed(t)
  BY <1>1, <1>2, HandedIn, GoodLines DEF OpsSound, Adds, Writes
<1>3. ASSUME NEW i \in DOMAIN t, e \in RefsOf(t[i].lines) PROVE e \in Refs
  <2>1. t[i].lines \in Seq(Lines)
    BY <1>1 DEF Ops
  <2> QED BY <1>3, <2>1, RefsOfLines
<1> QED BY <1>2, <1>3, HandIn

LEMMA NoOps ==
  ASSUME NEW q \in Files, NEW o, NEW r
  PROVE  <<>> \in Seq(Ops) /\ OpsSound(<<>>) /\ Alone(<<>>) /\ Covered(<<>>, q, o, r) /\ Hand(<<>>) = {}
<1>1. DOMAIN <<>> = {}
  OBVIOUS
<1>2. OpsSound(<<>>) /\ Alone(<<>>) /\ Covered(<<>>, q, o, r)
  BY <1>1 DEF OpsSound, Alone, Covered
<1>3. Hand(<<>>) = {}
  BY <1>1, HandIn, HandedIn
<1> QED BY <1>2, <1>3

LEMMA EnqueueIs ==
  ASSUME NEW k \in Queues, NEW x \in Refs
  PROVE  /\ EnqueueOp(k, x) \in Ops /\ Adds(EnqueueOp(k, x)) /\ ~Removes(EnqueueOp(k, x)) /\ ~Writes(EnqueueOp(k, x))
         /\ EnqueueOp(k, x).act = "enqueue" /\ EnqueueOp(k, x).line \in Good /\ EnqueueOp(k, x).lines = <<>>
         /\ EnqueueOp(k, x).line.ref = x /\ EnqueueOp(k, x).queue = k
<1>1. <<>> \in Seq(Lines)
  OBVIOUS
<1> QED BY <1>1 DEF EnqueueOp, Line, Ops, Acts, Good, Lines, Adds, Removes, Writes

LEMMA RemoveIs ==
  ASSUME NEW k \in Queues, NEW x \in Refs
  PROVE  LET u == RemoveOp(k, x) IN
         /\ u \in Ops /\ ~Adds(u) /\ Removes(u) /\ ~Writes(u)
         /\ u.act = "remove" /\ u.line \in Good /\ u.lines = <<>> /\ u.line.ref = x
<1>1. <<>> \in Seq(Lines)
  OBVIOUS
<1> QED BY <1>1 DEF RemoveOp, Line, Ops, Acts, Good, Lines, Adds, Removes, Writes

LEMMA SettleIs ==
  ASSUME NEW k \in Queues, NEW x \in Refs
  PROVE  LET u == SettleOp(k, x) IN
         /\ u \in Ops /\ ~Adds(u) /\ Removes(u) /\ ~Writes(u)
         /\ u.act = "settle" /\ u.line \in Good /\ u.lines = <<>>
<1>1. <<>> \in Seq(Lines)
  OBVIOUS
<1>2. SettleOp(k, x) = [act |-> "settle", queue |-> k, line |-> Line(x, TRUE), lines |-> <<>>]
  <2>1. \A l, s : [[act |-> "remove", queue |-> k, line |-> l, lines |-> s] EXCEPT !.act = "settle"]
                  = [act |-> "settle", queue |-> k, line |-> l, lines |-> s]
    OBVIOUS
  <2>2. PICK l, s : l = Line(x, TRUE) /\ s = <<>>
    OBVIOUS
  <2>3. SettleOp(k, x) = [[act |-> "remove", queue |-> k, line |-> l, lines |-> s] EXCEPT !.act = "settle"]
    BY <2>2 DEF SettleOp, RemoveOp
  <2> QED BY <2>1, <2>2, <2>3
<1> QED BY <1>1, <1>2 DEF Line, Ops, Acts, Good, Lines, Adds, Removes, Writes

(* The ways the daemon begins its next operations. *)
LEMMA AddsBegin ==
  ASSUME NEW q \in Files, NEW o, NEW r, NEW t \in Seq(Ops),
         \A i \in DOMAIN t : Adds(t[i]) /\ t[i].line \in Good /\ t[i].lines = <<>>
  PROVE  OpsSound(t) /\ Alone(t) /\ Covered(t, q, o, r)
BY DEF OpsSound, Alone, Covered, Adds, Removes, Writes

LEMMA OneAdd ==
  ASSUME NEW q \in Files, NEW o, NEW r, Held(<<>>, q, o, r), NEW k \in Queues, NEW x \in Refs
  PROVE  Held(<<EnqueueOp(k, x)>>, q, o, r)
<1>1. PICK t : t = <<EnqueueOp(k, x)>>
  OBVIOUS
<1>2. t \in Seq(Ops) /\ \A i \in DOMAIN t : t[i] = EnqueueOp(k, x)
  BY <1>1, EnqueueIs
<1>3. OpsSound(t) /\ Alone(t) /\ Covered(t, q, o, r)
  BY <1>2, EnqueueIs, AddsBegin
<1> QED BY <1>1, <1>2, <1>3, OpsBegun

LEMMA MoveBegins ==
  ASSUME NEW q \in Files, NEW o, NEW r, Held(<<>>, q, o, r), NEW k \in Queues, NEW j \in Queues, NEW x \in Refs
  PROVE  Held(<<RemoveOp(k, x), EnqueueOp(j, x)>>, q, o, r)
<1>1. PICK a, b : a = RemoveOp(k, x) /\ b = EnqueueOp(j, x)
  OBVIOUS
<1>2. a \in Ops /\ ~Adds(a) /\ Removes(a) /\ ~Writes(a) /\ a.act = "remove" /\ a.line \in Good /\ a.lines = <<>> /\ a.line.ref = x
  BY <1>1, RemoveIs
<1>3. b \in Ops /\ Adds(b) /\ ~Removes(b) /\ ~Writes(b) /\ b.act = "enqueue" /\ b.line \in Good /\ b.lines = <<>> /\ b.line.ref = x
  BY <1>1, EnqueueIs
<1>4. PICK t : t = <<a, b>>
  OBVIOUS
<1>5. t \in Seq(Ops) /\ DOMAIN t = {1, 2} /\ t[1] = a /\ t[2] = b
  BY <1>2, <1>3, <1>4
<1>6. x \in Handed(t)
  BY <1>3, <1>5, HandedIn
<1>7. OpsSound(t) /\ Alone(t) /\ Covered(t, q, o, r)
  BY <1>2, <1>3, <1>5, <1>6 DEF OpsSound, Alone, Covered
<1> QED BY <1>1, <1>4, <1>5, <1>7, OpsBegun

LEMMA SettleBegins ==
  ASSUME NEW q \in Files, NEW o, NEW r, Held(<<>>, q, o, r), NEW k \in Queues, NEW x \in Refs
  PROVE  Held(<<SettleOp(k, x)>>, q, o, r)
<1>1. PICK a : a = SettleOp(k, x)
  OBVIOUS
<1>2. a \in Ops /\ ~Adds(a) /\ Removes(a) /\ ~Writes(a) /\ a.act = "settle" /\ a.line \in Good /\ a.lines = <<>>
  BY <1>1, SettleIs
<1>3. PICK t : t = <<a>>
  OBVIOUS
<1>4. t \in Seq(Ops) /\ DOMAIN t = {1} /\ t[1] = a
  BY <1>2, <1>3
<1>5. OpsSound(t) /\ Alone(t) /\ Covered(t, q, o, r)
  BY <1>2, <1>4 DEF OpsSound, Alone, Covered
<1> QED BY <1>1, <1>3, <1>4, <1>5, OpsBegun

LEMMA WriteIs ==
  ASSUME NEW k \in Queues, NEW s \in Seq(Lines)
  PROVE  /\ WriteOp(k, s) \in Ops /\ ~Adds(WriteOp(k, s)) /\ ~Removes(WriteOp(k, s)) /\ Writes(WriteOp(k, s))
         /\ WriteOp(k, s).act = "write" /\ WriteOp(k, s).lines = s /\ WriteOp(k, s).queue = k
BY DEF WriteOp, Ops, Acts, Lines, Adds, Removes, Writes

LEMMA WriteBegins ==
  ASSUME NEW q \in Files, NEW o, NEW r, Held(<<>>, q, o, r), NEW k \in Queues,
         NEW s \in Seq(Lines), RefsOf(q[k]) \subseteq RefsOf(s)
  PROVE  Held(<<WriteOp(k, s)>>, q, o, r)
<1>1. PICK a : a = WriteOp(k, s)
  OBVIOUS
<1>2. a \in Ops /\ ~Adds(a) /\ ~Removes(a) /\ Writes(a) /\ a.act = "write" /\ a.lines = s /\ a.queue = k
  BY <1>1, WriteIs
<1>3. PICK t : t = <<a>>
  OBVIOUS
<1>4. t \in Seq(Ops) /\ DOMAIN t = {1} /\ t[1] = a
  BY <1>2, <1>3
<1>5. OpsSound(t) /\ Alone(t) /\ Covered(t, q, o, r)
  BY <1>2, <1>4 DEF OpsSound, Alone, Covered
<1> QED BY <1>1, <1>3, <1>4, <1>5, OpsBegun

(* References to be added to the history, and then the realtime file without them. *)
LEMMA MigrationBegins ==
  ASSUME NEW q \in Files, NEW o, NEW r, Held(<<>>, q, o, r),
         NEW moved \in Seq(Refs), NEW s \in Seq(Lines),
         RefsOf(q["realtime"]) \subseteq RefsOf(s) \cup {moved[i] : i \in DOMAIN moved}
  PROVE  Held([i \in DOMAIN moved |-> EnqueueOp("history", moved[i])] \o <<WriteOp("realtime", s)>>, q, o, r)
<1>1. PICK a : a = WriteOp("realtime", s)
  OBVIOUS
<1>2. a \in Ops /\ ~Adds(a) /\ ~Removes(a) /\ Writes(a) /\ a.act = "write" /\ a.lines = s /\ a.queue = "realtime"
  BY <1>1, WriteIs DEF Queues
<1>3. PICK h : h = [i \in DOMAIN moved |-> EnqueueOp("history", moved[i])]
  OBVIOUS
<1>4. \A i \in DOMAIN moved : moved[i] \in Refs
  BY ElementOfSeq
<1>5. \A i \in DOMAIN h : /\ h[i] \in Ops /\ Adds(h[i]) /\ ~Removes(h[i]) /\ ~Writes(h[i]) /\ h[i].act # "remove"
                          /\ h[i].line \in Good /\ h[i].lines = <<>>
                          /\ h[i].line.ref = moved[i] /\ h[i].queue = "history"
  BY <1>3, <1>4, EnqueueIs DEF Queues
<1>6. h \in Seq(Ops) /\ DOMAIN h = DOMAIN moved
  <2>1. h \in [1..Len(moved) -> Ops] /\ Len(moved) \in Nat
    BY <1>3, <1>5
  <2> QED BY <1>3, <2>1, SeqDef
<1>7. PICK t : t = h \o <<a>>
  OBVIOUS
<1>8. /\ t \in Seq(Ops) /\ DOMAIN t = DOMAIN h \cup {Len(h) + 1} /\ Len(h) \in Nat
      /\ t[Len(h) + 1] = a /\ \A i \in DOMAIN h : t[i] = h[i] /\ i \in 1..Len(h)
  BY <1>2, <1>6, <1>7
<1>9. \A i \in DOMAIN moved : moved[i] \in Handed(t)
  BY <1>5, <1>6, <1>8, HandedIn
<1>10. OpsSound(t)
  BY <1>2, <1>5, <1>8 DEF OpsSound
<1>11. \A i \in DOMAIN t : ~Adds(t[i]) => i = Len(h) + 1
  BY <1>5, <1>8
<1>12. \A i, j \in DOMAIN t : i < j => i \in DOMAIN h
  BY <1>8
<1>13. Alone(t)
  BY <1>2, <1>5, <1>8, <1>11, <1>12 DEF Alone
<1>14. Covered(t, q, o, r)
  BY <1>2, <1>5, <1>8, <1>9 DEF Covered
<1> QED BY <1>1, <1>3, <1>7, <1>8, <1>10, <1>13, <1>14, OpsBegun

-----------------------------------------------------------------------------
(* What processQueue has to try: each reference once, with the file it is in. *)
LEMMA FreshType ==
  ASSUME NEW s \in Seq(Refs), NEW k \in Queues \cup {NoQueue}, NEW seen
  PROVE  Fresh(s, k, seen) \in Seq(Batches)
<1> DEFINE I == {i \in DOMAIN s : s[i] \notin seen /\ \A j \in DOMAIN s : j < i => s[j] # s[i]}
<1>1. I \in SUBSET DOMAIN s
  OBVIOUS
<1>2. PICK refs : refs = Picked(s, I)
  OBVIOUS
<1>3. Fresh(s, k, seen) = [i \in DOMAIN refs |-> [ref |-> refs[i], queue |-> k]]
  BY <1>2 DEF Fresh
<1> HIDE DEF I
<1>4. refs \in Seq(Refs)
  BY <1>1, <1>2, PickedProperties
<1>5. \A i \in DOMAIN refs : refs[i] \in Refs
  BY <1>4, ElementOfSeq
<1>6. Fresh(s, k, seen) \in [1..Len(refs) -> Batches] /\ Len(refs) \in Nat
  BY <1>3, <1>4, <1>5 DEF Batches
<1> QED BY <1>6, SeqDef

LEMMA RefSeqType ==
  ASSUME queue \in Files, NEW k \in Queues
  PROVE  RefSeq(k) \in Seq(Refs)
<1> DEFINE I == {i \in DOMAIN queue[k] : queue[k][i] # Torn}
<1>1. I \in SUBSET DOMAIN queue[k] /\ queue[k] \in Seq(Lines)
  BY DEF Files
<1>2. PICK p : p = Picked(queue[k], I)
  OBVIOUS
<1>3. p \in Seq(Lines) /\ \A n \in DOMAIN p : \E i \in I : p[n] = queue[k][i]
  <2> HIDE DEF I
  <2> QED BY <1>1, <1>2, PickedProperties
<1>4. \A n \in DOMAIN p : p[n] \in Lines /\ p[n] # Torn
  BY <1>3, ElementOfSeq
<1>5. \A n \in DOMAIN p : p[n].ref \in Refs
  BY <1>4 DEF Lines
<1>6. RefSeq(k) = [i \in DOMAIN p |-> p[i].ref]
  BY <1>2 DEF RefSeq
<1>7. RefSeq(k) \in [1..Len(p) -> Refs] /\ Len(p) \in Nat
  BY <1>3, <1>5, <1>6
<1> QED BY <1>7, SeqDef

LEMMA CollectedType == QTypes => Collected \in Seq(Batches)
<1> SUFFICES ASSUME QTypes PROVE Collected \in Seq(Batches)
  OBVIOUS
<1> DEFINE d == Fresh(direct, NoQueue, {})
           rt == d \o Fresh(RefSeq("realtime"), "realtime", Taken(d))
           h == Fresh(RefSeq("history"), "history", Taken(rt))
<1>1. direct \in Seq(Refs)
  <2>1. Direct \in Seq(Refs) /\ <<>> \in Seq(Refs)
    BY QueueConstants
  <2>2. direct = Direct \/ direct = <<>>
    BY DEF QTypes
  <2> QED BY <2>1, <2>2
<1>2. d \in Seq(Batches)
  BY <1>1, FreshType
<1>3. RefSeq("realtime") \in Seq(Refs) /\ RefSeq("history") \in Seq(Refs)
  BY RefSeqType DEF QTypes, Queues
<1>4. Fresh(RefSeq("realtime"), "realtime", Taken(d)) \in Seq(Batches)
  BY <1>3, FreshType DEF Queues
<1>5. rt \in Seq(Batches)
  BY <1>2, <1>4
<1>6. h \in Seq(Batches)
  BY <1>3, FreshType DEF Queues
<1> DEFINE I == {i \in DOMAIN h : h[i].ref \notin Manifests}
           J == {i \in DOMAIN h : h[i].ref \in Manifests}
<1>7. I \in SUBSET DOMAIN h /\ J \in SUBSET DOMAIN h
  OBVIOUS
<1>8. Collected = rt \o Picked(h, I) \o Picked(h, J)
  BY DEF Collected
<1> HIDE DEF d, rt, h, I, J
<1>9. Picked(h, I) \in Seq(Batches) /\ Picked(h, J) \in Seq(Batches)
  BY <1>6, <1>7, PickedProperties
<1> QED BY <1>5, <1>8, <1>9

LEMMA FirstOfType ==
  ASSUME NEW S, NEW s \in Seq(S), NEW n \in Nat \ {0}
  PROVE  FirstOf(s, n) \in Seq(S)
<1>1. FirstOf(s, n) = SubSeq(s, 1, IF Len(s) < n THEN Len(s) ELSE n)
  BY DEF FirstOf
<1>2. PICK m : m = IF Len(s) < n THEN Len(s) ELSE n
  OBVIOUS
<1>3. m \in Nat /\ m <= Len(s)
  BY <1>2
<1>4. SubSeq(s, 1, m) \in Seq(S)
  BY <1>3
<1> QED BY <1>1, <1>2, <1>4

(* SetToSeq lists a finite set. *)
LEMMA ListOfSet ==
  ASSUME NEW some, IsFiniteSet(some)
  PROVE  SetToSeq(some) \in Seq(some)
<1>1. PICK n \in Nat : ExistsBijection(1..n, some) /\ Cardinality(some) = n
  BY FS_CardinalityType
<1>2. PICK f : f \in Bijection(1..n, some)
  BY <1>1 DEF ExistsBijection
<1>3. f \in [1..Cardinality(some) -> some] /\ IsInjective(f)
  BY <1>1, <1>2 DEF Bijection, Injection, IsInjective
<1>4. SetToSeq(some) \in [1..Cardinality(some) -> some]
  BY <1>3 DEF SetToSeq
<1> QED BY <1>1, <1>4, SeqDef

-----------------------------------------------------------------------------
LEMMA QInitInv == QInit => QInv
<1> SUFFICES ASSUME QInit PROVE QInv
  OBVIOUS
<1>1. queue \in Files /\ batch \in Seq(Batches)
  <2>1. <<>> \in Seq(Lines) /\ <<>> \in Seq(Batches)
    OBVIOUS
  <2> QED BY <2>1 DEF QInit, Files
<1>2. QTypes
  <2>1. round \in 0..(Rounds - 1) /\ arrivals \in 0..MaxArrivals /\ queueCrashes \in 0..MaxQueueCrashes
    BY QueueConstants DEF QInit
  <2>2. adding \in [Adders -> Adding]
    BY DEF QInit, Adders, Adding
  <2>3. phase \in Phases /\ direct \in {Direct, <<>>} /\ added \in BOOLEAN /\ bootstrap \in {"new", "recent", "steady"}
    BY DEF QInit, Phases
  <2>4. stored \subseteq Refs /\ owed \subseteq Refs /\ atRisk \subseteq Refs
    BY DEF QInit
  <2> QED BY <1>1, <2>1, <2>2, <2>3, <2>4 DEF QTypes
<1>3. Held(todo, queue, owed, atRisk)
  BY <1>1, NoOps DEF QInit, Held, Safe
<1> QED BY <1>2, <1>3 DEF QInv

(* The looks of other processes change no file. *)
LEMMA LookInv ==
  ASSUME QInv, NEW w \in Adders, NEW k \in Queues, NEW l \in Good, Look(w, k, l)
  PROVE  QInv'
<1>1. arrivals' \in 0..MaxArrivals
  BY QueueConstants DEF QInv, QTypes, Look
<1>2. adding' \in [Adders -> Adding]
  BY DEF QInv, QTypes, Look, Adding
<1> QED BY <1>1, <1>2 DEF QInv, QTypes, Look

LEMMA AppendToInv ==
  ASSUME QInv, NEW k \in Queues, NEW l \in Good, AppendTo(k, l)
  PROVE  /\ queue' \in Files /\ owed' \subseteq Refs /\ atRisk' \subseteq Refs /\ l.ref \in RefsOf(queue'[k])
         /\ Held(todo, queue', owed', atRisk')
<1>1. PICK q2 : q2 = [queue EXCEPT ![k] = Append(@, l)]
  OBVIOUS
<1>2. PICK r2 : r2 = IF Pending(todo, k) THEN atRisk \cup {l.ref} ELSE atRisk
  OBVIOUS
<1>3. queue' = q2 /\ owed' = owed \cup {l.ref} /\ atRisk' = r2
  BY <1>1, <1>2 DEF AppendTo, RewritePending, Pending, Writes
<1>4. q2 \in Files /\ l.ref \in RefsOf(q2[k]) /\ Held(todo, q2, owed \cup {l.ref}, r2)
  BY <1>1, <1>2, Appended DEF QInv, QTypes, Held
<1>5. l.ref \in Refs
  BY GoodLines
<1> QED BY <1>2, <1>3, <1>4, <1>5 DEF QInv, QTypes

LEMMA AddInv == ASSUME QInv, NEW w \in Adders, Add(w) PROVE QInv'
<1>1. adding[w].queue \in Queues /\ adding[w].line \in Good
  BY DEF QInv, QTypes, Add, Adding
<1>2. queue' \in Files /\ owed' \subseteq Refs /\ atRisk' \subseteq Refs /\ Held(todo, queue', owed', atRisk')
  BY <1>1, AppendToInv DEF Add
<1>3. adding' \in [Adders -> Adding]
  BY DEF QInv, QTypes, Add, Adding
<1> QED BY <1>2, <1>3 DEF QInv, QTypes, Add

(* The file operations of the daemon. *)
LEMMA FirstOp ==
  ASSUME QInv, todo # <<>>
  PROVE  /\ Head(todo) = todo[1] /\ 1 \in DOMAIN todo /\ todo[1] \in Ops /\ todo[1].queue \in Queues
         /\ Adds(todo[1]) => todo[1].line \in Good
<1>1. todo \in Seq(Ops) /\ OpsSound(todo)
  BY DEF QInv, Held
<1>2. Head(todo) = todo[1] /\ 1 \in DOMAIN todo /\ todo[1] \in Ops
  BY <1>1, FirstGone
<1> QED BY <1>1, <1>2 DEF Ops, OpsSound, Adds, Writes

LEMMA EnqueueLookInv == QInv /\ EnqueueLook => QInv'
<1> SUFFICES ASSUME QInv, EnqueueLook PROVE QInv'
  OBVIOUS
<1>1. /\ todo # <<>> /\ Head(todo) = todo[1] /\ 1 \in DOMAIN todo /\ todo[1].act = "enqueue" /\ Adds(todo[1])
  BY FirstOp DEF EnqueueLook, Adds
<1>2. Held(todo', queue, owed, atRisk)
  <2>1. CASE todo[1].line.ref \in RefsOf(queue[todo[1].queue])
    BY <1>1, <2>1, AddDone DEF QInv, QTypes, Held, EnqueueLook
  <2>2. CASE todo[1].line.ref \notin RefsOf(queue[todo[1].queue])
    BY <1>1, <2>2, AddBegun DEF QInv, QTypes, Held, EnqueueLook
  <2> QED BY <2>1, <2>2
<1> QED BY <1>2 DEF QInv, QTypes, EnqueueLook, DaemonFile

LEMMA EnqueueAppendInv == QInv /\ EnqueueAppend => QInv'
<1> SUFFICES ASSUME QInv, EnqueueAppend PROVE QInv'
  OBVIOUS
<1>1. /\ todo # <<>> /\ Head(todo) = todo[1] /\ 1 \in DOMAIN todo /\ Adds(todo[1])
      /\ todo[1].queue \in Queues /\ todo[1].line \in Good
  BY FirstOp DEF EnqueueAppend, Adds
<1>2. /\ queue' \in Files /\ owed' \subseteq Refs /\ atRisk' \subseteq Refs
      /\ todo[1].line.ref \in RefsOf(queue'[todo[1].queue]) /\ Held(todo, queue', owed', atRisk')
  BY <1>1, AppendToInv DEF EnqueueAppend
<1>3. Held(Tail(todo), queue', owed', atRisk')
  BY <1>1, <1>2, AddDone DEF QInv, Held
<1> QED BY <1>2, <1>3 DEF QInv, QTypes, EnqueueAppend, DaemonFile

LEMMA RemoveLookInv == QInv /\ RemoveLook => QInv'
<1> SUFFICES ASSUME QInv, RemoveLook PROVE QInv'
  OBVIOUS
<1>1. /\ todo # <<>> /\ Head(todo) = todo[1] /\ Removes(todo[1])
  BY FirstOp DEF RemoveLook, Removes
<1>2. Held(todo', queue, owed', atRisk)
  BY <1>1, RemoveBegun DEF QInv, QTypes, Held, RemoveLook
<1>3. owed' \subseteq Refs
  BY DEF QInv, QTypes, RemoveLook
<1> QED BY <1>2, <1>3 DEF QInv, QTypes, RemoveLook, DaemonFile

LEMMA TruncateInv == QInv /\ Truncate => QInv'
<1> SUFFICES ASSUME QInv, Truncate PROVE QInv'
  OBVIOUS
<1>1. /\ todo # <<>> /\ Head(todo) = todo[1] /\ todo[1].act = "write"
  BY FirstOp DEF Truncate
<1>2. /\ queue' = [queue EXCEPT ![todo[1].queue] = <<>>]
      /\ todo' = <<[todo[1] EXCEPT !.act = "writing"]>> \o Tail(todo)
  BY <1>1 DEF Truncate
<1>3. queue' \in Files /\ Held(todo', queue', owed, atRisk)
  BY <1>1, <1>2, WriteBegun DEF QInv, QTypes, Held
<1> QED BY <1>3 DEF QInv, QTypes, Truncate, DaemonFile

LEMMA RewriteInv == QInv /\ Rewrite => QInv'
<1> SUFFICES ASSUME QInv, Rewrite PROVE QInv'
  OBVIOUS
<1>1. /\ todo # <<>> /\ Head(todo) = todo[1] /\ Writes(todo[1]) /\ todo[1] \in Ops
  BY FirstOp DEF Rewrite, Writes
<1>2. todo[1].lines \in Seq(Lines)
  BY <1>1 DEF Ops
<1>3. Torn \in Lines
  BY DEF Lines
<1>4. PICK s \in Seq(Lines) : RefsOf(s) = RefsOf(todo[1].lines) /\ queue' = [queue EXCEPT ![todo[1].queue] = s]
  <2>1. CASE queue' = [queue EXCEPT ![todo[1].queue] = todo[1].lines]
    BY <1>2, <2>1
  <2>2. CASE queue' = [queue EXCEPT ![todo[1].queue] = Append(todo[1].lines, Torn)]
    <3>1. Append(todo[1].lines, Torn) \in Seq(Lines) /\ RefsOf(Append(todo[1].lines, Torn)) = RefsOf(todo[1].lines)
      BY <1>2, <1>3, RefsAppended
    <3> QED BY <2>2, <3>1
  <2> QED BY <1>1, <2>1, <2>2 DEF Rewrite
<1>5. queue' \in Files /\ Held(Tail(todo), queue', owed, atRisk)
  BY <1>1, <1>4, WriteDone DEF QInv, QTypes, Held
<1> QED BY <1>5 DEF QInv, QTypes, Rewrite, DaemonFile

(* The steps of reconcileQueue begin when the file operations are done. *)
LEMMA LoopHeld ==
  ASSUME QInv, NEW at, Loop(at)
  PROVE  Held(<<>>, queue, owed, atRisk) /\ todo = <<>> /\ queue \in Files
BY DEF QInv, QTypes, Loop

LEMMA MigrateInv == QInv /\ Migrate => QInv'
<1> SUFFICES ASSUME QInv, Migrate PROVE QInv'
  OBVIOUS
<1>1. Held(<<>>, queue, owed, atRisk) /\ queue \in Files
  BY LoopHeld DEF Migrate
<1>2. PICK s : s = queue["realtime"]
  OBVIOUS
<1> DEFINE moving == {i \in DOMAIN s : s[i] # Torn /\ s[i].ref \in Manifests}
<1>3. PICK moved, kept : moved = Picked(s, moving) /\ kept = Picked(s, DOMAIN s \ moving)
  OBVIOUS
<1>4. todo' = IF moved = <<>> THEN <<>>
              ELSE [i \in DOMAIN moved |-> EnqueueOp("history", moved[i].ref)] \o <<WriteOp("realtime", kept)>>
  BY <1>2, <1>3 DEF Migrate
<1>5. s \in Seq(Lines) /\ moving \in SUBSET DOMAIN s /\ DOMAIN s \ moving \in SUBSET DOMAIN s
  BY <1>1, <1>2 DEF Files, Queues
<1>6. /\ moved \in Seq(Lines) /\ kept \in Seq(Lines)
      /\ \A n \in DOMAIN moved : \E i \in moving : moved[n] = s[i]
      /\ \A i \in moving : \E n \in DOMAIN moved : moved[n] = s[i]
      /\ \A i \in DOMAIN s \ moving : \E n \in DOMAIN kept : kept[n] = s[i]
  <2> HIDE DEF moving
  <2> QED BY <1>3, <1>5, PickedProperties
<1>7. PICK refs : refs = [i \in DOMAIN moved |-> moved[i].ref]
  OBVIOUS
<1>8. refs \in Seq(Refs) /\ DOMAIN refs = DOMAIN moved
  <2>1. \A n \in DOMAIN moved : moved[n].ref \in Refs
    BY <1>6, QueueConstants
  <2>2. refs \in [1..Len(moved) -> Refs] /\ Len(moved) \in Nat
    BY <1>6, <1>7, <2>1
  <2> QED BY <1>7, <2>2, SeqDef
<1>9. RefsOf(s) \subseteq RefsOf(kept) \cup {refs[i] : i \in DOMAIN refs}
  <2> SUFFICES ASSUME NEW e \in RefsOf(s) PROVE e \in RefsOf(kept) \/ \E i \in DOMAIN refs : e = refs[i]
    OBVIOUS
  <2>1. PICK i \in DOMAIN s : s[i] # Torn /\ s[i].ref = e
    BY RefsIn
  <2>2. CASE i \in moving
    BY <1>6, <1>7, <2>1, <2>2
  <2>3. CASE i \notin moving
    BY <1>6, <2>1, <2>3, RefsIn
  <2> QED BY <2>2, <2>3
<1>10. [i \in DOMAIN moved |-> EnqueueOp("history", moved[i].ref)] = [i \in DOMAIN refs |-> EnqueueOp("history", refs[i])]
  BY <1>7
<1>11. Held(todo', queue, owed, atRisk)
  <2>1. CASE moved = <<>>
    BY <1>1, <1>4, <2>1
  <2>2. CASE moved # <<>>
    <3>1. todo' = [i \in DOMAIN refs |-> EnqueueOp("history", refs[i])] \o <<WriteOp("realtime", kept)>>
      BY <1>4, <1>10, <2>2
    <3>2. kept \in Seq(Lines) /\ RefsOf(queue["realtime"]) \subseteq RefsOf(kept) \cup {refs[i] : i \in DOMAIN refs}
      BY <1>2, <1>6, <1>9
    <3> QED BY <1>1, <1>8, <3>1, <3>2, MigrationBegins
  <2> QED BY <2>1, <2>2
<1> QED BY <1>11 DEF QInv, QTypes, Phases, Migrate, LoopKeeps

LEMMA SanitiseInv ==
  ASSUME QInv, NEW k \in Queues, NEW next \in Phases, Sanitise(k, next)
  PROVE  QInv'
<1>1. Held(<<>>, queue, owed, atRisk) /\ queue \in Files
  BY LoopHeld DEF Sanitise
<1>2. PICK s : s = queue[k]
  OBVIOUS
<1>3. PICK clean : clean = [i \in DOMAIN s |-> IF s[i] = Torn THEN Torn ELSE Line(s[i].ref, TRUE)]
  OBVIOUS
<1>4. todo' = <<>> \/ todo' = <<WriteOp(k, clean)>>
  BY <1>2, <1>3 DEF Sanitise
<1>5. s \in Seq(Lines)
  BY <1>1, <1>2 DEF Files
<1>6. \A i \in DOMAIN s : s[i] \in Lines
  BY <1>5, ElementOfSeq
<1>7. \A i \in DOMAIN s : /\ clean[i] \in Lines
                          /\ s[i] # Torn => clean[i] # Torn /\ clean[i].ref = s[i].ref
  BY <1>3, <1>6, QueueConstants DEF Lines, Line, Torn
<1>8. clean \in Seq(Lines)
  <2>2. DOMAIN s = 1..Len(s) /\ Len(s) \in Nat
    BY <1>5
  <2>3. \A i \in 1..Len(s) : (IF s[i] = Torn THEN Torn ELSE Line(s[i].ref, TRUE)) \in Lines
    BY <1>3, <1>7, <2>2
  <2>1. clean \in [1..Len(s) -> Lines] /\ Len(s) \in Nat
    BY <1>3, <2>2, <2>3
  <2> QED BY <2>1, SeqDef
<1>9. RefsOf(s) \subseteq RefsOf(clean)
  <2>1. DOMAIN clean = DOMAIN s
    BY <1>3
  <2>2. \A e : e \in RefsOf(s) => e \in RefsOf(clean)
    BY <1>7, <2>1, RefsIn
  <2> QED BY <2>2
<1>10. Held(todo', queue, owed, atRisk)
  BY <1>1, <1>2, <1>4, <1>8, <1>9, WriteBegins
<1>11. phase' \in Phases
  BY DEF Sanitise, Phases
<1> QED BY <1>10, <1>11 DEF QInv, QTypes, Sanitise, LoopKeeps

LEMMA LanEntryInv == QInv /\ LanEntry => QInv'
<1> SUFFICES ASSUME QInv, LanEntry PROVE QInv'
  OBVIOUS
<1>1. Held(<<>>, queue, owed, atRisk) /\ queue \in Files
  BY LoopHeld DEF LanEntry
<1>2. Held(todo', queue, owed, atRisk)
  <2>1. CASE todo' = <<>>
    BY <1>1, <2>1
  <2>2. ASSUME NEW r \in Refs, todo' = <<EnqueueOp("history", r)>> PROVE Held(todo', queue, owed, atRisk)
    BY <1>1, <2>2, OneAdd DEF Queues
  <2>3. ASSUME NEW r \in Refs, todo' = <<RemoveOp("history", r), EnqueueOp("realtime", r)>>
        PROVE  Held(todo', queue, owed, atRisk)
    BY <1>1, <2>3, MoveBegins DEF Queues
  <2> QED BY <2>1, <2>2, <2>3, QueueConstants DEF LanEntry
<1>3. phase' \in Phases /\ bootstrap' \in {"new", "recent", "steady"} /\ round' \in 0..(Rounds - 1)
  BY QueueConstants DEF QInv, QTypes, LanEntry, Phases
<1> QED BY <1>2, <1>3 DEF QInv, QTypes, LanEntry, LoopKeeps

LEMMA FromManifestsInv ==
  ASSUME QInv, NEW at, NEW next \in Phases, FromManifests(at, next)
  PROVE  QInv'
<1>1. Held(<<>>, queue, owed, atRisk) /\ queue \in Files
  BY LoopHeld DEF FromManifests
<1>2. Held(todo', queue, owed, atRisk)
  <2>1. CASE todo' = <<>>
    BY <1>1, <2>1
  <2>2. ASSUME NEW some \in SUBSET (Listed \ stored), NEW s, s = SetToSeq(some),
               todo' = [i \in DOMAIN s |-> EnqueueOp("history", s[i])]
        PROVE  Held(todo', queue, owed, atRisk)
    <3>1. IsFiniteSet(some) /\ some \subseteq Refs
      BY QueueConstants, FS_Subset
    <3>2. s \in Seq(some)
      BY <2>2, <3>1, ListOfSet
    <3>3. \A i \in DOMAIN s : s[i] \in Refs
      BY <3>1, <3>2, ElementOfSeq
    <3>4. PICK t : t = [i \in DOMAIN s |-> EnqueueOp("history", s[i])]
      OBVIOUS
    <3>5. \A i \in DOMAIN t : t[i] \in Ops /\ Adds(t[i]) /\ t[i].line \in Good /\ t[i].lines = <<>>
      BY <3>3, <3>4, EnqueueIs DEF Queues
    <3>6. t \in [1..Len(s) -> Ops] /\ Len(s) \in Nat
      BY <3>2, <3>4, <3>5
    <3>7. t \in Seq(Ops)
      BY <3>6, SeqDef
    <3>8. OpsSound(t) /\ Alone(t) /\ Covered(t, queue, owed, atRisk)
      BY <1>1, <3>5, <3>7, AddsBegin
    <3> QED BY <1>1, <2>2, <3>4, <3>7, <3>8, OpsBegun
  <2> QED BY <2>1, <2>2 DEF FromManifests
<1> QED BY <1>2 DEF QInv, QTypes, FromManifests, LoopKeeps

LEMMA CollectInv == QInv /\ Collect => QInv'
<1> SUFFICES ASSUME QInv, Collect PROVE QInv'
  OBVIOUS
<1>1. Held(<<>>, queue, owed, atRisk)
  BY LoopHeld DEF Collect
<1>2. FirstOf(Collected, MaxPerPass) \in Seq(Batches)
  BY CollectedType, FirstOfType, QueueConstants DEF QInv
<1>3. batch' \in Seq(Batches) /\ phase' \in Phases
  BY <1>2 DEF QInv, QTypes, Collect, Phases
<1> QED BY <1>1, <1>3 DEF QInv, QTypes, Collect, LoopKeeps

LEMMA ProcessInv == QInv /\ Process => QInv'
<1> SUFFICES ASSUME QInv, Process PROVE QInv'
  OBVIOUS
<1>1. Held(<<>>, queue, owed, atRisk) /\ queue \in Files
  BY LoopHeld DEF Process
<1>2. batch \in Seq(Batches) /\ batch # <<>>
  BY DEF QInv, QTypes, Process
<1>3. PICK x : x = Head(batch)
  OBVIOUS
<1>4. x.ref \in Refs /\ (x.queue = NoQueue \/ x.queue \in Queues) /\ Tail(batch) \in Seq(Batches)
  <2>1. x \in Batches /\ Tail(batch) \in Seq(Batches)
    BY <1>2, <1>3
  <2> QED BY <2>1 DEF Batches
<1>5. PICK result \in Results(x.ref) :
        /\ stored' = IF result = "imported" THEN stored \cup {x.ref} ELSE stored
        /\ todo' = AfterResult(x, result)
  BY <1>3 DEF Process
<1>6. Held(todo', queue, owed, atRisk)
  <2>1. CASE x.queue = NoQueue
    BY <1>1, <1>5, <2>1 DEF AfterResult
  <2>2. CASE x.queue # NoQueue /\ result = "failed"
    BY <1>1, <1>4, <1>5, <2>2, MoveBegins DEF AfterResult
  <2>3. CASE x.queue # NoQueue /\ result # "failed"
    BY <1>1, <1>4, <1>5, <2>3, SettleBegins DEF AfterResult
  <2> QED BY <2>1, <2>2, <2>3
<1>7. stored' \subseteq Refs
  BY <1>4, <1>5 DEF QInv, QTypes
<1> QED BY <1>4, <1>6, <1>7 DEF QInv, QTypes, Process, LoopKeeps

LEMMA OtherLoopInv == QInv /\ (Processed \/ NextRound \/ Complete) => QInv'
<1> SUFFICES ASSUME QInv, Processed \/ NextRound \/ Complete PROVE QInv'
  OBVIOUS
<1>1. /\ UNCHANGED <<queue, todo, stored, batch, added, owed, atRisk, adding, arrivals, queueCrashes>>
      /\ phase' \in Phases /\ direct' \in {Direct, <<>>} /\ bootstrap' \in {"new", "recent", "steady"}
  BY DEF QInv, QTypes, Processed, NextRound, Complete, LoopKeeps, Phases
<1>2. round' \in 0..(Rounds - 1)
  BY QueueConstants DEF QInv, QTypes, Processed, NextRound, Complete
<1> QED BY <1>1, <1>2 DEF QInv, QTypes

LEMMA CrashInv == QInv /\ Crash => QInv'
<1> SUFFICES ASSUME QInv, Crash PROVE QInv'
  OBVIOUS
<1>1. Held(todo, queue, owed, atRisk) /\ queue \in Files /\ Hand(todo) \subseteq Refs
  BY HandIsRefs DEF QInv, QTypes, Held
<1>2. /\ todo' = <<>> /\ queue' = queue /\ owed' = owed
      /\ atRisk' = atRisk \cup (Hand(todo) \ (RefsOf(queue["realtime"]) \cup RefsOf(queue["history"])))
  BY InHandIs DEF Crash, Queued
<1>3. Safe(<<>>, queue, owed, atRisk')
  BY <1>1, <1>2 DEF Held, Safe
<1>4. Held(<<>>, queue, owed, atRisk')
  BY <1>1, <1>3, NoOps DEF Held
<1>5. atRisk' \subseteq Refs
  BY <1>1, <1>2 DEF QInv, QTypes
<1>6. adding' \in [Adders -> Adding] /\ queueCrashes' \in 0..MaxQueueCrashes
  BY QueueConstants DEF QInv, QTypes, Crash, Adding, Adders
<1>7. batch' \in Seq(Batches) /\ phase' \in Phases
  <2>1. <<>> \in Seq(Batches)
    OBVIOUS
  <2> QED BY <2>1 DEF Crash, Phases
<1> QED BY <1>2, <1>4, <1>5, <1>6, <1>7 DEF QInv, QTypes, Crash

LEMMA QueueRestartInv == QInv /\ Restart => QInv'
<1> SUFFICES ASSUME QInv, Restart PROVE QInv'
  OBVIOUS
<1>1. round' \in 0..(Rounds - 1)
  BY QueueConstants DEF Restart
<1> QED BY <1>1 DEF QInv, QTypes, Restart, Phases

LEMMA QNextInv == QInv /\ [QNext]_qvars => QInv'
<1> SUFFICES ASSUME QInv, [QNext]_qvars PROVE QInv'
  OBVIOUS
<1>1. CASE UNCHANGED qvars
  BY <1>1 DEF qvars, QInv, QTypes
<1>2. ASSUME NEW r \in Refs, Announced(r) \/ ServeAdds(r) PROVE QInv'
  <2>1. Line(r, FALSE) \in Good /\ Line(r, TRUE) \in Good /\ "pubsub" \in Adders /\ "serve" \in Adders
    BY DEF Line, Good, Adders
  <2>2. (IF r \in Manifests THEN "history" ELSE "realtime") \in Queues /\ "realtime" \in Queues
    BY DEF Queues
  <2>3. CASE Announced(r)
    BY <2>1, <2>2, <2>3, LookInv DEF Announced
  <2>4. CASE ServeAdds(r)
    BY <2>1, <2>2, <2>4, LookInv DEF ServeAdds
  <2> QED BY <1>2, <2>3, <2>4
<1>3. ASSUME NEW w \in Adders, Add(w) PROVE QInv'
  BY <1>3, AddInv
<1>4. CASE DaemonStep
  <2>1. /\ "realtime" \in Queues /\ "history" \in Queues
        /\ "history" \in Phases /\ "lan" \in Phases /\ "collect" \in Phases /\ "round" \in Phases
    BY DEF Queues, Phases
  <2>2. CASE Sanitise("realtime", "history") \/ Sanitise("history", "lan")
    BY <2>1, <2>2, SanitiseInv
  <2>3. CASE FromManifests("manifests", "collect") \/ FromManifests("again", "round")
    BY <2>1, <2>3, FromManifestsInv
  <2> QED BY <1>4, <2>2, <2>3, EnqueueLookInv, EnqueueAppendInv, RemoveLookInv, TruncateInv, RewriteInv,
             MigrateInv, LanEntryInv, CollectInv, ProcessInv, OtherLoopInv DEF DaemonStep
<1>5. CASE Crash \/ Restart
  BY <1>5, CrashInv, QueueRestartInv
<1> QED BY <1>1, <1>2, <1>3, <1>4, <1>5 DEF QNext, Adders

(* What is owed and in no file is in the hands of the daemon or at risk, and what the daemon
   is about to do to the files keeps it so. *)
THEOREM QueueInvariant == QSpec => []QInv
  BY QInitInv, QNextInv, PTL DEF QSpec

(* The types of the queue files and of the daemon. *)
THEOREM QueueTypes == QSpec => []QTypeOK
<1>1. QInv => QTypeOK
  <2> SUFFICES ASSUME QInv PROVE QTypeOK
    OBVIOUS
  <2>1. \A i \in DOMAIN todo : todo[i] \in Ops
    BY ElementOfSeq DEF QInv, Held
  <2>2. \A w \in Adders : adding[w] \in [queue : Queues \cup {NoQueue}, line : Lines]
    BY GoodLines DEF QInv, QTypes, Adding, Nobody, Lines
  <2>3. adding \in [Adders -> [queue : Queues \cup {NoQueue}, line : Lines]]
    BY <2>2 DEF QInv, QTypes
  <2> QED BY <2>1, <2>3 DEF QInv, QTypes, QTypeOK, Files, Phases, Batches, Adders, Ops, Acts
<1> QED BY <1>1, QueueInvariant, PTL

(* NoRefLost: nothing accepted and not settled is lost but by the race of an append with a
   rewrite, or by a crash that finds it in the hands of the daemon (sync.go:1157, 1679). *)
THEOREM NoRefLostHolds == QSpec => []NoRefLost
<1>1. QInv => NoRefLost
  BY InHandIs DEF QInv, Held, Safe, NoRefLost, Queued
<1> QED BY <1>1, QueueInvariant, PTL
-----------------------------------------------------------------------------
(* ContentIndex.  A reading of the files is not of the future; an index, and a build that
   is about to become one, is no older than the probe it is to be known by. *)
Readings == [Sources -> Nat]
NoNewer(v, w) == \A s \in Sources : v[s] <= w[s]
Past(v) == v \in Readings /\ NoNewer(v, disk)
IndexFits == indexCache # NoIndex =>
    /\ indexCache = [ready |-> TRUE, holds |-> indexCache.holds, probe |-> indexCache.probe]
    /\ Past(indexCache.holds) /\ Past(indexCache.probe) /\ NoNewer(indexCache.probe, indexCache.holds)
ProbeFits ==
    /\ probeCache = [quick |-> probeCache.quick, full |-> probeCache.full, counts |-> probeCache.counts]
    /\ probeCache.counts => Past(probeCache.full)
BuilderPcs == {"idle", "probe", "full", "probed", "compare", "build", "built"}
BuilderFits(b) ==
    /\ b = [pc |-> b.pc, quick |-> b.quick, probe |-> b.probe, got |-> b.got] /\ b.pc \in BuilderPcs
    /\ b.pc \in {"probed", "compare", "build", "built"} => Past(b.probe)
    /\ b.pc = "built" => Past(b.got) /\ NoNewer(b.probe, b.got)

(* A request that waits for a build waits for one that runs; one request builds the page. *)
Waiting == {"await", "own"}
RequestPcs == {"idle", "wait", "index", "render", "fail"} \cup Waiting
RequestFits(r) ==
    /\ request[r] = [pc |-> request[r].pc, on |-> request[r].on, current |-> request[r].current]
    /\ request[r].pc \in RequestPcs
    /\ request[r].pc \notin {"idle", "wait"} <=> building = r
    /\ IF request[r].pc \in Waiting
       THEN request[r].on \in Builders /\ builder[request[r].on].pc # "idle"
       ELSE request[r].on = None
IndexInv ==
    /\ disk \in Readings /\ IndexFits /\ ProbeFits
    /\ DOMAIN builder = Builders /\ \A b \in Builders : BuilderFits(builder[b])
    /\ inCharge \in Builders \cup {None} /\ (inCharge # None => builder[inCharge].pc # "idle")
    /\ building \in Requests \cup {None}
    /\ DOMAIN request = Requests /\ \A r \in Requests : RequestFits(r)

LEMMA BuildersOn ==
    /\ None \notin Builders /\ None \notin Requests /\ Unused.pc = "idle" /\ Answered.pc = "idle"
    /\ Answered.on = None /\ BuilderFits(Unused) /\ ~NoIndex.ready /\ ~NoProbe.counts
  BY IndexConstants DEF Unused, Answered, NoIndex, NoProbe, BuilderFits, BuilderPcs

LEMMA IndexStart == IInit => IndexInv
<1> SUFFICES ASSUME IInit PROVE IndexInv
  OBVIOUS
<1>1. disk \in Readings /\ IndexFits /\ ProbeFits
  BY DEF IInit, Readings, IndexFits, ProbeFits, NoProbe
<1>2. DOMAIN builder = Builders /\ \A b \in Builders : BuilderFits(builder[b])
  BY BuildersOn DEF IInit
<1>3. DOMAIN request = Requests /\ \A r \in Requests : RequestFits(r)
  BY IndexConstants DEF IInit, RequestFits, Answered, RequestPcs, Waiting
<1> QED  BY <1>1, <1>2, <1>3 DEF IInit, IndexInv

(* The files only gain versions, so a reading of the past remains one. *)
LEMMA FilesMove ==
    ASSUME IndexInv, NEW s \in Sources, disk' = [disk EXCEPT ![s] = @ + 1]
    PROVE  disk' \in Readings /\ \A v : Past(v) => Past(v)'
<1>1. disk' \in Readings
  BY DEF IndexInv, Readings
<1>2. ASSUME NEW v, Past(v) PROVE Past(v)'
  <2>1. ASSUME NEW z \in Sources PROVE v[z] <= disk'[z]
    BY <1>1, <1>2, <2>1 DEF IndexInv, Past, Readings, NoNewer
  <2> QED  BY <1>2, <2>1 DEF Past, NoNewer
<1> QED  BY <1>1, <1>2

LEMMA NowIsPast ==
    ASSUME IndexInv
    PROVE  Past(disk) /\ \A v : Past(v) => NoNewer(v, disk)
  BY DEF IndexInv, Past, Readings, NoNewer

(* What the files, the index and the builders hold after a step that leaves the requests. *)
KeepsIndex == disk' \in Readings /\ IndexFits' /\ ProbeFits'
KeepsBuilders ==
    /\ DOMAIN builder' = Builders /\ \A b \in Builders : BuilderFits(builder[b])'
    /\ inCharge' \in Builders \cup {None} /\ (inCharge' # None => builder'[inCharge'].pc # "idle")
KeepsRequests ==
    /\ building' \in Requests \cup {None} /\ DOMAIN request' = Requests
    /\ \A r \in Requests : RequestFits(r)'
LEMMA ThreeParts == KeepsIndex /\ KeepsBuilders /\ KeepsRequests => IndexInv'
  BY DEF KeepsIndex, KeepsBuilders, KeepsRequests, IndexInv

(* A step on the files or of a moderator, which no builder notices. *)
LEMMA SameIndex ==
    ASSUME IndexInv, UNCHANGED <<disk, indexCache, probeCache>> PROVE KeepsIndex
  BY DEF IndexInv, KeepsIndex, Readings, IndexFits, ProbeFits, Past, NoNewer
LEMMA SameBuilders ==
    ASSUME IndexInv, \A v : Past(v) => Past(v)', builder' = builder, inCharge' \in {inCharge, None}
    PROVE  KeepsBuilders
  BY DEF IndexInv, KeepsBuilders, BuilderFits, NoNewer
LEMMA SameRequests ==
    ASSUME IndexInv, UNCHANGED <<building, request>>,
           \A b \in Builders : builder[b].pc # "idle" => builder'[b].pc # "idle"
    PROVE  KeepsRequests
  BY DEF IndexInv, KeepsRequests, RequestFits
LEMMA SamePast == ASSUME disk' = disk PROVE \A v : Past(v) => Past(v)'
  BY DEF Past, NoNewer

(* One builder moves on. *)
LEMMA OneBuilder ==
    ASSUME IndexInv, disk' = disk, NEW b \in Builders, NEW n, BuilderFits(n), n.pc # "idle",
           builder' = [builder EXCEPT ![b] = n], inCharge' \in {inCharge, b}
    PROVE  KeepsBuilders
<1>1. ASSUME NEW c \in Builders PROVE BuilderFits(builder[c])'
  <2>1. builder'[c] = IF c = b THEN n ELSE builder[c]
    BY DEF IndexInv
  <2>2. BuilderFits(builder'[c])
    BY <2>1 DEF IndexInv
  <2> QED  BY <2>2, disk' = disk DEF BuilderFits, Past, NoNewer
<1> QED  BY <1>1 DEF IndexInv, KeepsBuilders

(* A builder that is done wakes those that wait for it, and nobody is left waiting. *)
LEMMA DoneKeeps ==
    ASSUME IndexInv, NEW b \in Builders, NEW ok \in BOOLEAN, Done(b, ok)
    PROVE  KeepsBuilders /\ KeepsRequests
<1>1. ASSUME NEW c \in Builders PROVE BuilderFits(builder[c])'
  <2>1. builder'[c] = IF c = b THEN Unused ELSE builder[c]
    BY DEF IndexInv, Done
  <2>2. BuilderFits(builder'[c])
    BY <2>1, BuildersOn DEF IndexInv
  <2> QED  BY <2>2 DEF BuilderFits, Past, NoNewer, Done
<1>2. inCharge' \in Builders \cup {None} /\ (inCharge' # None => builder'[inCharge'].pc # "idle")
  BY DEF IndexInv, Done
<1>3. KeepsBuilders
  BY <1>1, <1>2 DEF IndexInv, KeepsBuilders, Done
<1>4. ASSUME NEW r \in Requests PROVE RequestFits(r)'
  <2>1. RequestFits(r) /\ building' = building /\ request'[r] = Awake(b, ok)[r]
    BY DEF IndexInv, Done, PageRests
  <2>2. CASE request[r].on # b
    <3>1. request'[r] = request[r]
      BY <2>1, <2>2 DEF Awake
    <3>2. request[r].pc \in Waiting => builder'[request[r].on] = builder[request[r].on]
      BY <2>1, <2>2 DEF IndexInv, Done, RequestFits
    <3> QED  BY <2>1, <3>1, <3>2 DEF RequestFits
  <2>3. CASE request[r].on = b
    <3>1. request[r].pc \in Waiting
      BY <2>1, <2>3, BuildersOn DEF RequestFits
    <3>2. request'[r].on = None /\ request'[r].current = request[r].current
          /\ request'[r].pc \in {"index", "render", "fail"}
          /\ request'[r] = [pc |-> request'[r].pc, on |-> None, current |-> request[r].current]
      BY <2>1, <2>3, <3>1 DEF Awake, RequestFits
    <3> QED  BY <2>1, <3>1, <3>2 DEF RequestFits, RequestPcs, Waiting
  <2> QED  BY <2>2, <2>3
<1>5. KeepsRequests
  BY <1>4 DEF IndexInv, KeepsRequests, Done, PageRests, Awake
<1> QED  BY <1>3, <1>5

(* What the next step of a builder leaves. *)
LEMMA BuilderAfter ==
    ASSUME NEW x, BuilderFits(x), NEW pc, NEW v, NEW n,
           n \in {[x EXCEPT !.pc = pc], [x EXCEPT !.pc = pc, !.quick = v], [x EXCEPT !.pc = pc, !.probe = v],
                  [x EXCEPT !.pc = pc, !.got = v]}
    PROVE  /\ n = [pc |-> n.pc, quick |-> n.quick, probe |-> n.probe, got |-> n.got] /\ n.pc = pc
           /\ n \in {[x EXCEPT !.pc = pc], [x EXCEPT !.pc = pc, !.quick = v]} => n.probe = x.probe /\ n.got = x.got
           /\ n = [x EXCEPT !.pc = pc, !.probe = v] => n.probe = v /\ n.got = x.got
           /\ n = [x EXCEPT !.pc = pc, !.got = v] => n.probe = x.probe /\ n.got = v
<1>1. x = [pc |-> x.pc, quick |-> x.quick, probe |-> x.probe, got |-> x.got]
  BY DEF BuilderFits
<1>2. CASE n = [x EXCEPT !.pc = pc]
  BY <1>1, <1>2
<1>3. CASE n = [x EXCEPT !.pc = pc, !.quick = v]
  BY <1>1, <1>3
<1>4. CASE n = [x EXCEPT !.pc = pc, !.probe = v]
  BY <1>1, <1>4
<1>5. CASE n = [x EXCEPT !.pc = pc, !.got = v]
  BY <1>1, <1>5
<1> QED  BY <1>2, <1>3, <1>4, <1>5

LEMMA QuickProbeKeeps ==
    ASSUME IndexInv, NEW b \in Builders, QuickProbe(b) PROVE IndexInv'
<1>1. builder[b].pc = "probe" /\ BuilderFits(builder[b])
  BY DEF IndexInv, QuickProbe
<1>2. CASE probeCache.counts /\ probeCache.quick = Quick
  <2>0. PICK n : n = [builder[b] EXCEPT !.pc = "compare", !.probe = probeCache.full]
    OBVIOUS
  <2>a. Past(probeCache.full)
    BY <1>2 DEF IndexInv, ProbeFits
  <2>1. BuilderFits(n) /\ n.pc # "idle"
    BY <1>1, <2>0, <2>a, BuilderAfter DEF BuilderFits, BuilderPcs
  <2>2. builder' = [builder EXCEPT ![b] = n]
    BY <1>2, <2>0 DEF QuickProbe
  <2>3. KeepsBuilders
    BY <2>1, <2>2, OneBuilder DEF QuickProbe, BuilderStep
  <2>4. \A c \in Builders : builder[c].pc # "idle" => builder'[c].pc # "idle"
    BY <2>1, <2>2 DEF IndexInv
  <2> QED  BY <2>3, <2>4, SameIndex, SameRequests, ThreeParts DEF QuickProbe, BuilderStep, PageRests
<1>3. CASE ~(probeCache.counts /\ probeCache.quick = Quick)
  <2>0. PICK n : n = [builder[b] EXCEPT !.pc = "full", !.quick = Quick]
    OBVIOUS
  <2>1. BuilderFits(n) /\ n.pc # "idle"
    BY <1>1, <2>0, BuilderAfter DEF BuilderFits, BuilderPcs
  <2>2. builder' = [builder EXCEPT ![b] = n]
    BY <1>3, <2>0 DEF QuickProbe
  <2>3. KeepsBuilders
    BY <2>1, <2>2, OneBuilder DEF QuickProbe, BuilderStep
  <2>4. \A c \in Builders : builder[c].pc # "idle" => builder'[c].pc # "idle"
    BY <2>1, <2>2 DEF IndexInv
  <2> QED  BY <2>3, <2>4, SameIndex, SameRequests, ThreeParts DEF QuickProbe, BuilderStep, PageRests
<1> QED  BY <1>2, <1>3

LEMMA FullProbeKeeps ==
    ASSUME IndexInv, NEW b \in Builders, FullProbe(b) PROVE IndexInv'
<1>a. PICK n : n = [builder[b] EXCEPT !.pc = "probed", !.probe = disk]
  OBVIOUS
<1>b. BuilderFits(builder[b])
  BY DEF IndexInv
<1>1. BuilderFits(n) /\ n.pc # "idle"
  BY <1>a, <1>b, NowIsPast, BuilderAfter DEF BuilderFits, BuilderPcs
<1>2. builder' = [builder EXCEPT ![b] = n]
  BY <1>a DEF FullProbe
<1>3. KeepsBuilders
  BY <1>1, <1>2, OneBuilder DEF FullProbe, BuilderStep
<1>4. \A c \in Builders : builder[c].pc # "idle" => builder'[c].pc # "idle"
  BY <1>1, <1>2 DEF IndexInv
<1> QED  BY <1>3, <1>4, SameIndex, SameRequests, ThreeParts DEF FullProbe, BuilderStep, PageRests

LEMMA StoreProbeKeeps ==
    ASSUME IndexInv, NEW b \in Builders, StoreProbe(b) PROVE IndexInv'
<1>a. PICK n : n = [builder[b] EXCEPT !.pc = "compare", !.quick = Unread]
  OBVIOUS
<1>1. BuilderFits(builder[b]) /\ builder[b].pc = "probed"
  BY DEF IndexInv, StoreProbe
<1>2. BuilderFits(n) /\ n.pc # "idle"
  BY <1>1, <1>a, BuilderAfter DEF BuilderFits, BuilderPcs
<1>3. builder' = [builder EXCEPT ![b] = n]
  BY <1>a DEF StoreProbe
<1>4. KeepsBuilders
  BY <1>2, <1>3, OneBuilder DEF StoreProbe, BuilderStep
<1>5. \A c \in Builders : builder[c].pc # "idle" => builder'[c].pc # "idle"
  BY <1>2, <1>3 DEF IndexInv
<1>6. PICK v : v = builder[b].probe /\ Past(v)
  BY <1>1 DEF BuilderFits
<1>7. ProbeFits'
  <2>1. Past(v)' /\ probeCache'.full = v
    BY <1>6, SamePast DEF StoreProbe, BuilderStep
  <2>2. PICK c : c = probeCache'
    OBVIOUS
  <2>3. c = [quick |-> c.quick, full |-> c.full, counts |-> c.counts] /\ c.full = v
    BY <2>1, <2>2 DEF StoreProbe
  <2>4. Past(c.full)'
    BY <2>1, <2>3 DEF Past
  <2> QED  BY <2>2, <2>3, <2>4 DEF ProbeFits
<1>8. KeepsIndex
  BY <1>7 DEF IndexInv, KeepsIndex, IndexFits, Readings, Past, NoNewer, StoreProbe, BuilderStep
<1> QED  BY <1>4, <1>5, <1>8, SameRequests, ThreeParts DEF StoreProbe, BuilderStep, PageRests

LEMMA CompareKeeps ==
    ASSUME IndexInv, NEW b \in Builders, Compare(b) PROVE IndexInv'
<1>1. CASE indexCache.ready /\ indexCache.probe = builder[b].probe
  <2>1. Done(b, TRUE) /\ UNCHANGED indexCache
    BY <1>1 DEF Compare
  <2> QED  BY <2>1, DoneKeeps, SameIndex, ThreeParts DEF Done
<1>2. CASE ~(indexCache.ready /\ indexCache.probe = builder[b].probe)
  <2>0. PICK n : n = [builder[b] EXCEPT !.pc = "build"]
    OBVIOUS
  <2>a. BuilderFits(builder[b]) /\ builder[b].pc = "compare"
    BY DEF IndexInv, Compare
  <2>1. BuilderFits(n) /\ n.pc # "idle"
    BY <2>0, <2>a, BuilderAfter DEF BuilderFits, BuilderPcs
  <2>2. builder' = [builder EXCEPT ![b] = n]
    BY <1>2, <2>0 DEF Compare
  <2>3. KeepsBuilders
    BY <1>2, <2>1, <2>2, OneBuilder DEF Compare, BuilderStep
  <2>4. \A c \in Builders : builder[c].pc # "idle" => builder'[c].pc # "idle"
    BY <2>1, <2>2 DEF IndexInv
  <2> QED  BY <1>2, <2>3, <2>4, SameIndex, SameRequests, ThreeParts DEF Compare, BuilderStep, PageRests
<1> QED  BY <1>1, <1>2

(* What a build reads is read after the probe it will be known by. *)
LEMMA BuildKeeps ==
    ASSUME IndexInv, NEW b \in Builders, Build(b) PROVE IndexInv'
<1>a. PICK n : n = [builder[b] EXCEPT !.pc = "built", !.got = disk]
  OBVIOUS
<1>b. BuilderFits(builder[b]) /\ builder[b].pc = "build"
  BY DEF IndexInv, Build
<1>1. BuilderFits(n) /\ n.pc # "idle"
  BY <1>a, <1>b, NowIsPast, BuilderAfter DEF BuilderFits, BuilderPcs
<1>2. builder' = [builder EXCEPT ![b] = n]
  BY <1>a DEF Build
<1>3. KeepsBuilders
  BY <1>1, <1>2, OneBuilder DEF Build, BuilderStep
<1>4. \A c \in Builders : builder[c].pc # "idle" => builder'[c].pc # "idle"
  BY <1>1, <1>2 DEF IndexInv
<1> QED  BY <1>3, <1>4, SameIndex, SameRequests, ThreeParts DEF Build, BuilderStep, PageRests

LEMMA StoreIndexKeeps ==
    ASSUME IndexInv, NEW b \in Builders, StoreIndex(b) PROVE IndexInv'
<1>1. BuilderFits(builder[b]) /\ builder[b].pc = "built" /\ UNCHANGED <<disk, probeCache>>
  BY DEF IndexInv, StoreIndex, Done
<1>2. indexCache' = [ready |-> TRUE, holds |-> builder[b].got, probe |-> builder[b].probe]
  BY DEF StoreIndex
<1>3. IndexFits'
  BY <1>1, <1>2 DEF IndexFits, BuilderFits, Past, NoNewer
<1>4. KeepsIndex
  BY <1>1, <1>3 DEF IndexInv, KeepsIndex, ProbeFits, Readings, Past, NoNewer
<1>5. KeepsBuilders /\ KeepsRequests
  BY DoneKeeps DEF StoreIndex
<1> QED  BY <1>4, <1>5, ThreeParts

LEMMA BuilderKeeps ==
    ASSUME IndexInv, NEW b \in Builders, BuilderRuns(b) \/ BuildFails(b) PROVE IndexInv'
<1>1. CASE BuildFails(b)
  <2>1. Done(b, FALSE) /\ UNCHANGED indexCache
    BY <1>1 DEF BuildFails
  <2> QED  BY <2>1, DoneKeeps, SameIndex, ThreeParts DEF Done
<1> QED  BY <1>1, QuickProbeKeeps, FullProbeKeeps, StoreProbeKeeps, CompareKeeps, BuildKeeps, StoreIndexKeeps
         DEF BuilderRuns

LEMMA StartsKeeps ==
    ASSUME IndexInv, NEW b \in Builders, Starts(b), disk' = disk
    PROVE  /\ KeepsBuilders /\ builder'[b].pc # "idle"
           /\ \A c \in Builders : builder[c].pc # "idle" => builder'[c].pc # "idle"
<1>a. PICK n : n = [builder[b] EXCEPT !.pc = "probe"]
  OBVIOUS
<1>b. BuilderFits(builder[b])
  BY DEF IndexInv
<1>1. BuilderFits(n) /\ n.pc # "idle"
  BY <1>a, <1>b, BuilderAfter DEF BuilderFits, BuilderPcs
<1>2. builder' = [builder EXCEPT ![b] = n]
  BY <1>a DEF Starts
<1> QED  BY <1>1, <1>2, OneBuilder DEF Starts, IndexInv

LEMMA WarmKeeps == ASSUME IndexInv, NEW b \in Builders, Warm(b) PROVE IndexInv'
  BY StartsKeeps, SameIndex, SameRequests, ThreeParts DEF Warm, PageRests

(* A step of the files, of the clocks or of a moderator that no request notices. *)
LEMMA ChangeKeeps ==
    ASSUME IndexInv, NEW s \in Sources, disk' = [disk EXCEPT ![s] = @ + 1],
           UNCHANGED <<indexCache, probeCache, inCharge, builder, building, request>>
    PROVE  IndexInv'
<1>1. disk' \in Readings /\ \A v : Past(v) => Past(v)'
  BY FilesMove
<1>2. IndexFits'
  BY <1>1 DEF IndexInv, IndexFits, NoNewer
<1>3. KeepsIndex
  BY <1>1, <1>2 DEF IndexInv, KeepsIndex, ProbeFits
<1> QED  BY <1>1, <1>3, SameBuilders, SameRequests, ThreeParts

LEMMA ProbeExpiresKeeps == ASSUME IndexInv, ProbeExpires PROVE IndexInv'
<1>1. disk' = disk /\ indexCache' = indexCache /\ ~probeCache'.counts
  BY DEF IndexInv, ProbeFits, ProbeExpires, BuilderStep
<1>2. KeepsIndex
  <2>1. ProbeFits'
    <3>1. probeCache' = [quick |-> probeCache.quick, full |-> probeCache.full, counts |-> FALSE]
      BY DEF IndexInv, ProbeFits, ProbeExpires
    <3>2. PICK c : c = probeCache'
      OBVIOUS
    <3>3. c = [quick |-> c.quick, full |-> c.full, counts |-> c.counts] /\ ~c.counts
      BY <3>1, <3>2
    <3> QED  BY <3>2, <3>3 DEF ProbeFits
  <2> QED  BY <1>1, <2>1 DEF IndexInv, KeepsIndex, IndexFits, Readings, Past, NoNewer
<1> QED  BY <1>1, <1>2, SamePast, SameBuilders, SameRequests, ThreeParts DEF ProbeExpires, BuilderStep, PageRests

LEMMA InvalidateIndexKeeps == ASSUME IndexInv, InvalidateIndex PROVE IndexInv'
<1>1. NoProbe = [quick |-> NoProbe.quick, full |-> NoProbe.full, counts |-> NoProbe.counts]
  BY DEF NoProbe
<1>2. ProbeFits' /\ IndexFits' /\ disk' = disk
  BY <1>1, BuildersOn DEF ProbeFits, IndexFits, InvalidateIndex
<1>3. KeepsIndex
  BY <1>2 DEF IndexInv, KeepsIndex, Readings
<1> QED  BY <1>3, SamePast, SameBuilders, SameRequests, ThreeParts DEF InvalidateIndex, ModeratorStep

LEMMA InvalidatePagesKeeps == ASSUME IndexInv, InvalidatePages PROVE IndexInv'
<1>1. ASSUME NEW r \in Requests PROVE RequestFits(r)'
  <2>1. RequestFits(r) /\ request'[r] = [request[r] EXCEPT !.current = FALSE]
    BY DEF IndexInv, InvalidatePages
  <2>2. PICK q : q = request'[r]
    OBVIOUS
  <2>3. q.pc = request[r].pc /\ q.on = request[r].on /\ q = [pc |-> q.pc, on |-> q.on, current |-> q.current]
    BY <2>1, <2>2 DEF RequestFits
  <2> QED  BY <2>1, <2>2, <2>3 DEF RequestFits, InvalidatePages, ModeratorStep
<1>2. KeepsRequests
  BY <1>1 DEF IndexInv, KeepsRequests, InvalidatePages, ModeratorStep
<1> QED  BY <1>2, SameIndex, SamePast, SameBuilders, ThreeParts DEF InvalidatePages, ModeratorStep

(* What the next step of a request leaves. *)
LEMMA AsksOn ==
    ASSUME NEW x, x = [pc |-> x.pc, on |-> x.on, current |-> x.current], NEW pc, NEW v, NEW n,
           n \in {[x EXCEPT !.pc = pc], [x EXCEPT !.pc = pc, !.on = v]}
    PROVE  /\ n = [pc |-> n.pc, on |-> n.on, current |-> n.current] /\ n.pc = pc
           /\ n = [x EXCEPT !.pc = pc] => n.on = x.on
           /\ n = [x EXCEPT !.pc = pc, !.on = v] => n.on = v
<1>1. CASE n = [x EXCEPT !.pc = pc]
  BY <1>1
<1>2. CASE n = [x EXCEPT !.pc = pc, !.on = v]
  BY <1>2
<1> QED  BY <1>1, <1>2
LEMMA RequestAfter ==
    ASSUME IndexInv, NEW r \in Requests, NEW n, NEW q \in Requests,
           request' = [request EXCEPT ![r] = n]
    PROVE  DOMAIN request' = Requests /\ request'[q] = (IF q = r THEN n ELSE request[q])
  BY DEF IndexInv

(* One request moves on, and goes on building the page. *)
LEMMA OneRequest ==
    ASSUME IndexInv, NEW r \in Requests, NEW n, request' = [request EXCEPT ![r] = n],
           n = [pc |-> n.pc, on |-> n.on, current |-> n.current], n.pc \in RequestPcs \ {"idle", "wait"},
           building' = r, building = r \/ building = None,
           IF n.pc \in Waiting THEN n.on \in Builders /\ builder'[n.on].pc # "idle" ELSE n.on = None,
           \A b \in Builders : builder[b].pc # "idle" => builder'[b].pc # "idle"
    PROVE  KeepsRequests
<1>1. ASSUME NEW q \in Requests PROVE RequestFits(q)'
  <2>1. RequestFits(q) /\ request'[q] = (IF q = r THEN n ELSE request[q])
    BY RequestAfter DEF IndexInv
  <2>2. CASE q = r
    BY <2>1, <2>2, RequestAfter DEF RequestFits
  <2>3. CASE q # r
    <3>1. RequestFits(q) /\ request'[q] = request[q]
      BY <2>3, RequestAfter DEF IndexInv
    <3>2. building # q /\ building' # q
      BY <2>3, BuildersOn
    <3> QED  BY <3>1, <3>2 DEF RequestFits
  <2> QED  BY <2>2, <2>3
<1> QED  BY <1>1, RequestAfter DEF IndexInv, KeepsRequests

(* Who is at the index, or renders, builds the page. *)
LEMMA WhoBuilds ==
    ASSUME IndexInv, NEW r \in Requests
    PROVE  /\ request[r] = [pc |-> request[r].pc, on |-> request[r].on, current |-> request[r].current]
           /\ request[r].pc \notin {"idle", "wait"} <=> building = r
           /\ request[r].pc \notin Waiting => request[r].on = None
  BY DEF IndexInv, RequestFits

LEMMA AskKeeps == ASSUME IndexInv, NEW r \in Requests, Ask(r) PROVE IndexInv'
<1>1. KeepsIndex /\ KeepsBuilders
  BY SameIndex, SamePast, SameBuilders DEF Ask, OnlyRequests
<1>2. CASE building = None
  <2>1. PICK n : n = [pc |-> "index", on |-> None, current |-> TRUE]
    OBVIOUS
  <2>2. request' = [request EXCEPT ![r] = n] /\ building' = r /\ builder' = builder
    BY <1>2, <2>1 DEF Ask
  <2>3. n = [pc |-> n.pc, on |-> n.on, current |-> n.current] /\ n.pc \in RequestPcs \ {"idle", "wait"}
        /\ n.pc \notin Waiting /\ n.on = None
    BY <2>1 DEF RequestPcs, Waiting
  <2>4. KeepsRequests
    BY <1>2, <2>2, <2>3, OneRequest
  <2> QED  BY <1>1, <2>4, ThreeParts
<1>3. CASE building # None
  <2>1. PICK n : n = [request[r] EXCEPT !.pc = "wait"]
    OBVIOUS
  <2>2. request' = [request EXCEPT ![r] = n] /\ building' = building /\ builder' = builder /\ request[r] = Answered
    BY <1>3, <2>1 DEF Ask
  <2>3. n = [pc |-> n.pc, on |-> n.on, current |-> n.current] /\ n.pc = "wait" /\ n.on = None
    <3>1. Answered = [pc |-> Answered.pc, on |-> Answered.on, current |-> Answered.current]
      BY DEF Answered
    <3> QED  BY <2>1, <2>2, <3>1, AsksOn, BuildersOn
  <2>4. building # r
    BY <2>2, WhoBuilds DEF Answered
  <2>5. ASSUME NEW q \in Requests PROVE RequestFits(q)'
    <3>1. RequestFits(q) /\ request'[q] = (IF q = r THEN n ELSE request[q])
      BY <2>2, RequestAfter DEF IndexInv
    <3>2. CASE q = r
      BY <3>1, <3>2, <2>2, <2>3, <2>4 DEF RequestFits, RequestPcs, Waiting
    <3>3. CASE q # r
      BY <3>1, <3>3, <2>2 DEF RequestFits
    <3> QED  BY <3>2, <3>3
  <2>6. KeepsRequests
    BY <2>2, <2>5, RequestAfter DEF IndexInv, KeepsRequests
  <2> QED  BY <1>1, <2>6, ThreeParts
<1> QED  BY <1>2, <1>3

LEMMA UseIndexKeeps == ASSUME IndexInv, NEW r \in Requests, UseIndex(r) PROVE IndexInv'
<1>1. disk' = disk /\ UNCHANGED <<indexCache, probeCache, building>>
  BY DEF UseIndex, OnlyRequests, PageRests
<1>2. KeepsBuilders /\ \A b \in Builders : builder[b].pc # "idle" => builder'[b].pc # "idle"
  <2>1. CASE \E b \in Builders : Starts(b)
    BY <1>1, <2>1, StartsKeeps
  <2>2. CASE UNCHANGED <<inCharge, builder>>
    BY <1>1, <2>2, SamePast, SameBuilders
  <2> QED  BY <2>1, <2>2 DEF UseIndex
<1>3. PICK n : n = [request[r] EXCEPT !.pc = "render"]
  OBVIOUS
<1>4. request' = [request EXCEPT ![r] = n]
  BY <1>3 DEF UseIndex
<1>5. n = [pc |-> n.pc, on |-> n.on, current |-> n.current] /\ n.pc = "render" /\ n.on = None /\ building = r
  <2>1. request[r].pc = "index" /\ request[r].on = None /\ building = r
    BY WhoBuilds DEF UseIndex, Waiting
  <2>2. PICK x : x = request[r] /\ x = [pc |-> x.pc, on |-> x.on, current |-> x.current]
    BY WhoBuilds
  <2> QED  BY <1>3, <2>1, <2>2, AsksOn
<1>6. KeepsRequests
  BY <1>1, <1>2, <1>4, <1>5, OneRequest DEF RequestPcs, Waiting
<1> QED  BY <1>1, <1>2, <1>6, SameIndex, ThreeParts

LEMMA AwaitIndexKeeps == ASSUME IndexInv, NEW r \in Requests, AwaitIndex(r) PROVE IndexInv'
<1>1. UNCHANGED <<disk, indexCache, probeCache, building, inCharge, builder>>
  BY DEF AwaitIndex, OnlyRequests, PageRests
<1>2. PICK n : n = [request[r] EXCEPT !.pc = "await", !.on = inCharge]
  OBVIOUS
<1>3. request' = [request EXCEPT ![r] = n]
  BY <1>2 DEF AwaitIndex
<1>4. n = [pc |-> n.pc, on |-> n.on, current |-> n.current] /\ n.pc = "await" /\ n.on = inCharge /\ building = r
  <2>1. building = r
    BY WhoBuilds DEF AwaitIndex
  <2>2. PICK x : x = request[r] /\ x = [pc |-> x.pc, on |-> x.on, current |-> x.current]
    BY WhoBuilds
  <2> QED  BY <1>2, <2>1, <2>2, AsksOn
<1>5. inCharge \in Builders /\ builder'[inCharge].pc # "idle"
  BY <1>1 DEF IndexInv, AwaitIndex
<1>6. KeepsRequests
  BY <1>1, <1>3, <1>4, <1>5, OneRequest DEF RequestPcs, Waiting
<1> QED  BY <1>1, <1>6, SameIndex, SamePast, SameBuilders, ThreeParts

LEMMA OwnIndexKeeps == ASSUME IndexInv, NEW r \in Requests, OwnIndex(r) PROVE IndexInv'
<1>1. disk' = disk /\ UNCHANGED <<indexCache, probeCache, building>>
  BY DEF OwnIndex, OnlyRequests, PageRests
<1>2. PICK b \in Builders : Starts(b) /\ request' = [request EXCEPT ![r].pc = "own", ![r].on = b]
  BY DEF OwnIndex
<1>3. KeepsBuilders /\ builder'[b].pc # "idle"
      /\ \A c \in Builders : builder[c].pc # "idle" => builder'[c].pc # "idle"
  BY <1>1, <1>2, StartsKeeps
<1>4. PICK n : n = [request[r] EXCEPT !.pc = "own", !.on = b]
  OBVIOUS
<1>5. request' = [request EXCEPT ![r] = n]
  BY <1>2, <1>4
<1>6. n = [pc |-> n.pc, on |-> n.on, current |-> n.current] /\ n.pc = "own" /\ n.on = b /\ building = r
  <2>1. building = r
    BY WhoBuilds DEF OwnIndex
  <2>2. PICK x : x = request[r] /\ x = [pc |-> x.pc, on |-> x.on, current |-> x.current]
    BY WhoBuilds
  <2> QED  BY <1>4, <2>1, <2>2, AsksOn
<1>7. KeepsRequests
  BY <1>1, <1>3, <1>5, <1>6, OneRequest DEF RequestPcs, Waiting
<1> QED  BY <1>1, <1>3, <1>7, SameIndex, ThreeParts

(* The page is answered: to the one that built it and to all that wait for it. *)
LEMMA EndBuildKeeps == ASSUME IndexInv, EndBuild, builder' = builder PROVE KeepsRequests
<1>1. ASSUME NEW q \in Requests PROVE RequestFits(q)'
  <2>1. RequestFits(q) /\ building' = None
        /\ request'[q] = IF q = building \/ request[q].pc = "wait" THEN Answered ELSE request[q]
    BY DEF IndexInv, EndBuild
  <2>2. CASE q = building \/ request[q].pc = "wait"
    <3>1. request'[q] = Answered /\ building' # q
      BY <2>1, <2>2, BuildersOn
    <3>2. /\ Answered = [pc |-> Answered.pc, on |-> Answered.on, current |-> Answered.current]
          /\ Answered.pc = "idle" /\ Answered.on = None
      BY DEF Answered
    <3> QED  BY <3>1, <3>2 DEF RequestFits, RequestPcs, Waiting
  <2>3. CASE q # building /\ request[q].pc # "wait"
    BY <2>1, <2>3, BuildersOn DEF RequestFits
  <2> QED  BY <2>2, <2>3
<1> QED  BY <1>1 DEF EndBuild, KeepsRequests

LEMMA RequestKeeps == ASSUME IndexInv, NEW r \in Requests, Ask(r) \/ RequestRuns(r) PROVE IndexInv'
<1>1. CASE Render(r) \/ Fails(r)
  BY <1>1, SameIndex, SamePast, SameBuilders, EndBuildKeeps, ThreeParts DEF Render, Fails, OnlyRequests
<1> QED  BY <1>1, AskKeeps, UseIndexKeeps, AwaitIndexKeeps, OwnIndexKeeps DEF RequestRuns

LEMMA IndexStep == ASSUME IndexInv, [INext]_ivars PROVE IndexInv'
<1>1. CASE UNCHANGED ivars
  BY <1>1, SameIndex, SamePast, SameBuilders, SameRequests, ThreeParts DEF ivars
<1>2. ASSUME NEW s \in Sources, Change(s) PROVE IndexInv'
  BY <1>2, ChangeKeeps DEF Change, PageRests
<1>3. CASE SaveDecision
  BY <1>3, IndexConstants, ChangeKeeps DEF SaveDecision, ModeratorStep
<1>4. CASE PageAges
  BY <1>4, SameIndex, SamePast, SameBuilders, SameRequests, ThreeParts DEF PageAges, OnlyRequests
<1> QED  BY <1>1, <1>2, <1>3, <1>4, ProbeExpiresKeeps, InvalidateIndexKeeps, InvalidatePagesKeeps,
            BuilderKeeps, WarmKeeps, RequestKeeps DEF INext, ModeratorRuns

(* An index is no older than the probe of the files it is known by, a request that waits for
   a build waits for one that runs, and only the one that builds the page is past the wait
   (server.go:682, index_cache.go, http_cache.go:262). *)
THEOREM IndexInvariant == ISpec => []IndexInv
<1> QED  BY IndexStart, IndexStep, PTL DEF ISpec

(* The types of the index and its caches. *)
THEOREM IndexTypes == ISpec => []ITypeOK
<1>1. IndexInv => ITypeOK
  <2> SUFFICES ASSUME IndexInv PROVE ITypeOK
    OBVIOUS
  <2>1. indexCache.ready => DOMAIN indexCache.holds = Sources /\ DOMAIN indexCache.probe = Sources
    BY BuildersOn DEF IndexInv, IndexFits, Past, Readings
  <2>2. building # None <=> \E r \in Requests : request[r].pc \notin {"idle", "wait"}
    BY BuildersOn, WhoBuilds DEF IndexInv
  <2>3. \A r \in Requests : request[r].pc \in {"await", "own"} => builder[request[r].on].pc # "idle"
    BY DEF IndexInv, RequestFits, Waiting
  <2> QED  BY <2>1, <2>2, <2>3 DEF IndexInv, ITypeOK
<1> QED  BY <1>1, IndexInvariant, PTL

(* The safety half of PagesCatchUp: an index whose probe is that of the files as they are
   was made of the files as they are, whatever invalidations, overtaken builds and probes that
   count too long came between (server.go:708). *)
IndexOfTheseFiles == indexCache.ready /\ indexCache.probe = disk => indexCache.holds = disk
THEOREM IndexIsKnownByItsFiles == ISpec => []IndexOfTheseFiles
<1>1. IndexInv => IndexOfTheseFiles
  <2> SUFFICES ASSUME IndexInv, indexCache.ready, indexCache.probe = disk PROVE indexCache.holds = disk
    BY DEF IndexOfTheseFiles
  <2>1. /\ indexCache.holds \in Readings /\ disk \in Readings
        /\ NoNewer(indexCache.holds, disk) /\ NoNewer(disk, indexCache.holds)
    BY BuildersOn DEF IndexInv, IndexFits, Past
  <2>2. ASSUME NEW s \in Sources PROVE indexCache.holds[s] = disk[s]
    BY <2>1, <2>2 DEF NoNewer, Readings
  <2> QED  BY <2>1, <2>2 DEF Readings
<1> QED  BY <1>1, IndexInvariant, PTL
=============================================================================

----------------------------- MODULE BundleStore -----------------------------
(***************************************************************************)
(* The bundle store (internal/aip2p/bundle.go, transfer.go, store.go): a   *)
(* bundle is a directory named by the second and the title of its message, *)
(* and a torrent file named by its infohash.  Two bundles may have the     *)
(* same directory name.  The serve process publishes; the sync daemon      *)
(* fetches the bundles of others, over libp2p or HTTP, and announces every *)
(* complete one.  Nothing is locked and every write is in place.           *)
(***************************************************************************)
EXTENDS Naturals, FiniteSets

CONSTANTS
    Bundles,       \* bundles, named by their infohash
    Own,           \* those published here; the others are fetched
    Names, DirName,   \* directory names, and the one of each bundle
    CreatedAt,        \* when the message of a bundle was written, told apart by order only
    MaxStoreCrashes,  \* bound: crashes of each process
    MaxPublishFailures   \* bound: failed pubsub publications

ASSUME BundleConstants ==
    /\ Own \subseteq Bundles /\ DirName \in [Bundles -> Names]
    /\ CreatedAt \in [Bundles -> Nat]
    /\ "empty" \notin Bundles /\ "partial" \notin Bundles
    /\ MaxStoreCrashes \in Nat /\ MaxPublishFailures \in Nat

Nothing == "empty"     \* no such directory
Partial == "partial"   \* a directory that LoadMessage refuses

VARIABLES
    dir,        \* name -> the bundle whose message and body it holds
    torrent,    \* infohash -> "none", "torn" (created, not written) or "ok"
    maker,      \* what publishBundle of the serve process is doing
    getter,     \* what the fetch of the daemon is doing
    turn,       \* what the daemon's loop does: "announce", "pass" (announcing) or "fetch"
    pass,       \* the bundles its pass of announcements still has to come to
    announced,  \* the daemon's memory of what it announced
    heard,      \* history: announcements that reached the network
    storeCrashes, publishFailures

daemonVars == <<turn, pass, announced, heard, publishFailures>>
bvars == <<dir, torrent, maker, getter, daemonVars, storeCrashes>>

Resting == [at |-> "rest", bundle |-> Nothing]
At(s, b) == [at |-> s, bundle |-> b]

Loads(b) == dir[DirName[b]] \in Bundles
(* Mutant: only bundles announced before count as complete. *)
WholeIfHeard(b) == torrent[b] = "ok" /\ dir[DirName[b]] = b /\ b \in heard

(* hasCompleteLocalBundle: the torrent parses and some message loads from its directory. *)
Whole(b) == torrent[b] = "ok" /\ Loads(b)

(* Writing to a torrent file that was removed meanwhile reaches no file. *)
Filled(b) == [torrent EXCEPT ![b] = IF @ = "torn" THEN "ok" ELSE @]

BInit ==
    /\ dir = [n \in Names |-> Nothing]
    /\ torrent = [b \in Bundles |-> "none"]
    /\ maker = Resting /\ getter = Resting
    /\ turn = "announce" /\ pass = {} /\ announced = {} /\ heard = {}
    /\ storeCrashes = 0 /\ publishFailures = 0
-----------------------------------------------------------------------------
(* publishBundle: WriteMessage writes the body, then the message, into a directory
   that may hold another bundle; the torrent is created, then written. *)
MakeBody(b) ==
    /\ maker = Resting /\ b \in Own /\ torrent[b] = "none"
    /\ maker' = At("message", b)
    /\ dir' = [dir EXCEPT ![DirName[b]] = IF @ = b THEN b ELSE Partial]
    /\ UNCHANGED <<torrent, getter, daemonVars, storeCrashes>>
MakeMessage(b) ==
    /\ maker = At("message", b)
    /\ IF dir[DirName[b]] = Nothing   \* a fetch removed it
       THEN maker' = Resting /\ UNCHANGED dir
       ELSE /\ maker' = At("torrent", b)
            /\ dir' = [dir EXCEPT ![DirName[b]] = IF @ \in {Partial, b} THEN b ELSE Partial]
    /\ UNCHANGED <<torrent, getter, daemonVars, storeCrashes>>
(* The infohash is that of what the directory holds by now. *)
MakeTorrent(b) ==
    /\ maker = At("torrent", b)
    /\ IF Loads(b)
       THEN /\ maker' = At("write", dir[DirName[b]])
            /\ torrent' = [torrent EXCEPT ![dir[DirName[b]]] = "torn"]
       ELSE maker' = Resting /\ UNCHANGED torrent
    /\ UNCHANGED <<dir, getter, daemonVars, storeCrashes>>
WriteTorrent(b) ==
    /\ maker = At("write", b)
    /\ maker' = Resting
    /\ torrent' = Filled(b)
    /\ UNCHANGED <<dir, getter, daemonVars, storeCrashes>>

-----------------------------------------------------------------------------
(* FetchBundleViaLibP2P and fetchBundleFallback: the payload is unpacked beside the
   store and validated; a directory of that name that loads is kept as it is.
   Bound: one fetch for each tick of the loop. *)
Unpack(b) ==
    /\ turn = "fetch" /\ turn' = "announce"
    /\ getter = Resting /\ b \notin Own /\ ~Whole(b)
    /\ dir' = [dir EXCEPT ![DirName[b]] = IF @ \in Bundles THEN @ ELSE b]
    /\ getter' = At("rebuild", b)
    /\ UNCHANGED <<torrent, maker, pass, announced, heard, publishFailures, storeCrashes>>

(* rebuildTorrentForContentDir hashes what the directory holds; writeTorrentFile
   leaves a torrent file that exists alone, torn or not.  What hashes to another
   infohash is removed, directory and torrent, whoever it belonged to. *)
Rebuild(b) ==
    /\ getter = At("rebuild", b)
    /\ LET held == dir[DirName[b]] IN
       IF held \notin Bundles
       THEN /\ getter' = Resting   \* it was taken away or is being written over: an error
            /\ dir' = [dir EXCEPT ![DirName[b]] = Nothing]
            /\ UNCHANGED torrent
       ELSE IF held # b
       THEN /\ getter' = Resting
            /\ dir' = [dir EXCEPT ![DirName[b]] = Nothing]
            /\ torrent' = [torrent EXCEPT ![held] = "none"]
       ELSE /\ getter' = At(IF torrent[b] = "none" THEN "write" ELSE "check", b)
            /\ torrent' = [torrent EXCEPT ![b] = IF @ = "none" THEN "torn" ELSE @]
            /\ UNCHANGED dir
    /\ UNCHANGED <<maker, daemonVars, storeCrashes>>
FinishTorrent(b) ==
    /\ getter = At("write", b)
    /\ getter' = At("check", b)
    /\ torrent' = Filled(b)
    /\ UNCHANGED <<dir, maker, daemonVars, storeCrashes>>

(* The message is loaded once more; over libp2p the daily quota is counted last and
   a bundle above it is removed again. *)
Import(b) ==
    /\ getter = At("check", b)
    /\ getter' = Resting
    /\ \/ Loads(b) /\ UNCHANGED <<dir, torrent>>
       \/ /\ dir' = [dir EXCEPT ![DirName[b]] = Nothing]
          /\ torrent' = [torrent EXCEPT ![b] = "none"]
    /\ UNCHANGED <<maker, daemonVars, storeCrashes>>

-----------------------------------------------------------------------------
(* The queue has nothing to fetch, or the bundle is here. *)
FetchNothing ==
    /\ turn = "fetch" /\ turn' = "announce"
    /\ UNCHANGED <<dir, torrent, maker, getter, pass, announced, heard, publishFailures, storeCrashes>>

(* announceLocalBundles: localAnnouncements lists what is complete, the oldest message
   first; what was announced before is passed over. *)
ListBundles ==
    /\ turn = "announce" /\ getter = Resting
    /\ turn' = "pass"
    /\ pass' = {b \in Bundles : Whole(b) /\ b \notin announced}
    /\ UNCHANGED <<dir, torrent, maker, getter, announced, heard, publishFailures, storeCrashes>>
ComesTo(b) == turn = "pass" /\ b \in pass /\ \A c \in pass : CreatedAt[b] <= CreatedAt[c]
Announcing == UNCHANGED <<dir, torrent, maker, getter, storeCrashes>>

(* Mutant: a publication that failed leaves the bundle marked. *)
AnnounceKeepsMark(b) ==
    /\ ComesTo(b)
    /\ announced' = announced \cup {b}
    /\ \/ /\ heard' = heard \cup {b} /\ pass' = pass \ {b}
          /\ UNCHANGED <<turn, publishFailures>>
       \/ /\ publishFailures < MaxPublishFailures /\ publishFailures' = publishFailures + 1
          /\ turn' = "fetch" /\ pass' = {}
          /\ UNCHANGED heard
    /\ Announcing

(* A bundle is marked, then published; a failure takes the mark back and ends the pass,
   so what comes after it waits for the next tick. *)
Announce(b) ==
    /\ ComesTo(b)
    /\ \/ /\ announced' = announced \cup {b} /\ heard' = heard \cup {b} /\ pass' = pass \ {b}
          /\ UNCHANGED <<turn, publishFailures>>
       \/ /\ publishFailures < MaxPublishFailures /\ publishFailures' = publishFailures + 1
          /\ turn' = "fetch" /\ pass' = {}
          /\ UNCHANGED <<announced, heard>>
    /\ Announcing
EndPass ==
    /\ turn = "pass" /\ pass = {}
    /\ turn' = "fetch"
    /\ UNCHANGED <<pass, announced, heard, publishFailures>> /\ Announcing

(* A crash leaves the files as they are; the daemon that starts again announces first. *)
ServeCrash ==
    /\ storeCrashes < MaxStoreCrashes /\ storeCrashes' = storeCrashes + 1
    /\ maker # Resting /\ maker' = Resting
    /\ UNCHANGED <<dir, torrent, getter, daemonVars>>
DaemonCrash ==
    /\ storeCrashes < MaxStoreCrashes /\ storeCrashes' = storeCrashes + 1
    /\ getter' = Resting /\ turn' = "announce" /\ pass' = {} /\ announced' = {}
    /\ UNCHANGED <<dir, torrent, maker, heard, publishFailures>>

Fetching(b) == Unpack(b) \/ Rebuild(b) \/ FinishTorrent(b) \/ Import(b)
Making(b) == MakeBody(b) \/ MakeMessage(b) \/ MakeTorrent(b) \/ WriteTorrent(b)
(* One step of the daemon's loop, which announces and fetches in turn (RunSync). *)
LoopRuns ==
    \/ \E b \in Bundles : Fetching(b) \/ Announce(b)
    \/ ListBundles \/ EndPass \/ FetchNothing
BNext ==
    \/ \E b \in Bundles : Making(b)
    \/ LoopRuns
    \/ ServeCrash \/ DaemonCrash
BSpec == BInit /\ [][BNext]_bvars
BFair == WF_bvars(LoopRuns)

-----------------------------------------------------------------------------
BTypeOK ==
    /\ dir \in [Names -> Bundles \cup {Nothing, Partial}]
    /\ torrent \in [Bundles -> {"none", "torn", "ok"}]
    /\ maker \in [at: {"rest", "message", "torrent", "write"}, bundle: Bundles \cup {Nothing}]
    /\ getter \in [at: {"rest", "rebuild", "write", "check"}, bundle: Bundles \cup {Nothing}]
    /\ turn \in {"announce", "pass", "fetch"} /\ pass \subseteq Bundles
    /\ announced \subseteq Bundles /\ heard \subseteq Bundles
    /\ storeCrashes \in 0..MaxStoreCrashes /\ publishFailures \in 0..MaxPublishFailures

(* A complete bundle holding its own content, no longer being imported, stays so,
   unless another bundle of the same directory name is published or fetched
   (transfer.go:417, 186; torrent_http_fallback.go:38): neither the fetch of it a
   second time, nor the quota, nor a crash at any point of either process costs a
   bundle whose name is its own. *)
Settled(b) == torrent[b] = "ok" /\ dir[DirName[b]] = b /\ getter.bundle # b
CompleteStays ==
    [][\A b \in Bundles : Settled(b) /\ ~Settled(b)' =>
          \E c \in Bundles \ {b} : DirName[c] = DirName[b] /\ (Making(c) \/ Fetching(c))]_bvars

(* Every complete bundle gets announced, although each failed publication ends the pass
   before it comes to those behind: as long as the transport does not fail for ever, the
   passes of later ticks get through. *)
EventuallyAnnounced == \A b \in Bundles : []<>(Whole(b) => b \in heard)
=============================================================================

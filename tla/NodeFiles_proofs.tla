--------------------------- MODULE NodeFiles_proofs ---------------------------
(***************************************************************************)
(* Proofs about five parts of a node that others change beside it: the     *)
(* files the moderation pages write and what they let be shown             *)
(* (Moderation), the lists a reader pages through (ContentPages), a live   *)
(* room as sessions on other machines tell of it (LiveSession), the        *)
(* announcements kept in Redis (AnnouncementCache), and the extensions     *)
(* that are installed (ExtensionStore).                                    *)
(***************************************************************************)
EXTENDS Moderation, ContentPages, LiveSession, AnnouncementCache, ExtensionStore,
        FiniteSetTheorems, WellFoundedInduction, TLAPS

-----------------------------------------------------------------------------
(* The decisions of moderators. *)

Pcs == {"idle", "load", "resolve", "write", "install", "invalidate"}
Shaped(q) ==
    /\ q = [pc |-> q.pc, n |-> q.n, batch |-> q.batch, posts |-> q.posts, action |-> q.action,
            actor |-> q.actor, reviewer |-> q.reviewer, index |-> q.index, base |-> q.base,
            new |-> q.new, since |-> q.since, moved |-> q.moved]
    /\ q.pc \in Pcs /\ q.batch \in BOOLEAN /\ q.posts \subseteq Ids(Library)

(* A request began before now, and no revocation it saw has gone. *)
Recent(q) ==
    q.pc # "idle" => /\ q.since.revocations \subseteq grants.revocations
                     /\ q.since.now \in Nat /\ q.since.now <= mnow

(* A request that has read the decisions knows them as they are, but for those that were
   made since. *)
HasBase(q) == q.pc \in {"write", "install"} \/ (q.pc = "resolve" /\ q.batch)
Based(q) ==
    HasBase(q) => /\ DOMAIN q.base \subseteq Ids(Library)
                  /\ \A id : Entry(q.base, id) # Entry(decisions, id) => id \in q.moved

(* What it decided, it was entitled to. *)
HasDecided(q) == q.pc \in {"write", "install"} \/ (q.pc = "load" /\ ~q.batch)
Entitled(q) ==
    HasDecided(q) =>
        /\ DOMAIN q.new \subseteq Ids(Library)
        /\ \A id \in DOMAIN q.new : Authorised(q.new[id].actor, PostOf(id), q.new[id].action, q.since)

Fine(q) == Shaped(q) /\ Recent(q) /\ Based(q) /\ Entitled(q)
RequestFine(u) == Fine(moderators[u])

(* While any request is about to rename the temporary file, it holds what its writer, who
   is about to do so too, decided on top of what it read. *)
FileFresh ==
    tmpfile # NoFile /\ (\E u \in Admins : moderators[u].pc = "install") =>
        /\ tmpfile.by \in Admins /\ moderators[tmpfile.by].pc = "install"
        /\ tmpfile.data = Over(moderators[tmpfile.by].new, moderators[tmpfile.by].base)

GrantsShape ==
    /\ grants = [delegations |-> grants.delegations, revocations |-> grants.revocations]
    /\ IsFiniteSet(grants.delegations)
    /\ \A d \in grants.delegations : d.until \in Nat /\ d.at \in Nat
    /\ \A v \in grants.revocations : v.at \in Nat

ModInv ==
    /\ ModTypeOK /\ GrantsShape /\ FileFresh
    /\ moderators = [u \in Admins |-> moderators[u]] /\ \A u \in Admins : RequestFine(u)
-----------------------------------------------------------------------------

LEMMA ModBounds == MaxModTime \in Nat \ {0} /\ MaxModStops \in Nat /\ Moderated \subseteq Settings
BY ModConstants

(* What a file holds after a request has put its decisions over what it read. *)
LEMMA OverEntry ==
    ASSUME NEW f, NEW g
    PROVE  /\ DOMAIN Over(f, g) = DOMAIN f \cup DOMAIN g
           /\ \A id \in DOMAIN f : Over(f, g)[id] = f[id]
BY DEF Over

LEMMA OverElsewhere ==
    ASSUME NEW f, NEW g, NEW id, id \notin DOMAIN f
    PROVE  Entry(Over(f, g), id) = Entry(g, id)
<1>1. PICK h : h = Over(f, g)
  OBVIOUS
<1>2. h = [x \in (DOMAIN f) \cup (DOMAIN g) |-> IF x \in DOMAIN f THEN f[x] ELSE g[x]]
  BY <1>1 DEF Over
<1>3. \A i \in {id} \cap DOMAIN g : h[i] = g[i]
  BY <1>2
<1>4. {id} \cap DOMAIN h = {id} \cap DOMAIN g
  BY <1>2
<1>5. Entry(h, id) = Entry(g, id)
  BY <1>3, <1>4 DEF Entry
<1>6. QED  BY <1>1, <1>5

LEMMA AuthorisedStays ==
    ASSUME issued \subseteq issued', NEW l, NEW m, NEW a, NEW s, Authorised(l, m, a, s)
    PROVE  Authorised(l, m, a, s)'
BY DEF Authorised

(* The requests that a step does not touch, when nothing is decided. *)
LEMMA RequestStays ==
    ASSUME ModInv, NEW v \in Admins, moderators'[v] = moderators[v], decisions' = decisions,
           grants.revocations \subseteq grants'.revocations, issued \subseteq issued',
           mnow' \in Nat, mnow <= mnow'
    PROVE  RequestFine(v)'
<1>1. PICK q : q = moderators[v]
  OBVIOUS
<1>2. Shaped(q) /\ Recent(q) /\ Based(q) /\ Entitled(q)
  BY <1>1 DEF ModInv, RequestFine, Fine
<1>3. Recent(q)'
  <2>1. mnow \in Nat
    BY DEF ModInv, ModTypeOK
  <2>2. QED  BY <1>2, <2>1 DEF Recent
<1>4. Based(q)'
  BY <1>2 DEF Based, Entry, HasBase
<1>5. Entitled(q)'
  BY <1>2, AuthorisedStays DEF Entitled, HasDecided
<1>6. moderators'[v] = q
  BY <1>1
<1>7. QED  BY <1>2, <1>3, <1>4, <1>5, <1>6 DEF RequestFine, Fine, Recent, Based, Entitled

(* A step of one request that leaves the decisions alone. *)
LEMMA OneRequest ==
    ASSUME ModInv, NEW u \in Admins, NEW r, moderators' = [moderators EXCEPT ![u] = r],
           UNCHANGED <<grants, issued, decisions, mnow>>,
           Shaped(r), Recent(r), Based(r), Entitled(r)
    PROVE  /\ moderators'[u] = r /\ moderators' = [v \in Admins |-> moderators'[v]]
           /\ \A v \in Admins \ {u} : moderators'[v] = moderators[v]
           /\ \A v \in Admins : RequestFine(v)' /\ moderators'[v].pc \in Pcs
<1>1. /\ moderators = [v \in Admins |-> moderators[v]] /\ moderators'[u] = r
      /\ moderators' = [v \in Admins |-> moderators'[v]]
      /\ \A v \in Admins \ {u} : moderators'[v] = moderators[v]
  BY DEF ModInv
<1>2. ASSUME NEW v \in Admins PROVE RequestFine(v)'
  <2>1. CASE v = u
    <3>1. Recent(r)'
      BY DEF Recent
    <3>2. Based(r)'
      BY DEF Based, Entry
    <3>3. Entitled(r)'
      BY AuthorisedStays DEF Entitled
    <3>4. QED  BY <1>1, <2>1, <3>1, <3>2, <3>3 DEF RequestFine, Fine, Recent, Based, Entitled
  <2>2. CASE v # u
    <3>1. mnow \in Nat /\ mnow <= mnow
      BY DEF ModInv, ModTypeOK
    <3>2. moderators'[v] = moderators[v] /\ decisions' = decisions /\ issued \subseteq issued'
          /\ grants.revocations \subseteq grants'.revocations /\ mnow' \in Nat /\ mnow <= mnow'
      BY <1>1, <2>2, <3>1
    <3>3. QED  BY <3>2, RequestStays
  <2>3. QED  BY <2>1, <2>2
<1>3. \A v \in Admins : moderators'[v].pc \in Pcs
  BY <1>2 DEF RequestFine, Fine, Shaped
<1>4. QED  BY <1>1, <1>2, <1>3

(* And leaves the temporary file alone. *)
LEMMA RequestStep ==
    ASSUME ModInv, NEW u \in Admins, NEW r, moderators' = [moderators EXCEPT ![u] = r],
           moderators[u].pc # "install", r.pc # "install",
           UNCHANGED <<setting, grants, issued, known, decisions, tmpfile, mnow, modStops>>,
           Shaped(r), Recent(r), Based(r), Entitled(r)
    PROVE  ModInv'
<1>1. /\ moderators'[u] = r /\ moderators' = [v \in Admins |-> moderators'[v]]
      /\ \A v \in Admins \ {u} : moderators'[v] = moderators[v]
      /\ \A v \in Admins : RequestFine(v)' /\ moderators'[v].pc \in Pcs
  BY OneRequest
<1>3. FileFresh'
  <2> SUFFICES ASSUME tmpfile' # NoFile, NEW v \in Admins, moderators'[v].pc = "install"
               PROVE  /\ tmpfile'.by \in Admins /\ moderators'[tmpfile'.by].pc = "install"
                      /\ tmpfile'.data = Over(moderators'[tmpfile'.by].new, moderators'[tmpfile'.by].base)
    BY DEF FileFresh
  <2>1. v # u /\ moderators[v].pc = "install"
    BY <1>1
  <2>2. /\ tmpfile.by \in Admins /\ moderators[tmpfile.by].pc = "install" /\ tmpfile' = tmpfile
        /\ tmpfile.data = Over(moderators[tmpfile.by].new, moderators[tmpfile.by].base)
    BY <2>1 DEF FileFresh, ModInv
  <2>3. tmpfile.by # u
    BY <2>2
  <2>4. moderators'[tmpfile.by] = moderators[tmpfile.by]
    BY <1>1, <2>2, <2>3
  <2>5. QED  BY <2>2, <2>4
<1>4. GrantsShape'
  BY DEF ModInv, GrantsShape
<1>5. ModTypeOK'
  BY <1>1 DEF ModInv, ModTypeOK, Pcs
<1>6. QED  BY <1>1, <1>3, <1>4, <1>5 DEF ModInv

LEMMA Idle == ASSUME NEW n PROVE Shaped(Request(n)) /\ Request(n).pc = "idle"
<1>1. Ids(Library) = Ids(Library)
  OBVIOUS
<1>2. QED  BY DEF Shaped, Request, Pcs

LEMMA EndStep ==
    ASSUME ModInv, NEW u \in Admins, Ends(u), moderators[u].pc # "install",
           UNCHANGED <<setting, grants, issued, known, decisions, tmpfile, mnow, modStops>>
    PROVE  ModInv'
<1>1. PICK r : r = Request(moderators[u].n)
  OBVIOUS
<1>2. Shaped(r) /\ r.pc = "idle"
  BY <1>1, Idle
<1>3. Recent(r) /\ Based(r) /\ Entitled(r)
  BY <1>2 DEF Recent, Based, HasBase, Entitled, HasDecided
<1>4. moderators' = [moderators EXCEPT ![u] = r]
  BY <1>1 DEF Ends, Becomes
<1>5. QED  BY <1>2, <1>3, <1>4, RequestStep

LEMMA BeginStep == ASSUME ModInv, NEW u \in Admins, Begin(u) PROVE ModInv'
<1>1. PICK form \in Forms :
        /\ At(u, "idle")
        /\ Becomes(u, [Request(moderators[u].n + 1) EXCEPT
                !.pc = IF form.batch THEN "load" ELSE "resolve", !.index = TheSeen.posts,
                !.batch = form.batch, !.posts = form.posts, !.action = form.action,
                !.actor = form.actor, !.reviewer = form.reviewer,
                !.since = [now |-> mnow, revocations |-> grants.revocations]])
  BY DEF Begin
<1>2. form.batch \in BOOLEAN /\ form.posts \subseteq Ids(Library)
  BY ModConstants
<1>3. PICK r : r = [Request(moderators[u].n + 1) EXCEPT
                !.pc = IF form.batch THEN "load" ELSE "resolve", !.index = TheSeen.posts,
                !.batch = form.batch, !.posts = form.posts, !.action = form.action,
                !.actor = form.actor, !.reviewer = form.reviewer,
                !.since = [now |-> mnow, revocations |-> grants.revocations]]
  OBVIOUS
<1>4. /\ Shaped(r) /\ r.pc = (IF form.batch THEN "load" ELSE "resolve") /\ r.batch = form.batch
      /\ r.since = [now |-> mnow, revocations |-> grants.revocations]
  BY <1>2, <1>3 DEF Request, Shaped, Pcs
<1>5. mnow \in Nat /\ mnow <= mnow
  BY DEF ModInv, ModTypeOK
<1>6. Recent(r) /\ Based(r) /\ Entitled(r)
  BY <1>2, <1>4, <1>5 DEF Recent, Based, HasBase, Entitled, HasDecided
<1>7. moderators' = [moderators EXCEPT ![u] = r]
  BY <1>1, <1>3 DEF Becomes
<1>8. moderators[u].pc # "install" /\ r.pc # "install"
  BY <1>1, <1>4 DEF At
<1>9. UNCHANGED <<setting, grants, issued, known, decisions, tmpfile, mnow, modStops>>
  BY DEF Begin
<1>10. QED  BY <1>4, <1>6, <1>7, <1>8, <1>9, RequestStep

(* Who may decide now was entitled to when the request began. *)
LEMMA Entitlement ==
    ASSUME ModInv, NEW l \in Labels, NEW m, NEW a, MayDecide(l, m, a),
           NEW s, s.revocations \subseteq grants.revocations, s.now \in Nat, s.now <= mnow
    PROVE  Authorised(l, m, a, s)
<1>1. CASE l = Root
  BY <1>1 DEF Authorised
<1>2. CASE l # Root
  <2>1. PICK scope \in ActionScopes(m, a) : Delegated(l, scope)
    BY <1>2 DEF MayDecide
  <2>2. Candidates(grants, Identity[l], scope, mnow) # {}
    BY <2>1 DEF Delegated, ActiveDelegation
  <2>3. PICK d \in grants.delegations :
            /\ d.child = Identity[l] /\ ScopeMatches(d, scope) /\ ~Expired(d, mnow)
            /\ ~IsRevoked(d, grants.revocations, mnow)
    BY <2>2 DEF Candidates
  <2>4. d \in issued /\ d.until \in Nat /\ mnow \in Nat
    BY DEF ModInv, ModTypeOK, GrantsShape
  <2>5. scope # <<>>
    <3>1. \A x, y, z : <<x, y, z>> # <<>>
      OBVIOUS
    <3>2. \E x, y, z : scope = <<x, y, z>>
      BY <2>1 DEF ActionScopes
    <3>3. QED  BY <3>1, <3>2
  <2>6. d.scopes = {} \/ d.scopes \cap ActionScopes(m, a) # {}
    BY <2>1, <2>3, <2>5 DEF ScopeMatches
  <2>7. d.until = 0 \/ d.until > s.now
    BY <2>3, <2>4 DEF Expired
  <2>8. ASSUME NEW v \in s.revocations, v.parent = d.parent, v.child = d.child, v.at \in d.at..s.now
        PROVE  FALSE
    <3>1. d.at <= v.at /\ v.at <= s.now /\ v.at \in Int
      BY <2>8
    <3>2. v.at <= mnow
      BY <2>4, <3>1
    <3>3. v \in grants.revocations
      OBVIOUS
    <3>4. QED  BY <2>3, <2>8, <3>1, <3>2, <3>3 DEF IsRevoked
  <2>9. QED  BY <2>3, <2>4, <2>6, <2>7, <2>8 DEF Authorised
<1>3. QED  BY <1>1, <1>2

LEMMA ResolveStep == ASSUME ModInv, NEW u \in Admins, Resolve(u) PROVE ModInv'
<1>1. PICK q : q = moderators[u]
  OBVIOUS
<1>2. q.pc = "resolve" /\ UNCHANGED <<setting, grants, issued, known, decisions, tmpfile, mnow, modStops>>
  BY <1>1 DEF Resolve, At
<1>3. Shaped(q) /\ Recent(q) /\ Based(q)
  BY <1>1 DEF ModInv, RequestFine, Fine
<1>4. CASE Ends(u)
  BY <1>1, <1>2, <1>4, EndStep
<1>5. ASSUME NEW who \in [Addressed(q) -> Labels],
             \A id \in Addressed(q) : who[id] \in ActorFor(q, PostOf(id)),
             Becomes(u, [q EXCEPT !.pc = IF q.batch THEN "write" ELSE "load",
                                  !.new = [id \in Addressed(q) |-> Decision(q, who[id])]])
      PROVE  ModInv'
  <2>1. PICK N : N = [id \in Addressed(q) |-> Decision(q, who[id])]
    OBVIOUS
  <2>2. PICK r : r = [q EXCEPT !.pc = IF q.batch THEN "write" ELSE "load", !.new = N]
    OBVIOUS
  <2>3. /\ Shaped(r) /\ r.pc = (IF q.batch THEN "write" ELSE "load") /\ r.new = N
        /\ r.base = q.base /\ r.moved = q.moved /\ r.since = q.since /\ r.batch = q.batch
    BY <1>3, <2>2 DEF Shaped, Pcs
  <2>4. Recent(r)
    BY <1>2, <1>3, <2>3 DEF Recent
  <2>5. Based(r)
    BY <1>2, <1>3, <2>3 DEF Based, HasBase
  <2>6. Entitled(r)
    <3>1. Addressed(q) \subseteq Ids(Library)
      BY <1>3 DEF Addressed, Shaped
    <3>2. DOMAIN N \subseteq Ids(Library)
      BY <2>1, <3>1
    <3>3. ASSUME NEW id \in DOMAIN N PROVE Authorised(N[id].actor, PostOf(id), N[id].action, q.since)
      <4>1. id \in Addressed(q) /\ N[id] = Decision(q, who[id])
        BY <2>1
      <4>2. N[id].actor = who[id] /\ N[id].action = q.action
        <5>1. PICK w : w = IF q.action = "route" THEN q.reviewer ELSE ""
          OBVIOUS
        <5>2. N[id] = [action |-> q.action, actor |-> who[id], reviewer |-> w]
          BY <4>1, <5>1 DEF Decision
        <5>3. QED  BY <5>2
      <4>3. who[id] \in Labels /\ MayDecide(who[id], PostOf(id), q.action)
        BY <1>5, <4>1 DEF ActorFor, Best
      <4>4. q.since.revocations \subseteq grants.revocations /\ q.since.now \in Nat /\ q.since.now <= mnow
        BY <1>2, <1>3 DEF Recent
      <4>5. QED  BY <4>2, <4>3, <4>4, Entitlement
    <3>4. QED  BY <2>3, <3>2, <3>3 DEF Entitled
  <2>7. moderators' = [moderators EXCEPT ![u] = r]
    BY <1>5, <2>1, <2>2 DEF Becomes
  <2>8. moderators[u].pc # "install" /\ r.pc # "install"
    BY <1>1, <1>2, <2>3
  <2>9. QED  BY <1>2, <2>3, <2>4, <2>5, <2>6, <2>7, <2>8, RequestStep
<1>6. \/ Ends(u)
      \/ \E who \in [Addressed(q) -> Labels] :
            /\ \A id \in Addressed(q) : who[id] \in ActorFor(q, PostOf(id))
            /\ Becomes(u, [q EXCEPT !.pc = IF q.batch THEN "write" ELSE "load",
                                    !.new = [id \in Addressed(q) |-> Decision(q, who[id])]])
  BY <1>1 DEF Resolve
<1>7. QED  BY <1>4, <1>5, <1>6

LEMMA LoadStep == ASSUME ModInv, NEW u \in Admins, LoadDecisions(u) PROVE ModInv'
<1>1. PICK q : q = moderators[u]
  OBVIOUS
<1>2. q.pc = "load" /\ UNCHANGED <<setting, grants, issued, known, decisions, tmpfile, mnow, modStops>>
  BY <1>1 DEF LoadDecisions, At
<1>3. Shaped(q) /\ Recent(q) /\ Entitled(q)
  BY <1>1 DEF ModInv, RequestFine, Fine
<1>4. PICK r : r = [q EXCEPT !.base = decisions, !.moved = {}, !.pc = IF q.batch THEN "resolve" ELSE "write"]
  OBVIOUS
<1>5. /\ Shaped(r) /\ r.pc = (IF q.batch THEN "resolve" ELSE "write") /\ r.new = q.new
      /\ r.base = decisions /\ r.since = q.since /\ r.batch = q.batch
  BY <1>3, <1>4 DEF Shaped, Pcs
<1>6. Recent(r)
  BY <1>2, <1>3, <1>5 DEF Recent
<1>7. Based(r)
  BY <1>5 DEF Based, ModInv, ModTypeOK
<1>8. Entitled(r)
  BY <1>2, <1>3, <1>5 DEF Entitled, HasDecided
<1>9. moderators' = [moderators EXCEPT ![u] = r]
  BY <1>1, <1>4 DEF LoadDecisions, Becomes
<1>10. moderators[u].pc # "install" /\ r.pc # "install"
  BY <1>1, <1>2, <1>5
<1>11. QED  BY <1>2, <1>5, <1>6, <1>7, <1>8, <1>9, <1>10, RequestStep

LEMMA WriteStep == ASSUME ModInv, NEW u \in Admins, WriteTemporary(u) PROVE ModInv'
<1>1. PICK q : q = moderators[u]
  OBVIOUS
<1>2. /\ q.pc = "write" /\ UNCHANGED <<setting, grants, issued, known, decisions, mnow, modStops>>
      /\ tmpfile' = [by |-> u, data |-> Over(q.new, q.base)]
  BY <1>1 DEF WriteTemporary, At
<1>3. Shaped(q) /\ Recent(q) /\ Based(q) /\ Entitled(q)
  BY <1>1 DEF ModInv, RequestFine, Fine
<1>4. PICK r : r = [q EXCEPT !.pc = "install"]
  OBVIOUS
<1>5. /\ Shaped(r) /\ r.pc = "install" /\ r.new = q.new /\ r.base = q.base
      /\ r.since = q.since /\ r.moved = q.moved
  BY <1>3, <1>4 DEF Shaped, Pcs
<1>6. Recent(r)
  BY <1>2, <1>3, <1>5 DEF Recent
<1>7. Based(r)
  BY <1>2, <1>3, <1>5 DEF Based, HasBase
<1>8. Entitled(r)
  BY <1>2, <1>3, <1>5 DEF Entitled, HasDecided
<1>9. moderators' = [moderators EXCEPT ![u] = r]
  BY <1>1, <1>4 DEF WriteTemporary, Becomes
<1>10. /\ moderators'[u] = r /\ moderators' = [v \in Admins |-> moderators'[v]]
       /\ \A v \in Admins : RequestFine(v)' /\ moderators'[v].pc \in Pcs
  BY <1>2, <1>5, <1>6, <1>7, <1>8, <1>9, OneRequest
<1>11. FileFresh'
  BY <1>2, <1>5, <1>10 DEF FileFresh
<1>12. GrantsShape'
  BY <1>2 DEF ModInv, GrantsShape
<1>13. ModTypeOK'
  BY <1>2, <1>10 DEF ModInv, ModTypeOK, Pcs
<1>14. QED  BY <1>10, <1>11, <1>12, <1>13 DEF ModInv

LEMMA DropStep == ASSUME ModInv, NEW u \in Admins, DropIndex(u) PROVE ModInv'
<1>1. Ends(u) /\ moderators[u].pc # "install"
      /\ UNCHANGED <<setting, grants, issued, known, decisions, tmpfile, mnow, modStops>>
  BY DEF DropIndex, At
<1>2. QED  BY <1>1, EndStep

(* What is put in place: the request it is of, and what it changes. *)
LEMMA WhatIsInstalled ==
    ASSUME ModInv, NEW u \in Admins, Install(u), tmpfile # NoFile
    PROVE  LET q == moderators[tmpfile.by] IN
           /\ tmpfile.by \in Admins /\ q.pc = "install" /\ decisions' = Over(q.new, q.base)
           /\ Based(q) /\ Entitled(q) /\ HasBase(q) /\ HasDecided(q)
<1>1. /\ tmpfile.by \in Admins /\ moderators[tmpfile.by].pc = "install"
      /\ tmpfile.data = Over(moderators[tmpfile.by].new, moderators[tmpfile.by].base)
  BY DEF ModInv, FileFresh, Install, At
<1>2. PICK q : q = moderators[tmpfile.by]
  OBVIOUS
<1>3. Based(q) /\ Entitled(q)
  BY <1>1, <1>2 DEF ModInv, RequestFine, Fine
<1>4. HasBase(q) /\ HasDecided(q)
  BY <1>1, <1>2 DEF HasBase, HasDecided
<1>5. decisions' = Over(q.new, q.base)
  BY <1>1, <1>2 DEF Install
<1>6. QED  BY <1>1, <1>2, <1>3, <1>4, <1>5

LEMMA InstallStep == ASSUME ModInv, NEW u \in Admins, Install(u) PROVE ModInv'
<1>0. moderators[u].pc = "install" /\ UNCHANGED <<setting, grants, issued, known, mnow, modStops>>
  BY DEF Install, At
<1>g. GrantsShape'
  BY <1>0 DEF ModInv, GrantsShape
<1>1. CASE tmpfile = NoFile
  <2>1. Ends(u) /\ decisions' = decisions /\ tmpfile' = tmpfile
    BY <1>1 DEF Install
  <2>2. PICK r : r = Request(moderators[u].n)
    OBVIOUS
  <2>3. Shaped(r) /\ r.pc = "idle"
    BY <2>2, Idle
  <2>4. Recent(r) /\ Based(r) /\ Entitled(r)
    BY <2>3 DEF Recent, Based, HasBase, Entitled, HasDecided
  <2>5. moderators' = [moderators EXCEPT ![u] = r]
    BY <2>1, <2>2 DEF Ends, Becomes
  <2>6. /\ moderators' = [v \in Admins |-> moderators'[v]]
        /\ \A v \in Admins : RequestFine(v)' /\ moderators'[v].pc \in Pcs
    BY <1>0, <2>1, <2>3, <2>4, <2>5, OneRequest
  <2>7. FileFresh'
    BY <1>1, <2>1 DEF FileFresh, NoFile
  <2>8. ModTypeOK'
    BY <1>0, <2>1, <2>6 DEF ModInv, ModTypeOK, Pcs
  <2>9. QED  BY <1>g, <2>6, <2>7, <2>8 DEF ModInv
<1>2. CASE tmpfile # NoFile
  <2>1. PICK by : by = moderators[tmpfile.by]
    OBVIOUS
  <2>2. /\ decisions' = Over(by.new, by.base) /\ Based(by) /\ Entitled(by) /\ HasBase(by) /\ HasDecided(by)
    BY <1>2, <2>1, WhatIsInstalled
  <2>3. DOMAIN decisions' \subseteq Ids(Library)
    <3>1. DOMAIN by.base \subseteq Ids(Library) /\ DOMAIN by.new \subseteq Ids(Library)
      BY <2>2 DEF Based, Entitled
    <3>2. DOMAIN Over(by.new, by.base) = DOMAIN by.new \cup DOMAIN by.base
      BY OverEntry
    <3>3. QED  BY <2>2, <3>1, <3>2
  <2>4. PICK C : C = Changed(tmpfile.data)
    OBVIOUS
  <2>5. \A id : Entry(decisions, id) # Entry(decisions', id) => id \in C
    <3>1. decisions' = tmpfile.data
      BY <1>2 DEF Install
    <3>2. ASSUME NEW id, id \notin DOMAIN decisions \cup DOMAIN tmpfile.data
          PROVE  Entry(decisions, id) = Entry(tmpfile.data, id)
      BY <3>2 DEF Entry
    <3>3. QED  BY <2>4, <3>1, <3>2 DEF Changed
  <2>6. tmpfile' = NoFile
    BY <1>2 DEF Install
  <2>7. moderators' = [v \in Admins |->
                 IF v = u THEN [moderators[v] EXCEPT !.pc = "invalidate"]
                 ELSE IF moderators[v].pc \in {"idle", "invalidate"} THEN moderators[v]
                 ELSE [moderators[v] EXCEPT !.moved = moderators[v].moved \cup C]]
    BY <1>2, <2>4 DEF Install
  <2>8. ASSUME NEW v \in Admins PROVE RequestFine(v)'
    <3>1. PICK q : q = moderators[v]
      OBVIOUS
    <3>2. Shaped(q) /\ Recent(q) /\ Based(q) /\ Entitled(q)
      BY <3>1 DEF ModInv, RequestFine, Fine
    <3>3. PICK r : r = moderators'[v]
      OBVIOUS
    <3>4. /\ Shaped(r) /\ r.since = q.since /\ r.new = q.new /\ r.base = q.base /\ r.batch = q.batch
          /\ (r.pc = q.pc \/ (r.pc = "invalidate" /\ q.pc = "install")) /\ q.moved \subseteq r.moved
          /\ (r.pc = q.pc /\ q.pc \notin {"idle", "invalidate"} => C \subseteq r.moved)
      <4>1. CASE v = u
        <5>1. r = [q EXCEPT !.pc = "invalidate"] /\ q.pc = "install"
          BY <1>0, <2>7, <3>1, <3>3, <4>1
        <5>2. QED  BY <3>2, <5>1 DEF Shaped, Pcs
      <4>2. CASE v # u /\ q.pc \in {"idle", "invalidate"}
        <5>1. r = q
          BY <2>7, <3>1, <3>3, <4>2
        <5>2. QED  BY <3>2, <4>2, <5>1
      <4>3. CASE v # u /\ q.pc \notin {"idle", "invalidate"}
        <5>1. PICK M : M = q.moved \cup C
          OBVIOUS
        <5>2. r = [q EXCEPT !.moved = M]
          BY <2>7, <3>1, <3>3, <4>3, <5>1
        <5>3. QED  BY <3>2, <5>1, <5>2 DEF Shaped
      <4>4. QED  BY <4>1, <4>2, <4>3
    <3>5. Recent(r)'
      BY <1>0, <3>2, <3>4 DEF Recent
    <3>6. Based(r)'
      <4>1. SUFFICES ASSUME HasBase(r), NEW id, Entry(r.base, id) # Entry(decisions', id)
                     PROVE  DOMAIN r.base \subseteq Ids(Library) /\ id \in r.moved
        <5>1. HasBase(r) => DOMAIN r.base \subseteq Ids(Library)
          BY <3>2, <3>4 DEF Based, HasBase
        <5>2. QED  BY <5>1 DEF Based, Entry
      <4>2. HasBase(q) /\ r.pc = q.pc /\ q.pc \notin {"idle", "invalidate"}
        BY <3>4, <4>1 DEF HasBase
      <4>3. C \subseteq r.moved /\ DOMAIN q.base \subseteq Ids(Library)
        BY <3>2, <3>4, <4>2 DEF Based
      <4>4. CASE Entry(q.base, id) # Entry(decisions, id)
        BY <3>2, <3>4, <4>2, <4>3, <4>4 DEF Based
      <4>5. CASE Entry(q.base, id) = Entry(decisions, id)
        BY <2>5, <3>4, <4>1, <4>3, <4>5
      <4>6. QED  BY <4>4, <4>5
    <3>7. Entitled(r)'
      <4>1. Entitled(r)
        BY <3>2, <3>4 DEF Entitled, HasDecided
      <4>2. QED  BY <1>0, <4>1, AuthorisedStays DEF Entitled
    <3>8. QED  BY <3>3, <3>4, <3>5, <3>6, <3>7 DEF RequestFine, Fine, Recent, Based, Entitled
  <2>9. FileFresh'
    BY <2>6 DEF FileFresh
  <2>10. ModTypeOK'
    <3>1. \A v \in Admins : moderators'[v].pc \in Pcs
      BY <2>8 DEF RequestFine, Fine, Shaped
    <3>2. QED  BY <1>0, <2>3, <2>6, <3>1 DEF ModInv, ModTypeOK, Pcs, NoFile
  <2>11. moderators' = [v \in Admins |-> moderators'[v]]
    BY <2>7
  <2>12. QED  BY <1>g, <2>8, <2>9, <2>10, <2>11 DEF ModInv
<1>3. QED  BY <1>1, <1>2

(* A step that touches no request, no decision and no temporary file. *)
LEMMA FilesStep ==
    ASSUME ModInv, UNCHANGED <<decisions, tmpfile, moderators>>, ModTypeOK', GrantsShape',
           grants.revocations \subseteq grants'.revocations, issued \subseteq issued', mnow <= mnow'
    PROVE  ModInv'
<1>1. mnow' \in Nat
  BY DEF ModTypeOK
<1>2. \A v \in Admins : RequestFine(v)'
  BY <1>1, RequestStays
<1>3. FileFresh' /\ moderators' = [v \in Admins |-> moderators'[v]]
  BY DEF ModInv, FileFresh
<1>4. QED  BY <1>2, <1>3 DEF ModInv

LEMMA QuietStep ==
    ASSUME ModInv, BuildIndex \/ Second \/ \E p \in SavedPolicies : SavePolicy(p)
    PROVE  ModInv'
<1>1. UNCHANGED <<decisions, tmpfile, moderators, grants, issued, known, modStops>>
  BY DEF BuildIndex, Second, SavePolicy
<1>2. mnow \in Nat /\ mnow' \in 1..MaxModTime /\ mnow <= mnow'
  <2>1. mnow' = mnow \/ (mnow < MaxModTime /\ mnow' = mnow + 1)
    BY DEF BuildIndex, Second, SavePolicy
  <2>2. mnow \in 1..MaxModTime /\ MaxModTime \in Nat
    BY ModBounds DEF ModInv, ModTypeOK
  <2>3. QED  BY <2>1, <2>2
<1>3. setting' \in Settings \cup {[s EXCEPT !.policy = p] : s \in Moderated,
                                   p \in {[q EXCEPT !.trust = "exact"] : q \in SavedPolicies}}
  <2>1. CASE UNCHANGED setting
    BY <2>1 DEF ModInv, ModTypeOK
  <2>2. ASSUME NEW p \in SavedPolicies, SavePolicy(p)
        PROVE  setting' \in {[s EXCEPT !.policy = q] : s \in Moderated,
                                   q \in {[r EXCEPT !.trust = "exact"] : r \in SavedPolicies}}
    <3>1. PICK w : w = [p EXCEPT !.trust = "exact"]
      OBVIOUS
    <3>2. setting \in Moderated /\ setting' = [setting EXCEPT !.policy = w]
      BY <2>2, <3>1 DEF SavePolicy
    <3>3. w \in {[r EXCEPT !.trust = "exact"] : r \in SavedPolicies}
      BY <3>1
    <3>4. PICK W : W = {[r EXCEPT !.trust = "exact"] : r \in SavedPolicies}
      OBVIOUS
    <3>5. \E s \in Moderated, q \in W : setting' = [s EXCEPT !.policy = q]
      BY <3>2, <3>3, <3>4
    <3>6. setting' \in {[s EXCEPT !.policy = q] : s \in Moderated, q \in W}
      BY <3>5
    <3>7. QED  BY <3>4, <3>6
  <2>3. QED  BY <2>1, <2>2 DEF BuildIndex, Second
<1>4. ModTypeOK'
  BY <1>1, <1>2, <1>3 DEF ModInv, ModTypeOK
<1>5. GrantsShape'
  BY <1>1 DEF ModInv, GrantsShape
<1>6. QED  BY <1>1, <1>2, <1>4, <1>5, FilesStep

LEMMA ReviewerStep ==
    ASSUME ModInv, NEW l \in Reviewers, CreateReviewer(l) \/ Delegate(l) \/ Revoke(l)
    PROVE  ModInv'
<1>1. UNCHANGED <<decisions, tmpfile, moderators, setting, mnow, modStops>>
  BY DEF CreateReviewer, Delegate, Revoke
<1>2. mnow \in Nat /\ mnow <= mnow'
  BY <1>1 DEF ModInv, ModTypeOK
<1>3. known' \subseteq Reviewers
  BY DEF CreateReviewer, Delegate, Revoke, ModInv, ModTypeOK
<1>4. PICK D, V : grants = [delegations |-> D, revocations |-> V]
  BY DEF ModInv, GrantsShape
<1>5. /\ D \subseteq issued /\ IsFiniteSet(D)
      /\ \A d \in D : d.until \in Nat /\ d.at \in Nat
      /\ \A v \in V : v.at \in Nat
  BY <1>4 DEF ModInv, ModTypeOK, GrantsShape
<1>6. ASSUME Issues(l)
      PROVE  GrantsShape' /\ grants'.delegations \subseteq issued' /\ issued \subseteq issued'
             /\ grants.revocations \subseteq grants'.revocations
  <2>1. PICK scopes \in ScopeSets, until \in {0, mnow + 1} :
          /\ grants' = [grants EXCEPT !.delegations = Grant(l, scopes, until)]
          /\ issued' = issued \cup grants'.delegations
    BY <1>6 DEF Issues
  <2>2. PICK G : G = Grant(l, scopes, until)
    OBVIOUS
  <2>3. grants' = [delegations |-> G, revocations |-> V]
    BY <1>4, <2>1, <2>2
  <2>4. until \in Nat
    BY <1>2, <2>1
  <2>5. \A d \in G : d.until \in Nat /\ d.at \in Nat
    <3>1. \A d \in G : d \in D \/ d = [parent |-> Identity[Root], child |-> Identity[l], scopes |-> scopes,
                                       at |-> mnow, until |-> until]
      BY <1>4, <2>2 DEF Grant
    <3>2. QED  BY <1>2, <1>5, <2>4, <3>1
  <2>6. IsFiniteSet(G)
    <3>1. PICK d : d = [parent |-> Identity[Root], child |-> Identity[l], scopes |-> scopes,
                        at |-> mnow, until |-> until]
      OBVIOUS
    <3>2. G \subseteq D \cup {d}
      BY <1>4, <2>2, <3>1 DEF Grant
    <3>3. QED  BY <1>5, <3>2, FS_AddElement, FS_Subset
  <2>7. QED  BY <1>4, <1>5, <2>1, <2>3, <2>5, <2>6 DEF GrantsShape
<1>7. ASSUME UNCHANGED <<grants, issued>>
      PROVE  GrantsShape' /\ grants'.delegations \subseteq issued' /\ issued \subseteq issued'
             /\ grants.revocations \subseteq grants'.revocations
  BY <1>4, <1>5, <1>7 DEF GrantsShape
<1>8. ASSUME Revoke(l)
      PROVE  GrantsShape' /\ grants'.delegations \subseteq issued' /\ issued \subseteq issued'
             /\ grants.revocations \subseteq grants'.revocations
  <2>1. PICK W : W = V \cup {[parent |-> Identity[Root], child |-> Identity[l], at |-> mnow]}
    OBVIOUS
  <2>2. grants' = [delegations |-> D, revocations |-> W] /\ issued' = issued
    BY <1>4, <1>8, <2>1 DEF Revoke
  <2>3. \A v \in W : v.at \in Nat
    BY <1>2, <1>5, <2>1
  <2>4. QED  BY <1>4, <1>5, <2>1, <2>2, <2>3 DEF GrantsShape
<1>9. GrantsShape' /\ grants'.delegations \subseteq issued' /\ issued \subseteq issued'
      /\ grants.revocations \subseteq grants'.revocations
  BY <1>6, <1>7, <1>8 DEF CreateReviewer, Delegate
<1>10. ModTypeOK'
  BY <1>1, <1>3, <1>9 DEF ModInv, ModTypeOK
<1>11. QED  BY <1>1, <1>2, <1>9, <1>10, FilesStep

LEMMA StopStep == ASSUME ModInv, ModStop PROVE ModInv'
<1>1. UNCHANGED <<setting, grants, issued, known, decisions, tmpfile, mnow>>
      /\ moderators' = [u \in Admins |-> Request(moderators[u].n)]
  BY DEF ModStop
<1>2. modStops' \in 0..MaxModStops
  <2>1. modStops' = modStops + 1 /\ modStops < MaxModStops
    BY DEF ModStop
  <2>2. MaxModStops \in Nat /\ modStops \in 0..MaxModStops
    BY ModBounds DEF ModInv, ModTypeOK
  <2>3. QED  BY <2>1, <2>2
<1>3. ASSUME NEW v \in Admins PROVE RequestFine(v)' /\ moderators'[v].pc = "idle"
  <2>1. PICK r : r = moderators'[v]
    OBVIOUS
  <2>2. Shaped(r) /\ r.pc = "idle"
    BY <1>1, <2>1, Idle
  <2>3. Recent(r)' /\ Based(r)' /\ Entitled(r)'
    BY <2>2 DEF Recent, Based, HasBase, Entitled, HasDecided
  <2>4. QED  BY <2>1, <2>2, <2>3 DEF RequestFine, Fine, Recent, Based, Entitled
<1>4. moderators' = [u \in Admins |-> moderators'[u]]
  BY <1>1
<1>5. FileFresh'
  BY <1>3 DEF FileFresh
<1>6. ModTypeOK'
  BY <1>1, <1>2, <1>3 DEF ModInv, ModTypeOK
<1>7. GrantsShape'
  BY <1>1 DEF ModInv, GrantsShape
<1>8. QED  BY <1>3, <1>4, <1>5, <1>6, <1>7 DEF ModInv

LEMMA ModStarts == ModInit => ModInv
<1> SUFFICES ASSUME ModInit PROVE ModInv
  OBVIOUS
<1>1. setting \in Settings /\ grants \in FirstGrants /\ issued = grants.delegations
      /\ known = {} /\ decisions = <<>> /\ tmpfile = NoFile /\ mnow = 1
      /\ moderators = [u \in Admins |-> Request(0)] /\ modStops = 0
  BY DEF ModInit
<1>2. GrantsShape
  BY <1>1, ModConstants DEF GrantsShape
<1>3. ASSUME NEW v \in Admins PROVE RequestFine(v) /\ moderators[v].pc = "idle"
  <2>1. PICK r : r = moderators[v]
    OBVIOUS
  <2>2. Shaped(r) /\ r.pc = "idle"
    BY <1>1, <2>1, Idle
  <2>3. Recent(r) /\ Based(r) /\ Entitled(r)
    BY <2>2 DEF Recent, Based, HasBase, Entitled, HasDecided
  <2>4. QED  BY <2>1, <2>2, <2>3 DEF RequestFine, Fine
<1>4. ModTypeOK
  <2>1. mnow \in 1..MaxModTime /\ modStops \in 0..MaxModStops
    BY <1>1, ModBounds
  <2>2. DOMAIN decisions = {}
    BY <1>1
  <2>3. QED  BY <1>1, <1>3, <2>1, <2>2 DEF ModTypeOK, NoFile
<1>5. FileFresh
  BY <1>1 DEF FileFresh
<1>6. moderators = [u \in Admins |-> moderators[u]]
  BY <1>1
<1>7. QED  BY <1>2, <1>3, <1>4, <1>5, <1>6 DEF ModInv

LEMMA ModStep == ModInv /\ [ModNext]_modvars => ModInv'
<1> SUFFICES ASSUME ModInv, [ModNext]_modvars PROVE ModInv'
  OBVIOUS
<1>1. CASE UNCHANGED modvars
  <2>1. UNCHANGED <<setting, grants, issued, known, decisions, tmpfile, mnow, moderators, modStops>>
    BY <1>1 DEF modvars
  <2>2. ModTypeOK' /\ GrantsShape'
    BY <2>1 DEF ModInv, ModTypeOK, GrantsShape
  <2>3. mnow <= mnow'
    BY <2>1 DEF ModInv, ModTypeOK
  <2>4. QED  BY <2>1, <2>2, <2>3, FilesStep
<1>2. CASE BuildIndex \/ Second \/ \E p \in SavedPolicies : SavePolicy(p)
  BY <1>2, QuietStep
<1>3. CASE ModStop
  BY <1>3, StopStep
<1>4. CASE \E u \in Admins : Begin(u) \/ Resolve(u) \/ LoadDecisions(u) \/ WriteTemporary(u) \/ Install(u) \/ DropIndex(u)
  BY <1>4, BeginStep, ResolveStep, LoadStep, WriteStep, InstallStep, DropStep
<1>5. CASE \E l \in Reviewers : CreateReviewer(l) \/ Delegate(l) \/ Revoke(l)
  BY <1>5, ReviewerStep
<1>6. QED  BY <1>1, <1>2, <1>3, <1>4, <1>5 DEF ModNext

(* What requests have read and decided stays true until they put it in place: the
   decisions they know are the ones on file but for those made since, what they decided
   they were entitled to decide, and the temporary file holds what the request that wrote
   it last decided (aip2pcontent/handler.go:717, moderation.go SaveModerationDecisions). *)
THEOREM ModInvariant == ModSpec => []ModInv
<1> QED  BY ModStarts, ModStep, PTL DEF ModSpec

(* The types of the files and of the requests (aip2pcontent/handler.go, moderation.go). *)
THEOREM ModTypes == ModSpec => []ModTypeOK
<1>1. ModInv => ModTypeOK
  BY DEF ModInv
<1>2. QED  BY <1>1, ModInvariant, PTL

(* Only a rename changes the decisions. *)
LEMMA OnlyInstalls ==
    ASSUME [ModNext]_modvars, decisions' # decisions
    PROVE  tmpfile # NoFile /\ \E u \in Admins : Install(u)
<1>1. UNCHANGED modvars => decisions' = decisions
  BY DEF modvars
<1>2. \A u \in Admins : ~Begin(u) /\ ~Resolve(u) /\ ~LoadDecisions(u) /\ ~WriteTemporary(u) /\ ~DropIndex(u)
  BY DEF Begin, Resolve, LoadDecisions, WriteTemporary, DropIndex
<1>3. /\ ~BuildIndex /\ ~Second /\ ~ModStop /\ \A p \in SavedPolicies : ~SavePolicy(p)
      /\ \A l \in Reviewers : ~CreateReviewer(l) /\ ~Delegate(l) /\ ~Revoke(l)
  BY DEF BuildIndex, Second, ModStop, SavePolicy, CreateReviewer, Delegate, Revoke
<1>4. PICK u \in Admins : Install(u)
  BY <1>1, <1>2, <1>3 DEF ModNext
<1>5. QED  BY <1>4 DEF Install

(* No request undoes a decision it did not know of, unless it decides that post, although
   all write one temporary file and rename what another has written: for any number of
   users, posts and stops (aip2pcontent/handler.go:717, moderation.go). *)
THEOREM DecisionsStickHolds == ModSpec => DecisionsStick
<1>1. ASSUME ModInv, [ModNext]_modvars
      PROVE  decisions' # decisions =>
               LET q == moderators[tmpfile.by]
               IN \A id \in Ids(Library) :
                    Entry(decisions', id) # Entry(decisions, id) => id \in DOMAIN q.new \cup q.moved
  <2> SUFFICES ASSUME decisions' # decisions, NEW id \in Ids(Library),
                      Entry(decisions', id) # Entry(decisions, id),
                      id \notin DOMAIN moderators[tmpfile.by].new
               PROVE  id \in moderators[tmpfile.by].moved
    OBVIOUS
  <2>1. PICK u \in Admins : Install(u) /\ tmpfile # NoFile
    BY <1>1, OnlyInstalls
  <2>2. PICK q : q = moderators[tmpfile.by]
    OBVIOUS
  <2>3. decisions' = Over(q.new, q.base) /\ Based(q) /\ HasBase(q)
    BY <1>1, <2>1, <2>2, WhatIsInstalled
  <2>4. Entry(decisions', id) = Entry(q.base, id)
    <3>1. id \notin DOMAIN q.new
      BY <2>2
    <3>2. Entry(Over(q.new, q.base), id) = Entry(q.base, id)
      BY <3>1, OverElsewhere
    <3>3. PICK d : d = Over(q.new, q.base)
      OBVIOUS
    <3>4. QED  BY <2>3, <3>2, <3>3 DEF Entry
  <2>5. QED  BY <2>2, <2>3, <2>4 DEF Based
<1>2. QED  BY <1>1, ModInvariant, PTL DEF ModSpec, DecisionsStick

(* Every decision is made by the root identity or under a delegation for that post that was
   in force when the request came, whatever is delegated and revoked while it runs
   (handler.go authorizedModerationIdentities, delegation.go ActiveDelegationFor). *)
THEOREM DecisionsAreAuthorisedHolds == ModSpec => DecisionsAreAuthorised
<1>1. ASSUME ModInv, [ModNext]_modvars
      PROVE  decisions' # decisions =>
               LET q == moderators[tmpfile.by]
               IN \A id \in DOMAIN q.new \cap DOMAIN decisions' :
                    Authorised(decisions'[id].actor, PostOf(id), decisions'[id].action, q.since)
  <2> SUFFICES ASSUME decisions' # decisions, NEW id \in DOMAIN moderators[tmpfile.by].new
               PROVE  Authorised(decisions'[id].actor, PostOf(id), decisions'[id].action, moderators[tmpfile.by].since)
    OBVIOUS
  <2>1. PICK u \in Admins : Install(u) /\ tmpfile # NoFile
    BY <1>1, OnlyInstalls
  <2>2. PICK q : q = moderators[tmpfile.by]
    OBVIOUS
  <2>3. decisions' = Over(q.new, q.base) /\ Entitled(q) /\ HasDecided(q)
    BY <1>1, <2>1, <2>2, WhatIsInstalled
  <2>4. decisions'[id] = q.new[id]
    BY <2>2, <2>3, OverEntry
  <2>5. QED  BY <2>2, <2>3, <2>4 DEF Entitled
<1>2. QED  BY <1>1, ModInvariant, PTL DEF ModSpec, DecisionsAreAuthorised

-----------------------------------------------------------------------------
(* The sessions of a live room. *)

Infos == [title : {No, "t"}, creator : People \cup {No}, key : People \cup {No}]
Kinds == {"announce", "join", "heartbeat", "message", "task", "leave", "notice"}
Phases == {"out", "started", "joined", "running", "leaving", "archiving", "noticing", "gone"}
Spoken == [by : People, kind : Kinds, n : Nat, info : Infos, archive : People \cup {No}]
Sessions == [pc : Phases, info : Infos, typing : SUBSET Spoken, said : SUBSET Spoken, n : Nat, asked : BOOLEAN,
             knew : BOOLEAN]
Ending == {"leaving", "archiving", "noticing"}

(* What each variable of the sessions is. *)
SessionShape ==
    /\ session \in [People -> Sessions] /\ room \in [Nodes -> Infos]
    /\ log \in [Nodes -> SUBSET Spoken] /\ air \subseteq [event : Spoken, to : Nodes]
    /\ archive \in [Nodes -> People \cup {No}] /\ sessionStops \in 0..MaxSessionStops

(* A session that is not over holds in its log all it said but the line being typed, and
   one that was asked to leave types nothing. *)
WordsOf(p) ==
    LET s == session[p] IN
    /\ s.pc # "gone" => s.said \subseteq log[p] \cup s.typing
    /\ \A e, f \in s.typing : e = f
    /\ \A e \in s.typing : e.by = p
    /\ s.asked => s.pc \in Ending \cup {"gone"}
    /\ s.asked /\ s.pc \in Ending => s.typing = {}

(* Before a session begins the room on its machine is unknown or a host's; after that the
   key it knows is a host's or its own. *)
KeyOf(p) ==
    /\ session[p].pc = "out" => /\ session[p] = Out
                                /\ room[p] \in {NoInfo} \cup {OwnInfo(h) : h \in Hosts}
    /\ session[p].pc # "out" => session[p].info.key \in Hosts \cup {p}

(* So is the key in what is told of the room; only hosts announce. *)
TellsHostOrOwn(d) ==
    /\ d.event.kind \in {"announce", "notice"} /\ d.to # d.event.by
    /\ d.event.info.key \in Hosts \cup {d.event.by}
    /\ d.event.kind = "announce" => d.event.by \in Hosts

SessionInv ==
    /\ SessionShape
    /\ \A p \in People : WordsOf(p) /\ KeyOf(p)
    /\ \A d \in air : TellsHostOrOwn(d)
    /\ ArchiveHoldsOwnWords

-----------------------------------------------------------------------------
LEMMA OutShape == Out \in Sessions /\ Out.pc = "out" /\ NoInfo \in Infos
<1>1. NoInfo \in Infos
  BY DEF NoInfo, Infos
<1>2. {} \subseteq Spoken
  OBVIOUS
<1>3. Out \in Sessions
  <2>1. ASSUME NEW words \in SUBSET Spoken
        PROVE  [pc |-> "out", info |-> NoInfo, typing |-> words, said |-> words, n |-> 0, asked |-> FALSE,
                knew |-> FALSE] \in Sessions
    BY <1>1 DEF Sessions, Phases
  <2>2. QED  BY <1>2, <2>1, Zenon DEF Out
<1>4. QED  BY <1>1, <1>3 DEF Out

LEMMA OwnShape == ASSUME NEW p \in People PROVE OwnInfo(p) \in Infos /\ OwnInfo(p).key = p
BY DEF OwnInfo, Infos, No

LEMMA MergeShape ==
    ASSUME NEW a \in Infos, NEW b \in Infos
    PROVE  /\ MergeInfo(a, b) \in Infos
           /\ MergeInfo(a, b).key = FirstGiven(a.key, b.key)
BY DEF MergeInfo, Infos, FirstGiven, No

LEMMA NoIsNobody == No \notin People
BY SessionConstants DEF No, Nodes

(* What is signed is of the shape of events, and its key is the session's. *)
LEMMA SignedShape ==
    ASSUME SessionInv, NEW p \in People, NEW kind \in Kinds
    PROVE  /\ Signed(p, kind) \in Spoken
           /\ Signed(p, kind).by = p /\ Signed(p, kind).kind = kind
           /\ Signed(p, kind).info = session[p].info
           /\ session[p].pc # "out" => Signed(p, kind).info.key \in Hosts \cup {p}
<1>1. /\ session[p] \in Sessions /\ archive[p] \in People \cup {No}
  BY DEF SessionInv, SessionShape, Nodes
<1>2. /\ session[p].n \in Nat /\ session[p].info \in Infos
  BY <1>1 DEF Sessions
<1>3. session[p].n + 1 \in Nat
  BY <1>2
<1>4. Signed(p, kind) \in Spoken
  BY <1>1, <1>2, <1>3 DEF Signed, Spoken
<1>5. QED  BY <1>4 DEF Signed, SessionInv, KeyOf

(* A step of one session: the others keep what they have. *)
LEMMA SessionFrame ==
    ASSUME SessionInv, SessionShape', NEW p \in People,
           \A q \in People \ {p} : /\ session'[q] = session[q] /\ log[q] \subseteq log'[q]
                                   /\ session[q].pc = "out" => room'[q] = room[q],
           WordsOf(p)', KeyOf(p)', posted' = posted,
           \A d \in air' : d \in air \/ TellsHostOrOwn(d)
    PROVE  SessionInv'
<1>1. ASSUME NEW q \in People PROVE WordsOf(q)' /\ KeyOf(q)'
  <2>1. CASE q = p
    BY <2>1
  <2>2. CASE q # p
    <3>1. WordsOf(q) /\ KeyOf(q)
      BY DEF SessionInv
    <3>2. session'[q] = session[q] /\ log[q] \subseteq log'[q]
          /\ (session[q].pc = "out" => room'[q] = room[q])
      BY <2>2
    <3>3. WordsOf(q)'
      BY <3>1, <3>2 DEF WordsOf
    <3>4. KeyOf(q)'
      BY <3>1, <3>2 DEF KeyOf
    <3>5. QED  BY <3>3, <3>4
  <2>3. QED  BY <2>1, <2>2
<1>2. \A d \in air' : TellsHostOrOwn(d)
  BY DEF SessionInv
<1>3. ArchiveHoldsOwnWords'
  BY DEF SessionInv, ArchiveHoldsOwnWords
<1>4. QED  BY <1>1, <1>2, <1>3 DEF SessionInv

(* What a session tells of the room. *)
LEMMA Told ==
    ASSUME SessionInv, NEW p \in People, NEW e \in Spoken, Tell({e}), e.by = p,
           e.kind \in {"announce", "notice"}, e.info.key \in Hosts \cup {p},
           e.kind = "announce" => p \in Hosts
    PROVE  /\ air' \subseteq [event : Spoken, to : Nodes]
           /\ \A d \in air' : d \in air \/ TellsHostOrOwn(d)
<1>1. air \subseteq [event : Spoken, to : Nodes]
  BY DEF SessionInv, SessionShape
<1>2. air' = air \cup {[event |-> f, to |-> m] : f \in {e}, m \in Nodes \ {p}}
  BY DEF Tell
<1>3. \A d \in air' : d \in air \/ \E m \in Nodes \ {p} : d = [event |-> e, to |-> m]
  BY <1>2
<1>4. ASSUME NEW m \in Nodes \ {p} PROVE [event |-> e, to |-> m] \in [event : Spoken, to : Nodes]
  OBVIOUS
<1>5. ASSUME NEW d, NEW m \in Nodes \ {p}, d = [event |-> e, to |-> m] PROVE TellsHostOrOwn(d)
  BY <1>5 DEF TellsHostOrOwn
<1>6. QED  BY <1>1, <1>3, <1>4, <1>5

LEMMA HeardShape ==
    ASSUME SessionInv, NEW e \in Spoken, Heard(e)
    PROVE  /\ log' \in [Nodes -> SUBSET Spoken] /\ e \in log'[e.by]
           /\ \A m \in Nodes : log[m] \subseteq log'[m]
<1>1. log \in [Nodes -> SUBSET Spoken] /\ e.by \in Nodes
  BY DEF SessionInv, SessionShape, Spoken, Nodes
<1>2. QED  BY <1>1 DEF Heard

(* publishControl, in whatever phase of a session that began. *)
LEMMA ControlStep ==
    ASSUME SessionInv, NEW p \in People, NEW kind \in Kinds, NEW to \in Phases,
           Control(p, kind, to), session[p].pc \notin {"out", "gone"}, to # "out",
           session[p].asked => to \in Ending \cup {"gone"},
           UNCHANGED <<room, posted, archive, wanted, sessionStops>>
    PROVE  SessionInv'
<1> DEFINE e == Signed(p, kind)
<1>0. p \in Nodes /\ session \in [People -> Sessions] /\ session[p] \in Sessions
  BY DEF SessionInv, SessionShape, Nodes
<1>1. e \in Spoken /\ e.by = p
  BY SignedShape
<1>2. Heard(e) /\ session' = [Said(p, e) EXCEPT ![p].pc = to]
  BY DEF Control
<1>3. PICK r : r = [session[p] EXCEPT !.n = @ + 1, !.said = @ \cup {e}, !.pc = to]
  OBVIOUS
<1> HIDE DEF e
<1>4. session' = [session EXCEPT ![p] = r]
  BY <1>0, <1>2, <1>3 DEF Said, Sessions
<1>5. r.n \in Nat /\ r.said = session[p].said \cup {e} /\ r.pc = to /\ r.typing = session[p].typing
      /\ r.asked = session[p].asked /\ r.info = session[p].info
  BY <1>0, <1>3 DEF Sessions
<1>6. r \in Sessions
  <2>1. PICK b \in Sessions : b = session[p]
    BY <1>0
  <2>2. b.n + 1 \in Nat /\ b.said \cup {e} \in SUBSET Spoken
    BY <1>1 DEF Sessions
  <2>3. r = [b EXCEPT !.n = b.n + 1, !.said = b.said \cup {e}, !.pc = to]
    BY <1>3, <2>1
  <2>4. PICK n, said : n = b.n + 1 /\ said = b.said \cup {e}
    OBVIOUS
  <2>5. n \in Nat /\ said \in SUBSET Spoken /\ r = [b EXCEPT !.n = n, !.said = said, !.pc = to]
    BY <2>2, <2>3, <2>4
  <2>6. QED  BY <2>5 DEF Sessions
<1>7. session'[p] = r /\ \A q \in People \ {p} : session'[q] = session[q]
  BY <1>0, <1>4
<1>8. /\ log' \in [Nodes -> SUBSET Spoken] /\ e \in log'[p]
      /\ \A m \in Nodes : log[m] \subseteq log'[m]
  BY <1>1, <1>2, HeardShape
<1>9. /\ air' \subseteq [event : Spoken, to : Nodes]
      /\ \A d \in air' : d \in air \/ TellsHostOrOwn(d)
  <2>1. CASE p \in Hosts /\ kind = "heartbeat"
    <3>1. Tell({Signed(p, "announce")})
      BY <2>1 DEF Control
    <3>2. PICK a : a = Signed(p, "announce")
      OBVIOUS
    <3>3. /\ Signed(p, "announce") \in Spoken
          /\ Signed(p, "announce").by = p /\ Signed(p, "announce").kind = "announce"
          /\ session[p].pc # "out" => Signed(p, "announce").info.key \in Hosts \cup {p}
      BY SignedShape DEF Kinds
    <3>4. QED  <4>1. /\ a \in Spoken /\ a.by = p /\ a.kind = "announce" /\ Tell({a})
                /\ a.info.key \in Hosts \cup {p}
            BY <3>1, <3>2, <3>3
          <4>2. QED  BY <2>1, <4>1, Told
  <2>2. CASE ~(p \in Hosts /\ kind = "heartbeat")
    <3>1. air' = air
      BY <2>2 DEF Control
    <3>2. QED  BY <3>1 DEF SessionInv, SessionShape
  <2>3. QED  BY <2>1, <2>2
<1>10. SessionShape'
  <2>1. session' \in [People -> Sessions]
    BY <1>0, <1>4, <1>6
  <2>2. QED  BY <2>1, <1>8, <1>9 DEF SessionInv, SessionShape
<1>11. WordsOf(p) /\ KeyOf(p)
  BY DEF SessionInv
<1>12. WordsOf(p)'
  BY <1>0, <1>5, <1>7, <1>8, <1>11 DEF WordsOf, Ending
<1>13. KeyOf(p)'
  BY <1>5, <1>7, <1>11 DEF KeyOf
<1>14. \A q \in People \ {p} : /\ session'[q] = session[q] /\ log[q] \subseteq log'[q]
                               /\ session[q].pc = "out" => room'[q] = room[q]
  BY <1>7, <1>8 DEF Nodes
<1>15. QED  BY <1>9, <1>10, <1>12, <1>13, <1>14, SessionFrame

(* A session that only changes its own record. *)
LEMMA OwnRecordStep ==
    ASSUME SessionInv, NEW p \in People, NEW r \in Sessions, session' = [session EXCEPT ![p] = r],
           r.pc # "out", r.info = session[p].info, session[p].pc # "out",
           UNCHANGED <<room, posted, archive, air>>, sessionStops' \in 0..MaxSessionStops,
           log' \in [Nodes -> SUBSET Spoken], \A m \in Nodes : log[m] \subseteq log'[m],
           WordsOf(p)'
    PROVE  SessionInv'
<1>1. session \in [People -> Sessions] /\ p \in Nodes
  BY DEF SessionInv, SessionShape, Nodes
<1>2. session'[p] = r /\ session' \in [People -> Sessions]
      /\ \A q \in People \ {p} : session'[q] = session[q]
  BY <1>1
<1>3. SessionShape'
  BY <1>2 DEF SessionInv, SessionShape
<1>4. KeyOf(p)'
  BY <1>2 DEF SessionInv, KeyOf
<1>5. \A q \in People \ {p} : /\ session'[q] = session[q] /\ log[q] \subseteq log'[q]
                              /\ session[q].pc = "out" => room'[q] = room[q]
  BY <1>2 DEF Nodes
<1>6. QED  BY <1>3, <1>4, <1>5, SessionFrame

LEMMA RunningStep ==
    ASSUME SessionInv, NEW p \in People,
           \/ JoinRoom(p) \/ Heartbeat(p) \/ PublishTaskUpdate(p) \/ Leave(p)
    PROVE  SessionInv'
<1>0. session[p].asked => session[p].pc \in Ending \cup {"gone"}
  BY DEF SessionInv, WordsOf
<1>1. CASE JoinRoom(p)
  <2>1. session[p].pc = "started" /\ Control(p, "join", "joined")
        /\ UNCHANGED <<room, posted, archive, wanted, sessionStops>>
    BY <1>1 DEF JoinRoom
  <2>2. "join" \in Kinds /\ "joined" \in Phases /\ ~session[p].asked
    BY <1>0, <2>1 DEF Kinds, Phases, Ending
  <2>3. QED  BY <2>1, <2>2, ControlStep
<1>2. CASE Heartbeat(p)
  <2>1. session[p].pc \in {"joined", "running"} /\ Control(p, "heartbeat", "running")
        /\ UNCHANGED <<room, posted, archive, wanted, sessionStops>>
    BY <1>2 DEF Heartbeat
  <2>2. "heartbeat" \in Kinds /\ "running" \in Phases /\ ~session[p].asked
    BY <1>0, <2>1 DEF Kinds, Phases, Ending
  <2>3. QED  BY <2>1, <2>2, ControlStep
<1>3. CASE PublishTaskUpdate(p)
  <2>1. session[p].pc = "running" /\ Control(p, "task", "leaving")
        /\ UNCHANGED <<room, posted, archive, wanted, sessionStops>>
    BY <1>3 DEF PublishTaskUpdate
  <2>2. "task" \in Kinds /\ "leaving" \in Phases /\ ~session[p].asked
    BY <1>0, <2>1 DEF Kinds, Phases, Ending
  <2>3. QED  BY <2>1, <2>2, ControlStep
<1>4. CASE Leave(p)
  <2>1. PICK to \in {"archiving", "gone"} : Control(p, "leave", to)
    BY <1>4 DEF Leave
  <2>2. session[p].pc = "leaving" /\ UNCHANGED <<room, posted, archive, wanted, sessionStops>>
    BY <1>4 DEF Leave
  <2>3. "leave" \in Kinds /\ to \in Phases /\ to \in Ending \cup {"gone"} /\ to # "out"
    BY DEF Kinds, Phases, Ending
  <2>4. QED  BY <2>1, <2>2, <2>3, ControlStep
<1>5. QED  BY <1>1, <1>2, <1>3, <1>4

LEMMA StartStep ==
    ASSUME SessionInv, NEW p \in People, StartSession(p)
    PROVE  SessionInv'
<1>0. p \in Nodes /\ session \in [People -> Sessions] /\ room \in [Nodes -> Infos]
      /\ log \in [Nodes -> SUBSET Spoken] /\ Hosts \subseteq People
  BY DEF SessionInv, SessionShape, Nodes, People
<1>1. PICK info : info = IF p \in Hosts THEN OwnInfo(p) ELSE MergeRoomInfo(room[p], OwnInfo(p))
  OBVIOUS
<1>2. /\ session[p] = Out
      /\ session' = [session EXCEPT ![p] = [Out EXCEPT !.pc = "started", !.info = info, !.knew = room[p].key # No]]
      /\ IF p \in Hosts
         THEN SaveRoomAuthoritative(p, info) /\ Tell({[Signed(p, "announce") EXCEPT !.info = info]})
         ELSE SaveRoom(p, info) /\ UNCHANGED air
      /\ UNCHANGED <<log, posted, archive, wanted, sessionStops>>
  BY <1>1 DEF StartSession
<1>3. info \in Infos /\ info.key \in Hosts \cup {p}
  <2>1. CASE p \in Hosts
    BY <1>1, <2>1, OwnShape
  <2>2. CASE p \notin Hosts
    <3>1. room[p] \in {NoInfo} \cup {OwnInfo(h) : h \in Hosts}
      BY <1>2, OutShape DEF SessionInv, KeyOf
    <3>2. room[p].key \in Hosts \cup {No}
      BY <1>0, <3>1, OwnShape DEF NoInfo
    <3>3. info \in Infos /\ info.key = FirstGiven(room[p].key, p)
      BY <1>0, <1>1, <2>2, OwnShape, MergeShape DEF MergeRoomInfo
    <3>4. QED  BY <3>2, <3>3 DEF FirstGiven
  <2>3. QED  BY <2>1, <2>2
<1>k. PICK knew \in BOOLEAN : knew = (room[p].key # No)
  OBVIOUS
<1>4. PICK r : r = [Out EXCEPT !.pc = "started", !.info = info, !.knew = room[p].key # No]
  OBVIOUS
<1>5. /\ r \in Sessions /\ r.pc = "started" /\ r.info = info /\ r.typing = {} /\ r.said = {}
      /\ r.asked = FALSE
  <2>1. PICK out \in Sessions : out = Out
    BY OutShape
  <2>2. r = [out EXCEPT !.pc = "started", !.info = info, !.knew = knew]
    BY <1>k, <1>4, <2>1
  <2>3. r \in Sessions
    BY <1>3, <2>2 DEF Sessions, Phases
  <2>4. QED  BY <1>4, <2>3 DEF Out
<1>6. session' = [session EXCEPT ![p] = r]
  BY <1>2, <1>4
<1>7. session'[p] = r /\ session' \in [People -> Sessions]
      /\ \A q \in People \ {p} : session'[q] = session[q]
  BY <1>0, <1>5, <1>6
<1>8. /\ room' \in [Nodes -> Infos] /\ \A q \in People \ {p} : room'[q] = room[q]
  <2>1. CASE p \in Hosts
    BY <1>0, <1>2, <1>3, <2>1, MergeShape DEF SaveRoomAuthoritative, MergeRoomInfoAuthoritative, Nodes
  <2>2. CASE p \notin Hosts
    BY <1>0, <1>2, <1>3, <2>2, MergeShape DEF SaveRoom, MergeRoomInfo, Nodes
  <2>3. QED  BY <2>1, <2>2
<1>9. /\ air' \subseteq [event : Spoken, to : Nodes]
      /\ \A d \in air' : d \in air \/ TellsHostOrOwn(d)
  <2>1. CASE p \in Hosts
    <3>1. PICK s \in Spoken : s = Signed(p, "announce")
      BY SignedShape DEF Kinds
    <3>2. s.by = p /\ s.kind = "announce"
      BY <3>1, SignedShape DEF Kinds
    <3>3. PICK a : a = [s EXCEPT !.info = info]
      OBVIOUS
    <3>4. a \in Spoken /\ a.by = p /\ a.kind = "announce" /\ a.info = info
      BY <1>3, <3>2, <3>3 DEF Spoken
    <3>5. Tell({a})
      BY <1>2, <2>1, <3>1, <3>3
    <3>6. QED  BY <1>3, <2>1, <3>4, <3>5, Told
  <2>2. CASE p \notin Hosts
    BY <1>2, <2>2 DEF SessionInv, SessionShape
  <2>3. QED  BY <2>1, <2>2
<1>10. SessionShape'
  BY <1>2, <1>7, <1>8, <1>9 DEF SessionInv, SessionShape
<1>11. WordsOf(p)' /\ KeyOf(p)'
  BY <1>3, <1>5, <1>7 DEF WordsOf, KeyOf
<1>12. \A q \in People \ {p} : /\ session'[q] = session[q] /\ log[q] \subseteq log'[q]
                               /\ session[q].pc = "out" => room'[q] = room[q]
  BY <1>2, <1>7, <1>8
<1>13. QED  BY <1>2, <1>9, <1>10, <1>11, <1>12, SessionFrame

LEMMA TypingStep ==
    ASSUME SessionInv, NEW p \in People, PublishMessage(p) \/ AppendMessage(p)
    PROVE  SessionInv'
<1>0. /\ p \in Nodes /\ session \in [People -> Sessions] /\ session[p] \in Sessions
      /\ sessionStops \in 0..MaxSessionStops /\ log \in [Nodes -> SUBSET Spoken]
  BY DEF SessionInv, SessionShape, Nodes
<1>w. WordsOf(p) /\ KeyOf(p)
  BY DEF SessionInv
<1>1. CASE PublishMessage(p)
  <2>1. PICK e \in Spoken : e = Signed(p, "message") /\ e.by = p
    BY SignedShape DEF Kinds
  <2>2. /\ session[p].pc = "running" /\ session[p].typing = {}
        /\ session' = [Said(p, e) EXCEPT ![p].typing = {e}]
        /\ UNCHANGED <<room, log, air, posted, archive, wanted, sessionStops>>
    BY <1>1, <2>1 DEF PublishMessage
  <2>3. PICK r : r = [session[p] EXCEPT !.n = @ + 1, !.said = @ \cup {e}, !.typing = {e}]
    OBVIOUS
  <2>4. session' = [session EXCEPT ![p] = r]
    BY <1>0, <2>2, <2>3 DEF Said, Sessions
  <2>5. /\ r.said = session[p].said \cup {e} /\ r.pc = "running" /\ r.typing = {e}
        /\ r.asked = session[p].asked /\ r.info = session[p].info
    BY <1>0, <2>2, <2>3 DEF Sessions
  <2>6. r \in Sessions
    <3>1. PICK b \in Sessions : b = session[p]
      BY <1>0
    <3>2. b.n + 1 \in Nat /\ b.said \cup {e} \in SUBSET Spoken /\ {e} \in SUBSET Spoken
      BY DEF Sessions
    <3>3. r = [b EXCEPT !.n = b.n + 1, !.said = b.said \cup {e}, !.typing = {e}]
      BY <2>3, <3>1
    <3>4. PICK n, said, one : n = b.n + 1 /\ said = b.said \cup {e} /\ one = {e}
      OBVIOUS
    <3>5. n \in Nat /\ said \in SUBSET Spoken /\ one \in SUBSET Spoken
          /\ r = [b EXCEPT !.n = n, !.said = said, !.typing = one]
      BY <3>2, <3>3, <3>4
    <3>6. QED  BY <3>5 DEF Sessions
  <2>7. session'[p] = r
    BY <1>0, <2>4
  <2>8. WordsOf(p)'
    BY <1>w, <2>1, <2>2, <2>5, <2>7 DEF WordsOf, Ending
  <2>9. QED  BY <1>0, <2>2, <2>4, <2>5, <2>6, <2>8, OwnRecordStep
<1>2. CASE AppendMessage(p)
  <2>1. PICK e \in session[p].typing : Heard(e)
    BY <1>2 DEF AppendMessage
  <2>2. /\ session' = [session EXCEPT ![p].typing = {}]
        /\ UNCHANGED <<room, air, posted, archive, wanted, sessionStops>>
    BY <1>2 DEF AppendMessage
  <2>3. e \in Spoken /\ e.by = p /\ session[p].typing = {e}
    BY <1>0, <1>w, <2>1 DEF WordsOf, Sessions
  <2>4. /\ log' \in [Nodes -> SUBSET Spoken] /\ e \in log'[p]
        /\ \A m \in Nodes : log[m] \subseteq log'[m]
    BY <2>1, <2>3, HeardShape
  <2>5. PICK r : r = [session[p] EXCEPT !.typing = {}]
    OBVIOUS
  <2>6. /\ r \in Sessions /\ r.typing = {} /\ r.said = session[p].said /\ r.pc = session[p].pc
        /\ r.asked = session[p].asked /\ r.info = session[p].info
    BY <1>0, <2>5 DEF Sessions
  <2>7. session' = [session EXCEPT ![p] = r] /\ session'[p] = r
    BY <1>0, <2>2, <2>5
  <2>8. session[p].pc # "out"
    BY <1>w, <2>1 DEF KeyOf, Out
  <2>9. WordsOf(p)'
    <3>1. \A x \in session[p].said : session[p].pc # "gone" => x \in log'[p]
      BY <1>0, <1>w, <2>3, <2>4 DEF WordsOf
    <3>2. QED  BY <1>w, <2>6, <2>7, <3>1 DEF WordsOf
  <2>10. QED  BY <1>0, <2>2, <2>4, <2>6, <2>7, <2>8, <2>9, OwnRecordStep
<1>3. QED  BY <1>1, <1>2

LEMMA EndingStep ==
    ASSUME SessionInv, NEW p \in People, ExitRequested(p) \/ Interrupted(p) \/ StopSession(p)
    PROVE  SessionInv'
<1>0. /\ p \in Nodes /\ session \in [People -> Sessions] /\ session[p] \in Sessions
      /\ sessionStops \in 0..MaxSessionStops /\ log \in [Nodes -> SUBSET Spoken]
  BY DEF SessionInv, SessionShape, Nodes
<1>w. WordsOf(p)
  BY DEF SessionInv
<1>1. CASE ExitRequested(p)
  <2>1. /\ session[p].pc = "running" /\ session[p].typing = {}
        /\ session' = [session EXCEPT ![p].pc = "leaving", ![p].asked = TRUE]
        /\ UNCHANGED <<room, log, air, posted, archive, wanted, sessionStops>>
    BY <1>1 DEF ExitRequested, AsksToLeave
  <2>2. PICK r : r = [session[p] EXCEPT !.pc = "leaving", !.asked = TRUE]
    OBVIOUS
  <2>3. /\ r \in Sessions /\ r.typing = session[p].typing /\ r.said = session[p].said
        /\ r.pc = "leaving" /\ r.asked = TRUE /\ r.info = session[p].info
    BY <1>0, <2>2 DEF Sessions, Phases
  <2>4. session' = [session EXCEPT ![p] = r] /\ session'[p] = r
    BY <1>0, <2>1, <2>2
  <2>5. WordsOf(p)'
    BY <1>w, <2>1, <2>3, <2>4 DEF WordsOf, Ending
  <2>6. QED  BY <1>0, <2>1, <2>3, <2>4, <2>5, OwnRecordStep
<1>2. CASE Interrupted(p)
  <2>1. /\ session[p].pc = "running"
        /\ session' = [session EXCEPT ![p].pc = "leaving"]
        /\ UNCHANGED <<room, log, air, posted, archive, wanted, sessionStops>>
    BY <1>2 DEF Interrupted
  <2>2. PICK r : r = [session[p] EXCEPT !.pc = "leaving"]
    OBVIOUS
  <2>3. /\ r \in Sessions /\ r.typing = session[p].typing /\ r.said = session[p].said
        /\ r.pc = "leaving" /\ r.asked = session[p].asked /\ r.info = session[p].info
    BY <1>0, <2>2 DEF Sessions, Phases
  <2>4. session' = [session EXCEPT ![p] = r] /\ session'[p] = r
    BY <1>0, <2>1, <2>2
  <2>5. WordsOf(p)'
    BY <1>w, <2>1, <2>3, <2>4 DEF WordsOf, Ending
  <2>6. QED  BY <1>0, <2>1, <2>3, <2>4, <2>5, OwnRecordStep
<1>3. CASE StopSession(p)
  <2>1. /\ session[p].pc # "out" /\ session[p].pc # "gone"
        /\ session' = [session EXCEPT ![p].pc = "gone", ![p].typing = {}]
        /\ UNCHANGED <<room, log, air, posted, archive, wanted>>
    BY <1>3 DEF StopSession
  <2>2. sessionStops' \in 0..MaxSessionStops
    BY <1>0, <1>3, SessionConstants DEF StopSession
  <2>3. PICK r : r = [session[p] EXCEPT !.pc = "gone", !.typing = {}]
    OBVIOUS
  <2>4. /\ r \in Sessions /\ r.typing = {} /\ r.pc = "gone" /\ r.info = session[p].info
    BY <1>0, <2>3 DEF Sessions, Phases
  <2>5. session' = [session EXCEPT ![p] = r] /\ session'[p] = r
    BY <1>0, <2>1, <2>3
  <2>6. WordsOf(p)'
    BY <2>4, <2>5 DEF WordsOf, Ending
  <2>7. QED  BY <1>0, <2>1, <2>2, <2>4, <2>5, <2>6, OwnRecordStep
<1>4. QED  BY <1>1, <1>2, <1>3

LEMMA ArchiveStep ==
    ASSUME SessionInv, NEW p \in People, Archive(p)
    PROVE  SessionInv'
<1>0. /\ p \in Nodes /\ session \in [People -> Sessions] /\ session[p] \in Sessions
      /\ archive \in [Nodes -> People \cup {No}]
  BY DEF SessionInv, SessionShape, Nodes
<1>1. /\ session[p].pc = "archiving" /\ posted' = posted \cup {ArchivePost(p)}
      /\ archive' = [archive EXCEPT ![p] = p]
      /\ session' = [session EXCEPT ![p].pc = "noticing"]
      /\ UNCHANGED <<room, log, air, wanted, sessionStops>>
  BY DEF Archive
<1>2. PICK r : r = [session[p] EXCEPT !.pc = "noticing"]
  OBVIOUS
<1>3. /\ r \in Sessions /\ r.typing = session[p].typing /\ r.said = session[p].said
      /\ r.pc = "noticing" /\ r.asked = session[p].asked /\ r.info = session[p].info
  BY <1>0, <1>2 DEF Sessions, Phases
<1>4. session' = [session EXCEPT ![p] = r]
  BY <1>0, <1>1, <1>2
<1>5. session'[p] = r /\ session' \in [People -> Sessions]
      /\ \A q \in People \ {p} : session'[q] = session[q]
  BY <1>0, <1>3, <1>4
<1>6. SessionShape'
  <2>1. archive' \in [Nodes -> People \cup {No}]
    BY <1>0, <1>1
  <2>2. QED  BY <1>1, <1>5, <2>1 DEF SessionInv, SessionShape
<1>7. \A q \in People : WordsOf(q)' /\ KeyOf(q)'
  <2>1. TAKE q \in People
  <2>2. WordsOf(q) /\ KeyOf(q) /\ log' = log /\ room' = room
    BY <1>1 DEF SessionInv
  <2>3. CASE q = p
    BY <1>1, <1>3, <1>5, <2>2, <2>3 DEF WordsOf, KeyOf, Ending
  <2>4. CASE q # p
    <3>1. session'[q] = session[q]
      BY <1>5, <2>4
    <3>2. QED  BY <2>2, <3>1 DEF WordsOf, KeyOf
  <2>5. QED  BY <2>3, <2>4
<1>8. ArchiveHoldsOwnWords'
  <2>1. WordsOf(p)
    BY DEF SessionInv
  <2>2. session[p].asked => session[p].said \subseteq log[p]
    BY <1>1, <2>1 DEF WordsOf, Ending
  <2>3. ArchivePost(p).asked => ArchivePost(p).said \subseteq ArchivePost(p).events
    BY <2>2 DEF ArchivePost
  <2>4. QED  BY <1>1, <2>3 DEF SessionInv, ArchiveHoldsOwnWords
<1>9. QED  BY <1>1, <1>6, <1>7, <1>8 DEF SessionInv

LEMMA NoticeStep ==
    ASSUME SessionInv, NEW p \in People, PublishArchiveNotice(p) \/ PublishArchiveNoticeDetached(p)
    PROVE  SessionInv'
<1>0. /\ p \in Nodes /\ session \in [People -> Sessions] /\ session[p] \in Sessions
      /\ log \in [Nodes -> SUBSET Spoken]
  BY DEF SessionInv, SessionShape, Nodes
<1>w. WordsOf(p) /\ KeyOf(p)
  BY DEF SessionInv
<1>1. /\ session[p].pc = "noticing" /\ session' = [session EXCEPT ![p].pc = "gone"]
      /\ UNCHANGED <<room, posted, archive, wanted, sessionStops>>
  BY DEF PublishArchiveNotice, PublishArchiveNoticeDetached
<1>2. PICK e \in Spoken : e = Signed(p, "notice") /\ e.by = p /\ e.kind = "notice"
                          /\ e.info.key \in Hosts \cup {p}
  BY <1>1, SignedShape DEF Kinds
<1>3. PICK r : r = [session[p] EXCEPT !.pc = "gone"]
  OBVIOUS
<1>4. /\ r \in Sessions /\ r.typing = session[p].typing /\ r.pc = "gone"
      /\ r.asked = session[p].asked /\ r.info = session[p].info
  BY <1>0, <1>3 DEF Sessions, Phases
<1>5. session' = [session EXCEPT ![p] = r]
  BY <1>0, <1>1, <1>3
<1>6. session'[p] = r /\ session' \in [People -> Sessions]
      /\ \A q \in People \ {p} : session'[q] = session[q]
  BY <1>0, <1>4, <1>5
<1>7. log' \in [Nodes -> SUBSET Spoken] /\ \A m \in Nodes : log[m] \subseteq log'[m]
  <2>1. CASE PublishArchiveNotice(p)
    <3>1. log' = [log EXCEPT ![p] = @ \cup {e}]
      BY <1>2, <2>1 DEF PublishArchiveNotice
    <3>2. QED  BY <1>0, <1>2, <3>1
  <2>2. CASE PublishArchiveNoticeDetached(p)
    BY <1>0, <2>2 DEF PublishArchiveNoticeDetached
  <2>3. QED  BY <2>1, <2>2
<1>8. /\ air' \subseteq [event : Spoken, to : Nodes]
      /\ \A d \in air' : d \in air \/ TellsHostOrOwn(d)
  <2>1. CASE Tell({e})
    BY <1>2, <2>1, Told
  <2>2. CASE Tell({[e EXCEPT !.n = 1]})
    <3>1. PICK f : f = [e EXCEPT !.n = 1]
      OBVIOUS
    <3>2. f \in Spoken /\ f.by = p /\ f.kind = "notice" /\ f.info.key \in Hosts \cup {p} /\ Tell({f})
      BY <1>2, <2>2, <3>1 DEF Spoken
    <3>3. QED  BY <3>2, Told
  <2>3. CASE UNCHANGED air
    BY <2>3 DEF SessionInv, SessionShape
  <2>4. QED  BY <1>2, <2>1, <2>2, <2>3 DEF PublishArchiveNotice, PublishArchiveNoticeDetached
<1>9. SessionShape'
  BY <1>1, <1>6, <1>7, <1>8 DEF SessionInv, SessionShape
<1>10. WordsOf(p)' /\ KeyOf(p)'
  BY <1>w, <1>1, <1>4, <1>6 DEF WordsOf, KeyOf, Ending
<1>11. \A q \in People \ {p} : /\ session'[q] = session[q] /\ log[q] \subseteq log'[q]
                               /\ session[q].pc = "out" => room'[q] = room[q]
  BY <1>1, <1>6, <1>7 DEF Nodes
<1>12. QED  BY <1>1, <1>8, <1>9, <1>10, <1>11, SessionFrame

(* What a node is told is a host's key or the sender's, and it takes that one. *)
LEMMA TakenKey ==
    ASSUME SessionInv, NEW d \in air
    PROVE  /\ RoomInfoFromAnnouncement(d.event) \in Infos
           /\ RoomInfoFromAnnouncement(d.event).key \in Hosts \cup {d.event.by}
           /\ d.event.kind = "announce" => RoomInfoFromAnnouncement(d.event).key \in Hosts
           /\ RoomInfoFromAnnouncement(d.event).key \in Hosts
              \/ RoomInfoFromAnnouncement(d.event).key = d.event.info.key
           /\ RoomInfoFromAnnouncement(d.event).key # No
<1>1. d.event \in Spoken /\ TellsHostOrOwn(d)
  BY DEF SessionInv, SessionShape
<1>2. d.event.info \in Infos /\ d.event.by \in People
  BY <1>1 DEF Spoken
<1>3. Hosts \subseteq People /\ No \notin People
  BY NoIsNobody DEF People
<1>4. PICK e : e = d.event
  OBVIOUS
<1>5. e.info.key \in People
  BY <1>1, <1>2, <1>3, <1>4 DEF TellsHostOrOwn
<1>6. FirstGiven(e.info.key, e.by) = e.info.key
  BY <1>3, <1>5 DEF FirstGiven
<1>7. QED  BY <1>1, <1>2, <1>3, <1>4, <1>5, <1>6 DEF RoomInfoFromAnnouncement, TellsHostOrOwn, Infos

LEMMA DeliverStep ==
    ASSUME SessionInv, NEW d \in air, Deliver(d)
    PROVE  SessionInv'
<1>0. /\ session \in [People -> Sessions] /\ room \in [Nodes -> Infos]
      /\ log \in [Nodes -> SUBSET Spoken] /\ archive \in [Nodes -> People \cup {No}]
      /\ d.event \in Spoken /\ d.to \in Nodes /\ air' = air \ {d}
      /\ UNCHANGED <<session, posted, sessionStops>>
  BY DEF SessionInv, SessionShape, Deliver
<1>1. PICK info \in Infos : /\ info = RoomInfoFromAnnouncement(d.event)
                            /\ info.key \in Hosts \/ info.key = d.event.info.key
                            /\ info.key \in Hosts \cup {d.event.by} /\ info.key # No
  BY TakenKey
<1>2. \/ /\ d.to \in Listening \cup {Watcher}
         /\ room' = [room EXCEPT ![d.to] = MergeRoomInfoAuthoritative(room[d.to], info)]
      \/ room' = room
  BY <1>1 DEF Deliver, ReceiveAtWatcher, ReceiveAtSession, SaveRoomAuthoritative
<1>3. log' \in [Nodes -> SUBSET Spoken] /\ \A m \in Nodes : log[m] \subseteq log'[m]
  <2>1. log' = log \/ \E m \in Nodes : log' = [log EXCEPT ![m] = @ \cup {d.event}]
    BY <1>0 DEF Deliver, ReceiveAtWatcher, ReceiveAtSession, Nodes
  <2>2. QED  BY <1>0, <2>1
<1>4. archive' \in [Nodes -> People \cup {No}]
  <2>1. d.event.archive \in People \cup {No}
    BY <1>0 DEF Spoken
  <2>2. archive' = archive \/ archive' = [archive EXCEPT ![Watcher] = d.event.archive]
    BY DEF Deliver, ReceiveAtWatcher, ReceiveAtSession
  <2>3. QED  BY <1>0, <2>1, <2>2
<1>5. /\ MergeRoomInfoAuthoritative(room[d.to], info) \in Infos
      /\ MergeRoomInfoAuthoritative(room[d.to], info).key = info.key
  BY <1>0, <1>1, MergeShape DEF MergeRoomInfoAuthoritative, FirstGiven
<1>6. SessionShape'
  <2>1. room' \in [Nodes -> Infos]
    BY <1>0, <1>2, <1>5
  <2>2. QED  BY <1>0, <1>3, <1>4, <2>1 DEF SessionInv, SessionShape
<1>7. \A q \in People : WordsOf(q)' /\ KeyOf(q)'
  <2>1. TAKE q \in People
  <2>2. WordsOf(q) /\ KeyOf(q) /\ q \in Nodes /\ session' = session /\ log[q] \subseteq log'[q]
    BY <1>0, <1>3 DEF SessionInv, Nodes
  <2>3. session[q].pc = "out" => room'[q] = room[q]
    <3>1. session[q].pc = "out" => q \notin Listening \cup {Watcher}
      BY SessionConstants DEF Listening
    <3>2. QED  BY <1>0, <1>2, <2>2, <3>1
  <2>4. QED  BY <2>2, <2>3 DEF WordsOf, KeyOf
<1>8. QED  BY <1>0, <1>6, <1>7 DEF SessionInv, ArchiveHoldsOwnWords

LEMMA SessionInit0 == SessionInit => SessionInv
<1> SUFFICES ASSUME SessionInit PROVE SessionInv
  OBVIOUS
<1> USE DEF SessionInit
<1>1. Hosts \subseteq People /\ People \subseteq Nodes
  BY DEF People, Nodes
<1>2. room \in [Nodes -> Infos]
  BY <1>1, OutShape, OwnShape
<1>3. SessionShape
  BY <1>2, OutShape, SessionConstants DEF SessionShape
<1>4. ASSUME NEW p \in People PROVE WordsOf(p) /\ KeyOf(p)
  <2>1. session[p] = Out /\ room[p] \in {NoInfo} \cup {OwnInfo(h) : h \in Hosts}
    BY <1>1
  <2>2. QED  BY <2>1 DEF WordsOf, KeyOf, Out
<1>5. QED  BY <1>3, <1>4 DEF SessionInv, ArchiveHoldsOwnWords

LEMMA SessionStep ==
    ASSUME SessionInv, [SessionNext]_sessionvars
    PROVE  SessionInv'
<1>1. ASSUME UNCHANGED sessionvars PROVE SessionInv'
  <2>1. SessionShape'
    BY <1>1 DEF SessionInv, SessionShape, sessionvars
  <2>2. \A p \in People : WordsOf(p)' /\ KeyOf(p)'
    BY <1>1 DEF SessionInv, WordsOf, KeyOf, sessionvars
  <2>3. QED  BY <1>1, <2>1, <2>2 DEF SessionInv, ArchiveHoldsOwnWords, sessionvars
<1>2. QED
  BY <1>1, StartStep, RunningStep, TypingStep, EndingStep, ArchiveStep, NoticeStep, DeliverStep
     DEF SessionNext

(* What holds of the sessions of a room whoever opens it, joins, is killed, and however the
   topic delivers. *)
THEOREM SessionInvariant == SessionInit /\ [][SessionNext]_sessionvars => []SessionInv
<1>1. SessionInv /\ [SessionNext]_sessionvars => SessionInv'
  BY SessionStep
<1>2. QED  BY SessionInit0, <1>1, PTL

(* The types of the sessions of a room (live/room.go). *)
THEOREM SessionTypes == SessionInit /\ [][SessionNext]_sessionvars => []SessionTypeOK
<1>1. SessionInv => SessionTypeOK
  <2> SUFFICES ASSUME SessionInv PROVE SessionTypeOK
    OBVIOUS
  <2>1. \A m \in Nodes : room[m] \in Infos
    BY DEF SessionInv, SessionShape
  <2>2. \A d \in air : d.to \in Nodes \ {d.event.by}
    BY DEF SessionInv, SessionShape, TellsHostOrOwn
  <2>3. QED  BY <2>1, <2>2 DEF SessionInv, SessionShape, SessionTypeOK, Infos
<1>2. QED  BY <1>1, SessionInvariant, PTL

(* Who leaves with /exit archives all they said (live/room.go:331, 473, 546): for any
   number of hosts, guests and task updates. *)
THEOREM ArchiveHoldsOwnWordsHolds ==
    SessionInit /\ [][SessionNext]_sessionvars => []ArchiveHoldsOwnWords
<1>1. SessionInv => ArchiveHoldsOwnWords
  BY DEF SessionInv
<1>2. QED  BY <1>1, SessionInvariant, PTL

(* Whose key a session knows, and what is told with it: a host's, or that of somebody who
   joined as a stranger. *)
KeysHeard ==
    /\ \A p \in People : session[p].pc # "out" => session[p].info.key \in Hosts \cup Strangers
    /\ \A d \in air : d.event.info.key \in Hosts \cup Strangers

(* A step of a session that began: it keeps what it knew, and tells no more than that. *)
Keeps(p) ==
    /\ session[p].pc # "out" /\ session'[p].pc # "out"
    /\ session'[p].info = session[p].info /\ session'[p].knew = session[p].knew
    /\ \A q \in People \ {p} : session'[q] = session[q]
    /\ \A d \in air' : d \in air \/ d.event.info = session[p].info

LEMMA KeepsHeard ==
    ASSUME SessionInv, KeysHeard, NEW p \in People, Keeps(p)
    PROVE  KeysHeard'
<1>1. \A q \in People : /\ session[q].pc # "out" <=> session'[q].pc # "out"
                        /\ session[q].pc # "out" => session'[q].info = session[q].info
                        /\ session'[q].knew = session[q].knew
  BY DEF Keeps
<1>2. Strangers' = Strangers
  BY <1>1 DEF Strangers, People
<1>3. \A q \in People : session'[q].pc # "out" => session'[q].info.key \in Hosts \cup Strangers
  BY <1>1 DEF KeysHeard
<1>4. \A d \in air' : d.event.info.key \in Hosts \cup Strangers
  BY DEF KeysHeard, Keeps
<1>5. QED  BY <1>2, <1>3, <1>4 DEF KeysHeard

LEMMA ControlKeeps ==
    ASSUME SessionInv, NEW p \in People, NEW kind \in Kinds, NEW to \in Phases,
           Control(p, kind, to), session[p].pc # "out", to # "out"
    PROVE  Keeps(p)
<1>0. session \in [People -> Sessions] /\ session[p] \in Sessions
  BY DEF SessionInv, SessionShape
<1>1. PICK e : e = Signed(p, kind)
  OBVIOUS
<1>2. session' = [Said(p, e) EXCEPT ![p].pc = to] /\ e \in Spoken
  BY <1>1, SignedShape DEF Control
<1>3. PICK r : r = [session[p] EXCEPT !.n = @ + 1, !.said = @ \cup {e}, !.pc = to]
  OBVIOUS
<1>4. session' = [session EXCEPT ![p] = r]
  BY <1>0, <1>2, <1>3 DEF Said, Sessions
<1>5. r.pc = to /\ r.info = session[p].info /\ r.knew = session[p].knew
  BY <1>0, <1>3 DEF Sessions
<1>6. \A d \in air' : d \in air \/ d.event.info = session[p].info
  <2>1. Signed(p, "announce").info = session[p].info
    BY DEF Signed
  <2>2. Tell({Signed(p, "announce")}) \/ UNCHANGED air
    BY DEF Control
  <2>3. PICK a : a = Signed(p, "announce")
    OBVIOUS
  <2>4. CASE Tell({a})
    <3>1. \A d \in air' : d \in air \/ \E m \in Nodes : d = [event |-> a, to |-> m]
      BY <2>4 DEF Tell
    <3>2. QED  BY <2>1, <2>3, <3>1
  <2>5. QED  BY <2>2, <2>3, <2>4
<1>7. QED  BY <1>0, <1>4, <1>5, <1>6 DEF Keeps

LEMMA RestKeeps ==
    ASSUME SessionInv, NEW p \in People,
           \/ JoinRoom(p) \/ Heartbeat(p) \/ PublishMessage(p) \/ AppendMessage(p)
           \/ PublishTaskUpdate(p) \/ ExitRequested(p) \/ Interrupted(p) \/ Leave(p) \/ Archive(p)
           \/ PublishArchiveNotice(p) \/ PublishArchiveNoticeDetached(p) \/ StopSession(p)
    PROVE  Keeps(p)
<1>0. session \in [People -> Sessions] /\ session[p] \in Sessions
  BY DEF SessionInv, SessionShape
<1>w. WordsOf(p) /\ KeyOf(p)
  BY DEF SessionInv
(* What only changes the record of the session keeps, if it tells no more than it knew. *)
<1>r. ASSUME NEW r, session' = [session EXCEPT ![p] = r], session[p].pc # "out", r.pc # "out",
             r.info = session[p].info, r.knew = session[p].knew,
             \A d \in air' : d \in air \/ d.event.info = session[p].info
      PROVE  Keeps(p)
  BY <1>0, <1>r DEF Keeps
<1>1. CASE JoinRoom(p)
  <2>1. session[p].pc = "started" /\ Control(p, "join", "joined")
    BY <1>1 DEF JoinRoom
  <2>2. QED  BY <2>1, ControlKeeps DEF Kinds, Phases
<1>2. CASE Heartbeat(p)
  <2>1. session[p].pc \in {"joined", "running"} /\ Control(p, "heartbeat", "running")
    BY <1>2 DEF Heartbeat
  <2>2. QED  BY <2>1, ControlKeeps DEF Kinds, Phases
<1>3. CASE PublishTaskUpdate(p)
  <2>1. session[p].pc = "running" /\ Control(p, "task", "leaving")
    BY <1>3 DEF PublishTaskUpdate
  <2>2. QED  BY <2>1, ControlKeeps DEF Kinds, Phases
<1>4. CASE Leave(p)
  <2>1. PICK to \in {"archiving", "gone"} : Control(p, "leave", to)
    BY <1>4 DEF Leave
  <2>2. session[p].pc = "leaving" /\ "leave" \in Kinds /\ to \in Phases /\ to # "out"
    BY <1>4 DEF Leave, Kinds, Phases
  <2>3. QED  BY <2>1, <2>2, ControlKeeps
<1>5. CASE PublishMessage(p)
  <2>1. PICK e : e = Signed(p, "message")
    OBVIOUS
  <2>2. /\ session[p].pc = "running" /\ air' = air
        /\ session' = [Said(p, e) EXCEPT ![p].typing = {e}]
    BY <1>5, <2>1 DEF PublishMessage
  <2>3. PICK r : r = [session[p] EXCEPT !.n = @ + 1, !.said = @ \cup {e}, !.typing = {e}]
    OBVIOUS
  <2>4. session' = [session EXCEPT ![p] = r]
    BY <1>0, <2>2, <2>3 DEF Said, Sessions
  <2>5. r.pc = session[p].pc /\ r.info = session[p].info /\ r.knew = session[p].knew
    BY <1>0, <2>3 DEF Sessions
  <2>6. QED  BY <1>r, <2>2, <2>4, <2>5
<1>6. CASE AppendMessage(p)
  <2>1. session' = [session EXCEPT ![p].typing = {}] /\ air' = air /\ session[p].typing # {}
    BY <1>6 DEF AppendMessage
  <2>2. PICK r : r = [session[p] EXCEPT !.typing = {}]
    OBVIOUS
  <2>3. r.pc = session[p].pc /\ r.info = session[p].info /\ r.knew = session[p].knew
        /\ session' = [session EXCEPT ![p] = r]
    BY <1>0, <2>1, <2>2 DEF Sessions
  <2>4. session[p].pc # "out"
    BY <1>w, <2>1 DEF KeyOf, Out
  <2>5. QED  BY <1>r, <2>1, <2>3, <2>4
<1>7. CASE ExitRequested(p)
  <2>1. /\ session[p].pc = "running" /\ air' = air
        /\ session' = [session EXCEPT ![p].pc = "leaving", ![p].asked = TRUE]
    BY <1>7 DEF ExitRequested, AsksToLeave
  <2>2. PICK r : r = [session[p] EXCEPT !.pc = "leaving", !.asked = TRUE]
    OBVIOUS
  <2>3. r.pc = "leaving" /\ r.info = session[p].info /\ r.knew = session[p].knew
    BY <1>0, <2>2 DEF Sessions
  <2>4. session' = [session EXCEPT ![p] = r]
    BY <1>0, <2>1, <2>2
  <2>5. QED  BY <1>r, <2>1, <2>3, <2>4
<1>8. ASSUME NEW to \in {"leaving", "noticing", "gone"}, session' = [session EXCEPT ![p].pc = to],
             session[p].pc # "out", \A d \in air' : d \in air \/ d.event.info = session[p].info
      PROVE  Keeps(p)
  <2>1. PICK r : r = [session[p] EXCEPT !.pc = to]
    OBVIOUS
  <2>2. r.pc = to /\ r.info = session[p].info /\ r.knew = session[p].knew
    BY <1>0, <2>1 DEF Sessions
  <2>3. session' = [session EXCEPT ![p] = r]
    BY <1>0, <1>8, <2>1
  <2>4. QED  BY <1>r, <1>8, <2>2, <2>3
<1>9. CASE Interrupted(p)
  BY <1>8, <1>9 DEF Interrupted
<1>10. CASE Archive(p)
  BY <1>8, <1>10 DEF Archive
<1>11. CASE PublishArchiveNotice(p) \/ PublishArchiveNoticeDetached(p)
  <2>1. session[p].pc = "noticing" /\ session' = [session EXCEPT ![p].pc = "gone"]
    BY <1>11 DEF PublishArchiveNotice, PublishArchiveNoticeDetached
  <2>2. PICK e \in Spoken : e = Signed(p, "notice") /\ e.info = session[p].info
    BY SignedShape DEF Kinds
  <2>3. PICK f : f = [e EXCEPT !.n = 1]
    OBVIOUS
  <2>4. f.info = session[p].info
    BY <2>2, <2>3 DEF Spoken
  <2>5. ASSUME NEW g, g.info = session[p].info, Tell({g})
        PROVE  \A d \in air' : d \in air \/ d.event.info = session[p].info
    <3>1. \A d \in air' : d \in air \/ \E m \in Nodes : d = [event |-> g, to |-> m]
      BY <2>5 DEF Tell
    <3>2. QED  BY <2>5, <3>1
  <2>6. Tell({e}) \/ Tell({f}) \/ UNCHANGED air
    BY <1>11, <2>2, <2>3 DEF PublishArchiveNotice, PublishArchiveNoticeDetached
  <2>7. \A d \in air' : d \in air \/ d.event.info = session[p].info
    BY <2>2, <2>4, <2>5, <2>6
  <2>8. QED  BY <1>8, <2>1, <2>7
<1>12. CASE StopSession(p)
  <2>1. /\ session[p].pc # "out" /\ air' = air
        /\ session' = [session EXCEPT ![p].pc = "gone", ![p].typing = {}]
    BY <1>12 DEF StopSession
  <2>2. PICK r : r = [session[p] EXCEPT !.pc = "gone", !.typing = {}]
    OBVIOUS
  <2>3. r.pc = "gone" /\ r.info = session[p].info /\ r.knew = session[p].knew
    BY <1>0, <2>2 DEF Sessions
  <2>4. session' = [session EXCEPT ![p] = r]
    BY <1>0, <2>1, <2>2
  <2>5. QED  BY <1>r, <2>1, <2>3, <2>4
<1>13. QED
  BY <1>1, <1>2, <1>3, <1>4, <1>5, <1>6, <1>7, <1>9, <1>10, <1>11, <1>12

(* Who joins takes the key that is known, or is a stranger. *)
LEMMA StartHeard ==
    ASSUME SessionInv, KeysHeard, NEW p \in People, StartSession(p)
    PROVE  KeysHeard'
<1>0. p \in Nodes /\ session \in [People -> Sessions] /\ room[p] \in Infos
  BY DEF SessionInv, SessionShape, Nodes
<1>1. PICK info : info = IF p \in Hosts THEN OwnInfo(p) ELSE MergeRoomInfo(room[p], OwnInfo(p))
  OBVIOUS
<1>2. /\ session[p] = Out
      /\ session' = [session EXCEPT ![p] = [Out EXCEPT !.pc = "started", !.info = info, !.knew = room[p].key # No]]
      /\ IF p \in Hosts THEN Tell({[Signed(p, "announce") EXCEPT !.info = info]}) ELSE UNCHANGED air
  BY <1>1 DEF StartSession
<1>3. PICK r : r = [Out EXCEPT !.pc = "started", !.info = info, !.knew = room[p].key # No]
  OBVIOUS
<1>4. r.pc = "started" /\ r.info = info /\ (r.knew <=> room[p].key # No)
  BY <1>3 DEF Out
<1>5. session' = [session EXCEPT ![p] = r]
  BY <1>2, <1>3
<1>6. session'[p] = r /\ \A q \in People \ {p} : session'[q] = session[q]
  BY <1>0, <1>5
<1>7. session[p].pc = "out" /\ room[p].key \in Hosts \cup {No}
  <2>1. session[p].pc = "out"
    BY <1>2, OutShape
  <2>2. room[p] \in {NoInfo} \cup {OwnInfo(h) : h \in Hosts}
    BY <2>1 DEF SessionInv, KeyOf
  <2>3. QED  BY <2>1, <2>2, OwnShape DEF NoInfo, People
<1>8. Strangers \subseteq Strangers'
  BY <1>6, <1>7 DEF Strangers, People
<1>9. info.key \in Hosts \cup Strangers'
  <2>1. CASE p \in Hosts
    BY <1>1, <2>1, OwnShape
  <2>2. CASE p \notin Hosts
    <3>1. info.key = FirstGiven(room[p].key, p)
      BY <1>0, <1>1, <2>2, OwnShape, MergeShape DEF MergeRoomInfo
    <3>2. CASE room[p].key # No
      BY <1>7, <3>1, <3>2 DEF FirstGiven
    <3>3. CASE room[p].key = No
      <4>1. p \in Strangers'
        BY <1>4, <1>6, <2>2, <3>3 DEF Strangers, People
      <4>2. QED  BY <3>1, <3>3, <4>1 DEF FirstGiven
    <3>4. QED  BY <3>2, <3>3
  <2>3. QED  BY <2>1, <2>2
<1>10. \A d \in air' : d \in air \/ d.event.info = info
  <2>1. PICK s \in Spoken : s = Signed(p, "announce")
    BY SignedShape DEF Kinds
  <2>2. PICK a : a = [s EXCEPT !.info = info]
    OBVIOUS
  <2>3. a.info = info /\ (Tell({a}) \/ UNCHANGED air)
    BY <1>2, <2>1, <2>2 DEF Spoken
  <2>4. \A d \in air' : d \in air \/ \E m \in Nodes : d = [event |-> a, to |-> m]
    BY <2>3 DEF Tell
  <2>5. QED  BY <2>3, <2>4
<1>11. \A q \in People : session'[q].pc # "out" => session'[q].info.key \in Hosts \cup Strangers'
  BY <1>4, <1>6, <1>8, <1>9 DEF KeysHeard
<1>12. \A d \in air' : d.event.info.key \in Hosts \cup Strangers'
  BY <1>8, <1>9, <1>10 DEF KeysHeard
<1>13. QED  BY <1>11, <1>12 DEF KeysHeard

LEMMA HeardStep ==
    ASSUME SessionInv, KeysHeard, [SessionNext]_sessionvars
    PROVE  KeysHeard'
<1>1. ASSUME UNCHANGED session, \A d \in air' : d \in air PROVE KeysHeard'
  BY <1>1 DEF KeysHeard, Strangers
<1>2. CASE UNCHANGED sessionvars
  BY <1>1, <1>2 DEF sessionvars
<1>3. ASSUME NEW d \in air, Deliver(d) PROVE KeysHeard'
  <2>1. UNCHANGED session /\ air' = air \ {d}
    BY <1>3 DEF Deliver
  <2>2. QED  BY <1>1, <2>1
<1>4. ASSUME NEW p \in People,
             \/ JoinRoom(p) \/ Heartbeat(p) \/ PublishMessage(p) \/ AppendMessage(p)
             \/ PublishTaskUpdate(p) \/ ExitRequested(p) \/ Interrupted(p) \/ Leave(p) \/ Archive(p)
             \/ PublishArchiveNotice(p) \/ PublishArchiveNoticeDetached(p) \/ StopSession(p)
      PROVE  KeysHeard'
  BY <1>4, RestKeeps, KeepsHeard
<1>5. QED  BY <1>2, <1>3, <1>4, StartHeard DEF SessionNext

(* What a delivery writes is a host's key, or a stranger's. *)
LEMMA DeliveredKey ==
    ASSUME SessionInv, KeysHeard, NEW d \in air, Deliver(d), NEW m \in Nodes, room[m].key \in Hosts
    PROVE  room'[m].key \in Hosts \cup Strangers
<1>0. room \in [Nodes -> Infos] /\ d.to \in Nodes
  BY DEF SessionInv, SessionShape
<1>1. PICK info \in Infos : /\ info = RoomInfoFromAnnouncement(d.event)
                            /\ info.key \in Hosts \/ info.key = d.event.info.key
                            /\ info.key # No
  BY TakenKey
<1>2. \/ room' = [room EXCEPT ![d.to] = MergeRoomInfoAuthoritative(room[d.to], info)]
      \/ room' = room
  BY <1>1 DEF Deliver, ReceiveAtWatcher, ReceiveAtSession, SaveRoomAuthoritative
<1>3. MergeRoomInfoAuthoritative(room[d.to], info).key = info.key
  BY <1>0, <1>1, MergeShape DEF MergeRoomInfoAuthoritative, FirstGiven
<1>4. info.key \in Hosts \cup Strangers
  BY <1>1 DEF KeysHeard
<1>5. QED  BY <1>0, <1>2, <1>3, <1>4

(* Where the key of a room is a host's it stays a host's, but for that of somebody who
   joined when nothing had told their store whose room it is (live/room.go:243,
   discovery.go:206, notices.go:19). *)
THEOREM KeyFollowsHostHolds == SessionInit /\ [][SessionNext]_sessionvars => KeyFollowsHost
<1>0. SessionInit => KeysHeard
  BY OutShape DEF SessionInit, KeysHeard
<1>1. ASSUME SessionInv, KeysHeard, [SessionNext]_sessionvars
      PROVE  [\A m \in Nodes : room[m].key \in Hosts => room'[m].key \in Hosts \cup Strangers]_sessionvars
  <2>1. ASSUME NEW p \in People, StartSession(p), NEW m \in Nodes, room[m].key \in Hosts
        PROVE  room'[m].key \in Hosts
    <3>0. room \in [Nodes -> Infos] /\ p \in Nodes /\ room[m] \in Infos /\ Hosts \subseteq People
      <4>1. room \in [Nodes -> Infos]
        BY <1>1 DEF SessionInv, SessionShape
      <4>2. p \in Nodes
        BY DEF Nodes
      <4>3. Hosts \subseteq People
        BY DEF People
      <4>4. QED  BY <4>1, <4>2, <4>3
    <3>1. CASE p \in Hosts
      <4>1. room' = [room EXCEPT ![p] = MergeRoomInfoAuthoritative(@, OwnInfo(p))]
        BY <2>1, <3>1 DEF StartSession, SaveRoomAuthoritative
      <4>2. MergeRoomInfoAuthoritative(room[p], OwnInfo(p)).key = p
        BY <3>0, OwnShape, MergeShape, NoIsNobody DEF MergeRoomInfoAuthoritative, FirstGiven
      <4>3. QED  BY <2>1, <3>0, <3>1, <4>1, <4>2
    <3>2. CASE p \notin Hosts
      <4>1. PICK info : info = MergeRoomInfo(room[p], OwnInfo(p))
        OBVIOUS
      <4>2. info \in Infos /\ room' = [room EXCEPT ![p] = MergeRoomInfo(@, info)]
        BY <2>1, <3>0, <3>2, <4>1, OwnShape, MergeShape DEF StartSession, SaveRoom, MergeRoomInfo
      <4>3. MergeRoomInfo(room[p], info).key = FirstGiven(room[p].key, info.key)
        BY <3>0, <4>2, MergeShape DEF MergeRoomInfo
      <4>4. room[p].key \in Hosts => MergeRoomInfo(room[p], info).key = room[p].key
        BY <3>0, <4>3, NoIsNobody DEF FirstGiven
      <4>5. QED  BY <2>1, <3>0, <4>2, <4>4
    <3>3. QED  BY <3>1, <3>2
  <2>2. ASSUME NEW p \in People,
               \/ JoinRoom(p) \/ Heartbeat(p) \/ PublishMessage(p) \/ AppendMessage(p)
               \/ PublishTaskUpdate(p) \/ ExitRequested(p) \/ Interrupted(p) \/ Leave(p) \/ Archive(p)
               \/ PublishArchiveNotice(p) \/ PublishArchiveNoticeDetached(p) \/ StopSession(p)
        PROVE  room' = room
    BY <2>2 DEF JoinRoom, Heartbeat, PublishMessage, AppendMessage, PublishTaskUpdate, ExitRequested,
                Interrupted, Leave, Archive, PublishArchiveNotice, PublishArchiveNoticeDetached, StopSession
  <2>3. QED  BY <1>1, <2>1, <2>2, DeliveredKey DEF SessionNext
<1>2. SessionInv /\ KeysHeard /\ [SessionNext]_sessionvars => KeysHeard'
  BY HeardStep
<1>3. QED  BY <1>0, <1>1, <1>2, SessionInvariant, PTL DEF KeyFollowsHost

-----------------------------------------------------------------------------
(* The cache of announcements. *)

Index == lists[IndexList]
Documents == {Document(n) : n \in Cached}
Steps == {"none", "count", "range", "read", "remove"}
Trims == [step : Steps, excess : Nat, oldest : SUBSET Cached, read : SUBSET Cached]
Active == {g \in Cachers : cacher[g].step # "none"}
Trimming == {g \in Cachers : cacher[g].step \in {"range", "read", "remove"}}

CacheShape ==
    /\ lives \in [ListKeys \cup Documents -> 0..TTL]
    /\ lists \in [ListKeys -> SUBSET Cached] /\ IsFiniteSet(Index)
    /\ cacher \in [Cachers -> Trims] /\ IsFiniteSet(Active)
    /\ \A g \in Cachers : cacher[g].step = "range" => cacher[g].excess > 0
    /\ cuts \in Nat

(* No list expires before the documents it lists. *)
DocumentsListed ==
    \A n \in Cached : lives[Document(n)] > 0 =>
        \A k \in ListsOf(n) : n \in lists[k] /\ lives[Document(n)] <= lives[k]

(* What is left of the index when the trim of x is done is at most b, if nothing comes. *)
LeavesAtMost(x, b) ==
    IF cacher[x].step = "range" THEN Cardinality(Index) <= cacher[x].excess + b
                                ELSE Cardinality(Index \ cacher[x].oldest) <= b
Room(S) == MaxCached + cuts + Cardinality(Active \ S)
(* Of any trims that have counted, the last to count leaves no more than the limit and
   what the others may have added since. *)
TrimsSuffice ==
    /\ Cardinality(Index) <= Room({})
    /\ \A S \in SUBSET Trimming : S # {} => \E x \in S : LeavesAtMost(x, Room(S))

CacheInv == CacheShape /\ DocumentsListed /\ TrimsSuffice
-----------------------------------------------------------------------------
(* A set of numbers has a least one. *)
LEMMA LeastNumber ==
  ASSUME NEW T, T \subseteq Nat, T # {}
  PROVE  \E x \in T : \A y \in T : x <= y
<1> DEFINE Below(n) == 0..(n - 1)
           B == {Below(n) : n \in T}
<1>1. \A n \in T : Below(n) \in FiniteSubsetsOf(Nat)
  <2> SUFFICES ASSUME NEW n \in T PROVE Below(n) \in FiniteSubsetsOf(Nat)
    OBVIOUS
  <2>1. n \in Nat /\ n - 1 \in Int
    OBVIOUS
  <2>2. IsFiniteSet(0..(n - 1))
    BY <2>1, FS_Interval
  <2>3. 0..(n - 1) \subseteq Nat
    BY <2>1
  <2> QED BY <2>2, <2>3 DEF FiniteSubsetsOf
<1>2. B \subseteq FiniteSubsetsOf(Nat) /\ B # {}
  BY <1>1
<1>3. PICK b \in B : \A c \in B : ~(<<c, b>> \in StrictSubsetOrdering(Nat))
  <2> HIDE DEF B
  <2> QED BY <1>2, FS_StrictSubsetOrderingWellFounded, WFMin
<1>4. PICK x \in T : b = Below(x)
  OBVIOUS
<1>5. ASSUME NEW y \in T, ~(x <= y) PROVE FALSE
  <2>1. x \in Nat /\ y \in Nat /\ y < x
    BY <1>5
  <2>2. Below(y) \subseteq Below(x) /\ y \in Below(x) /\ y \notin Below(y)
    BY <2>1
  <2>3. Below(y) \in SUBSET Nat /\ Below(x) \in SUBSET Nat
    BY <2>1
  <2>4. <<Below(y), Below(x)>> \in StrictSubsetOrdering(Nat)
    <3> HIDE DEF Below
    <3> QED BY <2>2, <2>3 DEF StrictSubsetOrdering
  <2> QED BY <1>3, <1>4, <2>4
<1> QED BY <1>5

(* The n oldest of a finite set: what is left is n less, or nothing. *)
LEMMA OldestLeave ==
    ASSUME NEW S, S \subseteq Nat, IsFiniteSet(S), NEW n \in Nat, NEW b \in Nat,
           Cardinality(S) <= n + b
    PROVE  Cardinality(S \ {m \in S : Cardinality({l \in S : l < m}) < n}) <= b
<1> DEFINE Below(m) == {l \in S : l < m}
           O == {m \in S : Cardinality(Below(m)) < n}
<1>1. CASE S \ O = {}
  <2>1. Cardinality(S \ O) = 0
    BY <1>1, FS_EmptySet
  <2>2. QED  BY <2>1
<1>2. CASE S \ O # {}
  <2>1. PICK z \in S \ O : \A y \in S \ O : z <= y
    BY <1>2, LeastNumber
  <2>2. Below(z) \subseteq O
    <3> SUFFICES ASSUME NEW l \in S, l < z PROVE l \in O
      OBVIOUS
    <3>1. l \in Nat /\ z \in Nat
      BY <2>1
    <3>2. ~(z <= l)
      BY <3>1
    <3>3. QED  BY <2>1, <3>2
  <2>3. /\ IsFiniteSet(O) /\ Cardinality(O) <= Cardinality(S) /\ Cardinality(O) \in Nat
        /\ Cardinality(S) \in Nat
    BY FS_Subset, FS_CardinalityType
  <2>4. Cardinality(Below(z)) \in Nat /\ Cardinality(Below(z)) <= Cardinality(O)
    BY <2>2, <2>3, FS_Subset, FS_CardinalityType
  <2>5. ~(Cardinality(Below(z)) < n)
    BY <2>1
  <2>6. Cardinality(S \ O) = Cardinality(S) - Cardinality(S \cap O)
    BY FS_Difference
  <2>7. S \cap O = O
    OBVIOUS
  <2>8. Cardinality(S \ O) = Cardinality(S) - Cardinality(O)
    BY <2>6, <2>7
  <2> HIDE DEF O, Below
  <2>9. Cardinality(S \ O) <= b
    BY <2>3, <2>4, <2>5, <2>8
  <2>10. QED  BY <2>9 DEF O, Below
<1>3. QED  BY <1>1, <1>2

LEMMA KeysApart ==
    /\ IndexList \in ListKeys
    /\ \A n \in Cached : ListsOf(n) \subseteq ListKeys /\ IndexList \in ListsOf(n)
    /\ \A n : Document(n) \notin ListKeys
    /\ \A n, m : Document(n) = Document(m) => n = m
<1>1. \A n \in Cached : ListsOf(n) \subseteq ListKeys
  BY DEF ListsOf, ListKeys
<1>2. \A n : Document(n) # IndexList
  BY DEF Document, IndexList
<1>3. \A n, x : Document(n) # <<"channel", x>> /\ Document(n) # <<"topic", x>>
  BY DEF Document
<1>4. \A n : Document(n) \notin ListKeys
  BY <1>2, <1>3 DEF ListKeys
<1>5. QED  BY <1>1, <1>4 DEF ListKeys, ListsOf, Document

(* The types of what the steps change. *)
LEMMA CacheTypes ==
    ASSUME CacheShape
    PROVE  /\ \A n \in Cached : Document(n) \in DOMAIN lives /\ lives[Document(n)] \in 0..TTL
           /\ \A k \in ListKeys : lives[k] \in 0..TTL /\ lists[k] \subseteq Cached
           /\ DOMAIN lives = ListKeys \cup Documents
           /\ Index \subseteq Nat /\ Index \subseteq Cached
           /\ \A S : IsFiniteSet(Active \ S) /\ Cardinality(Active \ S) \in Nat
           /\ \A S : IsFiniteSet(Index \ S) /\ Cardinality(Index \ S) \in Nat
           /\ Cardinality(Index) \in Nat /\ TTL \in Nat
           /\ \A S : Room(S) \in Nat
<1>1. TTL \in Nat /\ MaxCached \in Nat /\ Cached \subseteq Nat
  BY CacheConstants
<1>2. \A S : IsFiniteSet(Active \ S) /\ Cardinality(Active \ S) \in Nat
  BY FS_Difference, FS_CardinalityType DEF CacheShape
<1>3. \A S : IsFiniteSet(Index \ S) /\ Cardinality(Index \ S) \in Nat
  BY FS_Difference, FS_CardinalityType DEF CacheShape
<1>4. Cardinality(Index) \in Nat
  BY FS_CardinalityType DEF CacheShape
<1>5. ASSUME NEW S PROVE Room(S) \in Nat
  <2>1. PICK c \in Nat : c = Cardinality(Active \ S)
    BY <1>2
  <2>2. QED  BY <1>1, <2>1 DEF Room, CacheShape
<1>6. \A n \in Cached : Document(n) \in ListKeys \cup Documents
  BY DEF Documents
<1>7. QED  BY <1>1, <1>2, <1>3, <1>4, <1>5, <1>6, KeysApart DEF CacheShape, Index

(* Less in the index and as much room: the trims still suffice. *)
LEMMA TrimsFrame ==
    ASSUME CacheInv, CacheShape', Index' \subseteq Index, Trimming' \subseteq Trimming,
           \A S : (S \subseteq Trimming' => Room(S) <= Room(S)'),
           \A x \in Trimming' : /\ cacher'[x].step = "range" <=> cacher[x].step = "range"
                                /\ cacher'[x].excess = cacher[x].excess
                                /\ cacher'[x].oldest = cacher[x].oldest
    PROVE  TrimsSuffice'
<1>1. \A S : Room(S) \in Nat /\ Room(S)' \in Nat
  <2> TAKE S
  <2>1. Room(S) \in Nat
    BY CacheTypes DEF CacheInv
  <2>2. IsFiniteSet(Active') /\ cuts' \in Nat /\ MaxCached \in Nat
    BY CacheConstants DEF CacheShape
  <2>3. PICK c \in Nat : c = Cardinality(Active' \ S)
    BY <2>2, FS_Difference, FS_CardinalityType
  <2>4. Room(S)' \in Nat
    BY <2>2, <2>3 DEF Room
  <2>5. QED  BY <2>1, <2>4
<1>2. ASSUME NEW T PROVE /\ IsFiniteSet(Index \ T) /\ Cardinality(Index' \ T) \in Nat
                         /\ Cardinality(Index \ T) \in Nat
                         /\ Cardinality(Index' \ T) <= Cardinality(Index \ T)
  <2>1. IsFiniteSet(Index \ T) /\ Index' \ T \in SUBSET (Index \ T)
    BY CacheTypes DEF CacheInv
  <2>2. QED  BY <2>1, FS_Subset, FS_CardinalityType
<1>3. /\ Cardinality(Index') <= Cardinality(Index) /\ Cardinality(Index') \in Nat
      /\ Cardinality(Index) \in Nat
  BY <1>2, FS_Subset, FS_CardinalityType DEF CacheInv, CacheShape
<1>4. Cardinality(Index') <= Room({})'
  <2>1. Cardinality(Index) <= Room({}) /\ Room({}) <= Room({})'
    BY DEF CacheInv, TrimsSuffice
  <2>2. QED  BY <1>1, <1>3, <2>1
<1>5. ASSUME NEW S \in SUBSET Trimming', S # {} PROVE \E x \in S : LeavesAtMost(x, Room(S))'
  <2>1. PICK x \in S : LeavesAtMost(x, Room(S))
    BY <1>5 DEF CacheInv, TrimsSuffice
  <2>2. Room(S) \in Nat /\ Room(S)' \in Nat /\ Room(S) <= Room(S)'
    BY <1>1
  <2>3. cacher[x].excess \in Nat
    BY DEF CacheInv, CacheShape, Trimming, Trims
  <2>4. LeavesAtMost(x, Room(S))'
    <3>1. CASE cacher[x].step = "range"
      <4>1. Cardinality(Index) <= cacher[x].excess + Room(S)
        BY <2>1, <3>1 DEF LeavesAtMost
      <4>2. Cardinality(Index') <= cacher[x].excess + Room(S)'
        BY <1>3, <2>2, <2>3, <4>1
      <4>3. QED  BY <3>1, <4>2 DEF LeavesAtMost
    <3>2. CASE cacher[x].step # "range"
      <4>1. Cardinality(Index \ cacher[x].oldest) <= Room(S)
        BY <2>1, <3>2 DEF LeavesAtMost
      <4>2. /\ Cardinality(Index' \ cacher[x].oldest) <= Cardinality(Index \ cacher[x].oldest)
            /\ Cardinality(Index' \ cacher[x].oldest) \in Nat
            /\ Cardinality(Index \ cacher[x].oldest) \in Nat
        BY <1>2
      <4>4. Cardinality(Index' \ cacher[x].oldest) <= Room(S)'
        BY <2>2, <4>1, <4>2
      <4>3. QED  BY <3>2, <4>4 DEF LeavesAtMost
    <3>3. QED  BY <3>1, <3>2
  <2>5. QED  BY <2>4
<1>6. QED  BY <1>4, <1>5 DEF TrimsSuffice

(* So they do when no more is listed than the limit. *)
LEMMA FewSuffice ==
    ASSUME CacheShape', Cardinality(Index') <= MaxCached
    PROVE  TrimsSuffice'
<1>1. MaxCached \in Nat /\ cuts' \in Nat /\ IsFiniteSet(Active') /\ IsFiniteSet(Index')
  BY CacheConstants DEF CacheShape
<1>2. ASSUME NEW S PROVE Room(S)' \in Nat /\ MaxCached <= Room(S)'
  <2>1. PICK c \in Nat : c = Cardinality(Active' \ S)
    BY <1>1, FS_Difference, FS_CardinalityType
  <2>2. QED  BY <1>1, <2>1 DEF Room
<1>3. Cardinality(Index') \in Nat
  BY <1>1, FS_CardinalityType
<1>4. ASSUME NEW S \in SUBSET Trimming', NEW x \in S PROVE LeavesAtMost(x, Room(S))'
  <2>1. /\ Cardinality(Index' \ cacher'[x].oldest) <= Cardinality(Index')
        /\ Cardinality(Index' \ cacher'[x].oldest) \in Nat
    <3>1. IsFiniteSet(Index' \ cacher'[x].oldest) /\ Index' \ cacher'[x].oldest \in SUBSET Index'
      BY <1>1, FS_Difference
    <3>2. QED  BY <1>1, <3>1, FS_Subset, FS_CardinalityType
  <2>2. cacher'[x].excess \in Nat
    BY DEF CacheShape, Trimming, Trims
  <2>3. Room(S)' \in Nat /\ MaxCached <= Room(S)'
    BY <1>2
  <2>4. Cardinality(Index') <= cacher'[x].excess + Room(S)'
    BY <1>1, <1>3, <2>2, <2>3
  <2>5. Cardinality(Index' \ cacher'[x].oldest) <= Room(S)'
    BY <1>1, <1>3, <2>1, <2>3
  <2>6. QED  BY <2>4, <2>5 DEF LeavesAtMost
<1>5. Cardinality(Index') <= Room({})'
  BY <1>1, <1>2, <1>3
<1>6. QED  BY <1>4, <1>5 DEF TrimsSuffice

(* A goroutine that ends its trim. *)
LEMMA OneLessActive ==
    ASSUME CacheShape, NEW g \in Cachers, cacher[g].step # "none", cacher' = [cacher EXCEPT ![g] = NoTrim]
    PROVE  /\ cacher' \in [Cachers -> Trims] /\ cacher'[g] = NoTrim
           /\ \A h \in Cachers \ {g} : cacher'[h] = cacher[h]
           /\ Active' = Active \ {g} /\ IsFiniteSet(Active') /\ Trimming' = Trimming \ {g}
           /\ \A h \in Cachers : cacher'[h].step = "range" => cacher'[h].excess > 0
           /\ \A S : S \subseteq Trimming' => Cardinality(Active' \ S) + 1 = Cardinality(Active \ S)
<1>1. NoTrim \in Trims /\ NoTrim.step = "none"
  BY DEF NoTrim, Trims, Steps
<1>2. /\ cacher' \in [Cachers -> Trims] /\ cacher'[g] = NoTrim
      /\ \A h \in Cachers \ {g} : cacher'[h] = cacher[h]
  BY <1>1 DEF CacheShape
<1>3. Active' = Active \ {g} /\ Trimming' = Trimming \ {g} /\ g \in Active
  BY <1>1, <1>2 DEF Active, Trimming
<1>4. IsFiniteSet(Active')
  BY <1>3, FS_RemoveElement DEF CacheShape
<1>5. ASSUME NEW S, S \subseteq Trimming' PROVE Cardinality(Active' \ S) + 1 = Cardinality(Active \ S)
  <2>1. g \in Active \ S /\ Active' \ S = (Active \ S) \ {g} /\ IsFiniteSet(Active \ S)
    BY <1>3, <1>5, CacheTypes
  <2>2. Cardinality(Active' \ S) = Cardinality(Active \ S) - 1 /\ Cardinality(Active \ S) \in Nat
    BY <2>1, FS_RemoveElement, CacheTypes
  <2>3. QED  BY <2>2
<1>6. QED  BY <1>1, <1>2, <1>3, <1>4, <1>5 DEF CacheShape

LEMMA StoreStep ==
    ASSUME CacheInv, NEW g \in Cachers, NEW n \in Cached, CacheAnnouncement(g, n)
    PROVE  CacheInv'
<1> USE DEF CacheInv
<1>0. /\ lives' = [k \in ListKeys \cup Documents |->
                     IF k \in ListsOf(n) \cup {Document(n)} THEN TTL ELSE lives[k]]
      /\ lists' = [k \in ListKeys |-> IF k \in ListsOf(n) THEN lists[k] \cup {n} ELSE lists[k]]
      /\ cacher' = [cacher EXCEPT ![g].step = "count"] /\ cacher[g].step = "none" /\ cuts' = cuts
  BY CacheTypes DEF CacheAnnouncement
<1>1. cacher' \in [Cachers -> Trims] /\ cacher'[g].step = "count"
      /\ \A h \in Cachers \ {g} : cacher'[h] = cacher[h]
  <2>1. PICK r : r = [cacher[g] EXCEPT !.step = "count"]
    OBVIOUS
  <2>2. r \in Trims /\ r.step = "count"
    BY <2>1 DEF CacheShape, Trims, Steps
  <2>3. cacher' = [cacher EXCEPT ![g] = r]
    BY <1>0, <2>1 DEF CacheShape
  <2>4. QED  BY <2>2, <2>3 DEF CacheShape
<1>2. Active' = Active \cup {g} /\ g \notin Active /\ Trimming' = Trimming /\ g \notin Trimming
  BY <1>0, <1>1 DEF Active, Trimming
<1>3. Index' = Index \cup {n}
  BY <1>0, KeysApart DEF Index
<1>4. CacheShape'
  <2>1. lists' \in [ListKeys -> SUBSET Cached]
    BY <1>0 DEF CacheShape
  <2>2. lives' \in [ListKeys \cup Documents -> 0..TTL]
    BY <1>0, CacheTypes DEF CacheShape
  <2>3. IsFiniteSet(Index') /\ IsFiniteSet(Active')
    BY <1>2, <1>3, FS_AddElement DEF CacheShape
  <2>4. \A h \in Cachers : cacher'[h].step = "range" => cacher'[h].excess > 0
    BY <1>1 DEF CacheShape
  <2>5. QED  BY <1>0, <1>1, <2>1, <2>2, <2>3, <2>4 DEF CacheShape
<1>5. DocumentsListed'
  <2> SUFFICES ASSUME NEW m \in Cached, lives'[Document(m)] > 0, NEW k \in ListsOf(m)
               PROVE  m \in lists'[k] /\ lives'[Document(m)] <= lives'[k]
    BY DEF DocumentsListed
  <2>0. k \in ListKeys /\ Document(m) \in ListKeys \cup Documents /\ Document(m) \notin ListKeys
        /\ ListsOf(n) \subseteq ListKeys /\ k # Document(n)
    BY KeysApart, CacheTypes DEF Documents
  <2>1. CASE m = n
    BY <1>0, <2>0, <2>1, CacheTypes
  <2>2. CASE m # n
    <3>1. Document(m) # Document(n) /\ Document(m) \notin ListsOf(n)
      BY <2>0, <2>2, KeysApart
    <3>2. lives'[Document(m)] = lives[Document(m)]
      BY <1>0, <2>0, <3>1
    <3>3. m \in lists[k] /\ lives[Document(m)] <= lives[k]
      BY <3>2 DEF DocumentsListed
    <3>4. lives[Document(m)] <= TTL
      BY CacheTypes
    <3>5. lives'[k] \in {TTL, lives[k]} /\ m \in lists'[k]
      BY <1>0, <2>0, <3>3
    <3>6. QED  BY <3>2, <3>3, <3>4, <3>5
  <2>3. QED  BY <2>1, <2>2
<1>6. TrimsSuffice'
  <2>1. ASSUME NEW S, S \subseteq Trimming PROVE Room(S)' = Room(S) + 1 /\ Room(S) \in Nat
    <3>1. Active' \ S = (Active \ S) \cup {g} /\ g \notin Active \ S /\ IsFiniteSet(Active \ S)
      BY <1>2, <2>1, CacheTypes
    <3>2. Cardinality(Active' \ S) = Cardinality(Active \ S) + 1 /\ Cardinality(Active \ S) \in Nat
      BY <3>1, FS_AddElement, CacheTypes
    <3>3. Room(S)' = MaxCached + cuts + Cardinality(Active' \ S)
          /\ Room(S) = MaxCached + cuts + Cardinality(Active \ S)
      BY <1>0 DEF Room
    <3>4. MaxCached \in Nat /\ cuts \in Nat
      BY CacheConstants DEF CacheShape
    <3>5. QED  BY <3>2, <3>3, <3>4
  <2>2. ASSUME NEW T PROVE /\ Cardinality(Index' \ T) <= Cardinality(Index \ T) + 1
                           /\ Cardinality(Index' \ T) \in Nat /\ Cardinality(Index \ T) \in Nat
    <3>1. IsFiniteSet(Index \ T) /\ Index' \ T \in SUBSET ((Index \ T) \cup {n})
      BY <1>3, CacheTypes
    <3>2. /\ IsFiniteSet((Index \ T) \cup {n})
          /\ Cardinality((Index \ T) \cup {n}) \in {Cardinality(Index \ T), Cardinality(Index \ T) + 1}
      BY <3>1, FS_AddElement
    <3>3. Cardinality(Index' \ T) <= Cardinality((Index \ T) \cup {n}) /\ IsFiniteSet(Index' \ T)
      BY <3>1, <3>2, FS_Subset
    <3>4. Cardinality(Index' \ T) \in Nat /\ Cardinality(Index \ T) \in Nat
      BY <3>1, <3>3, FS_CardinalityType
    <3>5. QED  BY <3>2, <3>3, <3>4
  <2>3. Cardinality(Index') <= Cardinality(Index) + 1 /\ Cardinality(Index') \in Nat
        /\ Cardinality(Index) \in Nat
    <3>1. Index \ {} = Index /\ Index' \ {} = Index'
      OBVIOUS
    <3>2. QED  BY <2>2, <3>1
  <2>4. Cardinality(Index') <= Room({})'
    <3>1. Cardinality(Index) <= Room({}) /\ Room({})' = Room({}) + 1 /\ Room({}) \in Nat
      BY <2>1 DEF TrimsSuffice
    <3>2. QED  BY <2>3, <3>1
  <2>5. ASSUME NEW S \in SUBSET Trimming', S # {} PROVE \E x \in S : LeavesAtMost(x, Room(S))'
    <3>1. PICK x \in S : LeavesAtMost(x, Room(S))
      BY <1>2, <2>5 DEF TrimsSuffice
    <3>2. Room(S)' = Room(S) + 1 /\ Room(S) \in Nat
      BY <1>2, <2>1
    <3>3. cacher'[x] = cacher[x] /\ cacher[x].excess \in Nat
      BY <1>1, <1>2 DEF CacheShape, Trimming, Trims
    <3>4. CASE cacher[x].step = "range"
      <4>1. Cardinality(Index) <= cacher[x].excess + Room(S)
        BY <3>1, <3>4 DEF LeavesAtMost
      <4>2. Cardinality(Index') <= cacher[x].excess + Room(S)'
        BY <2>3, <3>2, <3>3, <4>1
      <4>3. QED  BY <3>3, <3>4, <4>2 DEF LeavesAtMost
    <3>5. CASE cacher[x].step # "range"
      <4>1. Cardinality(Index \ cacher[x].oldest) <= Room(S)
        BY <3>1, <3>5 DEF LeavesAtMost
      <4>2. /\ Cardinality(Index' \ cacher[x].oldest) <= Cardinality(Index \ cacher[x].oldest) + 1
            /\ Cardinality(Index' \ cacher[x].oldest) \in Nat
            /\ Cardinality(Index \ cacher[x].oldest) \in Nat
        BY <2>2
      <4>3. Cardinality(Index' \ cacher[x].oldest) <= Room(S)'
        BY <3>2, <4>1, <4>2
      <4>4. QED  BY <3>3, <3>5, <4>3 DEF LeavesAtMost
    <3>6. QED  BY <3>4, <3>5
  <2>6. QED  BY <2>4, <2>5 DEF TrimsSuffice
<1>7. QED  BY <1>4, <1>5, <1>6

LEMMA CountStep ==
    ASSUME CacheInv, NEW g \in Cachers, CountCached(g)
    PROVE  CacheInv'
<1> USE DEF CacheInv
<1>0. /\ cacher[g].step = "count" /\ lives' = lives /\ lists' = lists /\ cuts' = cuts
      /\ Index' = Index
  BY DEF CountCached, Index
<1>1. DocumentsListed'
  BY <1>0 DEF DocumentsListed
<1>2. CASE Cardinality(Index) > MaxCached
  <2>1. PICK e : e = Cardinality(Index) - MaxCached
    OBVIOUS
  <2>2. e \in Nat /\ e > 0 /\ Cardinality(Index) = MaxCached + e
    <3>1. Cardinality(Index) \in Nat /\ MaxCached \in Nat
      BY CacheTypes, CacheConstants
    <3>2. QED  BY <1>2, <2>1, <3>1
  <2>3. PICK r : r = [NoTrim EXCEPT !.step = "range", !.excess = e]
    OBVIOUS
  <2>4. r \in Trims /\ r.step = "range" /\ r.excess = e
    BY <2>2, <2>3 DEF Trims, NoTrim, Steps
  <2>5. cacher' = [cacher EXCEPT ![g] = r]
    BY <1>2, <2>1, <2>3 DEF CountCached, Index
  <2>6. /\ cacher' \in [Cachers -> Trims] /\ cacher'[g] = r
        /\ \A h \in Cachers \ {g} : cacher'[h] = cacher[h]
    BY <2>4, <2>5 DEF CacheShape
  <2>7. Active' = Active /\ Trimming' = Trimming \cup {g} /\ g \notin Trimming
    BY <1>0, <2>4, <2>6 DEF Active, Trimming
  <2>8. CacheShape'
    BY <1>0, <2>2, <2>4, <2>6, <2>7 DEF CacheShape
  <2>9. \A S : Room(S)' = Room(S) /\ Room(S) \in Nat
    BY <1>0, <2>7, CacheTypes DEF Room
  <2>10. ASSUME NEW S \in SUBSET Trimming', S # {} PROVE \E x \in S : LeavesAtMost(x, Room(S))'
    <3>1. CASE g \in S
      <4>1. PICK c \in Nat : c = Cardinality(Active \ S)
        BY CacheTypes
      <4>2. Cardinality(Index) <= e + Room(S)
        <5>1. MaxCached \in Nat /\ cuts \in Nat /\ Room(S) = MaxCached + cuts + c
          BY <4>1, CacheConstants DEF Room, CacheShape
        <5>2. QED  BY <2>2, <4>1, <5>1
      <4>3. LeavesAtMost(g, Room(S))'
        BY <1>0, <2>4, <2>6, <2>9, <4>2 DEF LeavesAtMost
      <4>4. QED  BY <3>1, <4>3
    <3>2. CASE g \notin S
      <4>1. S \subseteq Trimming
        BY <2>7, <3>2
      <4>2. PICK x \in S : LeavesAtMost(x, Room(S))
        BY <2>10, <4>1 DEF TrimsSuffice
      <4>3. cacher'[x] = cacher[x]
        BY <2>6, <3>2, <4>1 DEF Trimming
      <4>4. LeavesAtMost(x, Room(S))'
        BY <1>0, <2>9, <4>2, <4>3 DEF LeavesAtMost
      <4>5. QED  BY <4>4
    <3>3. QED  BY <3>1, <3>2
  <2>11. Cardinality(Index') <= Room({})'
    BY <1>0, <2>9 DEF TrimsSuffice
  <2>12. QED  BY <1>1, <2>8, <2>10, <2>11 DEF TrimsSuffice
<1>3. CASE ~(Cardinality(Index) > MaxCached)
  <2>1. cacher' = [cacher EXCEPT ![g] = NoTrim] /\ cacher[g].step # "none"
    BY <1>0, <1>3 DEF CountCached, Index
  <2>2. CacheShape'
    BY <1>0, <2>1, OneLessActive DEF CacheShape
  <2>3. Cardinality(Index') <= MaxCached
    <3>1. Cardinality(Index) \in Nat /\ MaxCached \in Nat
      BY CacheTypes, CacheConstants
    <3>2. QED  BY <1>0, <1>3, <3>1
  <2>4. QED  BY <1>1, <2>2, <2>3, FewSuffice
<1>4. QED  BY <1>2, <1>3

LEMMA ListStep ==
    ASSUME CacheInv, NEW g \in Cachers, ListOldest(g)
    PROVE  CacheInv'
<1> USE DEF CacheInv
<1>0. /\ cacher[g].step = "range" /\ lives' = lives /\ lists' = lists /\ cuts' = cuts
      /\ Index' = Index
  BY DEF ListOldest, Index
<1>1. DocumentsListed'
  BY <1>0 DEF DocumentsListed
<1>2. PICK n \in Nat : n = cacher[g].excess /\ n > 0
  BY <1>0 DEF CacheShape, Trims
<1>3. PICK O : O = {m \in Index : Cardinality({l \in Index : l < m}) < n}
  OBVIOUS
<1>4. ASSUME NEW b \in Nat, Cardinality(Index) <= n + b PROVE Cardinality(Index \ O) <= b
  <2>1. Index \subseteq Nat /\ IsFiniteSet(Index)
    BY CacheTypes DEF CacheShape
  <2>2. QED  BY <1>3, <1>4, <2>1, OldestLeave
<1>5. cacher' = [cacher EXCEPT ![g] = IF O = {} THEN NoTrim
                                      ELSE [cacher[g] EXCEPT !.step = "read", !.oldest = O]]
  BY <1>2, <1>3 DEF ListOldest, OldestOf, Index, CacheShape
<1>6. Cardinality(Index) \in Nat /\ MaxCached \in Nat
  BY CacheTypes, CacheConstants
<1>7. CASE O = {}
  <2>1. cacher' = [cacher EXCEPT ![g] = NoTrim] /\ cacher[g].step # "none"
    BY <1>0, <1>5, <1>7
  <2>2. CacheShape'
    BY <1>0, <2>1, OneLessActive DEF CacheShape
  <2>3. ASSUME Cardinality(Index) > 0 PROVE FALSE
    <3>1. PICK b : b = Cardinality(Index) - 1
      OBVIOUS
    <3>2. b \in Nat /\ Cardinality(Index) = b + 1 /\ Cardinality(Index) <= n + b
      BY <1>2, <1>6, <2>3, <3>1
    <3>3. Cardinality(Index \ O) <= b /\ Index \ O = Index
      BY <1>4, <1>7, <3>2
    <3>4. QED  BY <3>2, <3>3
  <2>4. Cardinality(Index') <= MaxCached
    BY <1>0, <1>6, <2>3
  <2>5. QED  BY <1>1, <2>2, <2>4, FewSuffice
<1>8. CASE O # {}
  <2>1. PICK r : r = [cacher[g] EXCEPT !.step = "read", !.oldest = O]
    OBVIOUS
  <2>2. O \in SUBSET Cached /\ cacher[g] \in Trims
    BY <1>3, CacheTypes DEF CacheShape
  <2>3. r \in Trims /\ r.step = "read" /\ r.oldest = O
    BY <2>1, <2>2 DEF Trims, Steps
  <2>4. cacher' = [cacher EXCEPT ![g] = r]
    BY <1>5, <1>8, <2>1
  <2>5. /\ cacher' \in [Cachers -> Trims] /\ cacher'[g] = r
        /\ \A h \in Cachers \ {g} : cacher'[h] = cacher[h]
    BY <2>3, <2>4 DEF CacheShape
  <2>6. Active' = Active /\ Trimming' = Trimming
    BY <1>0, <2>3, <2>5 DEF Active, Trimming
  <2>7. CacheShape'
    BY <1>0, <2>3, <2>5, <2>6 DEF CacheShape
  <2>8. \A S : Room(S)' = Room(S) /\ Room(S) \in Nat
    BY <1>0, <2>6, CacheTypes DEF Room
  <2>9. ASSUME NEW S \in SUBSET Trimming', S # {} PROVE \E x \in S : LeavesAtMost(x, Room(S))'
    <3>1. PICK x \in S : LeavesAtMost(x, Room(S))
      BY <2>6, <2>9 DEF TrimsSuffice
    <3>2. CASE x = g
      <4>1. Cardinality(Index) <= n + Room(S)
        BY <1>0, <1>2, <3>1, <3>2 DEF LeavesAtMost
      <4>2. Cardinality(Index \ O) <= Room(S)
        BY <1>4, <2>8, <4>1
      <4>3. LeavesAtMost(g, Room(S))'
        BY <1>0, <2>3, <2>5, <2>8, <4>2 DEF LeavesAtMost
      <4>4. QED  BY <3>2, <4>3
    <3>3. CASE x # g
      <4>1. cacher'[x] = cacher[x]
        BY <2>5, <2>6, <3>3 DEF Trimming
      <4>2. LeavesAtMost(x, Room(S))'
        BY <1>0, <2>8, <3>1, <4>1 DEF LeavesAtMost
      <4>3. QED  BY <4>2
    <3>4. QED  BY <3>2, <3>3
  <2>10. Cardinality(Index') <= Room({})'
    BY <1>0, <2>8 DEF TrimsSuffice
  <2>11. QED  BY <1>1, <2>7, <2>9, <2>10 DEF TrimsSuffice
<1>9. QED  BY <1>7, <1>8

LEMMA ReadStep ==
    ASSUME CacheInv, NEW g \in Cachers, ReadOldest(g)
    PROVE  CacheInv'
<1> USE DEF CacheInv
<1>0. /\ cacher[g].step = "read" /\ lives' = lives /\ lists' = lists /\ cuts' = cuts
      /\ Index' = Index
  BY DEF ReadOldest, Index
<1>1. PICK R : R = {n \in cacher[g].oldest : lives[Document(n)] > 0}
  OBVIOUS
<1>2. cacher[g] \in Trims
  BY DEF CacheShape
<1>3. R \in SUBSET Cached
  BY <1>1, <1>2 DEF Trims
<1>4. PICK r : r = [cacher[g] EXCEPT !.step = "remove", !.read = R]
  OBVIOUS
<1>5. /\ r \in Trims /\ r.step = "remove"
      /\ r.excess = cacher[g].excess /\ r.oldest = cacher[g].oldest
  BY <1>2, <1>3, <1>4 DEF Trims, Steps
<1>6. cacher' = [cacher EXCEPT ![g] = r]
  BY <1>1, <1>4 DEF ReadOldest, CacheShape
<1>7. /\ cacher' \in [Cachers -> Trims] /\ cacher'[g] = r
      /\ \A h \in Cachers \ {g} : cacher'[h] = cacher[h]
  BY <1>5, <1>6 DEF CacheShape
<1>8. Active' = Active /\ Trimming' = Trimming
  BY <1>0, <1>5, <1>7 DEF Active, Trimming
<1>9. CacheShape'
  BY <1>0, <1>5, <1>7, <1>8 DEF CacheShape
<1>10. ASSUME NEW S PROVE Room(S) <= Room(S)'
  <2>1. Room(S)' = Room(S) /\ Room(S) \in Nat
    BY <1>0, <1>8, CacheTypes DEF Room
  <2>2. QED  BY <2>1
<1>11. TrimsSuffice'
  <2>1. ASSUME NEW x \in Trimming'
        PROVE  /\ cacher'[x].step = "range" <=> cacher[x].step = "range"
               /\ cacher'[x].excess = cacher[x].excess
               /\ cacher'[x].oldest = cacher[x].oldest
    BY <1>0, <1>5, <1>7, <1>8 DEF Trimming
  <2>2. QED  BY <1>0, <1>8, <1>9, <1>10, <2>1, TrimsFrame
<1>12. DocumentsListed'
  BY <1>0 DEF DocumentsListed
<1>13. QED  BY <1>9, <1>11, <1>12

LEMMA RemoveStep ==
    ASSUME CacheInv, NEW g \in Cachers, RemoveOldest(g)
    PROVE  CacheInv'
<1> USE DEF CacheInv
<1>1. PICK O : O = cacher[g].oldest
  OBVIOUS
<1>2. PICK L : L = [k \in ListKeys |-> lists[k] \ {n \in O : k = IndexList \/ n \in cacher[g].read}]
  OBVIOUS
<1>3. /\ cacher[g].step = "remove" /\ lists' = L /\ cuts' = cuts
      /\ cacher' = [cacher EXCEPT ![g] = NoTrim]
      /\ lives' = [k \in ListKeys \cup Documents |->
                     IF k \in {Document(n) : n \in O} \/ (k \in ListKeys /\ L[k] = {})
                     THEN 0 ELSE lives[k]]
  BY <1>1, <1>2, CacheTypes DEF RemoveOldest, Trimmed
<1>4. Index' = Index \ O
  BY <1>2, <1>3, KeysApart DEF Index
<1>5. /\ cacher' \in [Cachers -> Trims] /\ cacher'[g] = NoTrim
      /\ \A h \in Cachers \ {g} : cacher'[h] = cacher[h]
      /\ Active' = Active \ {g} /\ IsFiniteSet(Active') /\ Trimming' = Trimming \ {g}
      /\ \A h \in Cachers : cacher'[h].step = "range" => cacher'[h].excess > 0
  BY <1>3, OneLessActive
<1>6. CacheShape'
  <2>1. lists' \in [ListKeys -> SUBSET Cached]
    BY <1>2, <1>3 DEF CacheShape
  <2>2. TTL \in Nat /\ lives \in [ListKeys \cup Documents -> 0..TTL]
    BY CacheConstants DEF CacheShape
  <2>3. lives' \in [ListKeys \cup Documents -> 0..TTL]
    <3>1. 0 \in 0..TTL
      BY <2>2
    <3>2. QED  BY <1>3, <2>2, <3>1
  <2>4. IsFiniteSet(Index')
    BY <1>4, FS_Difference DEF CacheShape
  <2>5. QED  BY <1>3, <1>5, <2>1, <2>3, <2>4 DEF CacheShape
<1>7. DocumentsListed'
  <2> SUFFICES ASSUME NEW m \in Cached, lives'[Document(m)] > 0, NEW k \in ListsOf(m)
               PROVE  m \in lists'[k] /\ lives'[Document(m)] <= lives'[k]
    BY DEF DocumentsListed
  <2>1. k \in ListKeys /\ Document(m) \in ListKeys \cup Documents /\ Document(m) \notin ListKeys
        /\ k \notin {Document(n) : n \in O}
    BY KeysApart DEF Documents
  <2>2. Document(m) \notin {Document(n) : n \in O} /\ lives'[Document(m)] = lives[Document(m)]
    <3>1. ~(0 > 0)
      OBVIOUS
    <3>2. QED  BY <1>3, <2>1, <3>1
  <2>3. m \notin O
    BY <2>2
  <2>4. m \in lists[k] /\ lives[Document(m)] <= lives[k]
    BY <2>2 DEF DocumentsListed
  <2>5. m \in L[k] /\ lives'[k] = lives[k]
    BY <1>2, <1>3, <2>1, <2>3, <2>4
  <2>6. QED  BY <1>3, <2>2, <2>4, <2>5
<1>8. TrimsSuffice'
  <2>1. ASSUME NEW S, S \subseteq Trimming' PROVE Room(S)' = Room(S \cup {g})
    <3>1. Active' \ S = Active \ (S \cup {g})
      BY <1>5
    <3>2. QED  BY <1>3, <3>1 DEF Room
  <2>2. g \in Trimming
    BY <1>3 DEF Trimming
  <2>3. \A S : Room(S) \in Nat
    BY CacheTypes
  <2>4. Cardinality(Index') <= Room({})'
    <3>1. PICK x \in {g} : LeavesAtMost(x, Room({g}))
      BY <2>2 DEF TrimsSuffice
    <3>2. {} \cup {g} = {g} /\ x = g
      OBVIOUS
    <3>3. Room({})' = Room({g})
      BY <2>1, <3>2
    <3>4. QED  BY <1>1, <1>3, <1>4, <3>1, <3>2, <3>3 DEF LeavesAtMost
  <2>5. ASSUME NEW T PROVE /\ Cardinality(Index' \ T) <= Cardinality(Index \ T)
                           /\ Cardinality(Index' \ T) <= Cardinality(Index')
                           /\ Cardinality(Index' \ T) \in Nat /\ Cardinality(Index \ T) \in Nat
    <3>1. IsFiniteSet(Index \ T) /\ Index' \ T \in SUBSET (Index \ T) /\ IsFiniteSet(Index')
          /\ Index' \ T \in SUBSET Index'
      BY <1>4, <1>6, CacheTypes DEF CacheShape
    <3>2. QED  BY <3>1, FS_Subset, FS_CardinalityType
  <2>6. /\ Cardinality(Index') <= Cardinality(Index)
        /\ Cardinality(Index') \in Nat /\ Cardinality(Index) \in Nat
    BY <1>4, <1>6, FS_Subset, FS_CardinalityType DEF CacheShape
  <2>7. ASSUME NEW S \in SUBSET Trimming', S # {} PROVE \E x \in S : LeavesAtMost(x, Room(S))'
    <3>1. PICK x \in S \cup {g} : LeavesAtMost(x, Room(S \cup {g}))
      BY <1>5, <2>2 DEF TrimsSuffice
    <3>2. PICK R \in Nat : R = Room(S \cup {g}) /\ R = Room(S)'
      BY <2>1, <2>3
    <3>3. CASE x = g
      <4>1. PICK s \in S : s \in Trimming'
        BY <2>7
      <4>2. Cardinality(Index') <= R
        BY <1>1, <1>3, <1>4, <3>1, <3>2, <3>3 DEF LeavesAtMost
      <4>3. cacher'[s].excess \in Nat
        BY <1>6, <4>1 DEF CacheShape, Trimming, Trims
      <4>4. Cardinality(Index') <= cacher'[s].excess + R
        BY <2>6, <3>2, <4>2, <4>3
      <4>5. Cardinality(Index' \ cacher'[s].oldest) <= R
        <5>1. /\ Cardinality(Index' \ cacher'[s].oldest) <= Cardinality(Index')
              /\ Cardinality(Index' \ cacher'[s].oldest) \in Nat
          BY <2>5
        <5>2. QED  BY <2>6, <3>2, <4>2, <5>1
      <4>6. LeavesAtMost(s, Room(S))'
        BY <3>2, <4>4, <4>5 DEF LeavesAtMost
      <4>7. QED  BY <4>6
    <3>4. CASE x # g
      <4>1. x \in S /\ x \in Cachers /\ cacher'[x] = cacher[x] /\ cacher[x].excess \in Nat
        BY <1>5, <2>7, <3>4 DEF CacheShape, Trimming, Trims
      <4>2. CASE cacher[x].step = "range"
        <5>1. Cardinality(Index) <= cacher[x].excess + R
          BY <3>1, <3>2, <4>2 DEF LeavesAtMost
        <5>2. Cardinality(Index') <= cacher[x].excess + R
          BY <2>6, <3>2, <4>1, <5>1
        <5>3. LeavesAtMost(x, Room(S))'
          BY <3>2, <4>1, <4>2, <5>2 DEF LeavesAtMost
        <5>4. QED  BY <4>1, <5>3
      <4>3. CASE cacher[x].step # "range"
        <5>1. Cardinality(Index \ cacher[x].oldest) <= R
          BY <3>1, <3>2, <4>3 DEF LeavesAtMost
        <5>2. Cardinality(Index' \ cacher[x].oldest) <= R
          <6>1. /\ Cardinality(Index' \ cacher[x].oldest) <= Cardinality(Index \ cacher[x].oldest)
                /\ Cardinality(Index' \ cacher[x].oldest) \in Nat
                /\ Cardinality(Index \ cacher[x].oldest) \in Nat
            BY <2>5
          <6>2. QED  BY <3>2, <5>1, <6>1
        <5>3. LeavesAtMost(x, Room(S))'
          BY <3>2, <4>1, <4>3, <5>2 DEF LeavesAtMost
        <5>4. QED  BY <4>1, <5>3
      <4>4. QED  BY <4>2, <4>3
    <3>5. QED  BY <3>3, <3>4
  <2>8. QED  BY <2>4, <2>7 DEF TrimsSuffice
<1>9. QED  BY <1>6, <1>7, <1>8

LEMMA CutStep ==
    ASSUME CacheInv, NEW g \in Cachers, TrimCut(g)
    PROVE  CacheInv'
<1> USE DEF CacheInv
<1>0. /\ cacher[g].step # "none" /\ lives' = lives /\ lists' = lists /\ cuts' = cuts + 1
      /\ cacher' = [cacher EXCEPT ![g] = NoTrim] /\ Index' = Index
  BY DEF TrimCut, Index
<1>1. cuts \in Nat /\ cuts' \in Nat /\ MaxCached \in Nat
  BY <1>0, CacheConstants DEF CacheShape
<1>2. CacheShape'
  BY <1>0, <1>1, OneLessActive DEF CacheShape
<1>3. ASSUME NEW S, S \subseteq Trimming' PROVE Room(S) <= Room(S)'
  <2>1. PICK c \in Nat : c = Cardinality(Active \ S)
    BY CacheTypes
  <2>2. Cardinality(Active' \ S) + 1 = Cardinality(Active \ S)
    BY <1>0, <1>3, OneLessActive
  <2>3. Cardinality(Active' \ S) \in Nat
    BY <1>2, FS_Difference, FS_CardinalityType DEF CacheShape
  <2>4. Room(S)' = MaxCached + cuts' + Cardinality(Active' \ S) /\ Room(S) = MaxCached + cuts + c
    BY <2>1 DEF Room
  <2>5. QED  BY <1>0, <1>1, <2>1, <2>2, <2>3, <2>4
<1>4. TrimsSuffice'
  <2>1. Trimming' \subseteq Trimming /\ \A x \in Trimming' : cacher'[x] = cacher[x]
    BY <1>0, OneLessActive DEF Trimming
  <2>2. QED  BY <1>0, <1>2, <1>3, <2>1, TrimsFrame
<1>5. DocumentsListed'
  BY <1>0 DEF DocumentsListed
<1>6. QED  BY <1>2, <1>4, <1>5

LEMMA AgeStep ==
    ASSUME CacheInv, KeysAge
    PROVE  CacheInv'
<1> USE DEF CacheInv
<1>0. /\ lives' = [k \in ListKeys \cup Documents |-> IF lives[k] > 0 THEN lives[k] - 1 ELSE 0]
      /\ lists' = [k \in ListKeys |-> IF lives[k] > 1 THEN lists[k] ELSE {}]
      /\ cacher' = cacher /\ cuts' = cuts
  BY CacheTypes DEF KeysAge
<1>1. Index' \subseteq Index
  BY <1>0, KeysApart DEF Index
<1>2. Active' = Active /\ Trimming' = Trimming
  BY <1>0 DEF Active, Trimming
<1>3. CacheShape'
  <2>1. \A k \in ListKeys \cup Documents : lives'[k] \in 0..TTL
    <3> SUFFICES ASSUME NEW k \in ListKeys \cup Documents PROVE lives'[k] \in 0..TTL
      OBVIOUS
    <3>1. lives[k] \in 0..TTL /\ TTL \in Nat
      BY CacheConstants DEF CacheShape
    <3>2. lives'[k] = IF lives[k] > 0 THEN lives[k] - 1 ELSE 0
      BY <1>0
    <3>3. QED  BY <3>1, <3>2
  <2>2. lists' \in [ListKeys -> SUBSET Cached]
    BY <1>0 DEF CacheShape
  <2>3. lives' \in [ListKeys \cup Documents -> 0..TTL]
    BY <1>0, <2>1
  <2>4. IsFiniteSet(Index')
    BY <1>1, FS_Subset DEF CacheShape
  <2>5. QED  BY <1>0, <1>2, <2>2, <2>3, <2>4 DEF CacheShape
<1>4. ASSUME NEW S PROVE Room(S) <= Room(S)'
  <2>1. Room(S)' = Room(S) /\ Room(S) \in Nat
    BY <1>0, <1>2, CacheTypes DEF Room
  <2>2. QED  BY <2>1
<1>5. TrimsSuffice'
  BY <1>0, <1>1, <1>2, <1>3, <1>4, TrimsFrame
<1>6. DocumentsListed'
  <2> SUFFICES ASSUME NEW m \in Cached, lives'[Document(m)] > 0, NEW k \in ListsOf(m)
               PROVE  m \in lists'[k] /\ lives'[Document(m)] <= lives'[k]
    BY DEF DocumentsListed
  <2>1. k \in ListKeys /\ Document(m) \in ListKeys \cup Documents
    BY KeysApart DEF Documents
  <2>2. PICK a \in 0..TTL : a = lives[Document(m)]
    BY <2>1 DEF CacheShape
  <2>3. PICK c \in 0..TTL : c = lives[k]
    BY <2>1 DEF CacheShape
  <2>4. TTL \in Nat
    BY CacheConstants
  <2>5. /\ lives'[Document(m)] = IF a > 0 THEN a - 1 ELSE 0
        /\ lives'[k] = IF c > 0 THEN c - 1 ELSE 0
    BY <1>0, <2>1, <2>2, <2>3
  <2>6. a > 1
    BY <2>2, <2>4, <2>5
  <2>7. a > 0
    BY <2>2, <2>4, <2>6
  <2>8. m \in lists[k] /\ a <= c
    BY <2>2, <2>3, <2>7 DEF DocumentsListed
  <2>9. c > 1 /\ a - 1 <= c - 1
    BY <2>2, <2>3, <2>4, <2>6, <2>8
  <2>10. m \in lists'[k]
    BY <1>0, <2>1, <2>3, <2>8, <2>9
  <2>11. lives'[Document(m)] = a - 1 /\ lives'[k] = c - 1
    BY <2>2, <2>3, <2>4, <2>5, <2>7, <2>9
  <2>12. QED  BY <2>9, <2>10, <2>11
<1>7. QED  BY <1>3, <1>5, <1>6

LEMMA CacheStarts == CacheInit => CacheInv
<1> SUFFICES ASSUME CacheInit PROVE CacheInv
  OBVIOUS
<1>1. /\ lives = [k \in ListKeys \cup Documents |-> 0] /\ lists = [k \in ListKeys |-> {}]
      /\ cacher = [g \in Cachers |-> NoTrim] /\ cuts = 0
  BY DEF CacheInit, Documents
<1>2. NoTrim \in Trims /\ NoTrim.step = "none"
  BY DEF NoTrim, Trims, Steps
<1>3. Index = {} /\ Active = {} /\ Trimming = {}
  BY <1>1, <1>2, KeysApart DEF Index, Active, Trimming
<1>4. IsFiniteSet(Index) /\ IsFiniteSet(Active) /\ Cardinality(Index) = 0
  BY <1>3, FS_EmptySet
<1>5. TTL \in Nat /\ MaxCached \in Nat /\ 0 \in 0..TTL /\ ~(0 > 0)
  BY CacheConstants
<1>6. CacheShape
  BY <1>1, <1>2, <1>4, <1>5 DEF CacheShape
<1>7. DocumentsListed
  <2>1. \A n \in Cached : lives[Document(n)] = 0
    BY <1>1 DEF Documents
  <2>2. QED  BY <1>5, <2>1 DEF DocumentsListed
<1>8. TrimsSuffice
  <2>1. Cardinality(Index) <= Room({})
    <3>1. Room({}) \in Nat
      BY <1>6, CacheTypes
    <3>2. QED  BY <1>4, <3>1
  <2>2. QED  BY <1>3, <2>1 DEF TrimsSuffice
<1>9. QED  BY <1>6, <1>7, <1>8 DEF CacheInv

LEMMA CacheStep == CacheInv /\ [CacheNext]_cvars => CacheInv'
<1> SUFFICES ASSUME CacheInv, [CacheNext]_cvars PROVE CacheInv'
  OBVIOUS
<1>1. CASE UNCHANGED cvars
  <2>1. lives' = lives /\ lists' = lists /\ cacher' = cacher /\ cuts' = cuts
    BY <1>1 DEF cvars
  <2>2. Index' = Index /\ Active' = Active /\ Trimming' = Trimming
        /\ \A S : Room(S)' = Room(S)
    BY <2>1 DEF Index, Active, Trimming, Room
  <2>3. CacheShape' /\ DocumentsListed'
    BY <2>1, <2>2 DEF CacheInv, CacheShape, DocumentsListed
  <2>4. TrimsSuffice'
    BY <2>1, <2>2 DEF CacheInv, TrimsSuffice, LeavesAtMost
  <2>5. QED  BY <2>3, <2>4 DEF CacheInv
<1>2. CASE \E g \in Cachers, n \in Cached : CacheAnnouncement(g, n)
  BY <1>2, StoreStep
<1>3. CASE \E g \in Cachers : CountCached(g)
  BY <1>3, CountStep
<1>4. CASE \E g \in Cachers : ListOldest(g)
  BY <1>4, ListStep
<1>5. CASE \E g \in Cachers : ReadOldest(g)
  BY <1>5, ReadStep
<1>6. CASE \E g \in Cachers : RemoveOldest(g)
  BY <1>6, RemoveStep
<1>7. CASE \E g \in Cachers : TrimCut(g)
  BY <1>7, CutStep
<1>8. CASE KeysAge
  BY <1>8, AgeStep
<1>9. QED  BY <1>1, <1>2, <1>3, <1>4, <1>5, <1>6, <1>7, <1>8 DEF CacheNext

(* Documents never outlive the lists that name them, and the trims between them leave no
   more than the limit, whatever they remove beside each other
   (announcement_cache.go cacheSyncAnnouncement, trimCachedSyncAnnouncements). *)
THEOREM CacheInvariant == CacheSpec => []CacheInv
<1> QED  BY CacheStarts, CacheStep, PTL DEF CacheSpec

(* Every document is listed, and the cache is over its limit only by the trims that are not
   done or were cut short. *)
THEOREM CacheHoldsTogetherHolds == CacheSpec => []CacheHoldsTogether
<1>1. ASSUME CacheInv PROVE CacheHoldsTogether
  <2>1. Active \ {} = Active
    OBVIOUS
  <2>2. QED  BY <1>1, <2>1 DEF CacheInv, DocumentsListed, TrimsSuffice, Room, CacheHoldsTogether, Index, Active
<1>2. QED  BY <1>1, CacheInvariant, PTL
-----------------------------------------------------------------------------
-----------------------------------------------------------------------------
(* Extensions: what the registry makes of what is installed. *)

BundleKinds == {"plugin", "theme", "app"}
OwnPlugins == {b \in Builtin : b.kind = "plugin"}
OwnThemes == {b \in Builtin : b.kind = "theme"}
OwnApp(id) == {b \in Builtin : b.kind = "app" /\ b.id = id}

(* What may be in the directory of a key. *)
IsFor(e, k) ==
    \/ e = Absent \/ e = Partial
    \/ \E b : e = Copied(b) /\ Key(b) = k
    \/ \E d \in DOMAIN Folders : e = LinkTo(d) /\ Key(Folders[d]) = k
StoreShape ==
    /\ installed = [k \in Keys |-> installed[k]] /\ folders \subseteq DOMAIN Folders
    /\ \A k \in Keys : /\ IsFor(installed[k], k)
                       /\ k[1] = "app" /\ installed[k] # Absent => OwnApp(k[2]) = {}
Holds(b) == Key(b) \in Keys /\ Followed(installed[Key(b)]) = Copied(b)

LEMMA EntriesApart ==
    /\ Absent # Partial /\ Absent.is = "absent" /\ Partial.is = "partial"
    /\ \A b : Copied(b) \notin {Absent, Partial} /\ Copied(b).is = "copy" /\ Copied(b).bundle = b
    /\ \A d : LinkTo(d) \notin {Absent, Partial} /\ LinkTo(d).is = "link" /\ LinkTo(d).dir = d
    /\ \A b, d : Copied(b) # LinkTo(d)
<1>1. /\ Absent.is = "absent" /\ Partial.is = "partial"
      /\ \A b : Copied(b).is = "copy" /\ Copied(b).bundle = b
      /\ \A d : LinkTo(d).is = "link" /\ LinkTo(d).dir = d
  BY DEF Absent, Partial, Copied, LinkTo
<1>2. QED  BY <1>1

LEMMA FollowedIs ==
    ASSUME NEW k, NEW e, IsFor(e, k)
    PROVE  Followed(e) \in {Absent, Partial} \/ \E b : Followed(e) = Copied(b) /\ Key(b) = k
<1>1. CASE e \in {Absent, Partial}
  BY <1>1, EntriesApart DEF Followed
<1>2. CASE \E b : e = Copied(b) /\ Key(b) = k
  BY <1>2, EntriesApart DEF Followed
<1>3. CASE \E d \in DOMAIN Folders : e = LinkTo(d) /\ Key(Folders[d]) = k
  BY <1>3, EntriesApart DEF Followed
<1>4. QED  BY <1>1, <1>2, <1>3 DEF IsFor

LEMMA KeyIs == \A b : Key(b)[1] = b.kind /\ Key(b)[2] = b.id /\ Key(b) = <<b.kind, b.id>> /\ Key(b) # <<>>
<1> TAKE b
<1>1. Key(b) = <<b.kind, b.id>>
  BY DEF Key
<1>2. <<b.kind, b.id>> # <<>>
  OBVIOUS
<1>3. QED  BY <1>1, <1>2

(* A bundle is in its list when the directory of its name holds it. *)
LEMMA InBundles ==
    ASSUME StoreShape, NEW kind, NEW b
    PROVE  b \in Bundles(kind) <=> b.kind = kind /\ Holds(b)
<1>1. ASSUME b \in Bundles(kind) PROVE b.kind = kind /\ Holds(b)
  <2>1. PICK k \in Keys : /\ k[1] = kind /\ Followed(installed[k]) \notin {Absent, Partial}
                          /\ b = Followed(installed[k]).bundle
    BY <1>1 DEF Bundles, InstalledNames
  <2>2. PICK c : Followed(installed[k]) = Copied(c) /\ Key(c) = k
    BY <2>1, FollowedIs DEF StoreShape
  <2>3. c = b
    BY <2>1, <2>2, EntriesApart
  <2>4. QED  BY <2>1, <2>2, <2>3, KeyIs DEF Holds
<1>2. ASSUME b.kind = kind, Holds(b) PROVE b \in Bundles(kind)
  <2>1. /\ Key(b) \in Keys /\ Key(b)[1] = kind /\ Followed(installed[Key(b)]) = Copied(b)
        /\ Copied(b) \notin {Absent, Partial} /\ Copied(b).bundle = b
    BY <1>2, KeyIs, EntriesApart DEF Holds
  <2>2. Copied(b) \in InstalledNames(kind) \ {Partial}
    BY <2>1 DEF InstalledNames
  <2>3. QED  BY <2>1, <2>2 DEF Bundles
<1>3. QED  BY <1>1, <1>2

LEMMA OnePerName ==
    ASSUME StoreShape, NEW kind, NEW b \in Bundles(kind), NEW c \in Bundles(kind), b.id = c.id
    PROVE  b = c
<1>1. b.kind = kind /\ c.kind = kind /\ Holds(b) /\ Holds(c)
  BY InBundles
<1>2. Key(b) = Key(c)
  BY <1>1 DEF Key
<1>3. Copied(b) = Copied(c)
  BY <1>1, <1>2 DEF Holds
<1>4. QED  BY <1>3, EntriesApart

LEMMA BundlesFinite == ASSUME StoreShape, NEW kind PROVE IsFiniteSet(Bundles(kind))
<1>1. IsFiniteSet(Keys)
  <2> DEFINE f == [d \in DOMAIN Folders |-> Key(Folders[d])]
  <2>1. f \in Surjection(DOMAIN Folders, Keys)
    BY DEF Surjection, Keys
  <2>2. QED  BY <2>1, FS_Surjection, ExtConstants
<1>2. PICK S : S = {k \in Keys : \E b \in Bundles(kind) : Key(b) = k}
  OBVIOUS
<1>3. IsFiniteSet(S)
  BY <1>1, <1>2, FS_Subset
<1> DEFINE g == [b \in Bundles(kind) |-> Key(b)]
<1>4. \A b, c \in Bundles(kind) : Key(b) = Key(c) => b = c
  BY OnePerName, KeyIs
<1>5. \A b \in Bundles(kind) : Key(b) \in S
  BY <1>2, InBundles DEF Holds
<1>6. g \in Injection(Bundles(kind), S)
  BY <1>4, <1>5 DEF Injection, IsInjective
<1>7. QED  BY <1>3, <1>6, FS_Injection

(* The plugins that go in one after the other. *)
IsGrowth(g, first, pending, n) ==
    g = [i \in 0..n |-> IF i = 0 THEN first ELSE WithBased(g[i - 1], pending)]

LEMMA GrowthExists ==
    ASSUME NEW first, NEW pending, NEW n \in Nat
    PROVE  \E g : IsGrowth(g, first, pending, n)
<1> DEFINE Without == {m \in Nat : ~\E g : IsGrowth(g, first, pending, m)}
<1>1. SUFFICES ASSUME Without # {} PROVE FALSE
  OBVIOUS
<1>2. PICK m \in Without : \A l \in Without : m <= l
  <2> HIDE DEF Without
  <2>1. Without \subseteq Nat
    BY DEF Without
  <2>2. QED  BY <1>1, <2>1, LeastNumber
<1>3. m # 0
  <2>1. IsGrowth([i \in 0..0 |-> first], first, pending, 0)
    BY DEF IsGrowth
  <2>2. QED  BY <2>1
<1>4. m - 1 \in Nat /\ ~(m <= m - 1) /\ m \in Nat
  BY <1>3
<1>5. PICK h : IsGrowth(h, first, pending, m - 1)
  <2>1. m - 1 \notin Without
    BY <1>2, <1>4
  <2>2. QED  BY <1>4, <2>1
<1>6. PICK f : f = [i \in 0..m |-> IF i = m THEN WithBased(h[m - 1], pending) ELSE h[i]]
  OBVIOUS
<1>7. ASSUME NEW i \in 0..m
      PROVE  f[i] = IF i = 0 THEN first ELSE WithBased(f[i - 1], pending)
  <2>1. CASE i = m
    <3>1. m - 1 \in 0..m /\ m - 1 # m
      BY <1>4
    <3>2. f[m - 1] = h[m - 1]
      BY <1>6, <3>1
    <3>3. QED  BY <1>3, <1>6, <2>1, <3>2
  <2>2. CASE i # m
    <3>1. i \in 0..(m - 1) /\ (i # 0 => i - 1 \in 0..m /\ i - 1 # m)
      BY <1>4, <2>2
    <3>2. h[i] = IF i = 0 THEN first ELSE WithBased(h[i - 1], pending)
      BY <1>5, <3>1 DEF IsGrowth
    <3>3. f[i] = h[i] /\ (i # 0 => f[i - 1] = h[i - 1])
      BY <1>6, <2>2, <3>1
    <3>4. QED  BY <3>2, <3>3
  <2>3. QED  BY <2>1, <2>2
<1>8. DOMAIN f = 0..m /\ f = [i \in 0..m |-> f[i]]
  BY <1>6
<1>9. IsGrowth(f, first, pending, m)
  BY <1>7, <1>8 DEF IsGrowth
<1>10. QED  BY <1>2, <1>9

LEMMA ResolvedIs ==
    ASSUME NEW first, NEW pending, IsFiniteSet(pending)
    PROVE  \E g : /\ IsGrowth(g, first, pending, Cardinality(pending))
                  /\ Resolved(first, pending) = g[Cardinality(pending)]
<1> DEFINE G == CHOOSE g : g = [n \in 0..Cardinality(pending) |-> IF n = 0 THEN first ELSE WithBased(g[n - 1], pending)]
<1>1. Cardinality(pending) \in Nat
  BY FS_CardinalityType
<1>2. PICK f : IsGrowth(f, first, pending, Cardinality(pending))
  BY <1>1, GrowthExists
<1>3. IsGrowth(G, first, pending, Cardinality(pending))
  BY <1>2 DEF IsGrowth
<1>4. Resolved(first, pending) = G[Cardinality(pending)]
  BY DEF Resolved
<1>5. QED  BY <1>3, <1>4

StandsIn(b, s) == b.base \in IdsOfBundles(s) \cup {""}
(* At every step what is in was there or pending, and stands on what is in. *)
Rooted(s, first, pending) ==
    /\ first \subseteq s /\ s \subseteq first \cup pending
    /\ \A q \in s \ first : StandsIn(q, s)

LEMMA GrowthRooted ==
    ASSUME NEW first, NEW pending, NEW n \in Nat, NEW g, IsGrowth(g, first, pending, n), NEW m \in 0..n
    PROVE  Rooted(g[m], first, pending)
<1> DEFINE Bad == {i \in 0..n : ~Rooted(g[i], first, pending)}
<1>1. SUFFICES ASSUME Bad # {} PROVE FALSE
  OBVIOUS
<1>2. PICK i \in Bad : \A l \in Bad : i <= l
  <2> HIDE DEF Bad
  <2>1. Bad \subseteq Nat
    BY DEF Bad
  <2>2. QED  BY <1>1, <2>1, LeastNumber
<1>3. i # 0
  <2>1. g[0] = first
    BY DEF IsGrowth
  <2>2. QED  BY <2>1 DEF Rooted
<1>4. i - 1 \in 0..n /\ ~(i <= i - 1) /\ i \in 0..n
  BY <1>3
<1>5. PICK s : s = g[i - 1]
  OBVIOUS
<1>6. Rooted(s, first, pending)
  BY <1>2, <1>4, <1>5
<1>7. g[i] = WithBased(s, pending)
  BY <1>3, <1>4, <1>5 DEF IsGrowth
<1>8. IdsOfBundles(s) \subseteq IdsOfBundles(WithBased(s, pending))
  BY DEF IdsOfBundles, WithBased
<1>9. Rooted(WithBased(s, pending), first, pending)
  BY <1>6, <1>8 DEF Rooted, WithBased, StandsIn
<1>10. QED  BY <1>2, <1>7, <1>9

LEMMA ResolvedRooted ==
    ASSUME NEW first, NEW pending, IsFiniteSet(pending)
    PROVE  Rooted(Resolved(first, pending), first, pending)
<1>1. Cardinality(pending) \in Nat /\ Cardinality(pending) \in 0..Cardinality(pending)
  BY FS_CardinalityType
<1>2. QED  BY <1>1, ResolvedIs, GrowthRooted

(* One more, based on what is in, goes in too. *)
LEMMA OneMoreResolves ==
    ASSUME NEW first, NEW pending, IsFiniteSet(pending), pending \subseteq Resolved(first, pending),
           NEW b, StandsIn(b, first \cup pending)
    PROVE  pending \cup {b} \subseteq Resolved(first, pending \cup {b})
<1>1. CASE b \in pending
  <2>1. pending \cup {b} = pending
    BY <1>1
  <2>2. QED  BY <2>1
<1>2. CASE b \notin pending
  <2>1. PICK n \in Nat : /\ n = Cardinality(pending) /\ IsFiniteSet(pending \cup {b})
                         /\ Cardinality(pending \cup {b}) = n + 1
    BY <1>2, FS_CardinalityType, FS_AddElement
  <2>2. PICK g : IsGrowth(g, first, pending, n) /\ Resolved(first, pending) = g[n]
    BY <2>1, ResolvedIs
  <2>3. PICK h : IsGrowth(h, first, pending \cup {b}, n + 1) /\ Resolved(first, pending \cup {b}) = h[n + 1]
    BY <2>1, ResolvedIs
  <2> DEFINE Bad == {i \in 0..n : ~(g[i] \subseteq h[i])}
  <2>4. Bad = {}
    <3>1. SUFFICES ASSUME Bad # {} PROVE FALSE
      OBVIOUS
    <3>2. PICK i \in Bad : \A l \in Bad : i <= l
      <4> HIDE DEF Bad
      <4>1. Bad \subseteq Nat
        BY <2>1 DEF Bad
      <4>2. QED  BY <3>1, <4>1, LeastNumber
    <3>3. g[0] = first /\ h[0] = first
      BY <2>1, <2>2, <2>3 DEF IsGrowth
    <3>4. i # 0 /\ i - 1 \in 0..n /\ ~(i <= i - 1) /\ i \in 0..n /\ i \in 0..(n + 1)
      BY <2>1, <3>2, <3>3
    <3>5. g[i - 1] \subseteq h[i - 1]
      BY <3>2, <3>4
    <3>6. g[i] = WithBased(g[i - 1], pending) /\ h[i] = WithBased(h[i - 1], pending \cup {b})
      BY <2>1, <2>2, <2>3, <3>4 DEF IsGrowth
    <3>7. g[i] \subseteq h[i]
      BY <3>5, <3>6 DEF WithBased, IdsOfBundles
    <3>8. QED  BY <3>2, <3>7
  <2>5. g[n] \subseteq h[n]
    BY <2>1, <2>4
  <2>6. h[n + 1] = WithBased(h[n], pending \cup {b})
    <3>1. n + 1 \in 0..(n + 1) /\ n + 1 # 0 /\ n + 1 - 1 = n
      BY <2>1
    <3>2. PICK p : p = pending \cup {b}
      OBVIOUS
    <3>3. \A i \in 0..(n + 1) : i # 0 => h[i] = WithBased(h[i - 1], p)
      BY <2>3, <3>2 DEF IsGrowth
    <3>4. PICK m \in 0..(n + 1) : m = n + 1 /\ m # 0 /\ m - 1 = n
      BY <3>1
    <3>5. h[m] = WithBased(h[m - 1], p)
      BY <3>3, <3>4
    <3>6. QED  BY <3>2, <3>4, <3>5
  <2>7. first \cup pending \subseteq h[n]
    <3>1. first \subseteq g[n]
      BY <2>1, <2>2, ResolvedRooted DEF Rooted
    <3>2. QED  BY <2>2, <2>5, <3>1
  <2>8. StandsIn(b, h[n])
    BY <2>7 DEF StandsIn, IdsOfBundles
  <2>9. pending \cup {b} \subseteq WithBased(h[n], pending \cup {b})
    BY <2>7, <2>8 DEF WithBased, StandsIn
  <2>10. QED  BY <2>3, <2>6, <2>9
<1>3. QED  BY <1>1, <1>2

-----------------------------------------------------------------------------
(* What a host that starts, and an install, make of the registry. *)

Others(kind, k) == {b \in Bundles(kind) : Key(b) # k}
PluginsBut(k) == OwnPlugins \cup Others("plugin", k)
ThemesBut(k) == OwnThemes \cup Others("theme", k)

(* An app of the program starts, and an app that brings parts starts, with these plugins
   and themes and those that it brings. *)
Selects(P, T, a) ==
    /\ a.uses \subseteq IdsOfBundles(P)
    /\ \E t \in T : t.id = a.theme /\ ValidateSelection({p \in P : p.id \in a.uses}, t)
NewTo(P, T, a) ==
    /\ \A p \in a.plugins : StandsIn(p, P) /\ p.id \notin IdsOfBundles(P)
    /\ \A t \in a.themes : t.id \notin IdsOfBundles(T)
CanStart(P, T, a) == NewTo(P, T, a) /\ Selects(P \cup a.plugins, T \cup a.themes, a)

(* The lists can be read, and every plugin finds what it is based on. *)
SoundBut(k) ==
    /\ \A j \in Keys \ {k} : j[1] \in BundleKinds => Followed(installed[j]) # Partial
    /\ Others("plugin", k) \subseteq Resolved(OwnPlugins, Others("plugin", k))

LEMMA ListsIs == \A kind : Lists(kind) <=> \A j \in Keys : j[1] = kind => Followed(installed[j]) # Partial
<1>1. Absent # Partial
  BY EntriesApart
<1>2. QED  BY <1>1 DEF Lists, InstalledNames

LEMMA OthersFinite == ASSUME StoreShape, NEW kind, NEW k PROVE IsFiniteSet(Others(kind, k))
BY BundlesFinite, FS_Subset DEF Others

LEMMA RegistryIs ==
    ASSUME StoreShape, NEW k, RegisterIntoRegistry(k).ok
    PROVE  /\ RegisterIntoRegistry(k).plugins = PluginsBut(k)
           /\ RegisterIntoRegistry(k).themes = ThemesBut(k)
           /\ \A kind \in BundleKinds : Lists(kind)
           /\ Others("plugin", k) \subseteq Resolved(OwnPlugins, Others("plugin", k))
<1>1. PICK R : R = Resolved(OwnPlugins, Others("plugin", k))
  OBVIOUS
<1>2. PICK r : r = RegisterIntoRegistry(k)
  OBVIOUS
<1> DEFINE Ok == (\A kind \in {"theme", "plugin", "app"} : Lists(kind)) /\ Others("plugin", k) \subseteq R
<1>3. r = [ok |-> Ok, plugins |-> R, themes |-> Others("theme", k) \cup OwnThemes,
           apps |-> {b \in Bundles("app") : Key(b) # k}]
  BY <1>1, <1>2 DEF RegisterIntoRegistry, Others, OwnPlugins, OwnThemes
<1>4. Ok
  <2> HIDE DEF Ok
  <2>1. r.ok = Ok
    BY <1>3
  <2>2. QED  BY <1>2, <2>1
<1>5. Rooted(R, OwnPlugins, Others("plugin", k))
  BY <1>1, OthersFinite, ResolvedRooted
<1>6. R = PluginsBut(k)
  BY <1>4, <1>5 DEF Rooted, PluginsBut
<1>7. r.plugins = R /\ r.themes = ThemesBut(k)
  BY <1>3 DEF ThemesBut
<1>8. QED  BY <1>1, <1>2, <1>4, <1>6, <1>7 DEF BundleKinds

LEMMA RegistrySound ==
    ASSUME StoreShape, NEW k, \A kind \in BundleKinds : Lists(kind),
           Others("plugin", k) \subseteq Resolved(OwnPlugins, Others("plugin", k))
    PROVE  RegisterIntoRegistry(k).ok
<1>1. PICK R : R = Resolved(OwnPlugins, Others("plugin", k))
  OBVIOUS
<1> DEFINE Ok == (\A kind \in {"theme", "plugin", "app"} : Lists(kind)) /\ Others("plugin", k) \subseteq R
<1>2. RegisterIntoRegistry(k)
        = [ok |-> Ok, plugins |-> R, themes |-> Others("theme", k) \cup OwnThemes,
           apps |-> {b \in Bundles("app") : Key(b) # k}]
  BY <1>1 DEF RegisterIntoRegistry, Others, OwnPlugins, OwnThemes
<1>3. Ok
  BY <1>1 DEF BundleKinds
<1>4. RegisterIntoRegistry(k).ok = Ok
  <2> HIDE DEF Ok
  <2>1. QED  BY <1>2
<1>5. QED  BY <1>3, <1>4

LEMMA AppsIs ==
    ASSUME NEW k PROVE RegisterIntoRegistry(k).apps = Others("app", k)
BY DEF RegisterIntoRegistry, Others

LEMMA NothingSkipped ==
    ASSUME NEW kind PROVE Others(kind, <<>>) = Bundles(kind)
BY KeyIs DEF Others

(* Another app in the registry changes neither plugins nor themes. *)
LEMMA AppsChangeNothing ==
    ASSUME StoreShape, NEW k, NEW kind, k[1] # kind PROVE Others(kind, k) = Bundles(kind)
<1>1. \A b \in Bundles(kind) : Key(b) # k
  BY InBundles, KeyIs
<1>2. QED  BY <1>1 DEF Others

LEMMA ValidIs ==
    ASSUME NEW r, NEW a
    PROVE  ValidateAppBundle(r, a) <=> Selects(r.plugins, r.themes, a)
BY DEF ValidateAppBundle, Selects

LEMMA BringsIs ==
    ASSUME NEW k, NEW a, NEW r, r = RegisterIntoRegistry(k)
    PROVE  Brings(r, a) /\ ValidateAppBundle(WithOwn(r, a), a) <=> CanStart(r.plugins, r.themes, a)
<1>1. Brings(r, a) <=> NewTo(r.plugins, r.themes, a)
  BY DEF Brings, NewTo, StandsIn
<1>2. \E ok, P, T, A : r = [ok |-> ok, plugins |-> P, themes |-> T, apps |-> A]
  BY DEF RegisterIntoRegistry
<1>3. WithOwn(r, a).plugins = r.plugins \cup a.plugins /\ WithOwn(r, a).themes = r.themes \cup a.themes
  BY <1>2 DEF WithOwn
<1>4. ValidateAppBundle(WithOwn(r, a), a) <=> Selects(r.plugins \cup a.plugins, r.themes \cup a.themes, a)
  BY <1>3, ValidIs
<1>5. QED  BY <1>1, <1>4 DEF CanStart

(* host.New. *)
LEMMA StartsIs ==
    ASSUME StoreShape, NEW id
    PROVE  Starts(id) <=>
               /\ RegisterIntoRegistry(<<>>).ok
               /\ IF OwnApp(id) # {}
                  THEN \E b \in OwnApp(id) : Selects(PluginsBut(<<>>), ThemesBut(<<>>), b)
                  ELSE \E b \in Bundles("app") : b.id = id /\ CanStart(PluginsBut(<<>>), ThemesBut(<<>>), b) /\ ~b.twice
<1>1. PICK r : r = RegisterIntoRegistry(<<>>)
  OBVIOUS
<1>2. r.apps = Bundles("app")
  BY <1>1, AppsIs, NothingSkipped
<1>3. PICK app : app = CHOOSE b \in r.apps : b.id = id
  OBVIOUS
<1>4. Starts(id) <=> /\ r.ok
                     /\ IF OwnApp(id) # {} THEN \E b \in OwnApp(id) : ValidateAppBundle(r, b)
                        ELSE /\ id \in IdsOfBundles(r.apps) /\ Brings(r, app)
                             /\ ValidateAppBundle(WithOwn(r, app), app) /\ ~app.twice
  BY <1>1, <1>3 DEF Starts, OwnApp
<1>5. CASE ~r.ok
  BY <1>1, <1>4, <1>5
<1>6. CASE r.ok
  <2>1. r.plugins = PluginsBut(<<>>) /\ r.themes = ThemesBut(<<>>)
    BY <1>1, <1>6, RegistryIs
  <2>2. \A b \in OwnApp(id) : ValidateAppBundle(r, b) <=> Selects(PluginsBut(<<>>), ThemesBut(<<>>), b)
    BY <2>1, ValidIs
  <2>3. Brings(r, app) /\ ValidateAppBundle(WithOwn(r, app), app) <=> CanStart(PluginsBut(<<>>), ThemesBut(<<>>), app)
    BY <1>1, <2>1, BringsIs
  <2>4. ASSUME NEW b \in Bundles("app"), b.id = id PROVE app = b /\ id \in IdsOfBundles(r.apps)
    <3>1. app \in Bundles("app") /\ app.id = id
      BY <1>2, <1>3, <2>4
    <3>2. QED  BY <1>2, <2>4, <3>1, OnePerName DEF IdsOfBundles
  <2>5. id \in IdsOfBundles(r.apps) => \E b \in Bundles("app") : b.id = id
    BY <1>2 DEF IdsOfBundles
  <2>6. QED  BY <1>1, <1>4, <1>6, <2>2, <2>3, <2>4, <2>5
<1>7. QED  BY <1>5, <1>6

(* "apps validate" says what the host does, and what an app that starts does not bring
   passes "inspect". *)
LEMMA InstalledIsNew ==
    ASSUME StoreShape, NEW b \in Bundles("app")
    PROVE  OwnApp(b.id) = {} /\ Key(b)[1] = "app"
<1>1. Holds(b) /\ b.kind = "app"
  BY InBundles
<1>2. installed[Key(b)] # Absent
  <2>1. Followed(Absent) = Absent /\ Copied(b) # Absent
    BY EntriesApart DEF Followed
  <2>2. QED  BY <1>1, <2>1 DEF Holds
<1>3. QED  BY <1>1, <1>2, KeyIs DEF StoreShape, Holds

LEMMA SoundRegistry ==
    ASSUME StoreShape, NEW k
    PROVE  RegisterIntoRegistry(k).ok <=>
               /\ \A kind \in BundleKinds : Lists(kind)
               /\ Others("plugin", k) \subseteq Resolved(OwnPlugins, Others("plugin", k))
BY RegistryIs, RegistrySound

LEMMA InspectIs ==
    ASSUME StoreShape, NEW b \in Bundles("app"), ~b.twice
    PROVE  InspectApp(b.id) <=> Starts(b.id)
<1>1. OwnApp(b.id) = {} /\ Key(b)[1] = "app"
  BY InstalledIsNew
<1>2. \A c \in Bundles("app") : c.id = b.id => c = b
  BY OnePerName
<1>3. InspectApp(b.id) <=> InspectAppDir(b)
  BY <1>2 DEF InspectApp
<1>4. PICK r : r = RegisterIntoRegistry(Key(b))
  OBVIOUS
<1>5. Others("plugin", Key(b)) = Others("plugin", <<>>) /\ Others("theme", Key(b)) = Others("theme", <<>>)
  BY <1>1, AppsChangeNothing, NothingSkipped
<1>6. r.ok <=> RegisterIntoRegistry(<<>>).ok
  BY <1>4, <1>5, SoundRegistry
<1>7. PluginsBut(Key(b)) = PluginsBut(<<>>) /\ ThemesBut(Key(b)) = ThemesBut(<<>>)
  BY <1>5 DEF PluginsBut, ThemesBut
<1>8. r.ok => r.plugins = PluginsBut(<<>>) /\ r.themes = ThemesBut(<<>>)
  BY <1>4, <1>7, RegistryIs
<1>9. InspectAppDir(b) <=> r.ok /\ CanStart(r.plugins, r.themes, b)
  BY <1>4, BringsIs DEF InspectAppDir
<1>10. Starts(b.id) <=> RegisterIntoRegistry(<<>>).ok /\ CanStart(PluginsBut(<<>>), ThemesBut(<<>>), b)
  BY <1>1, <1>2, StartsIs
<1>11. QED  BY <1>3, <1>6, <1>8, <1>9, <1>10

LEMMA PluginStands ==
    ASSUME StoreShape, RegisterIntoRegistry(<<>>).ok, NEW q \in PluginsBut(<<>>)
    PROVE  StandsIn(q, PluginsBut(<<>>))
<1>1. PICK P : P = PluginsBut(<<>>)
  OBVIOUS
<1>2. PICK R : R = Resolved(OwnPlugins, Others("plugin", <<>>))
  OBVIOUS
<1>3. Rooted(R, OwnPlugins, Others("plugin", <<>>))
  BY <1>2, OthersFinite, ResolvedRooted
<1>4. R = P
  BY <1>1, <1>2, <1>3, RegistryIs DEF Rooted, PluginsBut
<1>5. CASE q \in OwnPlugins
  <2>1. q.base \in {""} \cup {c.id : c \in OwnPlugins}
    BY <1>5, ExtConstants DEF OwnPlugins
  <2>2. OwnPlugins \subseteq P
    BY <1>1 DEF PluginsBut
  <2>3. q.base \in {""} \cup {c.id : c \in P}
    BY <2>1, <2>2
  <2>4. QED  BY <1>1, <2>3 DEF StandsIn, IdsOfBundles
<1>6. CASE q \notin OwnPlugins
  BY <1>1, <1>3, <1>4, <1>6 DEF Rooted
<1>7. QED  BY <1>5, <1>6

LEMMA StartedPassesInspect ==
    ASSUME StoreShape, NEW b \in Bundles("app"), Starts(b.id)
    PROVE  /\ \A p \in b.uses \ IdsOfBundles(b.plugins) : InspectPlugin(p)
           /\ b.theme \in IdsOfBundles(b.themes) \/ InspectTheme(b.theme)
<1>1. OwnApp(b.id) = {} /\ \A c \in Bundles("app") : c.id = b.id => c = b
  BY InstalledIsNew, OnePerName
<1>2. RegisterIntoRegistry(<<>>).ok /\ CanStart(PluginsBut(<<>>), ThemesBut(<<>>), b)
  BY <1>1, StartsIs
<1>3. PICK P, T : P = PluginsBut(<<>>) /\ T = ThemesBut(<<>>)
  OBVIOUS
<1>4. Selects(P \cup b.plugins, T \cup b.themes, b)
  BY <1>2, <1>3 DEF CanStart
<1>5. ASSUME NEW p \in b.uses \ IdsOfBundles(b.plugins) PROVE InspectPlugin(p)
  <2>1. PICK q \in P \cup b.plugins : q.id = p
    BY <1>4, <1>5 DEF Selects, IdsOfBundles
  <2>2. q \in P
    BY <1>5, <2>1 DEF IdsOfBundles
  <2>3. RegisterIntoRegistry(<<>>).plugins = P
    BY <1>2, <1>3, RegistryIs
  <2>4. StandsIn(q, P)
    BY <1>2, <1>3, <2>2, PluginStands
  <2>5. QED  BY <1>2, <2>1, <2>2, <2>3, <2>4 DEF InspectPlugin, StandsIn
<1>6. ASSUME b.theme \notin IdsOfBundles(b.themes) PROVE InspectTheme(b.theme)
  <2>1. PICK t \in T \cup b.themes : t.id = b.theme
    BY <1>4 DEF Selects
  <2>2. t \in T
    BY <1>6, <2>1 DEF IdsOfBundles
  <2>3. t \in Bundles("theme") \cup Builtin /\ t.kind = "theme"
    BY <1>3, <2>2, InBundles DEF ThemesBut, Others, OwnThemes
  <2>4. QED  BY <2>1, <2>3 DEF InspectTheme
<1>7. QED  BY <1>5, <1>6

LEMMA ValidStart == ASSUME StoreShape PROVE ValidAppsStart
BY InspectIs, StartedPassesInspect DEF ValidAppsStart

-----------------------------------------------------------------------------
(* An install, next to what else is installed. *)

AppsBut(id, k) == {b \in Others("app", k) \cup Builtin : b.kind = "app" /\ b.id = id}

(* An app would start next to something under k, but for parts based on k. *)
NewBut(k, a) ==
    /\ \A p \in a.plugins : /\ StandsIn(p, PluginsBut(k)) \/ <<"plugin", p.base>> = k
                            /\ p.id \notin IdsOfBundles(PluginsBut(k))
    /\ \A t \in a.themes : t.id \notin IdsOfBundles(ThemesBut(k))
StartsBut(k, id) ==
    IF OwnApp(id) # {} THEN \E b \in OwnApp(id) : Selects(PluginsBut(k), ThemesBut(k), b)
    ELSE \E a \in Others("app", k) :
            /\ a.id = id /\ ~a.twice /\ NewBut(k, a)
            /\ Selects(PluginsBut(k) \cup a.plugins, ThemesBut(k) \cup a.themes, a)
Spared(id, k) == k = <<"app", id>> \/ (\E a \in AppsBut(id, k) : k \in PartsOf(a)) \/ StartsBut(k, id)
(* What an install was let in for. *)
Fits(b) ==
    /\ b.kind \in BundleKinds /\ SoundBut(Key(b))
    /\ b.kind = "plugin" => StandsIn(b, PluginsBut(Key(b)))
    /\ b.kind = "app" => OwnApp(b.id) = {} /\ CanStart(PluginsBut(Key(b)), ThemesBut(Key(b)), b)

LEMMA MadeOfIs ==
    ASSUME NEW id, NEW k
    PROVE  k \in MadeOf(id) <=> k = <<"app", id>> \/ \E a \in AppsOf(id) : k \in PartsOf(a)
BY DEF MadeOf

(* What an app does not use makes no difference to its selection. *)
LEMMA SelectsSame ==
    ASSUME NEW P, NEW T, NEW Q, NEW U, NEW a, P \subseteq Q, T \subseteq U,
           \A c \in Q \ P : c.id \notin a.uses, \A t \in U \ T : t.id # a.theme
    PROVE  Selects(P, T, a) <=> Selects(Q, U, a)
<1>1. {p \in P : p.id \in a.uses} = {p \in Q : p.id \in a.uses}
  OBVIOUS
<1>2. a.uses \subseteq IdsOfBundles(P) <=> a.uses \subseteq IdsOfBundles(Q)
  <2>1. ASSUME a.uses \subseteq IdsOfBundles(P) PROVE a.uses \subseteq IdsOfBundles(Q)
    BY <2>1 DEF IdsOfBundles
  <2>2. ASSUME a.uses \subseteq IdsOfBundles(Q) PROVE a.uses \subseteq IdsOfBundles(P)
    <3>1. SUFFICES ASSUME NEW i \in a.uses PROVE i \in IdsOfBundles(P)
      OBVIOUS
    <3>2. PICK c \in Q : c.id = i
      BY <2>2, <3>1 DEF IdsOfBundles
    <3>3. c \in P
      BY <3>1, <3>2
    <3>4. QED  BY <3>2, <3>3 DEF IdsOfBundles
  <2>3. QED  BY <2>1, <2>2
<1>3. PICK S : S = {p \in P : p.id \in a.uses}
  OBVIOUS
<1>4. (\E t \in T : t.id = a.theme /\ ValidateSelection(S, t)) <=> (\E t \in U : t.id = a.theme /\ ValidateSelection(S, t))
  OBVIOUS
<1>5. QED  BY <1>1, <1>2, <1>3, <1>4 DEF Selects

(* What is under k, when k is there. *)
Under(kind, k) == {b \in Bundles(kind) : Key(b) = k}
LEMMA UnderSplits ==
    ASSUME StoreShape, NEW k
    PROVE  /\ PluginsBut(<<>>) = PluginsBut(k) \cup Under("plugin", k)
           /\ ThemesBut(<<>>) = ThemesBut(k) \cup Under("theme", k)
           /\ \A b \in Under("plugin", k) : k = <<"plugin", b.id>>
           /\ \A t \in Under("theme", k) : k = <<"theme", t.id>>
<1>1. \A kind : Others(kind, <<>>) = Others(kind, k) \cup Under(kind, k)
  BY NothingSkipped DEF Others, Under
<1>2. \A kind : \A b \in Under(kind, k) : k = <<kind, b.id>>
  BY InBundles, KeyIs DEF Under
<1>3. QED  BY <1>1, <1>2 DEF PluginsBut, ThemesBut

(* Selection, with k and without, by an app that has no part of that name. *)
LEMMA SelectsBut ==
    ASSUME StoreShape, NEW k, NEW a, k \notin PartsOf(a), NEW X, NEW Y
    PROVE  Selects(PluginsBut(<<>>) \cup X, ThemesBut(<<>>) \cup Y, a)
             <=> Selects(PluginsBut(k) \cup X, ThemesBut(k) \cup Y, a)
<1>1. PICK P, T, Q, U : /\ P = PluginsBut(k) \cup X /\ T = ThemesBut(k) \cup Y
                        /\ Q = PluginsBut(<<>>) \cup X /\ U = ThemesBut(<<>>) \cup Y
  OBVIOUS
<1>2. P \subseteq Q /\ T \subseteq U
  BY <1>1, UnderSplits
<1>3. \A c \in Q \ P : c.id \notin a.uses
  <2>1. SUFFICES ASSUME NEW c \in Q \ P PROVE c.id \notin a.uses
    OBVIOUS
  <2>2. k = <<"plugin", c.id>>
    BY <1>1, <2>1, UnderSplits
  <2>3. QED  BY <2>2 DEF PartsOf
<1>4. \A t \in U \ T : t.id # a.theme
  <2>1. SUFFICES ASSUME NEW t \in U \ T PROVE t.id # a.theme
    OBVIOUS
  <2>2. k = <<"theme", t.id>>
    BY <1>1, <2>1, UnderSplits
  <2>3. QED  BY <2>2 DEF PartsOf
<1>5. Selects(P, T, a) <=> Selects(Q, U, a)
  BY <1>2, <1>3, <1>4, SelectsSame
<1>6. QED  BY <1>1, <1>5

LEMMA AppsSplit ==
    ASSUME StoreShape, NEW k, NEW id, k # <<"app", id>>
    PROVE  AppsBut(id, k) = AppsOf(id) /\ \A b \in Bundles("app") : b.id = id => b \in Others("app", k)
<1>1. \A b \in Bundles("app") : b.id = id => b \in Others("app", k)
  BY InBundles, KeyIs DEF Others
<1>2. Others("app", k) \subseteq Bundles("app")
  BY DEF Others
<1>3. QED  BY <1>1, <1>2 DEF AppsBut, AppsOf

LEMMA OwnAppIsBut == ASSUME NEW id, NEW k, NEW b \in OwnApp(id) PROVE b \in AppsBut(id, k)
BY DEF OwnApp, AppsBut

(* An app that starts would start without k, if it has no part of that name. *)
LEMMA StartedIsSpared ==
    ASSUME StoreShape, NEW k, NEW id, Starts(id)
    PROVE  Spared(id, k)
<1>1. SUFFICES ASSUME k # <<"app", id>>, \A a \in AppsBut(id, k) : k \notin PartsOf(a)
               PROVE  StartsBut(k, id)
  BY DEF Spared
<1>2. CASE OwnApp(id) # {}
  <2>1. PICK b \in OwnApp(id) : Selects(PluginsBut(<<>>), ThemesBut(<<>>), b)
    BY <1>2, StartsIs
  <2>2. k \notin PartsOf(b)
    BY <1>1, OwnAppIsBut
  <2>3. Selects(PluginsBut(<<>>) \cup {}, ThemesBut(<<>>) \cup {}, b) <=> Selects(PluginsBut(k) \cup {}, ThemesBut(k) \cup {}, b)
    BY <2>2, SelectsBut
  <2>4. \A S : S \cup {} = S
    OBVIOUS
  <2>5. Selects(PluginsBut(k), ThemesBut(k), b)
    BY <2>1, <2>3, <2>4
  <2>6. QED  BY <1>2, <2>5 DEF StartsBut
<1>3. CASE OwnApp(id) = {}
  <2>1. PICK a \in Bundles("app") : a.id = id /\ CanStart(PluginsBut(<<>>), ThemesBut(<<>>), a) /\ ~a.twice
    BY <1>3, StartsIs
  <2>2. a \in Others("app", k) /\ a.kind = "app"
    BY <1>1, <2>1, AppsSplit, InBundles
  <2>3. k \notin PartsOf(a)
    BY <1>1, <2>1, <2>2 DEF AppsBut
  <2>4. Selects(PluginsBut(k) \cup a.plugins, ThemesBut(k) \cup a.themes, a)
    BY <2>1, <2>3, SelectsBut DEF CanStart
  <2>5. NewTo(PluginsBut(<<>>), ThemesBut(<<>>), a)
    BY <2>1 DEF CanStart
  <2>6. ASSUME NEW p \in a.plugins
        PROVE  (StandsIn(p, PluginsBut(k)) \/ <<"plugin", p.base>> = k) /\ p.id \notin IdsOfBundles(PluginsBut(k))
    <3>1. StandsIn(p, PluginsBut(<<>>)) /\ p.id \notin IdsOfBundles(PluginsBut(<<>>))
      BY <2>5, <2>6 DEF NewTo
    <3>2. p.id \notin IdsOfBundles(PluginsBut(k))
      BY <3>1, UnderSplits DEF IdsOfBundles
    <3>3. CASE p.base = ""
      BY <3>2, <3>3 DEF StandsIn
    <3>4. CASE p.base # ""
      <4>1. PICK c \in PluginsBut(<<>>) : c.id = p.base
        BY <3>1, <3>4 DEF StandsIn, IdsOfBundles
      <4>2. c \in PluginsBut(k) \/ k = <<"plugin", c.id>>
        BY UnderSplits
      <4>3. c \in PluginsBut(k) => StandsIn(p, PluginsBut(k))
        BY <4>1 DEF StandsIn, IdsOfBundles
      <4>4. QED  BY <3>2, <4>1, <4>2, <4>3
    <3>5. QED  BY <3>3, <3>4
  <2>7. \A t \in a.themes : t.id \notin IdsOfBundles(ThemesBut(k))
    BY <2>5, UnderSplits DEF NewTo, IdsOfBundles
  <2>8. NewBut(k, a)
    BY <2>6, <2>7 DEF NewBut
  <2>9. QED  BY <1>3, <2>1, <2>2, <2>4, <2>8 DEF StartsBut
<1>4. QED  BY <1>2, <1>3

(* With what an install was let in for under k, or with nothing there, the registry is
   sound. *)
LEMMA SoundWith ==
    ASSUME StoreShape, NEW k \in Keys, SoundBut(k),
           \/ Followed(installed[k]) = Absent
           \/ \E b : Followed(installed[k]) = Copied(b) /\ Key(b) = k /\ Fits(b)
    PROVE  RegisterIntoRegistry(<<>>).ok
<1>1. Followed(installed[k]) # Partial
  BY EntriesApart
<1>2. \A kind \in BundleKinds : Lists(kind)
  BY <1>1, ListsIs DEF SoundBut
<1>3. PICK S : S = Others("plugin", k)
  OBVIOUS
<1>4. S \subseteq Resolved(OwnPlugins, S) /\ IsFiniteSet(S)
  BY <1>3, OthersFinite DEF SoundBut
<1>5. Bundles("plugin") \subseteq Resolved(OwnPlugins, Bundles("plugin"))
  <2>1. CASE Under("plugin", k) = {}
    <3>1. Bundles("plugin") = S
      BY <1>3, <2>1 DEF Under, Others
    <3>2. QED  BY <1>4, <3>1
  <2>2. CASE Under("plugin", k) # {}
    <3>1. PICK b \in Under("plugin", k) : TRUE
      BY <2>2
    <3>2. Holds(b) /\ b.kind = "plugin" /\ Key(b) = k
      BY <3>1, InBundles DEF Under
    <3>3. Followed(installed[k]) = Copied(b) /\ Copied(b) # Absent
      BY <3>2, EntriesApart DEF Holds
    <3>4. Fits(b)
      <4>1. PICK c : Followed(installed[k]) = Copied(c) /\ Key(c) = k /\ Fits(c)
        BY <3>3
      <4>2. Copied(c).bundle = c /\ Copied(b).bundle = b /\ Copied(c) = Copied(b)
        BY <3>3, <4>1, EntriesApart
      <4>3. QED  BY <4>1, <4>2
    <3>5. StandsIn(b, OwnPlugins \cup S)
      BY <1>3, <3>2, <3>4 DEF Fits, PluginsBut
    <3>6. S \cup {b} \subseteq Resolved(OwnPlugins, S \cup {b})
      BY <1>4, <3>5, OneMoreResolves
    <3>7. Bundles("plugin") = S \cup {b}
      BY <1>3, <3>1, <3>2, OnePerName, KeyIs DEF Others, Under
    <3>8. QED  BY <3>6, <3>7
  <2>3. QED  BY <2>1, <2>2
<1>6. QED  BY <1>2, <1>5, SoundRegistry, NothingSkipped

(* A spared app starts when the install is done. *)
LEMMA SparedStarts ==
    ASSUME StoreShape, NEW k \in Keys, NEW id, Spared(id, k), RegisterIntoRegistry(<<>>).ok,
           NEW dangling \in BOOLEAN,
           ~dangling => \E b : Followed(installed[k]) = Copied(b) /\ Key(b) = k
    PROVE  k \in MadeOf(id) \/ (dangling /\ k \in StandsOn(id)) \/ Starts(id)
<1>1. SUFFICES ASSUME k \notin MadeOf(id), ~(dangling /\ k \in StandsOn(id)) PROVE Starts(id)
  OBVIOUS
<1>2. k # <<"app", id>> /\ \A a \in AppsOf(id) : k \notin PartsOf(a)
  BY <1>1, MadeOfIs
<1>3. AppsBut(id, k) = AppsOf(id) /\ StartsBut(k, id)
  BY <1>2, AppsSplit DEF Spared
<1>4. CASE OwnApp(id) # {}
  <2>1. PICK b \in OwnApp(id) : Selects(PluginsBut(k), ThemesBut(k), b)
    BY <1>3, <1>4 DEF StartsBut
  <2>2. k \notin PartsOf(b)
    BY <1>2, <1>3, OwnAppIsBut
  <2>3. Selects(PluginsBut(<<>>) \cup {}, ThemesBut(<<>>) \cup {}, b) <=> Selects(PluginsBut(k) \cup {}, ThemesBut(k) \cup {}, b)
    BY <2>2, SelectsBut
  <2>4. \A S : S \cup {} = S
    OBVIOUS
  <2>5. Selects(PluginsBut(<<>>), ThemesBut(<<>>), b)
    BY <2>1, <2>3, <2>4
  <2>6. QED  BY <1>1, <1>4, <2>5, StartsIs
<1>5. CASE OwnApp(id) = {}
  <2>1. PICK a \in Others("app", k) :
            /\ a.id = id /\ ~a.twice /\ NewBut(k, a)
            /\ Selects(PluginsBut(k) \cup a.plugins, ThemesBut(k) \cup a.themes, a)
    BY <1>3, <1>5 DEF StartsBut
  <2>2. a \in Bundles("app") /\ a \in AppsOf(id)
    <3>1. a \in Bundles("app")
      BY DEF Others
    <3>2. a.kind = "app"
      BY <3>1, InBundles
    <3>3. QED  BY <2>1, <3>1, <3>2 DEF AppsOf
  <2>3. k \notin PartsOf(a)
    BY <1>2, <2>2
  <2>4. Selects(PluginsBut(<<>>) \cup a.plugins, ThemesBut(<<>>) \cup a.themes, a)
    BY <2>1, <2>3, SelectsBut
  <2>5. ASSUME NEW p \in a.plugins PROVE StandsIn(p, PluginsBut(<<>>)) /\ p.id \notin IdsOfBundles(PluginsBut(<<>>))
    <3>1. (StandsIn(p, PluginsBut(k)) \/ <<"plugin", p.base>> = k) /\ p.id \notin IdsOfBundles(PluginsBut(k))
      BY <2>1, <2>5 DEF NewBut
    <3>2. p.id \notin IdsOfBundles(PluginsBut(<<>>))
      <4>1. \A c \in Under("plugin", k) : c.id # p.id
        <5>1. <<"plugin", p.id>> \in PartsOf(a)
          BY <2>5 DEF PartsOf, IdsOfBundles
        <5>2. QED  BY <2>3, <5>1, UnderSplits
      <4>2. QED  BY <3>1, <4>1, UnderSplits DEF IdsOfBundles
    <3>3. CASE StandsIn(p, PluginsBut(k))
      <4>1. PluginsBut(k) \subseteq PluginsBut(<<>>)
        BY UnderSplits
      <4>2. StandsIn(p, PluginsBut(<<>>))
        BY <3>3, <4>1 DEF StandsIn, IdsOfBundles
      <4>3. QED  BY <3>2, <4>2
    <3>4. CASE ~StandsIn(p, PluginsBut(k))
      <4>1. k = <<"plugin", p.base>>
        BY <3>1, <3>4
      <4>2. k \in StandsOn(id)
        BY <2>2, <2>5, <4>1 DEF StandsOn
      <4>3. PICK b : Followed(installed[k]) = Copied(b) /\ Key(b) = k
        BY <1>1, <4>2
      <4>4. b.kind = "plugin" /\ b.id = p.base
        BY <4>1, <4>3, KeyIs
      <4>5. b \in Bundles("plugin")
        BY <4>3, <4>4, InBundles DEF Holds
      <4>6. b \in PluginsBut(<<>>)
        BY <4>5, NothingSkipped DEF PluginsBut
      <4>7. QED  BY <3>2, <4>4, <4>6 DEF StandsIn, IdsOfBundles
    <3>5. QED  BY <3>3, <3>4
  <2>6. ASSUME NEW t \in a.themes PROVE t.id \notin IdsOfBundles(ThemesBut(<<>>))
    <3>1. t.id \notin IdsOfBundles(ThemesBut(k)) /\ <<"theme", t.id>> \in PartsOf(a)
      BY <2>1, <2>6 DEF NewBut, PartsOf, IdsOfBundles
    <3>2. \A c \in Under("theme", k) : c.id # t.id
      BY <2>3, <3>1, UnderSplits
    <3>3. QED  BY <3>1, <3>2, UnderSplits DEF IdsOfBundles
  <2>7. CanStart(PluginsBut(<<>>), ThemesBut(<<>>), a)
    BY <2>4, <2>5, <2>6 DEF CanStart, NewTo
  <2>8. QED  BY <1>1, <1>5, <2>1, <2>2, <2>7, StartsIs
<1>6. QED  BY <1>4, <1>5

(* An app that was let in starts when it is there. *)
LEMMA NewAppStarts ==
    ASSUME StoreShape, NEW b, Key(b) \in Keys, Followed(installed[Key(b)]) = Copied(b), b.kind = "app", Fits(b), ~b.twice
    PROVE  Starts(b.id)
<1>1. PICK k \in Keys : k = Key(b)
  OBVIOUS
<1>2. RegisterIntoRegistry(<<>>).ok
  BY <1>1, SoundWith DEF Fits
<1>3. k[1] = "app" /\ "app" # "plugin" /\ "app" # "theme"
  BY <1>1, KeyIs
<1>4. Others("plugin", k) = Others("plugin", <<>>) /\ Others("theme", k) = Others("theme", <<>>)
  BY <1>3, AppsChangeNothing, NothingSkipped
<1>5. PluginsBut(k) = PluginsBut(<<>>) /\ ThemesBut(k) = ThemesBut(<<>>)
  BY <1>4 DEF PluginsBut, ThemesBut
<1>6. OwnApp(b.id) = {} /\ CanStart(PluginsBut(<<>>), ThemesBut(<<>>), b)
  BY <1>1, <1>5 DEF Fits
<1>7. b \in Bundles("app")
  BY InBundles DEF Holds
<1>8. QED  BY <1>2, <1>6, <1>7, StartsIs

(* What "install" asks. *)
LEMMA AcceptedFits == ASSUME StoreShape, NEW b, Accepts(b) PROVE Fits(b)
<1>1. PICK k : k = Key(b)
  OBVIOUS
<1>2. PICK r : r = RegisterIntoRegistry(k)
  OBVIOUS
<1>3. r.ok /\ b.kind \in BundleKinds
  BY <1>1, <1>2 DEF Accepts, InstallPlugin, InstallTheme, InstallApp, BundleKinds
<1>4. r.plugins = PluginsBut(k) /\ r.themes = ThemesBut(k)
  BY <1>2, <1>3, RegistryIs
<1>5. SoundBut(k)
  <2>1. \A kind \in BundleKinds : Lists(kind)
    BY <1>2, <1>3, RegistryIs
  <2>2. \A j \in Keys \ {k} : j[1] \in BundleKinds => Followed(installed[j]) # Partial
    BY <2>1, ListsIs
  <2>3. Others("plugin", k) \subseteq Resolved(OwnPlugins, Others("plugin", k))
    BY <1>2, <1>3, RegistryIs
  <2>4. QED  BY <2>2, <2>3 DEF SoundBut
<1>6. b.kind = "plugin" => StandsIn(b, PluginsBut(k))
  <2>1. SUFFICES ASSUME b.kind = "plugin" PROVE StandsIn(b, PluginsBut(k))
    OBVIOUS
  <2>2. InstallPlugin(b)
    BY <2>1 DEF Accepts
  <2>3. StandsIn(b, r.plugins)
    BY <1>1, <1>2, <2>2 DEF InstallPlugin, StandsIn
  <2>4. QED  BY <1>4, <2>3
<1>7. b.kind = "app" => OwnApp(b.id) = {} /\ CanStart(PluginsBut(k), ThemesBut(k), b)
  <2>1. SUFFICES ASSUME b.kind = "app" PROVE OwnApp(b.id) = {} /\ CanStart(PluginsBut(k), ThemesBut(k), b)
    OBVIOUS
  <2>2. InstallApp(b)
    BY <2>1 DEF Accepts
  <2>3. (\A c \in Builtin : c.kind = "app" => c.id # b.id) /\ Brings(r, b) /\ ValidateAppBundle(WithOwn(r, b), b)
    BY <1>1, <1>2, <2>2 DEF InstallApp
  <2>4. CanStart(r.plugins, r.themes, b)
    BY <1>2, <2>3, BringsIs
  <2>5. QED  BY <1>4, <2>3, <2>4 DEF OwnApp
<1>8. QED  BY <1>1, <1>3, <1>5, <1>6, <1>7 DEF Fits

-----------------------------------------------------------------------------
(* The commands that run. *)

InstallJob(pc, k, d, l, a, s) == [pc |-> pc, key |-> k, dir |-> d, link |-> l, alone |-> a, started |-> s]
ForgetJob(k, a) == [pc |-> "forget", key |-> k, alone |-> a]
Way(pc, l) == (pc = "link" => l = TRUE) /\ (pc \in {"copy", "copied"} => l = FALSE)
IsDone(pc, d, l, e) == pc = "record" => e = IF l THEN LinkTo(d) ELSE Copied(Folders[d])
(* What an install that no other command has overlapped can rely on. *)
Undisturbed(pc, k, d, l, s) ==
    /\ d \in folders /\ Fits(Folders[d]) /\ \A id \in s : Spared(id, k)
    /\ IsDone(pc, d, l, installed[k])
InstallFits(pc, k, d, l, a, s) ==
    /\ k \in Keys /\ l \in BOOLEAN /\ a \in BOOLEAN /\ Way(pc, l)
    /\ \/ d = "itself" /\ pc \in {"clear", "copy"} /\ l = FALSE
       \/ /\ d \in DOMAIN Folders /\ k = Key(Folders[d]) /\ pc \in {"clear", "link", "copy", "copied", "record"}
          /\ k[1] = "app" => OwnApp(k[2]) = {}
          /\ a => Undisturbed(pc, k, d, l, s)
JobFits(j) ==
    \/ j = AtRest
    \/ \E k \in Keys, a \in BOOLEAN : j = ForgetJob(k, a)
    \/ \E pc, k, d, l, a, s : j = InstallJob(pc, k, d, l, a, s) /\ InstallFits(pc, k, d, l, a, s)
ExtInv ==
    /\ StoreShape
    /\ job = [u \in Operators |-> job[u]] /\ \A u \in Operators : JobFits(job[u])

LEMMA JobsApart ==
    /\ AtRest.pc = "rest"
    /\ \A k, a : ForgetJob(k, a).pc = "forget" /\ ForgetJob(k, a).key = k /\ ForgetJob(k, a) # AtRest
    /\ \A pc, k, d, l, a, s :
          /\ InstallJob(pc, k, d, l, a, s).pc = pc /\ InstallJob(pc, k, d, l, a, s).key = k
          /\ InstallJob(pc, k, d, l, a, s).dir = d /\ InstallJob(pc, k, d, l, a, s).link = l
          /\ InstallJob(pc, k, d, l, a, s).alone = a /\ InstallJob(pc, k, d, l, a, s).started = s
<1>1. AtRest.pc = "rest"
  BY DEF AtRest
<1>2. \A k, a : ForgetJob(k, a).pc = "forget" /\ ForgetJob(k, a).key = k
  BY DEF ForgetJob
<1>3. \A pc, k, d, l, a, s :
          /\ InstallJob(pc, k, d, l, a, s).pc = pc /\ InstallJob(pc, k, d, l, a, s).key = k
          /\ InstallJob(pc, k, d, l, a, s).dir = d /\ InstallJob(pc, k, d, l, a, s).link = l
          /\ InstallJob(pc, k, d, l, a, s).alone = a /\ InstallJob(pc, k, d, l, a, s).started = s
  BY DEF InstallJob
<1>4. \A k, a : ForgetJob(k, a) # AtRest
  BY <1>1, <1>2
<1>5. QED  BY <1>1, <1>2, <1>3, <1>4

Moved(j, pc) == [j EXCEPT !.pc = pc]
Overlapped(j) == IF j # AtRest THEN [j EXCEPT !.alone = FALSE] ELSE j
LEMMA JobMoves ==
    ASSUME NEW j, NEW pc, NEW k, NEW d, NEW l, NEW a, NEW s, j = InstallJob(pc, k, d, l, a, s), NEW q
    PROVE  Moved(j, q) = InstallJob(q, k, d, l, a, s)
<1>1. [InstallJob(pc, k, d, l, a, s) EXCEPT !.pc = q] = InstallJob(q, k, d, l, a, s)
  BY DEF InstallJob
<1>2. QED  BY <1>1, Zenon DEF Moved

LEMMA InstallOverlapped ==
    ASSUME NEW j, NEW pc, NEW k, NEW d, NEW l, NEW a, NEW s, j = InstallJob(pc, k, d, l, a, s), j # AtRest
    PROVE  Overlapped(j) = InstallJob(pc, k, d, l, FALSE, s)
<1>1. PICK no : no = FALSE
  OBVIOUS
<1>2. [InstallJob(pc, k, d, l, a, s) EXCEPT !.alone = no] = InstallJob(pc, k, d, l, no, s)
  BY DEF InstallJob
<1>3. QED  BY <1>1, <1>2, Zenon DEF Overlapped

LEMMA ForgetOverlapped ==
    ASSUME NEW j, NEW k, NEW a, j = ForgetJob(k, a)
    PROVE  Overlapped(j) = ForgetJob(k, FALSE)
<1>1. PICK no : no = FALSE
  OBVIOUS
<1>2. [ForgetJob(k, a) EXCEPT !.alone = no] = ForgetJob(k, no)
  BY DEF ForgetJob
<1>3. QED  BY <1>1, <1>2, JobsApart, Zenon DEF Overlapped

(* A command that is at an install's place is an install. *)
LEMMA InstallAt ==
    ASSUME NEW j, JobFits(j), j.pc \in {"clear", "link", "copy", "copied", "record"}
    PROVE  \E k, d, l, a, s : j = InstallJob(j.pc, k, d, l, a, s) /\ InstallFits(j.pc, k, d, l, a, s)
<1>1. j # AtRest /\ ~\E k \in Keys, a \in BOOLEAN : j = ForgetJob(k, a)
  BY JobsApart
<1>2. PICK pc, k, d, l, a, s : j = InstallJob(pc, k, d, l, a, s) /\ InstallFits(pc, k, d, l, a, s)
  BY <1>1 DEF JobFits
<1>3. j.pc = pc
  BY <1>2, JobsApart
<1>4. QED  BY <1>2, <1>3

(* What is installed under other names stays as it is, and with it what an install under k
   was let in for. *)
LEMMA OthersStay ==
    ASSUME StoreShape, folders' = folders, NEW k, k \in Keys => IsFor(installed'[k], k),
           \A j \in Keys : j # k => installed'[j] = installed[j]
    PROVE  /\ \A kind : Others(kind, k)' = Others(kind, k)
           /\ SoundBut(k) => SoundBut(k)'
<1>1. \A j \in Keys : j # k => Followed(installed[j])' = Followed(installed[j])
  BY DEF Followed
<1>2. ASSUME NEW kind PROVE Others(kind, k)' = Others(kind, k)
  <2>1. ASSUME NEW b \in Others(kind, k) PROVE b \in Others(kind, k)'
    <3>1. b.kind = kind /\ Holds(b) /\ Key(b) # k
      BY InBundles DEF Others
    <3>2. /\ Key(b) \in Keys /\ Key(b)[1] = kind /\ Followed(installed[Key(b)])' = Copied(b)
          /\ Copied(b) \notin {Absent, Partial} /\ Copied(b).bundle = b
      BY <1>1, <3>1, KeyIs, EntriesApart DEF Holds
    <3>3. Copied(b) \in InstalledNames(kind)' \ {Partial}
      BY <3>2 DEF InstalledNames
    <3>4. b \in Bundles(kind)'
      BY <3>2, <3>3 DEF Bundles
    <3>5. QED  BY <3>1, <3>4 DEF Others
  <2>2. ASSUME NEW b \in Others(kind, k)' PROVE b \in Others(kind, k)
    <3>1. b \in Bundles(kind)' /\ Key(b) # k
      BY <2>2 DEF Others
    <3>2. PICK j \in Keys : /\ j[1] = kind /\ Followed(installed[j])' \notin {Absent, Partial}
                            /\ b = Followed(installed[j])'.bundle
      BY <3>1 DEF Bundles, InstalledNames
    <3>3. j # k
      <4>1. SUFFICES ASSUME j = k PROVE FALSE
        OBVIOUS
      <4>2. PICK e : e = installed'[k]
        OBVIOUS
      <4>3. Followed(e) = Followed(installed[k])'
        BY <4>2 DEF Followed
      <4>4. PICK c : Followed(e) = Copied(c) /\ Key(c) = k
        BY <3>2, <4>1, <4>2, <4>3, FollowedIs
      <4>5. c = b
        BY <3>2, <4>1, <4>3, <4>4, EntriesApart
      <4>6. QED  BY <3>1, <4>4, <4>5
    <3>4. Followed(installed[j]) \in InstalledNames(kind) \ {Partial} /\ b = Followed(installed[j]).bundle
      BY <1>1, <3>2, <3>3 DEF InstalledNames
    <3>5. b \in Bundles(kind)
      BY <3>4 DEF Bundles
    <3>6. QED  BY <3>1, <3>5 DEF Others
  <2>3. QED  BY <2>1, <2>2
<1>3. SoundBut(k) => SoundBut(k)'
  <2>1. Others("plugin", k)' = Others("plugin", k)
    BY <1>2
  <2>2. QED  BY <1>1, <2>1 DEF SoundBut
<1>4. QED  BY <1>2, <1>3

LEMMA FitsStays ==
    ASSUME NEW k, \A kind : Others(kind, k)' = Others(kind, k), SoundBut(k) => SoundBut(k)'
    PROVE  /\ \A b : Key(b) = k /\ Fits(b) => Fits(b)'
           /\ \A id : Spared(id, k) => Spared(id, k)'
<1>1. Others("plugin", k)' = Others("plugin", k) /\ Others("theme", k)' = Others("theme", k) /\ Others("app", k)' = Others("app", k)
  OBVIOUS
<1>2. PluginsBut(k)' = PluginsBut(k) /\ ThemesBut(k)' = ThemesBut(k)
  BY <1>1 DEF PluginsBut, ThemesBut
<1>3. ASSUME NEW b, Key(b) = k, Fits(b) PROVE Fits(b)'
  BY <1>2, <1>3 DEF Fits
<1>4. ASSUME NEW id, Spared(id, k) PROVE Spared(id, k)'
  <2>1. AppsBut(id, k)' = AppsBut(id, k)
    BY <1>1 DEF AppsBut
  <2>2. \A a : NewBut(k, a) => NewBut(k, a)'
    BY <1>2 DEF NewBut
  <2>3. StartsBut(k, id) => StartsBut(k, id)'
    BY <1>1, <1>2, <2>2 DEF StartsBut
  <2>4. QED  BY <1>4, <2>1, <2>3 DEF Spared
<1>5. QED  BY <1>3, <1>4

(* A command that changes no directory leaves the others what they had. *)
LEMMA QuietJobs ==
    ASSUME StoreShape, installed' = installed, folders' = folders, NEW j, JobFits(j)
    PROVE  JobFits(j)'
<1>1. CASE j = AtRest \/ \E k \in Keys, a \in BOOLEAN : j = ForgetJob(k, a)
  BY <1>1 DEF JobFits
<1>2. ASSUME NEW pc, NEW k, NEW d, NEW l, NEW a, NEW s,
             j = InstallJob(pc, k, d, l, a, s), InstallFits(pc, k, d, l, a, s)
      PROVE  InstallFits(pc, k, d, l, a, s)'
  <2>1. k \in Keys
    BY <1>2 DEF InstallFits
  <2>2. IsFor(installed'[k], k)
    BY <2>1 DEF StoreShape
  <2>3. (\A kind : Others(kind, k)' = Others(kind, k)) /\ (SoundBut(k) => SoundBut(k)')
    BY <2>2, OthersStay
  <2>4. /\ \A b : Key(b) = k /\ Fits(b) => Fits(b)'
        /\ \A id : Spared(id, k) => Spared(id, k)'
    BY <2>3, FitsStays
  <2>5. d \in DOMAIN Folders /\ k = Key(Folders[d]) /\ Undisturbed(pc, k, d, l, s) => Undisturbed(pc, k, d, l, s)'
    BY <2>4 DEF Undisturbed
  <2>6. QED  BY <1>2, <2>5 DEF InstallFits
<1>3. QED  BY <1>1, <1>2 DEF JobFits

LEMMA QuietSteps ==
    ASSUME ExtInv, installed' = installed, folders' = folders,
           NEW u \in Operators, NEW n, JobFits(n), job' = [job EXCEPT ![u] = n]
    PROVE  ExtInv'
<1>1. StoreShape'
  BY DEF ExtInv, StoreShape
<1>2. job' = [v \in Operators |-> job'[v]] /\ \A v \in Operators : job'[v] = IF v = u THEN n ELSE job[v]
  BY DEF ExtInv
<1>3. ASSUME NEW v \in Operators PROVE JobFits(job[v])'
  <2>1. PICK j : j = job'[v]
    OBVIOUS
  <2>2. JobFits(j)
    BY <1>2, <2>1 DEF ExtInv
  <2>3. JobFits(j)'
    BY <2>2, QuietJobs DEF ExtInv
  <2>4. QED  BY <2>1, <2>3 DEF JobFits
<1>4. QED  BY <1>1, <1>2, <1>3 DEF ExtInv

(* A command that another one overlaps relies on nothing. *)
LEMMA DisturbedFits ==
    ASSUME NEW j, JobFits(j) PROVE JobFits(Overlapped(j))'
<1>1. PICK i : i = Overlapped(j)
  OBVIOUS
<1>2. CASE j = AtRest
  <2>1. i = AtRest
    BY <1>1, <1>2 DEF Overlapped
  <2>2. JobFits(i)'
    BY <2>1 DEF JobFits
  <2>3. QED  BY <1>1, <2>2
<1>3. ASSUME NEW k \in Keys, NEW a \in BOOLEAN, j = ForgetJob(k, a) PROVE JobFits(i)'
  <2>1. i = ForgetJob(k, FALSE)
    BY <1>1, <1>3, ForgetOverlapped
  <2>2. QED  BY <2>1 DEF JobFits
<1>4. ASSUME NEW pc, NEW k, NEW d, NEW l, NEW a, NEW s,
             j = InstallJob(pc, k, d, l, a, s), InstallFits(pc, k, d, l, a, s), j # AtRest
      PROVE  JobFits(i)'
  <2>1. i = InstallJob(pc, k, d, l, FALSE, s)
    BY <1>1, <1>4, InstallOverlapped
  <2>2. InstallFits(pc, k, d, l, FALSE, s)'
    BY <1>4 DEF InstallFits
  <2>3. QED  BY <2>1, <2>2 DEF JobFits
<1>5. JobFits(i)'
  <2>1. CASE j # AtRest
    BY <1>3, <1>4, <2>1 DEF JobFits
  <2>2. CASE j = AtRest
    BY <1>1, <1>2, <2>2
  <2>3. QED  BY <2>1, <2>2
<1>6. QED  BY <1>1, <1>5

LEMMA PutKeeps ==
    ASSUME ExtInv, NEW u \in Operators, NEW k \in Keys, NEW e, NEW n, Put(u, k, e, n), folders' = folders,
           IsFor(e, k), k[1] = "app" /\ e # Absent => OwnApp(k[2]) = {}, JobFits(n)'
    PROVE  ExtInv'
<1>1. /\ installed' = [j \in Keys |-> IF j = k THEN e ELSE installed[j]]
      /\ job' = [v \in Operators |-> job'[v]]
      /\ \A v \in Operators : job'[v] = IF v = u THEN n ELSE Overlapped(job[v])
  BY DEF ExtInv, StoreShape, Put, Overlapped
<1>2. StoreShape'
  BY <1>1 DEF ExtInv, StoreShape
<1>3. ASSUME NEW v \in Operators PROVE JobFits(job[v])'
  <2>1. PICK i, j : i = job'[v] /\ j = job[v]
    OBVIOUS
  <2>2. CASE v = u
    <3>1. i = n
      BY <1>1, <2>1, <2>2
    <3>2. QED  BY <2>1, <3>1 DEF JobFits
  <2>3. CASE v # u
    <3>1. i = Overlapped(j) /\ JobFits(j)
      BY <1>1, <2>1, <2>3 DEF ExtInv
    <3>2. JobFits(i)'
      BY <3>1, DisturbedFits
    <3>3. QED  BY <2>1, <3>2 DEF JobFits
  <2>4. QED  BY <2>2, <2>3
<1>4. QED  BY <1>1, <1>2, <1>3 DEF ExtInv

(* What an install relies on is still so when it has put something under its own name. *)
LEMMA OwnStays ==
    ASSUME ExtInv, NEW u, NEW k \in Keys, NEW e, NEW n, Put(u, k, e, n), folders' = folders, IsFor(e, k),
           NEW pc, NEW q, NEW d \in DOMAIN Folders, NEW l, NEW s, k = Key(Folders[d]), Undisturbed(pc, k, d, l, s),
           IsDone(q, d, l, e)
    PROVE  Undisturbed(q, k, d, l, s)'
<1>1. installed' = [j \in Keys |-> IF j = k THEN e ELSE installed[j]]
  BY DEF ExtInv, StoreShape, Put
<1>2. installed'[k] = e /\ \A j \in Keys : j # k => installed'[j] = installed[j]
  BY <1>1
<1>3. (\A kind : Others(kind, k)' = Others(kind, k)) /\ (SoundBut(k) => SoundBut(k)')
  BY <1>2, OthersStay DEF ExtInv
<1>4. /\ \A b : Key(b) = k /\ Fits(b) => Fits(b)'
      /\ \A id : Spared(id, k) => Spared(id, k)'
  BY <1>3, FitsStays
<1>5. QED  BY <1>2, <1>4 DEF Undisturbed

(* An install that puts its bundle, a part of it, a link or nothing under its name. *)
LEMMA InstallPuts ==
    ASSUME ExtInv, NEW u \in Operators, NEW pc, NEW k, NEW d, NEW l, NEW a, NEW s,
           job[u] = InstallJob(pc, k, d, l, a, s), InstallFits(pc, k, d, l, a, s),
           NEW e, NEW q, Put(u, k, e, InstallJob(q, k, d, l, a, s)), folders' = folders, IsFor(e, k),
           q \in {"clear", "link", "copy", "copied", "record"},
           d = "itself" => e = Absent /\ q = "copy",
           Way(q, l),
           IsDone(q, d, l, e)
    PROVE  ExtInv'
<1>1. k \in Keys /\ (k[1] = "app" /\ e # Absent => OwnApp(k[2]) = {})
  BY DEF InstallFits
<1>2. InstallFits(q, k, d, l, a, s)'
  <2>1. CASE d = "itself" /\ l = FALSE
    BY <2>1 DEF InstallFits
  <2>2. CASE /\ d \in DOMAIN Folders /\ k = Key(Folders[d]) /\ (a => Undisturbed(pc, k, d, l, s))
             /\ k[1] = "app" => OwnApp(k[2]) = {}
    <3>1. a => Undisturbed(q, k, d, l, s)'
      BY <1>1, <2>2, OwnStays
    <3>2. QED  BY <2>2, <3>1 DEF InstallFits
  <2>3. QED  BY <2>1, <2>2 DEF InstallFits
<1>3. JobFits(InstallJob(q, k, d, l, a, s))'
  BY <1>2 DEF JobFits
<1>4. QED  BY <1>1, <1>3, PutKeeps

LEMMA ExtInitInv == ASSUME ExtInit PROVE ExtInv
<1>1. StoreShape
  BY DEF ExtInit, StoreShape, IsFor
<1>2. job = [u \in Operators |-> job[u]] /\ \A u \in Operators : JobFits(job[u])
  BY DEF ExtInit, JobFits
<1>3. QED  BY <1>1, <1>2 DEF ExtInv

LEMMA BeginInstallKeeps ==
    ASSUME ExtInv, NEW u \in Operators, NEW d \in DOMAIN Folders, NEW link \in BOOLEAN, BeginInstall(u, d, link)
    PROVE  ExtInv'
<1>1. PICK b, k, s : b = Folders[d] /\ k = Key(b) /\ s = {a \in AppIds : Starts(a)}
  OBVIOUS
<1>2. d \in folders /\ Accepts(b) /\ job' = [job EXCEPT ![u] = InstallJob("clear", k, d, link, TRUE, s)]
  BY <1>1 DEF BeginInstall, InstallJob
<1>3. Fits(b)
  BY <1>2, AcceptedFits DEF ExtInv
<1>4. \A id \in s : Spared(id, k)
  BY <1>1, StartedIsSpared DEF ExtInv
<1>5. k \in Keys /\ (k[1] = "app" => OwnApp(k[2]) = {})
  BY <1>1, <1>3, KeyIs DEF Keys, Fits
<1>6. Undisturbed("clear", k, d, link, s)
  BY <1>1, <1>2, <1>3, <1>4 DEF Undisturbed, IsDone
<1>7. InstallFits("clear", k, d, link, TRUE, s)
  BY <1>1, <1>5, <1>6 DEF InstallFits, Way
<1>8. JobFits(InstallJob("clear", k, d, link, TRUE, s))
  BY <1>7 DEF JobFits
<1>9. installed' = installed /\ folders' = folders
  BY DEF BeginInstall
<1>10. QED  BY <1>2, <1>8, <1>9, QuietSteps

LEMMA BeginOverKeeps ==
    ASSUME ExtInv, NEW u \in Operators, NEW k \in Keys, BeginOverItself(u, k)
    PROVE  ExtInv'
<1>1. PICK s : s = {a \in AppIds : Starts(a)}
  OBVIOUS
<1>2. job' = [job EXCEPT ![u] = InstallJob("clear", k, "itself", FALSE, TRUE, s)]
  BY <1>1 DEF BeginOverItself, InstallJob
<1>3. InstallFits("clear", k, "itself", FALSE, TRUE, s)
  BY DEF InstallFits, Way
<1>4. JobFits(InstallJob("clear", k, "itself", FALSE, TRUE, s))
  BY <1>3 DEF JobFits
<1>5. installed' = installed /\ folders' = folders
  BY DEF BeginOverItself
<1>6. QED  BY <1>2, <1>4, <1>5, QuietSteps

LEMMA ClearKeeps == ASSUME ExtInv, NEW u \in Operators, ClearOld(u) PROVE ExtInv'
<1>1. JobFits(job[u]) /\ job[u].pc = "clear"
  BY DEF ExtInv, ClearOld
<1>2. PICK k, d, l, a, s : job[u] = InstallJob("clear", k, d, l, a, s) /\ InstallFits("clear", k, d, l, a, s)
  BY <1>1, InstallAt
<1>3. PICK q : q = IF l THEN "link" ELSE "copy"
  OBVIOUS
<1>4. job[u].key = k /\ job[u].link = l /\ Moved(job[u], q) = InstallJob(q, k, d, l, a, s)
  <2>1. job[u].key = k /\ job[u].link = l
    BY <1>2, JobsApart
  <2>2. Moved(job[u], q) = InstallJob(q, k, d, l, a, s)
    BY <1>2, JobMoves
  <2>3. QED  BY <2>1, <2>2
<1>5. Put(u, k, Absent, InstallJob(q, k, d, l, a, s)) /\ folders' = folders
  BY <1>3, <1>4 DEF ClearOld, Moved
<1>6. /\ d = "itself" => l = FALSE
      /\ l \in BOOLEAN /\ Way(q, l) /\ IsDone(q, d, l, Absent)
  BY <1>2, <1>3, ExtConstants DEF InstallFits, Way, IsDone
<1>7. IsFor(Absent, k)
  BY DEF IsFor
<1>8. QED  BY <1>2, <1>3, <1>5, <1>6, <1>7, InstallPuts

LEMMA LinkKeeps == ASSUME ExtInv, NEW u \in Operators, Link(u) PROVE ExtInv'
<1>1. JobFits(job[u]) /\ job[u].pc = "link"
  BY DEF ExtInv, Link
<1>2. PICK k, d, l, a, s : job[u] = InstallJob("link", k, d, l, a, s) /\ InstallFits("link", k, d, l, a, s)
  BY <1>1, InstallAt
<1>3. job[u].key = k /\ job[u].dir = d /\ Moved(job[u], "record") = InstallJob("record", k, d, l, a, s)
  <2>1. job[u].key = k /\ job[u].dir = d
    BY <1>2, JobsApart
  <2>2. Moved(job[u], "record") = InstallJob("record", k, d, l, a, s)
    BY <1>2, JobMoves
  <2>3. QED  BY <2>1, <2>2
<1>4. Put(u, k, LinkTo(d), InstallJob("record", k, d, l, a, s)) /\ folders' = folders
  BY <1>3 DEF Link, Moved
<1>5. d # "itself" /\ d \in DOMAIN Folders /\ k = Key(Folders[d]) /\ l = TRUE
  BY <1>2, ExtConstants DEF InstallFits, Way
<1>6. IsFor(LinkTo(d), k)
  BY <1>5 DEF IsFor
<1>7. Way("record", l) /\ IsDone("record", d, l, LinkTo(d))
  BY <1>5 DEF Way, IsDone
<1>8. QED  BY <1>2, <1>4, <1>5, <1>6, <1>7, InstallPuts

(* Part of an app is an app of the same name. *)
LEMMA PartKeepsKey ==
    ASSUME NEW d \in DOMAIN Folders, NEW b, b = Folders[d]
    PROVE  Key([b EXCEPT !.plugins = {}, !.themes = {}]) = Key(b)
<1>1. {"kind", "id"} \subseteq DOMAIN b
  BY ExtConstants
<1>2. PICK c : c = [b EXCEPT !.plugins = {}, !.themes = {}]
  OBVIOUS
<1>3. c.kind = b.kind /\ c.id = b.id
  BY <1>1, <1>2
<1>4. Key(c) = Key(b)
  BY <1>3 DEF Key
<1>5. QED  BY <1>2, <1>4

LEMMA CopyKeeps == ASSUME ExtInv, NEW u \in Operators, CopySome(u) PROVE ExtInv'
<1>1. JobFits(job[u]) /\ job[u].pc = "copy"
  BY DEF ExtInv, CopySome
<1>2. PICK k, d, l, a, s : job[u] = InstallJob("copy", k, d, l, a, s) /\ InstallFits("copy", k, d, l, a, s)
  BY <1>1, InstallAt
<1>3. job[u].key = k /\ job[u].dir = d /\ Moved(job[u], "copied") = InstallJob("copied", k, d, l, a, s)
  <2>1. job[u].key = k /\ job[u].dir = d
    BY <1>2, JobsApart
  <2>2. Moved(job[u], "copied") = InstallJob("copied", k, d, l, a, s)
    BY <1>2, JobMoves
  <2>3. QED  BY <2>1, <2>2
<1>4. d # "itself" /\ d \in DOMAIN Folders /\ k = Key(Folders[d]) /\ l = FALSE
  <2>1. d \in folders
    BY <1>3 DEF CopySome
  <2>2. QED  BY <1>2, <2>1, ExtConstants DEF InstallFits, Way, ExtInv, StoreShape
<1>5. PICK b : b = Folders[d]
  OBVIOUS
<1>6. PICK e : e \in {Partial, Copied([b EXCEPT !.plugins = {}, !.themes = {}])} /\ Put(u, k, e, InstallJob("copied", k, d, l, a, s))
  BY <1>3, <1>5 DEF CopySome, Moved
<1>7. IsFor(e, k)
  <2>1. Key([b EXCEPT !.plugins = {}, !.themes = {}]) = k
    BY <1>4, <1>5, PartKeepsKey
  <2>2. QED  BY <1>6, <2>1 DEF IsFor
<1>8. folders' = folders
  BY DEF CopySome, Moved
<1>9. Way("copied", l) /\ IsDone("copied", d, l, e)
  BY <1>4 DEF Way, IsDone
<1>10. QED  BY <1>2, <1>4, <1>6, <1>7, <1>8, <1>9, InstallPuts

LEMMA CopyRestKeeps == ASSUME ExtInv, NEW u \in Operators, CopyRest(u) PROVE ExtInv'
<1>1. JobFits(job[u]) /\ job[u].pc = "copied"
  BY DEF ExtInv, CopyRest
<1>2. PICK k, d, l, a, s : job[u] = InstallJob("copied", k, d, l, a, s) /\ InstallFits("copied", k, d, l, a, s)
  BY <1>1, InstallAt
<1>3. job[u].key = k /\ job[u].dir = d /\ Moved(job[u], "record") = InstallJob("record", k, d, l, a, s)
  <2>1. job[u].key = k /\ job[u].dir = d
    BY <1>2, JobsApart
  <2>2. Moved(job[u], "record") = InstallJob("record", k, d, l, a, s)
    BY <1>2, JobMoves
  <2>3. QED  BY <2>1, <2>2
<1>4. Put(u, k, Copied(Folders[d]), InstallJob("record", k, d, l, a, s)) /\ folders' = folders
  BY <1>3 DEF CopyRest, Moved
<1>5. d # "itself" /\ d \in DOMAIN Folders /\ k = Key(Folders[d]) /\ l = FALSE
  BY <1>2, ExtConstants DEF InstallFits, Way
<1>6. IsFor(Copied(Folders[d]), k)
  BY <1>5 DEF IsFor
<1>7. Way("record", l) /\ IsDone("record", d, l, Copied(Folders[d]))
  BY <1>5 DEF Way, IsDone
<1>8. QED  BY <1>2, <1>4, <1>5, <1>6, <1>7, InstallPuts

LEMMA RemoveKeeps ==
    ASSUME ExtInv, NEW u \in Operators, NEW k \in Keys, RemoveInstalled(u, k) PROVE ExtInv'
<1>1. Put(u, k, Absent, ForgetJob(k, TRUE)) /\ folders' = folders
  BY DEF RemoveInstalled, ForgetJob
<1>2. JobFits(ForgetJob(k, TRUE))' /\ IsFor(Absent, k)
  BY DEF JobFits, IsFor
<1>3. QED  BY <1>1, <1>2, PutKeeps

LEMMA DeleteKeeps ==
    ASSUME ExtInv, NEW d \in DOMAIN Folders, DeleteFolder(d) PROVE ExtInv'
<1>1. installed' = installed /\ folders' = folders \ {d}
  BY DEF DeleteFolder
<1>2. StoreShape'
  BY <1>1 DEF ExtInv, StoreShape
<1>3. /\ job' = [v \in Operators |-> job'[v]]
      /\ \A v \in Operators : job'[v] = Overlapped(job[v])
  BY DEF DeleteFolder, Overlapped
<1>4. ASSUME NEW v \in Operators PROVE JobFits(job[v])'
  <2>1. PICK i, j : i = job'[v] /\ j = job[v]
    OBVIOUS
  <2>2. i = Overlapped(j) /\ JobFits(j)
    BY <1>3, <2>1 DEF ExtInv
  <2>3. JobFits(i)'
    BY <2>2, DisturbedFits
  <2>4. QED  BY <2>1, <2>3 DEF JobFits
<1>5. QED  BY <1>2, <1>3, <1>4 DEF ExtInv

LEMMA EndKeeps ==
    ASSUME ExtInv, NEW u \in Operators,
           InstallFails(u) \/ WriteMetadata(u) \/ RemoveMetadata(u) \/ Halt(u)
    PROVE  ExtInv'
<1>1. installed' = installed /\ folders' = folders /\ job' = [job EXCEPT ![u] = AtRest]
  BY DEF InstallFails, WriteMetadata, RemoveMetadata, Halt
<1>2. JobFits(AtRest)
  BY DEF JobFits
<1>3. QED  BY <1>1, <1>2, QuietSteps

LEMMA ExtIdle == ASSUME ExtInv, UNCHANGED extvars PROVE ExtInv'
<1>1. installed' = installed /\ folders' = folders /\ job' = job
  BY DEF extvars
<1>2. StoreShape'
  BY <1>1 DEF ExtInv, StoreShape
<1>3. ASSUME NEW v \in Operators PROVE JobFits(job[v])'
  <2>1. PICK j : j = job[v]
    OBVIOUS
  <2>2. JobFits(j)'
    BY <1>1, <2>1, QuietJobs DEF ExtInv
  <2>3. QED  BY <1>1, <2>1, <2>2 DEF JobFits
<1>4. QED  BY <1>1, <1>2, <1>3 DEF ExtInv

LEMMA ExtNextKeeps == ASSUME ExtInv, [ExtNext]_extvars PROVE ExtInv'
<1>1. CASE \E u \in Operators, d \in DOMAIN Folders, link \in BOOLEAN : BeginInstall(u, d, link)
  BY <1>1, BeginInstallKeeps
<1>2. CASE \E u \in Operators, k \in Keys : BeginOverItself(u, k) \/ RemoveInstalled(u, k)
  BY <1>2, BeginOverKeeps, RemoveKeeps
<1>3. CASE \E u \in Operators : ClearOld(u) \/ Link(u) \/ CopySome(u) \/ CopyRest(u)
  BY <1>3, ClearKeeps, LinkKeeps, CopyKeeps, CopyRestKeeps
<1>4. CASE \E u \in Operators : InstallFails(u) \/ WriteMetadata(u) \/ RemoveMetadata(u) \/ Halt(u)
  BY <1>4, EndKeeps
<1>5. CASE \E d \in DOMAIN Folders : DeleteFolder(d)
  BY <1>5, DeleteKeeps
<1>6. CASE UNCHANGED extvars
  BY <1>6, ExtIdle
<1>7. QED  BY <1>1, <1>2, <1>3, <1>4, <1>5, <1>6 DEF ExtNext

(* What installs do to apps, from what the commands rely on. *)
LEMMA BreaksNoApp == ASSUME ExtInv PROVE InstallBreaksNoApp
<1>1. SUFFICES ASSUME NEW u \in Operators, job[u].pc = "record", job[u].alone
               PROVE  /\ \A a \in job[u].started :
                            job[u].key \in MadeOf(a) \/ (Dangling(u) /\ job[u].key \in StandsOn(a)) \/ Starts(a)
                      /\ job[u].key[1] = "app" /\ ~Folders[job[u].dir].twice /\ ~Dangling(u) => Starts(job[u].key[2])
  BY DEF InstallBreaksNoApp
<1>2. PICK k, d, l, a, s : job[u] = InstallJob("record", k, d, l, a, s) /\ InstallFits("record", k, d, l, a, s)
  BY <1>1, InstallAt DEF ExtInv
<1>3. job[u].key = k /\ job[u].dir = d /\ job[u].link = l /\ job[u].alone = a /\ job[u].started = s
  BY <1>2, JobsApart
<1>4. d \in DOMAIN Folders /\ k = Key(Folders[d]) /\ Undisturbed("record", k, d, l, s) /\ k \in Keys
  BY <1>1, <1>2, <1>3 DEF InstallFits
<1>5. PICK b, g : b = Folders[d] /\ g = Dangling(u)
  OBVIOUS
<1>6. k = Key(b) /\ Fits(b) /\ d \in folders /\ SoundBut(k)
  BY <1>4, <1>5 DEF Undisturbed, Fits
<1>7. g \in BOOLEAN /\ (g <=> l /\ d \in Relative)
  BY <1>2, <1>3, <1>5 DEF Dangling, InstallFits
<1>8. installed[k] = IF l THEN LinkTo(d) ELSE Copied(b)
  BY <1>4, <1>5 DEF Undisturbed, IsDone
<1>9. Followed(installed[k]) = IF g THEN Absent ELSE Copied(b)
  BY <1>5, <1>6, <1>7, <1>8, EntriesApart DEF Followed
<1>10. RegisterIntoRegistry(<<>>).ok
  <2>1. Followed(installed[k]) = Absent \/ \E c : Followed(installed[k]) = Copied(c) /\ Key(c) = k /\ Fits(c)
    BY <1>6, <1>9
  <2>2. QED  BY <1>4, <1>6, <2>1, SoundWith DEF ExtInv
<1>11. ASSUME NEW id \in s PROVE k \in MadeOf(id) \/ (g /\ k \in StandsOn(id)) \/ Starts(id)
  <2>1. Spared(id, k)
    BY <1>4 DEF Undisturbed
  <2>2. ~g => \E c : Followed(installed[k]) = Copied(c) /\ Key(c) = k
    BY <1>6, <1>9
  <2>3. QED  BY <1>4, <1>7, <1>10, <2>1, <2>2, SparedStarts DEF ExtInv
<1>12. ASSUME k[1] = "app", ~b.twice, ~g PROVE Starts(k[2])
  <2>1. b.kind = "app" /\ k[2] = b.id
    BY <1>6, <1>12, KeyIs
  <2>2. Followed(installed[Key(b)]) = Copied(b)
    BY <1>6, <1>9, <1>12
  <2>3. Starts(b.id)
    BY <1>4, <1>6, <1>12, <2>1, <2>2, NewAppStarts DEF ExtInv
  <2>4. QED  BY <2>1, <2>3
<1>13. QED  BY <1>3, <1>5, <1>11, <1>12

(* The commands that run rely on no more than what is there: what an install was let in
   for still holds as long as no other command overlaps it (extensions/store.go:138, 164). *)
THEOREM ExtensionsInvariant == ExtSpec => []ExtInv
<1>1. ExtInit => ExtInv
  BY ExtInitInv
<1>2. ExtInv /\ [ExtNext]_extvars => ExtInv'
  BY ExtNextKeeps
<1>3. QED  BY <1>1, <1>2, PTL DEF ExtSpec

(* For any bundles, folders and operators: an install that no other command overlaps breaks
   no app that started, an app that was let in starts, and what "validate" says of an
   installed app is what the host does (extensions/store.go:109, 138, 164, 308, 447). *)
THEOREM InstallsBreakNoOther == ExtSpec => []InstallBreaksNoOther
<1>1. ExtInv => InstallBreaksNoOther
  BY BreaksNoApp, ValidStart DEF InstallBreaksNoOther, ExtInv
<1>2. QED  BY <1>1, ExtensionsInvariant, PTL

-----------------------------------------------------------------------------
(* What the pages show. *)

(* The largest of finitely many numbers. *)
LEMMA GreatestNumber ==
  ASSUME NEW T, T \subseteq Nat, T # {}, IsFiniteSet(T)
  PROVE  \E x \in T : \A y \in T : y <= x
<1> DEFINE Above1(n) == {y \in T : n < y}
           B == {Above1(n) : n \in T}
<1>1. \A n \in T : Above1(n) \in FiniteSubsetsOf(Nat)
  <2> SUFFICES ASSUME NEW n \in T PROVE Above1(n) \in FiniteSubsetsOf(Nat)
    OBVIOUS
  <2>1. Above1(n) \subseteq T /\ Above1(n) \subseteq Nat
    OBVIOUS
  <2> HIDE DEF Above1
  <2> QED BY <2>1, FS_Subset DEF FiniteSubsetsOf
<1>2. B \subseteq FiniteSubsetsOf(Nat) /\ B # {}
  BY <1>1
<1>3. PICK b \in B : \A c \in B : ~(<<c, b>> \in StrictSubsetOrdering(Nat))
  <2> HIDE DEF B
  <2> QED BY <1>2, FS_StrictSubsetOrderingWellFounded, WFMin
<1>4. PICK x \in T : b = Above1(x)
  OBVIOUS
<1>5. ASSUME NEW y \in T, ~(y <= x) PROVE FALSE
  <2>1. x \in Nat /\ y \in Nat /\ x < y
    BY <1>5
  <2>2. Above1(y) \subseteq Above1(x) /\ y \in Above1(x) /\ y \notin Above1(y)
    <3>1. \A z \in T : y < z => x < z
      BY <2>1
    <3>2. Above1(y) \subseteq Above1(x)
      BY <3>1
    <3>3. y \in Above1(x)
      BY <2>1
    <3>4. y \notin Above1(y)
      BY <2>1
    <3>5. QED  BY <3>2, <3>3, <3>4
  <2>3. Above1(y) \in SUBSET Nat /\ Above1(x) \in SUBSET Nat
    OBVIOUS
  <2>4. <<Above1(y), Above1(x)>> \in StrictSubsetOrdering(Nat)
    <3> HIDE DEF Above1
    <3> QED BY <2>2, <2>3 DEF StrictSubsetOrdering
  <2> QED BY <1>3, <1>4, <2>4
<1> QED BY <1>5

(* One of finitely many delegations is the newest. *)
LEMMA NewestExists ==
  ASSUME NEW S, S # {}, IsFiniteSet(S), \A d \in S : d.at \in Nat
  PROVE  \E d \in S : \A c \in S : c.at <= d.at
<1>1. PICK T : T = {d.at : d \in S}
  OBVIOUS
<1>2. PICK f : f = [d \in S |-> d.at]
  OBVIOUS
<1>3. f \in Surjection(S, T)
  BY <1>1, <1>2 DEF Surjection
<1>4. IsFiniteSet(T)
  BY <1>3, FS_Surjection
<1>5. T \subseteq Nat /\ T # {}
  BY <1>1
<1>6. PICK x \in T : \A y \in T : y <= x
  BY <1>4, <1>5, GreatestNumber
<1>7. PICK d \in S : d.at = x
  BY <1>1, <1>6
<1>8. QED  BY <1>1, <1>6, <1>7

(* The files of a node are a policy, lists without empty entries, and rules. *)
SettingShape ==
    /\ IsPolicy(setting.policy)
    /\ "" \notin setting.lists.blockedAgents /\ NoKey \notin setting.lists.blockedKeys
    /\ setting.rules.maxPerDay \in Nat
    /\ {"maxPerDay", "blockedOrigins", "allowedOrigins"} \subseteq DOMAIN setting.rules

LEMMA GivenSettings ==
    ASSUME NEW s \in Settings
    PROVE  /\ s = [policy |-> s.policy, lists |-> s.lists, rules |-> s.rules, registries |-> s.registries]
           /\ IsPolicy(s.policy) /\ "" \notin s.lists.blockedAgents /\ NoKey \notin s.lists.blockedKeys
           /\ s.rules.maxPerDay \in Nat
           /\ {"maxPerDay", "blockedOrigins", "allowedOrigins"} \subseteq DOMAIN s.rules
BY ModConstants

LEMMA SettingIs == ASSUME ModInv PROVE SettingShape
<1>1. CASE setting \in Settings
  BY <1>1, GivenSettings DEF SettingShape
<1>2. ASSUME NEW s \in Moderated, NEW q \in SavedPolicies,
             setting = [s EXCEPT !.policy = [q EXCEPT !.trust = "exact"]]
      PROVE  SettingShape
  <2>1. PICK p : p = [q EXCEPT !.trust = "exact"]
    OBVIOUS
  <2>2. IsPolicy(q)
    BY ModConstants
  <2>3. IsPolicy(p)
    BY <2>1, <2>2 DEF IsPolicy
  <2>4. s \in Settings
    BY ModBounds
  <2>5. PICK a, l, r, g : s = [policy |-> a, lists |-> l, rules |-> r, registries |-> g]
    <3>1. PICK a, l, r, g : a = s.policy /\ l = s.lists /\ r = s.rules /\ g = s.registries
      OBVIOUS
    <3>2. s = [policy |-> s.policy, lists |-> s.lists, rules |-> s.rules, registries |-> s.registries]
      BY <2>4, GivenSettings
    <3>3. s = [policy |-> a, lists |-> l, rules |-> r, registries |-> g]
      BY <3>1, <3>2
    <3>4. QED  BY <3>3
  <2>6. setting = [policy |-> p, lists |-> l, rules |-> r, registries |-> g]
    BY <1>2, <2>1, <2>5
  <2>7. "" \notin l.blockedAgents /\ NoKey \notin l.blockedKeys /\ r.maxPerDay \in Nat
        /\ {"maxPerDay", "blockedOrigins", "allowedOrigins"} \subseteq DOMAIN r
    BY <2>4, <2>5, GivenSettings
  <2>8. QED  BY <2>3, <2>6, <2>7 DEF SettingShape
<1>3. setting \in Settings \/ \E s \in Moderated, q \in SavedPolicies :
                                 setting = [s EXCEPT !.policy = [q EXCEPT !.trust = "exact"]]
  BY DEF ModInv, ModTypeOK
<1>4. QED  BY <1>1, <1>2, <1>3

(* What is loaded blocks what the files block. *)
LEMMA LoadedIs ==
    ASSUME ModInv, NEW p \in Loaded
    PROVE  /\ p.blockedAgents = BlockedNames /\ p.blockedKeys = BlockedKeys
           /\ p.trust = (IF setting.policy.registries = <<>> THEN setting.policy.trust ELSE "exact")
           /\ "" \notin BlockedNames /\ NoKey \notin BlockedKeys
<1>1. PICK a : a = setting.policy
  OBVIOUS
<1>2. IsPolicy(a) /\ SettingShape
  BY <1>1, SettingIs DEF SettingShape
<1>3. p = WithLists(WithRegistries(a, setting.registries), setting.lists)
  BY <1>1 DEF Loaded, LoadPolicy
<1>4. PICK b : b = WithRegistries(a, setting.registries)
  OBVIOUS
<1>5. /\ b.blockedAgents = a.blockedAgents /\ b.blockedKeys = a.blockedKeys
      /\ b.trust = (IF a.registries = <<>> THEN a.trust ELSE "exact")
      /\ DOMAIN b = DOMAIN a
  <2>1. CASE a.registries = <<>>
    BY <1>4, <2>1 DEF WithRegistries
  <2>2. CASE a.registries # <<>>
    <3>1. PICK c, d : b = [a EXCEPT !.trust = "exact", !.agentCap = c, !.keyCap = d]
      BY <1>4, <2>2 DEF WithRegistries
    <3>2. QED  BY <1>2, <2>2, <3>1 DEF IsPolicy
  <2>3. QED  BY <2>1, <2>2
<1>6. p = WithLists(b, setting.lists)
  BY <1>3, <1>4
<1>7. /\ p.blockedAgents = b.blockedAgents \cup setting.lists.blockedAgents
      /\ p.blockedKeys = b.blockedKeys \cup setting.lists.blockedKeys
      /\ p.trust = b.trust
  BY <1>2, <1>5, <1>6 DEF WithLists, IsPolicy
<1>8. QED  BY <1>1, <1>2, <1>5, <1>7 DEF BlockedNames, BlockedKeys, IsPolicy, SettingShape

(* The delegations in force for a message, and the one that counts. *)
LEMMA ActsForIs ==
    ASSUME ModInv, NEW m
    PROVE  ActsFor(m) = Candidates(grants, m.writer, <<m.kind>>, mnow)
<1>1. mnow \in Nat
  BY ModBounds DEF ModInv, ModTypeOK
<1>2. \A d \in grants.delegations : d.until \in Nat /\ d.at \in Nat
  BY DEF ModInv, GrantsShape
<1>3. \A v \in grants.revocations : v.at \in Nat
  BY DEF ModInv, GrantsShape
<1>4. \A d \in grants.delegations : (d.until = 0 \/ d.until > mnow) <=> ~Expired(d, mnow)
  BY <1>1, <1>2 DEF Expired
<1>5. \A d \in grants.delegations, v \in grants.revocations :
         v.at \in d.at..mnow <=> (d.at <= v.at /\ v.at <= mnow)
  BY <1>1, <1>2, <1>3
<1>6. \A d \in grants.delegations :
         IsRevoked(d, grants.revocations, mnow)
         <=> \E v \in grants.revocations : v.child = d.child /\ v.parent = d.parent /\ v.at \in d.at..mnow
  BY <1>5 DEF IsRevoked
<1>7. <<m.kind>> # <<>>
  OBVIOUS
<1>8. \A d : ScopeMatches(d, <<m.kind>>) <=> (d.scopes = {} \/ <<m.kind>> \in d.scopes)
  BY <1>7 DEF ScopeMatches
<1>9. QED  BY <1>4, <1>6, <1>8 DEF ActsFor, Candidates

LEMMA LenderIs ==
    ASSUME ModInv, NEW m, NEW lender, lender = ActiveDelegation(grants, m.writer, <<m.kind>>, mnow).parent
    PROVE  ActsFor(m) # {} => \E d \in ActsFor(m) : lender = d.parent
<1> SUFFICES ASSUME ActsFor(m) # {} PROVE \E d \in ActsFor(m) : lender = d.parent
  OBVIOUS
<1>1. PICK S : S = ActsFor(m)
  OBVIOUS
<1>2. S = Candidates(grants, m.writer, <<m.kind>>, mnow) /\ S # {}
  BY <1>1, ActsForIs
<1>3. S \subseteq grants.delegations
  BY <1>1 DEF ActsFor
<1>4. IsFiniteSet(S) /\ \A d \in S : d.at \in Nat
  BY <1>3, FS_Subset DEF ModInv, GrantsShape
<1>5. \E d \in S : \A c \in S : c.at <= d.at
  BY <1>2, <1>4, NewestExists
<1>6. PICK d : d = (CHOOSE e \in S : \A c \in S : c.at <= e.at)
  OBVIOUS
<1>7. d \in S
  BY <1>5, <1>6
<1>8. ActiveDelegation(grants, m.writer, <<m.kind>>, mnow) = d
  BY <1>2, <1>6 DEF ActiveDelegation
<1>9. QED  BY <1>1, <1>7, <1>8

(* A writer the lists name has no capability, and lends none. *)
LEMMA BlockedStands ==
    ASSUME ModInv, NEW p \in Loaded, NEW w, BlockedWriter(w)
    PROVE  CapabilityState(p, w).cap = "blocked" /\ w # NoWriter
<1>1. /\ p.blockedAgents = BlockedNames /\ p.blockedKeys = BlockedKeys
      /\ "" \notin BlockedNames /\ NoKey \notin BlockedKeys
  BY LoadedIs
<1>2. w.agent \in BlockedNames \/ w.key \in BlockedKeys
  BY DEF BlockedWriter
<1>3. w # NoWriter
  <2>1. NoWriter.agent = "" /\ NoWriter.key = NoKey
    BY DEF NoWriter
  <2>2. QED  BY <1>1, <1>2, <2>1, Zenon
<1>4. CapabilityState(p, w) = Standing("blocked", TRUE)
  BY <1>1, <1>2 DEF CapabilityState
<1>5. QED  BY <1>3, <1>4 DEF Standing

LEMMA BlockedCap == Standing("blocked", FALSE).cap = "blocked"
BY DEF Standing

(* What is barred the policy does not accept. *)
LEMMA AcceptedIsFree ==
    ASSUME ModInv, NEW p \in Loaded, NEW m, AcceptsMessage(p, m, grants, mnow)
    PROVE  ~Barred(m)
<1> SUFFICES ASSUME Barred(m) PROVE FALSE
  OBVIOUS
<1>1. ~Unsigned(m.writer)
  BY DEF Barred
<1>2. PICK lender : /\ lender = ActiveDelegation(grants, m.writer, <<m.kind>>, mnow).parent
                    /\ Admitted(p.mode, MessageDecision(p, m, lender))
  BY <1>1 DEF AcceptsMessage
<1>3. PICK D : D = MessageDecision(p, m, lender)
  OBVIOUS
<1>4. D.cap # "blocked"
  BY <1>2, <1>3 DEF Admitted
<1>5. PICK O : O = OriginDecision(p, m.writer, lender)
  OBVIOUS
<1>6. /\ ~(m.author # "" /\ AuthorMatches(m.author, p.blockedAgents, p.trust))
      /\ O.cap = "blocked" => D.cap = "blocked"
  BY <1>3, <1>4, <1>5, BlockedCap DEF MessageDecision
<1>7. O.cap # "blocked"
  BY <1>4, <1>6
<1>8. CapabilityState(p, m.writer).cap # "blocked"
  BY <1>5, <1>7, BlockedCap DEF OriginDecision
<1>9. lender = NoWriter \/ CapabilityState(p, lender).cap # "blocked"
  BY <1>5, <1>7, BlockedCap DEF OriginDecision
<1>10. ~BlockedWriter(m.writer)
  BY <1>8, BlockedStands
<1>11. ~BlockedWriter(lender)
  BY <1>9, BlockedStands
<1>12. NamesOf(m) \cap BlockedNames # {}
       \/ (ActsFor(m) # {} /\ \A d \in ActsFor(m) : BlockedWriter(d.parent))
  BY <1>10 DEF Barred, BlockedWriter
<1>13. ~(ActsFor(m) # {} /\ \A d \in ActsFor(m) : BlockedWriter(d.parent))
  BY <1>2, <1>11, LenderIs
<1>14. PICK n \in NamesOf(m) : n \in BlockedNames
  BY <1>12, <1>13
<1>15. /\ p.blockedAgents = BlockedNames /\ "" \notin BlockedNames
       /\ p.trust = (IF setting.policy.registries = <<>> THEN setting.policy.trust ELSE "exact")
  BY LoadedIs
<1>16. n # m.writer.agent
  BY <1>10, <1>14 DEF BlockedWriter
<1>17. n # m.author
  BY <1>6, <1>14, <1>15 DEF AuthorMatches
<1>18. /\ setting.policy.trust = "parent_and_children" /\ setting.policy.registries = <<>>
       /\ n \in Above[m.author]
  BY <1>14, <1>16, <1>17 DEF NamesOf
<1>19. m.author # ""
  <2>1. Above[""] = {}
    BY ModConstants
  <2>2. QED  BY <1>18, <2>1
<1>20. AuthorMatches(m.author, p.blockedAgents, p.trust)
  BY <1>14, <1>15, <1>18 DEF AuthorMatches
<1>21. QED  BY <1>6, <1>19, <1>20

(* Without a policy nothing is barred. *)
LEMMA EmptyBarsNothing ==
    ASSUME ModInv, NEW p \in Loaded, PolicyEmpty(p), NEW m
    PROVE  ~Barred(m)
<1>1. BlockedNames = {} /\ BlockedKeys = {}
  BY LoadedIs DEF PolicyEmpty
<1>2. QED  BY <1>1 DEF Barred, BlockedWriter

(* The messages of the library, by their ids. *)
LEMMA OneOfAnId ==
    /\ IsFiniteSet(DOMAIN Library) /\ DOMAIN Library \subseteq Nat
    /\ \A i, j \in DOMAIN Library : Library[i].id = Library[j].id => i = j
BY ModConstants

(* The places the policy leaves, and the index the rules leave of them. *)
Places(p) == ApplyWriterPolicy(Library, p, grants, mnow)
IndexFor(p) == ApplySubscriptionRules(Library, Places(p), setting.rules)
Rules == Normalized(setting.rules)

LEMMA PlacesAre ==
    ASSUME ModInv, NEW p \in Loaded, NEW i \in Places(p)
    PROVE  /\ i \in DOMAIN Library /\ ~Barred(Library[i])
           /\ ~PolicyEmpty(p) /\ ~IsPost(Library[i]) =>
                 \E j \in Places(p) : IsPost(Library[j]) /\ Library[i].to = Library[j].id
<1>1. CASE PolicyEmpty(p)
  BY <1>1, EmptyBarsNothing DEF Places, ApplyWriterPolicy
<1>2. CASE ~PolicyEmpty(p)
  <2>1. PICK accepted : accepted = {k \in DOMAIN Library : AcceptsMessage(p, Library[k], grants, mnow)}
    OBVIOUS
  <2>2. PICK posts : posts = {k \in accepted : IsPost(Library[k])}
    OBVIOUS
  <2>3. PICK others : others = {k \in accepted : ~IsPost(Library[k]) /\ \E j \in posts : Library[k].to = Library[j].id}
    OBVIOUS
  <2>4. Places(p) = posts \cup others
    BY <1>2, <2>1, <2>2, <2>3 DEF Places, ApplyWriterPolicy
  <2>5. i \in accepted
    BY <2>2, <2>3, <2>4
  <2>6. ~Barred(Library[i])
    BY <2>1, <2>5, AcceptedIsFree
  <2>7. ~IsPost(Library[i]) => \E j \in Places(p) : IsPost(Library[j]) /\ Library[i].to = Library[j].id
    BY <2>2, <2>3, <2>4
  <2>8. QED  BY <2>1, <2>5, <2>6, <2>7
<1>3. QED  BY <1>1, <1>2

(* The rules leave messages of these places: a post, unless it waits, is within the quota,
   and what is about a post comes with it. *)
Kept(p) == {i \in Places(p) : IsPost(Library[i])}
Pending(p) == {i \in Kept(p) : Rules.mode = "approval" /\ ~MatchesSubscription(Library[i], Rules)}
Within(p) == WithinQuota(Library, Kept(p), Rules)

LEMMA IndexIs ==
    ASSUME NEW p
    PROVE  IF RulesEmpty(Rules)
           THEN IndexFor(p).bundles = {Library[i] : i \in Places(p)}
           ELSE /\ IndexFor(p).bundles = {Library[i] : i \in {j \in Places(p) :
                        PostIdOf(Library[j]) \in {Library[k].id : k \in Within(p) \cup Pending(p)}}}
                /\ IndexFor(p).pending = {Library[i].id : i \in Pending(p)}
<1>1. CASE RulesEmpty(Rules)
  BY <1>1 DEF IndexFor, ApplySubscriptionRules, Rules
<1>2. CASE ~RulesEmpty(Rules)
  <2>1. IndexFor(p) = [bundles |-> {Library[i] : i \in {j \in Places(p) :
                        PostIdOf(Library[j]) \in {Library[k].id : k \in Within(p) \cup Pending(p)}}},
                    pending |-> {Library[i].id : i \in Pending(p)}]
    BY <1>2 DEF IndexFor, ApplySubscriptionRules, Rules, Kept, Pending, Within
  <2>2. QED  BY <1>2, <2>1
<1>3. QED  BY <1>1, <1>2

LEMMA InIndex ==
    ASSUME NEW p, NEW m \in IndexFor(p).bundles
    PROVE  /\ \E i \in Places(p) : m = Library[i]
           /\ ~RulesEmpty(Rules) =>
                 PostIdOf(m) \in {Library[k].id : k \in Within(p) \cup Pending(p)}
BY IndexIs

LEMMA WithinIs ==
    ASSUME NEW p
    PROVE  Within(p) \subseteq {i \in Kept(p) : MatchesSubscription(Library[i], Rules)}
BY DEF Within, WithinQuota

(* A message that shows is one of the index. *)
LEMMA ShownIs ==
    ASSUME ModInv, NEW p \in Loaded, NEW j \in DOMAIN Library,
           Library[j].id \in DOMAIN View(p).posts \cup View(p).others
    PROVE  j \in Places(p) /\ Library[j] \in IndexFor(p).bundles
<1>1. DOMAIN View(p).posts = PostIds(IndexFor(p))
      /\ View(p).others = {b.id : b \in IndexFor(p).bundles} \ PostIds(IndexFor(p))
  BY DEF View, Shown, IndexFor, Places
<1>2. PICK b \in IndexFor(p).bundles : b.id = Library[j].id
  BY <1>1 DEF PostIds
<1>3. PICK i \in Places(p) : b = Library[i]
  BY <1>2, InIndex
<1>4. i \in DOMAIN Library
  BY <1>3, PlacesAre
<1>5. i = j
  BY <1>2, <1>3, <1>4, OneOfAnId
<1>6. QED  BY <1>2, <1>3, <1>5

(* A reply comes with its post. *)
LEMMA RepliesHavePosts ==
    ASSUME ModInv, NEW p \in Loaded, ~(PolicyEmpty(p) /\ RulesEmpty(Rules)),
           NEW m \in IndexFor(p).bundles, ~IsPost(m)
    PROVE  m.to \in PostIds(IndexFor(p))
<1>1. PICK i \in Places(p) : m = Library[i]
  BY InIndex
<1>2. CASE RulesEmpty(Rules)
  <2>1. PICK j \in Places(p) : IsPost(Library[j]) /\ m.to = Library[j].id
    BY <1>1, <1>2, PlacesAre
  <2>2. Library[j] \in IndexFor(p).bundles
    BY <1>2, <2>1, IndexIs
  <2>3. QED  BY <2>1, <2>2 DEF PostIds
<1>3. CASE ~RulesEmpty(Rules)
  <2>1. PICK k \in Within(p) \cup Pending(p) : m.to = Library[k].id
    BY <1>3, InIndex DEF PostIdOf
  <2>2. k \in Places(p) /\ IsPost(Library[k])
    BY <2>1, WithinIs DEF Kept, Pending
  <2>3. PostIdOf(Library[k]) = Library[k].id
    BY <2>2 DEF PostIdOf
  <2>4. Library[k] \in IndexFor(p).bundles
    BY <1>3, <2>1, <2>2, <2>3, IndexIs
  <2>5. QED  BY <2>1, <2>2, <2>4 DEF PostIds
<1>4. QED  BY <1>2, <1>3

(* A post that shows without a decision matches the rules and is within the quota. *)
Undecided(m) == /\ m.id \notin DOMAIN decisions
                /\ ~\E s \in Rules.autoApprove : MatchesSelector(m, s)

LEMMA FreeMatches ==
    ASSUME ModInv, NEW p \in Loaded, NEW j \in DOMAIN Library,
           Library[j].id \in DOMAIN View(p).posts \cup View(p).others,
           IsPost(Library[j]), View(p).posts[Library[j].id] = "visible", Undecided(Library[j])
    PROVE  RulesEmpty(Rules) \/ j \in Within(p)
<1> SUFFICES ASSUME ~RulesEmpty(Rules) PROVE j \in Within(p)
  OBVIOUS
<1>1. PICK m, index : m = Library[j] /\ index = IndexFor(p)
  OBVIOUS
<1>2. j \in Places(p) /\ m \in index.bundles
  BY <1>1, ShownIs
<1>3. PICK all : all = WithAutoApprovals(index, decisions, setting.rules)
  OBVIOUS
<1>4. View(p).posts = [id \in PostIds(index) |-> Visibility(id, index, all)]
  BY <1>1, <1>3 DEF View, Shown, IndexFor, Places
<1>5. m.id \in PostIds(index)
  BY <1>1, <1>2 DEF PostIds
<1>6. Visibility(m.id, index, all) = "visible"
  BY <1>1, <1>4, <1>5
<1>7. DOMAIN all = DOMAIN decisions \cup Automatic(index, setting.rules)
  BY <1>3 DEF WithAutoApprovals
<1>8. m.id \notin Automatic(index, setting.rules)
  <2> SUFFICES ASSUME m.id \in Automatic(index, setting.rules) PROVE FALSE
    OBVIOUS
  <2>1. PICK b \in index.bundles : b.id = m.id /\ \E s \in Rules.autoApprove : MatchesSelector(b, s)
    BY DEF Automatic, Rules
  <2>2. PICK i \in Places(p) : b = Library[i]
    BY <1>1, <2>1, InIndex
  <2>3. i = j
    BY <1>1, <2>1, <2>2, PlacesAre, OneOfAnId
  <2>4. QED  BY <1>1, <2>1, <2>2, <2>3 DEF Undecided
<1>9. m.id \notin DOMAIN all
  BY <1>1, <1>7, <1>8 DEF Undecided
<1>10. m.id \notin index.pending
  BY <1>6, <1>9 DEF Visibility
<1>11. j \notin Pending(p)
  BY <1>1, <1>10, IndexIs
<1>12. PostIdOf(m) = m.id
  BY <1>1 DEF PostIdOf
<1>13. PICK k \in Within(p) \cup Pending(p) : m.id = Library[k].id
  BY <1>1, <1>2, <1>12, InIndex
<1>14. k \in Places(p)
  BY <1>13, WithinIs DEF Kept, Pending
<1>15. k \in DOMAIN Library
  BY <1>14, PlacesAre
<1>16. k = j
  BY <1>1, <1>13, <1>15, OneOfAnId
<1>17. QED  BY <1>11, <1>13, <1>16

(* Rules that block a key or set a quota are not empty, and keep both as they load. *)
LEMMA RulesAre ==
    ASSUME ModInv
    PROVE  /\ Rules.blockedOrigins = setting.rules.blockedOrigins
           /\ RulesEmpty(Rules) => setting.rules.blockedOrigins = {}
           /\ setting.rules.maxPerDay \in 1..(Unlimited - 1) =>
                 ~RulesEmpty(Rules) /\ Rules.maxPerDay = setting.rules.maxPerDay
<1>1. PICK r : r = setting.rules
  OBVIOUS
<1>2. r.maxPerDay \in Nat /\ {"maxPerDay", "blockedOrigins", "allowedOrigins"} \subseteq DOMAIN r
  BY <1>1, SettingIs DEF SettingShape
<1>3. PICK a, b, c, d, e, f, g :
         Rules = [r EXCEPT !.topicWhitelist = a, !.autoApprove = b, !.topics = c, !.historyTopics = d,
                           !.maxAge = e, !.maxSize = f, !.maxPerDay = g]
         /\ g = OrUnlimited(r.maxPerDay)
  <2>1. PICK a, b, c, d, e, f, g :
           Rules = [r EXCEPT !.topicWhitelist = a, !.autoApprove = b, !.topics = c, !.historyTopics = d,
                             !.maxAge = e, !.maxSize = f, !.maxPerDay = OrUnlimited(@)]
    BY <1>1 DEF Rules, Normalized
  <2>2. QED  BY <2>1
<1>4. Rules.blockedOrigins = r.blockedOrigins /\ Rules.maxPerDay = OrUnlimited(r.maxPerDay)
  BY <1>2, <1>3
<1>5. RulesEmpty(Rules) => Rules.blockedOrigins = {} /\ Rules.maxPerDay >= Unlimited
  BY DEF RulesEmpty
<1>6. r.maxPerDay \in 1..(Unlimited - 1) => Rules.maxPerDay = r.maxPerDay /\ ~(Rules.maxPerDay >= Unlimited)
  BY <1>4 DEF OrUnlimited, Unlimited
<1>7. QED  BY <1>1, <1>4, <1>5, <1>6

(* The first n of a finite set of numbers are no more than n. *)
LEMMA FirstOnes ==
    ASSUME NEW S, S \subseteq Nat, IsFiniteSet(S), NEW n \in Nat
    PROVE  LET Q == {i \in S : Cardinality({j \in S : j < i}) < n}
           IN IsFiniteSet(Q) /\ Cardinality(Q) <= n
<1>1. PICK Q : Q = {i \in S : Cardinality({j \in S : j < i}) < n}
  OBVIOUS
<1>2. IsFiniteSet(Q) /\ Q \subseteq Nat /\ Q \subseteq S
  BY <1>1, FS_Subset
<1>3. CASE Q = {}
  <2>1. Cardinality(Q) = 0
    BY <1>3, FS_EmptySet
  <2>2. Cardinality(Q) <= n
    BY <2>1
  <2>3. QED  BY <1>1, <1>2, <2>2
<1>4. CASE Q # {}
  <2>1. PICK q \in Q : \A i \in Q : i <= q
    BY <1>2, <1>4, GreatestNumber
  <2>2. PICK B : B = {j \in S : j < q}
    OBVIOUS
  <2>3. IsFiniteSet(B) /\ Cardinality(B) \in Nat /\ Cardinality(B) < n
    BY <1>1, <2>1, <2>2, FS_Subset, FS_CardinalityType
  <2>4. Q \subseteq B \cup {q}
    BY <1>2, <2>1, <2>2
  <2>5. IsFiniteSet(B \cup {q}) /\ Cardinality(B \cup {q}) <= n
    <3>1. IsFiniteSet(B \cup {q}) /\ (Cardinality(B \cup {q}) = Cardinality(B)
                                      \/ Cardinality(B \cup {q}) = Cardinality(B) + 1)
      BY <2>3, FS_AddElement
    <3>2. QED  BY <2>3, <3>1
  <2>6. Cardinality(Q) <= Cardinality(B \cup {q}) /\ Cardinality(Q) \in Nat /\ Cardinality(B \cup {q}) \in Nat
    BY <1>2, <2>4, <2>5, FS_Subset, FS_CardinalityType
  <2>7. Cardinality(Q) <= n
    BY <2>5, <2>6
  <2>8. QED  BY <1>1, <1>2, <2>7
<1>5. QED  BY <1>3, <1>4

(* Of a day no more posts are within the quota than it allows. *)
LEMMA QuotaHolds ==
    ASSUME ModInv, NEW p \in Loaded, NEW day, day # 0, Rules.maxPerDay \in Nat,
           NEW K, K \subseteq {Library[i] : i \in {k \in Within(p) : Library[k].day = day}}
    PROVE  Cardinality(K) <= Rules.maxPerDay
<1>1. PICK S : S = {i \in Kept(p) : MatchesSubscription(Library[i], Rules) /\ Library[i].day = day}
  OBVIOUS
<1>2. S \subseteq DOMAIN Library
  BY <1>1, PlacesAre DEF Kept
<1>3. IsFiniteSet(S) /\ S \subseteq Nat
  BY <1>2, OneOfAnId, FS_Subset
<1>4. PICK Q : Q = {i \in S : Cardinality({j \in S : j < i}) < Rules.maxPerDay}
  OBVIOUS
<1>5. IsFiniteSet(Q) /\ Cardinality(Q) <= Rules.maxPerDay
  BY <1>3, <1>4, FirstOnes
<1>6. {k \in Within(p) : Library[k].day = day} \subseteq Q
  <2> SUFFICES ASSUME NEW i \in Within(p), Library[i].day = day PROVE i \in Q
    OBVIOUS
  <2>1. PICK M : M = {k \in Kept(p) : MatchesSubscription(Library[k], Rules)}
    OBVIOUS
  <2>2. i \in M /\ Cardinality({j \in M : j < i /\ Library[j].day = Library[i].day}) < Rules.maxPerDay
    BY <2>1 DEF Within, WithinQuota
  <2>3. {j \in M : j < i /\ Library[j].day = Library[i].day} = {j \in S : j < i}
    BY <1>1, <2>1
  <2>4. QED  BY <1>1, <1>4, <2>1, <2>2, <2>3
<1>7. PICK T : T = {Library[i] : i \in Q}
  OBVIOUS
<1>8. PICK f : f = [i \in Q |-> Library[i]]
  OBVIOUS
<1>9. f \in Surjection(Q, T)
  BY <1>7, <1>8 DEF Surjection
<1>10. IsFiniteSet(T) /\ Cardinality(T) <= Cardinality(Q)
  BY <1>5, <1>9, FS_Surjection
<1>11. K \subseteq T
  BY <1>6, <1>7
<1>12. Cardinality(K) <= Cardinality(T) /\ Cardinality(K) \in Nat /\ Cardinality(T) \in Nat /\ Cardinality(Q) \in Nat
  BY <1>5, <1>10, <1>11, FS_Subset, FS_CardinalityType
<1>13. QED  BY <1>5, <1>10, <1>12

(* What the files admit, part by part. *)
LEMMA ViewAdmits ==
    ASSUME ModInv, NEW p \in Loaded
    PROVE  Admits(p, View(p))
<1>1. PICK view : view = View(p)
  OBVIOUS
<1>2. PICK messages : messages = {Library[i] : i \in DOMAIN Library}
  OBVIOUS
<1>3. PICK shown : shown = {m \in messages : m.id \in DOMAIN view.posts \cup view.others}
  OBVIOUS
<1>4. PICK free : free = {m \in shown : IsPost(m) /\ view.posts[m.id] = "visible" /\ Undecided(m)}
  OBVIOUS
<1>5. \A m \in shown : \E j \in DOMAIN Library :
         /\ m = Library[j] /\ j \in Places(p) /\ m \in IndexFor(p).bundles
         /\ m.id \in DOMAIN view.posts \cup view.others
  BY <1>1, <1>2, <1>3, ShownIs
<1>6. DOMAIN view.posts = PostIds(IndexFor(p))
  BY <1>1 DEF View, Shown, IndexFor, Places
<1>7. \A m \in shown : ~Barred(m)
  BY <1>5, PlacesAre
<1>8. ~(PolicyEmpty(p) /\ RulesEmpty(Rules)) => \A m \in shown : IsPost(m) \/ m.to \in DOMAIN view.posts
  BY <1>5, <1>6, RepliesHavePosts
<1>9. \A m \in free : RulesEmpty(Rules) \/ \E j \in Within(p) : m = Library[j]
  BY <1>1, <1>4, <1>5, FreeMatches
<1>10. ASSUME setting.rules.maxPerDay \in 1..(Unlimited - 1), NEW m \in free, m.day # 0
       PROVE  Cardinality({k \in free : k.day = m.day}) <= setting.rules.maxPerDay
  <2>1. ~RulesEmpty(Rules) /\ Rules.maxPerDay = setting.rules.maxPerDay /\ Rules.maxPerDay \in Nat
    BY <1>10, RulesAre, SettingIs DEF SettingShape
  <2>2. PICK day : day = m.day
    OBVIOUS
  <2>3. PICK K : K = {k \in free : k.day = day}
    OBVIOUS
  <2>4. K \subseteq {Library[i] : i \in {k \in Within(p) : Library[k].day = day}}
    BY <1>9, <2>1, <2>3
  <2>5. Cardinality(K) <= Rules.maxPerDay
    BY <1>10, <2>1, <2>2, <2>4, QuotaHolds
  <2>6. QED  BY <2>1, <2>2, <2>3, <2>5
<1>11. ASSUME NEW m \in free PROVE OriginKey(m) \notin setting.rules.blockedOrigins
  <2>1. CASE RulesEmpty(Rules)
    BY <2>1, RulesAre
  <2>2. CASE ~RulesEmpty(Rules)
    <3>1. PICK j \in Within(p) : m = Library[j]
      BY <1>9, <1>11, <2>2
    <3>2. MatchesSubscription(m, Rules)
      BY <3>1, WithinIs
    <3>3. OriginKey(m) \notin Rules.blockedOrigins
      BY <3>2 DEF MatchesSubscription, KeyFilter
    <3>4. QED  BY <3>3, RulesAre
  <2>3. QED  BY <2>1, <2>2
<1>12. free = {m \in shown : IsPost(m) /\ view.posts[m.id] = "visible"
                 /\ ~(\/ m.id \in DOMAIN decisions
                      \/ \E s \in Rules.autoApprove : MatchesSelector(m, s))}
  BY <1>4 DEF Undecided
<1>13. Admits(p, view)
  BY <1>2, <1>3, <1>7, <1>8, <1>10, <1>11, <1>12 DEF Admits, Rules
<1>14. QED  BY <1>1, <1>13

(* For any messages, policies, lists, rules, delegations and decisions: the index the pages
   build shows no signed message of a writer, an author or a parent of the writer that the
   files block, no reply without its post, and of the posts nobody decided no more than the
   quota of a day and none of a blocked key (writer_policy.go ApplyWriterPolicy,
   subscriptions.go ApplySubscriptionRules, moderation.go applyModerationDecisions). *)
THEOREM ShownIsAdmittedHolds == ModSpec => []ShownIsAdmitted
<1>1. ModInv => ShownIsAdmitted
  BY ViewAdmits DEF ShownIsAdmitted
<1>2. QED  BY <1>1, ModInvariant, PTL

-----------------------------------------------------------------------------
(* The pages over the index. *)

NewBefore(p, q) == p.made > q.made \/ (p.made = q.made /\ p.id < q.id)
LEMMA NewestFirst == \A p, q : Precedes(p, q, "new") <=> NewBefore(p, q)
<1>1. \A p : SortKey(p, "new") = 0
  BY DEF SortKey
<1>2. QED  BY <1>1 DEF Precedes, NewBefore

Dated(posts) == /\ IsFiniteSet(posts)
                /\ \A p \in posts : p.id \in Nat /\ p.made \in Nat
                /\ \A p, q \in posts : p.id = q.id => p = q

(* Of posts one is before all others. *)
LEMMA FirstExists ==
    ASSUME NEW R, Dated(R), R # {}
    PROVE  \E p \in R : \A q \in R : ~NewBefore(q, p)
<1>1. PICK T : T = {p.made : p \in R}
  OBVIOUS
<1>2. IsFiniteSet(T)
  <2>1. PICK f : f = [p \in R |-> p.made]
    OBVIOUS
  <2>2. f \in Surjection(R, T)
    BY <1>1, <2>1 DEF Surjection
  <2>3. QED  BY <2>2, FS_Surjection DEF Dated
<1>3. T \subseteq Nat /\ T # {}
  BY <1>1 DEF Dated
<1>4. PICK x \in T : \A y \in T : y <= x
  BY <1>2, <1>3, GreatestNumber
<1>5. PICK U : U = {p.id : p \in {q \in R : q.made = x}}
  OBVIOUS
<1>6. U \subseteq Nat /\ U # {}
  BY <1>1, <1>4, <1>5 DEF Dated
<1>7. PICK u \in U : \A y \in U : u <= y
  BY <1>6, LeastNumber
<1>8. PICK p \in R : p.made = x /\ p.id = u
  BY <1>5, <1>7
<1>9. ASSUME NEW q \in R, NewBefore(q, p) PROVE FALSE
  <2>1. q.made \in Nat /\ q.id \in Nat /\ x \in Nat /\ u \in Nat
    BY <1>3, <1>4, <1>6, <1>7 DEF Dated
  <2>2. q.made <= x
    BY <1>1, <1>4
  <2>3. q.made = x /\ q.id < u
    BY <1>8, <1>9, <2>1, <2>2 DEF NewBefore
  <2>4. q.id \in U
    BY <1>5, <2>3
  <2>5. QED  BY <1>7, <2>1, <2>3, <2>4
<1>10. QED  BY <1>9

(* What becomes of a post whose turn it is, after those before it; nothing but its reviewer
   changes. *)
Routed(posts, before, p) ==
    LET done == AssignedCounts(before)
        counts == [r \in ToSet(Ranked) |-> AssignedCounts(posts)[r] + done[r]]
    IN IF ~p.waiting THEN p
       ELSE [p EXCEPT !.suggested = Suggested(p, counts),
                      !.assigned = IF @ = 0 THEN Suggested(p, counts) ELSE @]
Earlier(posts, p) == {o \in posts : Precedes(o, p, "new")}
Routes1(posts, D, f) == f = [p \in D |-> Routed(posts, {f[q] : q \in Earlier(posts, p)}, p)]
Begun(posts, D) == \A p \in D : Earlier(posts, p) \subseteq D

LEMMA OneMoreRouted ==
    ASSUME NEW posts, NEW D, D \subseteq posts, Begun(posts, D), NEW f, Routes1(posts, D, f),
           NEW p \in posts, p \notin D, Earlier(posts, p) \subseteq D
    PROVE  \E g : Routes1(posts, D \cup {p}, g)
<1>1. PICK v : v = Routed(posts, {f[q] : q \in Earlier(posts, p)}, p)
  OBVIOUS
<1>2. PICK g : g = [q \in D \cup {p} |-> IF q = p THEN v ELSE f[q]]
  OBVIOUS
<1>3. \A q \in D : g[q] = f[q]
  BY <1>2
<1>4. \A q \in D \cup {p} : Earlier(posts, q) \subseteq D
  BY DEF Begun
<1>5. \A q \in D \cup {p} : {g[o] : o \in Earlier(posts, q)} = {f[o] : o \in Earlier(posts, q)}
  BY <1>3, <1>4
<1>6. \A q \in D \cup {p} : g[q] = Routed(posts, {g[o] : o \in Earlier(posts, q)}, q)
  <2>1. g[p] = Routed(posts, {g[o] : o \in Earlier(posts, p)}, p)
    <3>1. {g[o] : o \in Earlier(posts, p)} = {f[o] : o \in Earlier(posts, p)}
      BY <1>5
    <3>2. g[p] = v
      BY <1>2
    <3>3. QED  BY <1>1, <3>1, <3>2
  <2>2. ASSUME NEW q \in D PROVE g[q] = Routed(posts, {g[o] : o \in Earlier(posts, q)}, q)
    <3>1. {g[o] : o \in Earlier(posts, q)} = {f[o] : o \in Earlier(posts, q)}
      BY <1>5
    <3>2. f[q] = Routed(posts, {f[o] : o \in Earlier(posts, q)}, q)
      BY DEF Routes1
    <3>3. QED  BY <1>3, <3>1, <3>2
  <2>3. QED  BY <2>1, <2>2
<1>7. g = [q \in D \cup {p} |-> g[q]]
  BY <1>2
<1>8. Routes1(posts, D \cup {p}, g)
  BY <1>6, <1>7 DEF Routes1
<1>9. QED  BY <1>8

(* All posts get their turn. *)
LEMMA AllRouted == ASSUME NEW posts, Dated(posts) PROVE \E f : Routes1(posts, posts, f)
<1> DEFINE Good(D) == D \subseteq posts /\ Begun(posts, D) /\ \E f : Routes1(posts, D, f)
           Left == {posts \ D : D \in {E \in SUBSET posts : Good(E)}}
<1>1. Good({})
  <2>1. PICK f : f = [p \in {} |-> Routed(posts, {}, p)]
    OBVIOUS
  <2>2. f = [p \in {} |-> Routed(posts, {f[q] : q \in Earlier(posts, p)}, p)]
    BY <2>1
  <2>3. QED  BY <2>2 DEF Begun, Routes1
<1>2. Left \subseteq FiniteSubsetsOf(posts) /\ Left # {}
  <2>1. \A D \in SUBSET posts : posts \ D \in FiniteSubsetsOf(posts)
    BY FS_Subset DEF FiniteSubsetsOf, Dated
  <2>2. {} \in {E \in SUBSET posts : Good(E)}
    BY <1>1
  <2> HIDE DEF Good
  <2>3. QED  BY <2>1, <2>2
<1>3. PICK b \in Left : \A c \in Left : ~(<<c, b>> \in StrictSubsetOrdering(posts))
  <2> HIDE DEF Left
  <2> QED BY <1>2, FS_StrictSubsetOrderingWellFounded, WFMin
<1>4. PICK D \in SUBSET posts : Good(D) /\ b = posts \ D
  <2> HIDE DEF Good
  <2> QED  OBVIOUS
<1>5. CASE b = {}
  <2>1. D = posts
    BY <1>4, <1>5
  <2>2. QED  BY <1>4, <2>1
<1>6. ASSUME b # {} PROVE FALSE
  <2>1. Dated(b)
    BY <1>4, FS_Subset DEF Dated
  <2>2. PICK p \in b : \A q \in b : ~NewBefore(q, p)
    BY <1>6, <2>1, FirstExists
  <2>3. p \in posts /\ p \notin D /\ Earlier(posts, p) \subseteq D
    BY <1>4, <2>2, NewestFirst DEF Earlier
  <2>4. PICK f : Routes1(posts, D, f)
    BY <1>4
  <2>5. PICK E : E = D \cup {p}
    OBVIOUS
  <2>6. E \in SUBSET posts /\ Begun(posts, E)
    BY <1>4, <2>3, <2>5 DEF Begun
  <2>7. \E g : Routes1(posts, E, g)
    BY <1>4, <2>3, <2>4, <2>5, OneMoreRouted
  <2>8. posts \ E \in Left
    BY <2>6, <2>7
  <2>9. posts \ E \subseteq b /\ p \notin posts \ E /\ p \in b /\ b \in SUBSET posts
    BY <1>4, <2>3, <2>5
  <2>10. <<posts \ E, b>> \in StrictSubsetOrdering(posts)
    BY <2>9 DEF StrictSubsetOrdering
  <2>11. QED  BY <1>3, <2>8, <2>10
<1>7. QED  BY <1>5, <1>6

LEMMA DecoratedIs ==
    ASSUME NEW posts, Dated(posts)
    PROVE  \E f : Routes1(posts, posts, f) /\ Decorated(posts) = {f[p] : p \in posts}
<1>1. PICK f : f = (CHOOSE g : Routes1(posts, posts, g))
  OBVIOUS
<1>2. Routes1(posts, posts, f)
  BY <1>1, AllRouted
<1>3. Decorated(posts) = {f[p] : p \in posts}
  BY <1>1 DEF Decorated, Routes1, Routed, Earlier
<1>4. QED  BY <1>2, <1>3

(* The list of a page: of posts of the index, or of what became of them in their turn. *)
LEMMA RoutedKeeps ==
    ASSUME NEW posts, NEW before, NEW p, IsWebPost(p), NEW r, r = Routed(posts, before, p)
    PROVE  r.id = p.id /\ r.made = p.made
<1>1. CASE ~p.waiting
  BY <1>1 DEF Routed
<1>2. CASE p.waiting
  <2>1. PICK a, b : r = [p EXCEPT !.suggested = a, !.assigned = b]
    BY <1>2 DEF Routed
  <2>2. QED  BY <2>1 DEF IsWebPost
<1>3. QED  BY <1>1, <1>2

LEMMA IndexDated == ASSUME NEW posts, IsFiniteSet(posts), OfOneIndex(posts) PROVE Dated(posts)
BY DEF OfOneIndex, IsWebPost, Dated

(* One list comes of another: its posts were there, made when they were. *)
From(list, posts) == \A p \in list : \E q \in posts : q.id = p.id /\ q.made = p.made

LEMMA PartIs ==
    ASSUME NEW posts, Dated(posts), NEW S, S \subseteq posts
    PROVE  Dated(S) /\ From(S, posts)
BY FS_Subset DEF Dated, From

LEMMA DecoratedShape ==
    ASSUME NEW posts, IsFiniteSet(posts), OfOneIndex(posts)
    PROVE  Dated(Decorated(posts)) /\ From(Decorated(posts), posts)
<1>1. Dated(posts)
  BY IndexDated
<1>2. PICK f, S : Routes1(posts, posts, f) /\ S = Decorated(posts) /\ S = {f[p] : p \in posts}
  BY <1>1, DecoratedIs
<1>3. \A p \in posts : f[p].id = p.id /\ f[p].made = p.made
  <2> SUFFICES ASSUME NEW p \in posts PROVE f[p].id = p.id /\ f[p].made = p.made
    OBVIOUS
  <2>1. PICK before : f[p] = Routed(posts, before, p)
    BY <1>2 DEF Routes1
  <2>2. IsWebPost(p)
    BY DEF OfOneIndex
  <2>3. QED  BY <2>1, <2>2, RoutedKeeps
<1>4. IsFiniteSet(S)
  <2>1. f = [p \in posts |-> f[p]]
    BY <1>2 DEF Routes1
  <2>2. f \in Surjection(posts, S)
    BY <1>2, <2>1 DEF Surjection
  <2>3. QED  BY <2>2, FS_Surjection
<1>5. \A p \in S : \E q \in posts : p = f[q]
  BY <1>2
<1>6. Dated(S) /\ From(S, posts)
  BY <1>1, <1>3, <1>4, <1>5 DEF Dated, From
<1>7. QED  BY <1>2, <1>6

LEMMA ListShape ==
    ASSUME NEW posts, IsFiniteSet(posts), OfOneIndex(posts), NEW o
    PROVE  Dated(ListOf(posts, o)) /\ From(ListOf(posts, o), posts)
<1>1. PICK S : S = IF o.pending THEN Decorated(posts) ELSE posts
  OBVIOUS
<1>2. Dated(posts)
  BY IndexDated
<1>3. Dated(S) /\ From(S, posts)
  <2>1. From(posts, posts)
    BY DEF From
  <2>2. QED  BY <1>1, <1>2, <2>1, DecoratedShape
<1>4. ListOf(posts, o) \subseteq S
  BY <1>1 DEF ListOf
<1>5. Dated(ListOf(posts, o)) /\ From(ListOf(posts, o), S)
  BY <1>3, <1>4, PartIs
<1>6. From(ListOf(posts, o), posts)
  BY <1>3, <1>4 DEF From
<1>7. QED  BY <1>5, <1>6

(* A post has a place in its list, no later one than posts there are. *)
LEMMA PlaceIs ==
    ASSUME NEW L, Dated(L), NEW p \in L
    PROVE  Place(p, L, "new") \in Nat /\ Place(p, L, "new") <= Cardinality(L) /\ Cardinality(L) \in Nat
<1>1. PICK S : S = {q \in L : Precedes(q, p, "new")}
  OBVIOUS
<1>2. p \notin S
  <2>1. p.id \in Nat /\ p.made \in Nat
    BY DEF Dated
  <2>2. ~NewBefore(p, p)
    BY <2>1 DEF NewBefore
  <2>3. QED  BY <1>1, <2>2, NewestFirst
<1>3. IsFiniteSet(L) /\ Cardinality(L) \in Nat
  BY FS_CardinalityType DEF Dated
<1>4. IsFiniteSet(S) /\ Cardinality(S) \in Nat
  BY <1>1, <1>3, FS_Subset, FS_CardinalityType
<1>5. IsFiniteSet(S \cup {p}) /\ Cardinality(S \cup {p}) = Cardinality(S) + 1
  BY <1>2, <1>4, FS_AddElement
<1>6. S \cup {p} \subseteq L
  BY <1>1
<1>7. Cardinality(S \cup {p}) <= Cardinality(L)
  BY <1>3, <1>6, FS_Subset
<1>8. Place(p, L, "new") = 1 + Cardinality(S)
  BY <1>1 DEF Place
<1>9. QED  BY <1>3, <1>4, <1>5, <1>7, <1>8

(* Posts that come push others back, never forward. *)
LEMMA PlaceGrows ==
    ASSUME NEW L, Dated(L), NEW M, Dated(M), From(L, M),
           NEW p \in L, NEW q \in M, p.id = q.id
    PROVE  Place(p, L, "new") <= Place(q, M, "new")
<1>1. p.made = q.made
  BY DEF From, Dated
<1>2. PICK S : S = {x \in L : Precedes(x, p, "new")}
  OBVIOUS
<1>3. PICK T : T = {x \in M : Precedes(x, q, "new")}
  OBVIOUS
<1>4. IsFiniteSet(S) /\ IsFiniteSet(T)
  BY <1>2, <1>3, FS_Subset DEF Dated
<1>5. \A x \in S : \E y \in T : y.id = x.id
  <2> SUFFICES ASSUME NEW x \in S PROVE \E y \in T : y.id = x.id
    OBVIOUS
  <2>1. PICK y \in M : y.id = x.id /\ y.made = x.made
    BY <1>2 DEF From
  <2>2. NewBefore(x, p)
    BY <1>2, NewestFirst
  <2>3. NewBefore(y, q)
    BY <1>1, <2>1, <2>2 DEF NewBefore
  <2>4. QED  BY <1>3, <2>1, <2>3, NewestFirst
<1>6. PICK f : f = [x \in S |-> CHOOSE y \in T : y.id = x.id]
  OBVIOUS
<1>7. \A x \in S : f[x] \in T /\ f[x].id = x.id
  BY <1>5, <1>6
<1>8. \A x, y \in S : f[x] = f[y] => x = y
  BY <1>2, <1>7 DEF Dated
<1>9. f \in Injection(S, T)
  <2>1. f \in [S -> T]
    BY <1>6, <1>7
  <2>2. QED  BY <1>8, <2>1 DEF Injection, IsInjective
<1>10. Cardinality(S) <= Cardinality(T)
  BY <1>4, <1>9, FS_Injection
<1>11. Place(p, L, "new") = 1 + Cardinality(S) /\ Place(q, M, "new") = 1 + Cardinality(T)
  BY <1>2, <1>3 DEF Place
<1>12. Cardinality(S) \in Nat /\ Cardinality(T) \in Nat
  BY <1>4, FS_CardinalityType
<1>13. QED  BY <1>10, <1>11, <1>12

(* The pages of a list are enough for it. *)
LEMMA PagesSuffice ==
    ASSUME NEW n \in Nat, NEW size \in Nat \ {0}
    PROVE  TotalPages(n, size) \in Nat \ {0} /\ n <= TotalPages(n, size) * size
<1>1. CASE n = 0
  <2>1. TotalPages(n, size) = 1
    BY <1>1 DEF TotalPages
  <2>2. QED  BY <1>1, <2>1
<1>2. CASE n # 0
  <2>1. PICK k : k = (n + size - 1) \div size
    OBVIOUS
  <2>2. n + size - 1 \in Nat /\ n + size - 1 >= size
    BY <1>2
  <2>3. k \in Int /\ (n + size - 1) = size * k + ((n + size - 1) % size) /\ (n + size - 1) % size \in 0..(size - 1)
    BY <2>1, <2>2
  <2>4. size * k >= n
    BY <2>3
  <2>5. k >= 1
    BY <1>2, <2>3, <2>4
  <2>6. TotalPages(n, size) = k
    BY <1>2, <2>1 DEF TotalPages
  <2>7. k * size = size * k
    BY <2>3
  <2>8. QED  BY <2>3, <2>4, <2>5, <2>6, <2>7
<1>3. QED  BY <1>1, <1>2

(* What holds of the index and the reader: posts are of one index, the list has all that
   stayed, and of that the reader has seen what comes before its next page. *)
Asked == walk.asked
IndexShape ==
    /\ IsFiniteSet(listing) /\ IsFiniteSet(coming) /\ listing \cap coming = {}
    /\ OfOneIndex(listing \cup coming)
    /\ decided \in BOOLEAN /\ (~decided => Ruled(listing \cup coming))
WalkShape ==
    /\ walk = [asked |-> walk.asked, page |-> walk.page, next |-> walk.next]
    /\ Asked \in Walks /\ walk.page \in Nat /\ walk.next \in BOOLEAN
Waits(p) == p.id \in pageSeen \/ Place(p, ListOf(listing, Asked), "new") > walk.page * Asked.size
OnTheWay ==
    /\ stayed \subseteq IdsOf(ListOf(listing, Asked))
    /\ walk.next /\ Asked.tab # "hot" => \A p \in ListOf(listing, Asked) : p.id \in stayed => Waits(p)
PagesInv == IndexShape /\ WalkShape /\ OnTheWay /\ WalkMissesNothing

LEMMA WalkIs ==
    ASSUME NEW o \in Walks
    PROVE  /\ o = [path |-> o.path, pending |-> o.pending, group |-> o.group, topic |-> o.topic, source |-> o.source,
                   reviewer |-> o.reviewer, tab |-> o.tab, hours |-> o.hours, size |-> o.size]
           /\ o.size \in Nat \ {0} /\ o.pending = (o.path = "/pending-approval")
           /\ \/ o.path \in {"/", "/api/feed", "/pending-approval"}
              \/ o.path \in {"/topics", "/api/topics"} /\ o.topic # ""
              \/ o.path \in {"/sources", "/api/sources"} /\ o.source # ""
BY PagesConstants

LEMMA ListingDated ==
    ASSUME IndexShape
    PROVE  /\ IsFiniteSet(listing) /\ OfOneIndex(listing) /\ \A p \in listing : IsWebPost(p)
           /\ Dated(ListOf(listing, Asked)) /\ From(ListOf(listing, Asked), listing)
<1>1. IsFiniteSet(listing) /\ OfOneIndex(listing) /\ \A p \in listing : IsWebPost(p)
  BY DEF IndexShape, OfOneIndex
<1>2. QED  BY <1>1, ListShape

(* Where the counts are of what the pages list, each listed post is counted. *)
LEMMA CountedPosts ==
    ASSUME IndexShape, Counted, NEW o, ~o.pending, NEW p \in ListOf(listing, o)
    PROVE  p \in StatPosts /\ p \in listing
<1>1. p \in listing /\ p.show \in {"", "visible"}
  BY DEF ListOf, Listed
<1>2. CASE decided
  BY <1>1, <1>2 DEF Counted, StatPosts
<1>3. CASE ~decided
  <2>1. (\A q \in listing : q.show = "") \/ (\A q \in listing : q.show # "")
    BY <1>3 DEF IndexShape, Ruled
  <2>2. QED  BY <1>1, <1>3, <2>1 DEF StatPosts
<1>4. QED  BY <1>2, <1>3 DEF IndexShape

LEMMA CountedTopic ==
    ASSUME NEW p \in StatPosts, NEW t \in p.topics
    PROVE  HasTopic(t)
BY DEF HasTopic, TopicStats, CountByTopic

(* A page is a part of the list, all of it, or not found, which is of an empty list. *)
Nothing == Counted => ListOf(listing, Asked) = {}
LEMMA PageIs ==
    ASSUME IndexShape, WalkShape, NEW n
    PROVE  \/ Page(Asked, n) = Cut(ListOf(listing, Asked), Asked, n)
           \/ Page(Asked, n) = Uncut(ListOf(listing, Asked))
           \/ Page(Asked, n) = NotFound /\ Nothing
<1>1. PICK o : o = Asked
  OBVIOUS
<1>2. o \in Walks
  BY <1>1 DEF WalkShape
<1>3. CASE o.path \in {"/", "/api/feed"}
  BY <1>1, <1>3 DEF Page, HomePage, FeedPage
<1>4. CASE o.path = "/pending-approval"
  <2>1. o.pending = TRUE
    BY <1>2, <1>4, WalkIs
  <2>2. [o EXCEPT !.pending = TRUE] = o
    BY <1>2, <2>1, WalkIs
  <2>3. Page(o, n) = PendingPage(o, n)
    BY <1>4 DEF Page
  <2>4. QED  BY <1>1, <2>2, <2>3 DEF PendingPage
<1>5. ASSUME o.path \in {"/topics", "/api/topics"}, o.topic # "", ~HasTopic(o.topic)
      PROVE  Nothing
  <2> SUFFICES ASSUME Counted, NEW p \in ListOf(listing, o) PROVE FALSE
    BY <1>1 DEF Nothing
  <2>1. ~o.pending
    BY <1>2, <1>5, WalkIs
  <2>2. p \in StatPosts
    BY <2>1, CountedPosts
  <2>3. o.topic \in p.topics
    BY <1>5 DEF ListOf, Listed
  <2>4. QED  BY <1>5, <2>2, <2>3, CountedTopic
<1>6. ASSUME o.path \in {"/sources", "/api/sources"}, o.source # "", ~HasSource(o.source)
      PROVE  Nothing
  <2> SUFFICES ASSUME Counted, NEW p \in ListOf(listing, o) PROVE FALSE
    BY <1>1 DEF Nothing
  <2>1. ~o.pending
    BY <1>2, <1>6, WalkIs
  <2>2. p \in StatPosts
    BY <2>1, CountedPosts
  <2>3. p.source = o.source
    BY <1>6 DEF ListOf, Listed, AnyOr
  <2>4. QED  BY <1>6, <2>2, <2>3 DEF HasSource
<1>7. CASE o.path \in {"/topics", "/api/topics"} /\ o.topic # ""
  <2>1. Page(o, n) = TopicPage(o, n) \/ Page(o, n) = TopicInterface(o)
    BY <1>7 DEF Page
  <2>2. QED  BY <1>1, <1>5, <1>7, <2>1 DEF TopicPage, TopicInterface
<1>8. CASE o.path \in {"/sources", "/api/sources"} /\ o.source # ""
  <2>1. Page(o, n) = SourcePage(o, n) \/ Page(o, n) = SourceInterface(o)
    BY <1>8 DEF Page
  <2>2. QED  BY <1>1, <1>6, <1>8, <2>1 DEF SourcePage, SourceInterface
<1>9. QED  BY <1>2, <1>3, <1>4, <1>7, <1>8, WalkIs

(* The next page shows what comes next. *)
LEMMA NextPage ==
    ASSUME NEW L, Dated(L), NEW o, o.size \in Nat \ {0}, o.tab # "hot", NEW at \in Nat,
           NEW got, got = Cut(L, o, at + 1)
    PROVE  /\ got.page \in Nat /\ got.next \in BOOLEAN
           /\ \A p \in L : Place(p, L, "new") > at * o.size =>
                 p \in got.items \/ (got.next /\ Place(p, L, "new") > got.page * o.size)
<1>1. PICK n, size, last : n = Cardinality(L) /\ size = o.size /\ last = TotalPages(n, size)
  OBVIOUS
<1>2. n \in Nat /\ size \in Nat \ {0}
  BY <1>1, FS_CardinalityType DEF Dated
<1>3. last \in Nat \ {0} /\ n <= last * size
  BY <1>1, <1>2, PagesSuffice
<1>4. PICK page : page = IF at + 1 < last THEN at + 1 ELSE last
  OBVIOUS
<1>5. EffectiveSort(o) = "new"
  BY DEF EffectiveSort
<1>6. got = [found |-> TRUE, page |-> page, next |-> page < last,
             items |-> {p \in L : Place(p, L, "new") \in ((page - 1) * size + 1)..(page * size)}]
  BY <1>1, <1>4, <1>5 DEF Cut, PaginatePosts
<1>7. page \in Nat \ {0} /\ page <= last /\ page <= at + 1
  BY <1>3, <1>4
<1>8. ASSUME NEW p \in L, Place(p, L, "new") > at * size
      PROVE  p \in got.items \/ (page < last /\ Place(p, L, "new") > page * size)
  <2>1. PICK k : k = Place(p, L, "new")
    OBVIOUS
  <2>2. k \in Nat /\ k <= last * size
    <3>1. k \in Nat /\ k <= n
      BY <1>1, <2>1, PlaceIs
    <3>2. last * size \in Nat
      BY <1>2, <1>3
    <3>3. QED  BY <1>2, <1>3, <3>1, <3>2
  <2>3. k > (page - 1) * size
    <3>1. page - 1 \in Nat /\ page - 1 <= at
      BY <1>7
    <3>2. PICK a : a = page - 1
      OBVIOUS
    <3>3. a \in Nat /\ at \in Nat /\ a <= at
      BY <3>1, <3>2
    <3>4. a * size <= at * size
      BY <1>2, <3>3
    <3>5. a * size \in Nat /\ at * size \in Nat
      BY <1>2, <3>3
    <3>6. QED  BY <1>8, <2>1, <2>2, <3>2, <3>4, <3>5
  <2>4. (page - 1) * size \in Int /\ page * size \in Int
    BY <1>2, <1>7
  <2>5. k \in ((page - 1) * size + 1)..(page * size) \/ k > page * size
    BY <2>2, <2>3, <2>4
  <2>6. k > page * size => page < last
    <3> SUFFICES ASSUME k > page * size, page = last PROVE FALSE
      BY <1>3, <1>7
    <3>1. QED  BY <2>2, <2>4
  <2>7. QED  BY <1>6, <2>1, <2>5, <2>6
<1>9. PICK more \in BOOLEAN : more <=> page < last
  OBVIOUS
<1>10. got.page = page /\ got.next = more
  <2>1. more = (page < last)
    BY <1>9
  <2>2. PICK S : got = [found |-> TRUE, page |-> page, next |-> more, items |-> S]
    BY <1>6, <2>1
  <2>3. QED  BY <2>2
<1>11. QED  BY <1>7, <1>8, <1>9, <1>10, <1>1

(* After the last page. *)
LEMMA ReadAll ==
    ASSUME NEW o \in Walks, NEW n \in Nat, walk' = [asked |-> o, page |-> n, next |-> FALSE],
           NEW L, ListOf(listing, Asked)' = L, stayed \subseteq IdsOf(L), stayed' = stayed
    PROVE  WalkShape' /\ OnTheWay'
<1>1. PICK no : no = FALSE
  OBVIOUS
<1>2. walk' = [asked |-> o, page |-> n, next |-> no]
  BY <1>1
<1>3. walk'.asked = o /\ walk'.page = n /\ walk'.next = no
  <2>1. walk'.asked = o
    BY <1>2
  <2>2. walk'.page = n
    BY <1>2
  <2>3. PICK w : w = [asked |-> o, page |-> n, next |-> no]
    OBVIOUS
  <2>4. w.next = no
    BY <2>3
  <2>5. walk' = w
    BY <1>2, <2>3
  <2>6. QED  BY <2>1, <2>2, <2>4, <2>5
<1>4. walk' = [asked |-> walk'.asked, page |-> walk'.page, next |-> walk'.next]
  BY <1>2, <1>3
<1>5. WalkShape'
  BY <1>1, <1>3, <1>4 DEF WalkShape, Asked
<1>6. OnTheWay'
  BY <1>1, <1>3 DEF OnTheWay
<1>7. QED  BY <1>5, <1>6

LEMMA ReadPageStep == ASSUME PagesInv, ReadPage PROVE PagesInv'
<1>1. PICK o, L, got : o = Asked /\ L = ListOf(listing, o) /\ got = Page(o, walk.page + 1)
  OBVIOUS
<1>2. /\ walk.next /\ walk' = [walk EXCEPT !.page = got.page, !.next = got.next]
      /\ pageSeen' = pageSeen \cup IdsOf(got.items)
      /\ UNCHANGED <<listing, coming, decided, stayed, pageChanges>>
  BY <1>1 DEF ReadPage, Asked
<1>3. walk' = [asked |-> o, page |-> got.page, next |-> got.next] /\ o \in Walks
  <2>1. PICK pg, nx : walk = [asked |-> o, page |-> pg, next |-> nx]
    BY <1>1 DEF PagesInv, WalkShape, Asked
  <2>2. QED  BY <1>1, <1>2, <2>1 DEF PagesInv, WalkShape
<1>4. /\ stayed \subseteq IdsOf(L) /\ Dated(L)
      /\ o.tab # "hot" => \A p \in L : p.id \in stayed => p.id \in pageSeen \/ Place(p, L, "new") > walk.page * o.size
  BY <1>1, <1>2, ListingDated DEF PagesInv, OnTheWay, Waits
<1>5. ListOf(listing, Asked)' = L /\ IndexShape' /\ Asked' = o
  <2>1. IndexShape' /\ listing' = listing
    BY <1>2 DEF PagesInv, IndexShape
  <2>2. Asked' = o
    BY <1>3 DEF Asked
  <2>3. QED  BY <1>1, <2>1, <2>2
<1>6. o.size \in Nat \ {0} /\ walk.page \in Nat
  BY <1>3, WalkIs DEF PagesInv, WalkShape
<1>7. got = Cut(L, o, walk.page + 1) \/ got = Uncut(L) \/ (got = NotFound /\ Nothing)
  <2>1. IndexShape /\ WalkShape
    BY DEF PagesInv
  <2>2. QED  BY <1>1, <2>1, PageIs
<1>8. CASE got = Cut(L, o, walk.page + 1)
  <2>1. got.page \in Nat /\ got.next \in BOOLEAN
    <3>1. Cardinality(L) \in Nat
      BY <1>4, FS_CardinalityType DEF Dated
    <3>2. TotalPages(Cardinality(L), o.size) \in Nat
      BY <1>6, <3>1, PagesSuffice
    <3>3. QED  BY <1>6, <1>8, <3>2 DEF Cut, PaginatePosts
  <2>2. ASSUME o.tab # "hot", NEW p \in L, p.id \in stayed
        PROVE  p.id \in pageSeen' \/ (got.next /\ Place(p, L, "new") > got.page * o.size)
    <3>1. CASE p.id \in pageSeen
      BY <1>2, <3>1
    <3>2. CASE Place(p, L, "new") > walk.page * o.size
      <4>1. p \in got.items \/ (got.next /\ Place(p, L, "new") > got.page * o.size)
        BY <1>4, <1>6, <1>8, <2>2, <3>2, NextPage
      <4>2. QED  BY <1>2, <4>1 DEF IdsOf
    <3>3. QED  BY <1>4, <2>2, <3>1, <3>2
  <2>3. WalkShape'
    BY <1>3, <1>5, <2>1 DEF WalkShape, Asked
  <2>4. walk'.page = got.page /\ walk'.next = got.next /\ walk'.asked = o
    BY <1>3
  <2>5. OnTheWay'
    BY <1>2, <1>4, <1>5, <2>2, <2>4 DEF OnTheWay, Waits
  <2>6. WalkMissesNothing'
    <3>1. o.tab # "hot" /\ ~got.next => \A p \in L : p.id \in stayed => p.id \in pageSeen'
      BY <2>2
    <3>2. o.tab # "hot" /\ ~got.next => stayed \subseteq pageSeen'
      BY <1>4, <3>1 DEF IdsOf
    <3>3. QED  BY <1>2, <2>4, <3>2 DEF WalkMissesNothing
  <2>7. QED  BY <1>5, <2>3, <2>5, <2>6 DEF PagesInv
<1>9. CASE got = Uncut(L)
  <2>1. walk' = [asked |-> o, page |-> 1, next |-> FALSE] /\ got.items = L
    BY <1>3, <1>9 DEF Uncut
  <2>2. stayed \subseteq pageSeen'
    BY <1>2, <1>4, <2>1
  <2>3. WalkShape' /\ OnTheWay'
    BY <1>2, <1>3, <1>4, <1>5, <2>1, ReadAll
  <2>4. WalkMissesNothing'
    BY <1>2, <2>2 DEF WalkMissesNothing
  <2>5. QED  BY <1>5, <2>3, <2>4 DEF PagesInv
<1>10. CASE got = NotFound /\ Nothing
  <2>1. walk' = [asked |-> o, page |-> 0, next |-> FALSE]
    BY <1>3, <1>10 DEF NotFound
  <2>2. WalkShape' /\ OnTheWay'
    BY <1>2, <1>3, <1>4, <1>5, <2>1, ReadAll
  <2>3. WalkMissesNothing'
    <3>1. Counted' => Counted
      BY <1>2 DEF Counted
    <3>2. Counted => stayed = {}
      BY <1>1, <1>4, <1>10 DEF Nothing, IdsOf
    <3>3. QED  BY <1>2, <3>1, <3>2 DEF WalkMissesNothing
  <2>4. QED  BY <1>5, <2>2, <2>3 DEF PagesInv
<1>11. QED  BY <1>7, <1>8, <1>9, <1>10

(* The index is built again: posts may come and be decided, and stay where they were in
   the order of dates. *)
LEMMA RebuiltStep ==
    ASSUME PagesInv, NEW posts, Rebuilt(posts), IndexShape',
           \A p \in listing, q \in posts : p.id = q.id => p.made = q.made
    PROVE  PagesInv'
<1>1. PICK o, L, M : o = Asked /\ L = ListOf(listing, o) /\ M = ListOf(posts, o)
  OBVIOUS
<1>2. /\ walk.next /\ listing' = posts /\ UNCHANGED <<walk, pageSeen>>
      /\ stayed' = (IF IdsOf(L) \subseteq IdsOf(M) THEN stayed ELSE {})
  BY <1>1 DEF Rebuilt, Asked
<1>3. IsFiniteSet(posts) /\ OfOneIndex(posts)
  BY <1>2 DEF IndexShape, OfOneIndex
<1>4. Dated(M) /\ From(M, posts)
  BY <1>1, <1>3, ListShape
<1>5. Dated(L) /\ From(L, listing)
  BY <1>1, ListingDated DEF PagesInv
<1>6. Asked' = o /\ ListOf(listing, Asked)' = M
  <2>1. Asked' = o
    BY <1>1, <1>2 DEF Asked
  <2>2. QED  BY <1>1, <1>2, <2>1
<1>7. WalkShape'
  BY <1>2 DEF PagesInv, WalkShape, Asked
<1>8. WalkMissesNothing'
  BY <1>2 DEF WalkMissesNothing
<1>9. CASE ~(IdsOf(L) \subseteq IdsOf(M))
  <2>1. stayed' = {}
    BY <1>2, <1>9
  <2>2. OnTheWay'
    BY <2>1 DEF OnTheWay
  <2>3. QED  BY <1>7, <1>8, <2>2 DEF PagesInv
<1>10. CASE IdsOf(L) \subseteq IdsOf(M)
  <2>1. stayed' = stayed /\ stayed \subseteq IdsOf(L)
    BY <1>1, <1>2, <1>10 DEF PagesInv, OnTheWay
  <2>2. From(L, M)
    <3> SUFFICES ASSUME NEW p \in L PROVE \E q \in M : q.id = p.id /\ q.made = p.made
      BY DEF From
    <3>1. PICK q \in M : q.id = p.id
      BY <1>10 DEF IdsOf
    <3>2. PICK p0 \in listing : p0.id = p.id /\ p0.made = p.made
      BY <1>5 DEF From
    <3>3. PICK q0 \in posts : q0.id = q.id /\ q0.made = q.made
      BY <1>4 DEF From
    <3>4. QED  BY <3>1, <3>2, <3>3
  <2>3. ASSUME o.tab # "hot", NEW q \in M, q.id \in stayed
        PROVE  q.id \in pageSeen \/ Place(q, M, "new") > walk.page * o.size
    <3>1. PICK p \in L : p.id = q.id
      BY <2>1, <2>3 DEF IdsOf
    <3>2. p.id \in pageSeen \/ Place(p, L, "new") > walk.page * o.size
      BY <1>1, <1>2, <2>3, <3>1 DEF PagesInv, OnTheWay, Waits
    <3>3. Place(p, L, "new") <= Place(q, M, "new")
      BY <1>4, <1>5, <2>2, <3>1, PlaceGrows
    <3>4. Place(p, L, "new") \in Nat /\ Place(q, M, "new") \in Nat
      BY <1>4, <1>5, PlaceIs
    <3>5. walk.page * o.size \in Nat
      <4>1. walk.page \in Nat /\ o \in Walks
        BY <1>1 DEF PagesInv, WalkShape
      <4>2. o.size \in Nat
        BY <4>1, WalkIs
      <4>3. QED  BY <4>1, <4>2
    <3>6. QED  BY <3>1, <3>2, <3>3, <3>4, <3>5
  <2>4. OnTheWay'
    <3>1. stayed' \subseteq IdsOf(M)
      BY <1>10, <2>1
    <3>2. QED  BY <1>2, <1>6, <2>1, <2>3, <3>1 DEF OnTheWay, Waits
  <2>5. QED  BY <1>7, <1>8, <2>4 DEF PagesInv
<1>11. QED  BY <1>9, <1>10

LEMMA ArriveStep == ASSUME PagesInv, Arrive PROVE PagesInv'
<1>1. PICK p \in coming : Rebuilt(listing \cup {p}) /\ coming' = coming \ {p} /\ decided' = decided
  BY DEF Arrive
<1>2. PICK posts : posts = listing \cup {p}
  OBVIOUS
<1>3. listing' = posts
  BY <1>1, <1>2 DEF Rebuilt
<1>4. posts \cup coming' = listing \cup coming /\ posts \cap coming' = {}
  BY <1>1, <1>2 DEF PagesInv, IndexShape
<1>5. IsFiniteSet(posts) /\ IsFiniteSet(coming')
  BY <1>1, <1>2, FS_AddElement, FS_Subset DEF PagesInv, IndexShape
<1>6. IndexShape'
  BY <1>1, <1>3, <1>4, <1>5 DEF PagesInv, IndexShape, OfOneIndex, Ruled
<1>7. \A r \in listing, q \in posts : r.id = q.id => r.made = q.made
  BY <1>1, <1>2 DEF PagesInv, IndexShape, OfOneIndex
<1>8. QED  BY <1>1, <1>2, <1>6, <1>7, RebuiltStep

(* A post changes, but neither its id nor its date nor its topics. *)
Same(p, q) == IsWebPost(q) /\ q.id = p.id /\ q.made = p.made
LEMMA ChangeStep ==
    ASSUME PagesInv, NEW p \in listing, NEW q, Changes(p, q), Same(p, q), coming' = coming,
           decided' \in BOOLEAN, ~decided' => ~decided /\ q.show = p.show
    PROVE  PagesInv'
<1>1. PICK posts : posts = (listing \ {p}) \cup {q}
  OBVIOUS
<1>2. Rebuilt(posts) /\ listing' = posts
  BY <1>1 DEF Changes, Rebuilt
<1>3. /\ OfOneIndex(listing \cup coming) /\ IsFiniteSet(listing) /\ IsFiniteSet(coming)
      /\ listing \cap coming = {}
  BY DEF PagesInv, IndexShape
<1>4. \A r \in listing \cup coming : r.id = q.id => r = p
  BY <1>3 DEF OfOneIndex, Same
<1>5. IsFiniteSet(posts)
  BY <1>1, <1>3, FS_Subset, FS_AddElement
<1>6. p \notin coming /\ q \notin coming
  BY <1>3, <1>4 DEF Same
<1>7. posts \cap coming = {}
  BY <1>1, <1>3, <1>6
<1>8. OfOneIndex(posts \cup coming)
  <2>1. \A r \in posts \cup coming : r = q \/ (r \in listing \cup coming /\ r # p)
    BY <1>1, <1>6
  <2>2. \A r \in posts \cup coming : IsWebPost(r)
    BY <1>3, <2>1 DEF OfOneIndex, Same
  <2>3. \A r, s \in posts \cup coming : r.id = s.id => r = s
    BY <1>3, <1>4, <2>1 DEF OfOneIndex
  <2>4. QED  BY <2>2, <2>3 DEF OfOneIndex
<1>9. ~decided' => Ruled(posts \cup coming)
  <2> SUFFICES ASSUME ~decided' PROVE Ruled(posts \cup coming)
    OBVIOUS
  <2>1. Ruled(listing \cup coming) /\ q.show = p.show
    BY DEF PagesInv, IndexShape
  <2>2. QED  BY <1>1, <2>1 DEF Ruled
<1>10. IndexShape'
  BY <1>2, <1>5, <1>7, <1>8, <1>9, <1>3 DEF IndexShape
<1>11. \A r \in listing, s \in posts : r.id = s.id => r.made = s.made
  BY <1>1, <1>3, <1>4 DEF OfOneIndex, Same
<1>12. QED  BY <1>2, <1>10, <1>11, RebuiltStep

LEMMA VoteStep == ASSUME PagesInv, Vote \/ Reply PROVE PagesInv'
<1>1. PICK p \in listing : \E v : Changes(p, [p EXCEPT !.votes = v]) \/ Changes(p, [p EXCEPT !.replies = v])
  <2>1. CASE Vote
    <3>1. PICK p \in listing, value \in {1, -1} : Changes(p, [p EXCEPT !.votes = @ + value])
      BY <2>1 DEF Vote
    <3>2. PICK v : [p EXCEPT !.votes = @ + value] = [p EXCEPT !.votes = v]
      OBVIOUS
    <3>3. QED  BY <3>1, <3>2
  <2>2. CASE Reply
    <3>1. PICK p \in listing : Changes(p, [p EXCEPT !.replies = @ + 1])
      BY <2>2 DEF Reply
    <3>2. PICK v : [p EXCEPT !.replies = @ + 1] = [p EXCEPT !.replies = v]
      OBVIOUS
    <3>3. QED  BY <3>1, <3>2
  <2>3. QED  BY <2>1, <2>2
<1>2. PICK v, q : Changes(p, q) /\ (q = [p EXCEPT !.votes = v] \/ q = [p EXCEPT !.replies = v])
  BY <1>1
<1>3. coming' = coming /\ decided' = decided
  BY DEF Vote, Reply
<1>4. IsWebPost(p)
  BY <1>1, ListingDated DEF PagesInv
<1>5. Same(p, q) /\ q.show = p.show
  BY <1>2, <1>4 DEF Same, IsWebPost
<1>6. decided \in BOOLEAN
  BY DEF PagesInv, IndexShape
<1>7. QED  BY <1>1, <1>2, <1>3, <1>5, <1>6, ChangeStep

LEMMA DecideStep == ASSUME PagesInv, Decide PROVE PagesInv'
<1>1. decided' = TRUE /\ coming' = coming
  BY DEF Decide
<1>2. PICK p \in listing : \E a, b, c : Changes(p, [p EXCEPT !.show = a, !.waiting = b, !.assigned = c])
  BY DEF Decide
<1>3. PICK a, b, c, q : Changes(p, q) /\ q = [p EXCEPT !.show = a, !.waiting = b, !.assigned = c]
  BY <1>2
<1>4. IsWebPost(p)
  BY <1>2, ListingDated DEF PagesInv
<1>5. Same(p, q)
  BY <1>3, <1>4 DEF Same, IsWebPost
<1>6. QED  BY <1>1, <1>2, <1>3, <1>5, ChangeStep

LEMMA PagesStart == PagesInit => PagesInv
<1> SUFFICES ASSUME PagesInit PROVE PagesInv
  OBVIOUS
<1>1. PICK i \in Indexes : listing = i.posts /\ coming = i.coming
  BY DEF PagesInit
<1>2. PICK o \in Walks : walk = [asked |-> o, page |-> 0, next |-> TRUE]
  BY DEF PagesInit
<1>3. decided = FALSE /\ pageSeen = {} /\ stayed = IdsOf(ListOf(listing, o))
  BY <1>2 DEF PagesInit
<1>4. /\ IsFiniteSet(i.posts) /\ IsFiniteSet(i.coming) /\ i.posts \cap i.coming = {}
      /\ OfOneIndex(i.posts \cup i.coming) /\ Ruled(i.posts \cup i.coming)
  BY PagesConstants
<1>5. IndexShape
  BY <1>1, <1>3, <1>4 DEF IndexShape
<1>6. WalkShape /\ Asked = o /\ walk.page = 0 /\ walk.next
  BY <1>2 DEF WalkShape, Asked
<1>7. OnTheWay
  <2>1. stayed = IdsOf(ListOf(listing, Asked))
    BY <1>3, <1>6
  <2>2. ASSUME NEW p \in ListOf(listing, Asked) PROVE Waits(p)
    <3>1. Place(p, ListOf(listing, Asked), "new") \in Nat /\ Place(p, ListOf(listing, Asked), "new") # 0
      <4>1. PICK L : L = ListOf(listing, Asked)
        OBVIOUS
      <4>2. Dated(L) /\ p \in L
        BY <1>5, <2>2, <4>1, ListingDated
      <4>3. IsFiniteSet({q \in L : Precedes(q, p, "new")})
        BY <4>2, FS_Subset DEF Dated
      <4>4. Place(p, L, "new") = 1 + Cardinality({q \in L : Precedes(q, p, "new")})
            /\ Cardinality({q \in L : Precedes(q, p, "new")}) \in Nat
        BY <4>3, FS_CardinalityType DEF Place
      <4>5. QED  BY <4>1, <4>4
    <3>2. Asked.size \in Nat
      BY <1>6, WalkIs
    <3>3. walk.page * Asked.size = 0
      BY <1>6, <3>2
    <3>4. QED  BY <3>1, <3>3 DEF Waits
  <2>3. QED  BY <2>1, <2>2 DEF OnTheWay
<1>8. WalkMissesNothing
  BY <1>6 DEF WalkMissesNothing
<1>9. QED  BY <1>5, <1>6, <1>7, <1>8 DEF PagesInv

LEMMA PagesStep == PagesInv /\ [PagesNext]_pagevars => PagesInv'
<1> SUFFICES ASSUME PagesInv, [PagesNext]_pagevars PROVE PagesInv'
  OBVIOUS
<1>1. CASE UNCHANGED pagevars
  <2>1. UNCHANGED <<listing, coming, decided, walk, pageSeen, stayed>>
    BY <1>1 DEF pagevars
  <2>2. IndexShape' /\ WalkShape' /\ WalkMissesNothing'
    BY <2>1 DEF PagesInv, IndexShape, WalkShape, Asked, WalkMissesNothing, Counted
  <2>3. OnTheWay'
    BY <2>1 DEF PagesInv, OnTheWay, Waits, Asked
  <2>4. QED  BY <2>2, <2>3 DEF PagesInv
<1>2. CASE ReadPage
  BY <1>2, ReadPageStep
<1>3. CASE Arrive
  BY <1>3, ArriveStep
<1>4. CASE Vote \/ Reply
  BY <1>4, VoteStep
<1>5. CASE Decide
  BY <1>5, DecideStep
<1>6. QED  BY <1>1, <1>2, <1>3, <1>4, <1>5 DEF PagesNext

(* A reader has seen, of what its list had all along, all that comes before its next page,
   whatever arrives, is answered and is decided in between (runtime_content.go:207, index.go
   sortPosts). *)
THEOREM PagesInvariant == PagesSpec => []PagesInv
<1> QED  BY PagesStart, PagesStep, PTL DEF PagesSpec

(* The page of a topic lists what the directory counts. *)
LEMMA DirectoryHolds == ASSUME PagesInv PROVE DirectoryLeadsToPosts
<1> SUFFICES ASSUME Counted PROVE DirectoryLeadsToPosts
  BY DEF DirectoryLeadsToPosts
<1>1. PICK all : all = [walk.asked EXCEPT !.pending = FALSE, !.topic = "", !.source = "", !.reviewer = 0]
  OBVIOUS
<1>2. Asked \in Walks
  BY DEF PagesInv, WalkShape
<1>3. /\ DOMAIN all = {"path", "pending", "group", "topic", "source", "reviewer", "tab", "hours", "size"}
      /\ ~all.pending /\ all.topic = "" /\ all.source = "" /\ all.reviewer = 0
  <2>1. PICK w : w = walk.asked
    OBVIOUS
  <2>2. w = [path |-> w.path, pending |-> w.pending, group |-> w.group, topic |-> w.topic,
             source |-> w.source, reviewer |-> w.reviewer, tab |-> w.tab, hours |-> w.hours, size |-> w.size]
    BY <1>2, <2>1, WalkIs DEF Asked
  <2>3. DOMAIN w = {"path", "pending", "group", "topic", "source", "reviewer", "tab", "hours", "size"}
    BY <2>2
  <2>4. PICK no : no = FALSE
    OBVIOUS
  <2>5. all = [w EXCEPT !.pending = no, !.topic = "", !.source = "", !.reviewer = 0]
    BY <1>1, <2>1, <2>4
  <2>6. DOMAIN all = DOMAIN w /\ all.pending = no /\ all.topic = "" /\ all.source = "" /\ all.reviewer = 0
    BY <2>3, <2>5
  <2>7. QED  BY <2>3, <2>4, <2>6
<1>4. PICK L : L = ListOf(listing, all)
  OBVIOUS
<1>5. L = {p \in listing : Listed(p, all)}
  BY <1>3, <1>4 DEF ListOf
<1>6. \A p \in L : p \in StatPosts /\ p \in listing /\ "" \notin p.topics
  <2>1. IndexShape /\ ~all.pending
    BY <1>3 DEF PagesInv
  <2>2. \A p \in L : p \in StatPosts /\ p \in listing
    BY <1>4, <2>1, CountedPosts
  <2>3. QED  BY <2>1, <2>2, ListingDated DEF IsWebPost
<1>7. DOMAIN CountByTopic(L) = UNION {p.topics : p \in L}
      /\ \A t \in UNION {p.topics : p \in L} : CountByTopic(L)[t] = Cardinality({p \in L : t \in p.topics})
  BY DEF CountByTopic
<1>8. DOMAIN TopicDirectory(all) = DOMAIN CountByTopic(L) \cap DOMAIN TopicStats
      /\ \A t \in DOMAIN TopicDirectory(all) : TopicDirectory(all)[t] = CountByTopic(L)[t]
  BY <1>4 DEF TopicDirectory
<1>9. ASSUME NEW t \in DOMAIN TopicDirectory(all)
      PROVE  Cardinality(TopicInterface([all EXCEPT !.topic = t]).items) = TopicDirectory(all)[t]
  <2>1. t \in DOMAIN TopicStats /\ \E p \in L : t \in p.topics
    BY <1>7, <1>8
  <2>2. t # ""
    BY <1>6, <2>1
  <2>3. PICK o : o = [all EXCEPT !.topic = t]
    OBVIOUS
  <2>4. /\ o.pending = all.pending /\ o.topic = t /\ o.group = all.group /\ o.source = all.source
        /\ o.reviewer = all.reviewer /\ o.hours = all.hours /\ o.tab = all.tab
    BY <1>3, <2>3
  <2>5. \A p \in listing : Listed(p, o) <=> Listed(p, all) /\ t \in p.topics
    <3>1. QED  BY <1>3, <2>2, <2>4 DEF Listed, AnyOr
  <2>6. ListOf(listing, o) = {p \in L : t \in p.topics}
    <3>1. ListOf(listing, o) = {p \in listing : Listed(p, o)}
      BY <1>3, <2>4 DEF ListOf
    <3>2. QED  BY <1>5, <2>5, <3>1
  <2>7. TopicInterface(o).items = ListOf(listing, o)
    BY <2>1, <2>4 DEF TopicInterface, HasTopic, Uncut
  <2>8. QED  BY <1>7, <1>8, <2>3, <2>6, <2>7
<1>10. ASSUME NEW p \in L, NEW t \in p.topics PROVE t \in DOMAIN TopicDirectory(all)
  <2>1. HasTopic(t)
    BY <1>6, <1>10, CountedTopic
  <2>2. t \in DOMAIN CountByTopic(L)
    BY <1>7, <1>10
  <2>3. QED  BY <1>8, <2>1, <2>2 DEF HasTopic
<1>11. QED  BY <1>1, <1>4, <1>9, <1>10 DEF DirectoryLeadsToPosts

(* For any index, walk, size of pages, routes and number of posts that come, of answers and
   of decisions: who goes from the directory to a topic, and from page to page, meets every
   post that was there all along (runtime_content.go:207, 337, index.go sortPosts,
   aip2pcontent/handler.go:2175). *)
THEOREM EveryPostIsReachedHolds == PagesSpec => []EveryPostIsReached
<1>1. PagesInv => EveryPostIsReached
  BY DirectoryHolds DEF EveryPostIsReached, PagesInv
<1>2. QED  BY <1>1, PagesInvariant, PTL
=============================================================================

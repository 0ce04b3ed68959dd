----------------------------- MODULE ShareLinks -----------------------------
(***************************************************************************)
(* Share links (share in api/views_front.py): a user makes a link to some  *)
(* of his machines, another opens it and gets copies of them in his        *)
(* personal address book, once and within fifteen minutes.                 *)
(*                                                                         *)
(* Meanwhile machines are deleted or go to another owner with their book,  *)
(* accounts are deleted and the purge runs.  One action is one statement   *)
(* or transaction; a transaction that reads, then writes, while it holds   *)
(* a row's lock is two.                                                    *)
(***************************************************************************)
EXTENDS Naturals, Sequences, FiniteSets

CONSTANTS
  Users,      \* accounts
  Admins,     \* those with is_admin
  Machines,   \* RemotePeer rows of address books
  Links,      \* ShareLink primary keys
  Workers,    \* threads executing requests
  None,       \* NULL
  MaxShare,   \* MAX_SHARE_PEERS, machines of a link
  MaxActive,  \* MAX_ACTIVE_SHARE_LINKS of one creator
  MaxPeers    \* MAX_AB_PEERS of the recipient's book

ASSUME AdminsAssumption == Admins \subseteq Users
ASSUME LimitsAssumption == MaxShare \in Nat /\ MaxActive \in Nat /\ MaxPeers \in Nat
ASSUME NoneAssumption   == None \notin Users \cup Links
ASSUME LinksAssumption  == IsFiniteSet(Links)

VARIABLES
  users,    \* the accounts that exist
  owner,    \* the owner of a machine's book, None when the machine is deleted
  link,     \* ShareLink
  copies,   \* the machines in a user's personal book that links brought
  req,      \* the transaction each worker has open
  made,     \* history: the links ever created
  taken     \* history: the users who accepted each link

vars == <<users, owner, link, copies, req, made, taken>>

-----------------------------------------------------------------------------

MaybeIn(S) == S \cup {None}

\* age: 1 after expires_at, 2 also after SHARE_LINK_RETENTION_DAYS.
Link == [creator: Users, peers: SUBSET Machines, used: BOOLEAN, expired: BOOLEAN,
         by: MaybeIn(Users), age: 0 .. 2]

ASSUME NoRowAssumption == None \notin Link

\* moved: machines that changed owner since the transaction read them.
Request == [step: {"idle", "select", "create", "accept"}, user: MaybeIn(Users),
            peers: SUBSET Machines, link: MaybeIn(Links), moved: SUBSET Machines]

Idle == [step |-> "idle", user |-> None, peers |-> {}, link |-> None, moved |-> {}]

At(w, step) == req[w].step = step
Goto(w, r)  == req' = [req EXCEPT ![w] = r]

Exists(l) == link[l] # None
Open(l)   == ~link[l].used /\ ~link[l].expired /\ link[l].age = 0
Active(u) == {l \in Links : Exists(l) /\ link[l].creator = u /\ Open(l)}

\* SELECT ... FOR UPDATE of the creator's account and of the link.
UserLocked(u) == \E w \in Workers : At(w, "create") /\ req[w].user = u
LinkLocked(l) == \E w \in Workers : At(w, "accept") /\ req[w].link = l

TypeOK ==
  /\ users \subseteq Users
  /\ owner \in [Machines -> MaybeIn(users)]
  /\ link \in [Links -> MaybeIn(Link)]
  /\ copies \in [Users -> SUBSET Machines]
  /\ req \in [Workers -> Request]
  /\ made \subseteq Links /\ taken \in [Links -> Seq(Users)]
  /\ \A l \in Links : Exists(l) =>
       /\ link[l].creator \in users
       /\ \A m \in link[l].peers : owner[m] # None
       /\ link[l].used <=> link[l].by # None
       /\ link[l].used => link[l].by \in users

\* Everyone's machines may be anyone's; no links yet.
Init ==
  /\ users = Users
  /\ owner \in [Machines -> Users]
  /\ link = [l \in Links |-> None]
  /\ copies = [u \in Users |-> {}]
  /\ req = [w \in Workers |-> Idle]
  /\ made = {}
  /\ taken = [l \in Links |-> << >>]

-----------------------------------------------------------------------------
(* Making a link                                                           *)

\* The machines belong to the user or, if an administrator asks, to anyone,
\* who becomes the creator.
Select(w, u, c, S) ==
  /\ At(w, "idle")
  /\ u \in users
  /\ S # {} /\ Cardinality(S) <= MaxShare
  /\ \A m \in S : owner[m] = c
  /\ c = u \/ u \in Admins
  /\ Goto(w, [Idle EXCEPT !.step = "select", !.user = c, !.peers = S])
  /\ UNCHANGED <<users, owner, link, copies, made, taken>>

\* Mutant: the creator's account is not locked.
CountLinks_Unlocked(w) ==
  /\ At(w, "select")
  /\ req[w].user \in users
  /\ Cardinality(Active(req[w].user)) < MaxActive
  /\ Goto(w, [req[w] EXCEPT !.step = "create"])
  /\ UNCHANGED <<users, owner, link, copies, made, taken>>

\* Locks the creator and counts the links that can still be accepted.
CountLinks(w) ==
  /\ At(w, "select")
  /\ req[w].user \in users /\ ~UserLocked(req[w].user)
  /\ Cardinality(Active(req[w].user)) < MaxActive
  /\ Goto(w, [req[w] EXCEPT !.step = "create"])
  /\ UNCHANGED <<users, owner, link, copies, made, taken>>

\* validate_share_link_peer_owner, and the foreign keys of the machines.
Shareable(c, S) == \A m \in S : owner[m] = c

CreateLink(w, l) ==
  LET r == req[w] IN
  /\ At(w, "create")
  /\ l \notin made
  /\ made' = made \cup {l}
  /\ Shareable(r.user, r.peers)
  /\ link' = [link EXCEPT ![l] = [creator |-> r.user, peers |-> r.peers, used |-> FALSE,
                                  expired |-> FALSE, by |-> None, age |-> 0]]
  /\ Goto(w, Idle)
  /\ UNCHANGED <<users, owner, copies, taken>>

\* A machine has gone or changed owner, a limit, a constraint, a deadlock or
\* the end of the worker: the transaction is rolled back.
Rollback(w) ==
  /\ ~At(w, "idle")
  /\ Goto(w, Idle)
  /\ UNCHANGED <<users, owner, link, copies, made, taken>>

-----------------------------------------------------------------------------
(* Accepting a link                                                        *)

Expire(l) == link' = [link EXCEPT ![l].expired = TRUE]

\* Mutant: the machines' owner is not asked for again.
Intact_Counted(l) == Cardinality(link[l].peers) \in 1 .. MaxShare

\* What is left of the link's machines still belongs to its creator.
Intact(l) ==
  /\ Cardinality(link[l].peers) \in 1 .. MaxShare
  /\ \A m \in link[l].peers : owner[m] = link[l].creator

\* A link that is spent, or no longer what its creator shared, is marked.
Refuse(u, l) ==
  /\ u \in users /\ Exists(l) /\ ~LinkLocked(l)
  /\ ~link[l].used
  /\ ~Open(l) \/ (u # link[l].creator /\ ~Intact(l))
  /\ Expire(l)
  /\ UNCHANGED <<users, owner, copies, req, made, taken>>

\* Mutant: the link is read without FOR UPDATE.
OpenLink_Unlocked(w, u, l) ==
  /\ At(w, "idle")
  /\ u \in users /\ Exists(l)
  /\ Open(l) /\ u # link[l].creator /\ Intact(l)
  /\ Goto(w, [Idle EXCEPT !.step = "accept", !.user = u, !.link = l, !.peers = link[l].peers])
  /\ UNCHANGED <<users, owner, link, copies, made, taken>>

\* Locks the link and reads its machines.
OpenLink(w, u, l) ==
  /\ At(w, "idle")
  /\ u \in users /\ Exists(l) /\ ~LinkLocked(l)
  /\ Open(l) /\ u # link[l].creator /\ Intact(l)
  /\ Goto(w, [Idle EXCEPT !.step = "accept", !.user = u, !.link = l, !.peers = link[l].peers])
  /\ UNCHANGED <<users, owner, link, copies, made, taken>>

\* Copies what the recipient's book, which is locked, does not have yet, and
\* marks the link used.
Import(w) ==
  LET r == req[w] IN
  /\ At(w, "accept")
  /\ r.user \in users /\ Exists(r.link)
  /\ Cardinality(copies[r.user] \cup r.peers) <= MaxPeers
  /\ copies' = [copies EXCEPT ![r.user] = @ \cup r.peers]
  /\ link' = [link EXCEPT ![r.link].used = TRUE, ![r.link].by = r.user]
  /\ taken' = [taken EXCEPT ![r.link] = Append(@, r.user)]
  /\ Goto(w, Idle)
  /\ UNCHANGED <<users, owner, made>>

-----------------------------------------------------------------------------
(* What happens meanwhile                                                  *)

\* The minutes until expires_at pass, then the days of retention.
Pass(l) ==
  /\ Exists(l) /\ link[l].age < 2
  /\ link' = [link EXCEPT ![l].age = @ + 1]
  /\ UNCHANGED <<users, owner, copies, req, made, taken>>

\* purge_expired_state waits for locked links.
Purge ==
  LET late == {l \in Links : Exists(l) /\ link[l].age > 0 /\ ~link[l].expired}
      old  == {l \in Links : Exists(l) /\ link[l].age = 2}
  IN
  /\ late \cup old # {}
  /\ \A l \in late \cup old : ~LinkLocked(l)
  /\ link' = [l \in Links |-> IF l \in old THEN None
                              ELSE IF l \in late THEN [link[l] EXCEPT !.expired = TRUE]
                              ELSE link[l]]
  /\ UNCHANGED <<users, owner, copies, req, made, taken>>

\* The machine's book goes to another owner.
Transfer(m, u) ==
  /\ u \in users /\ owner[m] \notin {u, None}
  /\ owner' = [owner EXCEPT ![m] = u]
  /\ req' = [w \in Workers |-> IF At(w, "accept") THEN [req[w] EXCEPT !.moved = @ \cup {m}] ELSE req[w]]
  /\ UNCHANGED <<users, link, copies, made, taken>>

Without(l, M) == [link[l] EXCEPT !.peers = @ \ M]

\* A machine, with its place in links, is deleted.
DeleteMachine(m) ==
  /\ owner[m] # None
  /\ owner' = [owner EXCEPT ![m] = None]
  /\ link' = [l \in Links |-> IF Exists(l) THEN Without(l, {m}) ELSE None]
  /\ req' = [w \in Workers |-> IF At(w, "accept") THEN [req[w] EXCEPT !.moved = @ \cup {m}] ELSE req[w]]
  /\ UNCHANGED <<users, copies, made, taken>>

\* The links whose recipient the account is, but not their creator.
Accepted(u) == {l \in Links : Exists(l) /\ link[l].by = u /\ link[l].creator # u}

\* user_delete: machines and links of the account cascade; used_by becomes
\* NULL, which consistent_share_link_consumption refuses for a used link.
DeleteUser(u) ==
  LET gone == {m \in Machines : owner[m] = u} IN
  /\ u \in users /\ ~UserLocked(u)
  /\ \E a \in Admins \cap users : a # u
  /\ \A l \in Links : Exists(l) /\ link[l].creator = u => ~LinkLocked(l)
  /\ Accepted(u) = {}
  /\ users' = users \ {u}
  /\ owner' = [m \in Machines |-> IF m \in gone THEN None ELSE owner[m]]
  /\ copies' = [copies EXCEPT ![u] = {}]
  /\ link' = [l \in Links |-> IF Exists(l) /\ link[l].creator # u THEN Without(l, gone) ELSE None]
  /\ req' = [w \in Workers |-> IF At(w, "accept") THEN [req[w] EXCEPT !.moved = @ \cup gone] ELSE req[w]]
  /\ UNCHANGED <<made, taken>>

Next ==
  \/ \E w \in Workers :
       \/ \E u, c \in Users, S \in SUBSET Machines : Select(w, u, c, S)
       \/ CountLinks(w)
       \/ \E l \in Links : CreateLink(w, l)
       \/ \E u \in Users, l \in Links : OpenLink(w, u, l)
       \/ Import(w)
       \/ Rollback(w)
  \/ \E u \in Users, l \in Links : Refuse(u, l)
  \/ \E l \in Links : Pass(l)
  \/ Purge
  \/ \E m \in Machines : DeleteMachine(m) \/ \E u \in Users : Transfer(m, u)
  \/ \E u \in Users : DeleteUser(u)

Spec == Init /\ [][Next]_vars

-----------------------------------------------------------------------------
(* Properties                                                              *)

\* Concurrent requests, an administrator's for the same owner among them, do
\* not give a creator more open links than allowed.
ActiveBounded == \A u \in Users : Cardinality(Active(u)) <= MaxActive

\* However many people open a link at once, it is accepted once.
OnceTaken == \A l \in Links : Len(taken[l]) <= 1

\* A recipient gets no machine that was no longer the creator's when he
\* opened the link.
OnlyCreators ==
  [][\A w \in Workers : At(w, "accept") /\ taken' # taken /\ req'[w] # req[w]
       => \A m \in req[w].peers \ req[w].moved : owner[m] = link[req[w].link].creator]_vars

\* A link that was marked, or is gone, is no longer on offer; one whose time
\* is over is until a request notices, or if one has it locked.
OfferStage(l) ==
  IF l \notin made THEN "unmade"
  ELSE IF Exists(l) /\ ~link[l].used /\ ~link[l].expired THEN "open" ELSE "closed"

Offer == INSTANCE OneTimeOffer WITH
  Offers <- Links, Takers <- Users, Decided <- FALSE,
  stage <- [l \in Links |-> OfferStage(l)], winner <- [l \in Links |-> None]

\* A link is accepted once, by one user, before it was marked expired or
\* refused and before it is purged or lost with its creator's account; it is
\* never on offer again, whoever has it open meanwhile.
ImplementsOffer == Offer!Spec

\* ShareLink.used_by says on_delete=SET_NULL: that an account once accepted a
\* link does not keep an administrator from deleting it.
AccountsDeletable == \A u \in users : (\E a \in Admins \cap users : a # u) => Accepted(u) = {}

=============================================================================

-------------------------- MODULE ShareLinksProofs --------------------------
(***************************************************************************)
(* Theorems about ShareLinks, for every set of accounts, machines and      *)
(* workers, every finite set of links and all limits.                      *)
(*                                                                         *)
(* A transaction that has locked a creator's account may add one link to   *)
(* those it counted; one that has locked a link may accept it.  LocksOK    *)
(* says that nobody else has the same lock, and RequestOK that what was    *)
(* read under it is still so.  With them a link is an offer in the sense   *)
(* of OneTimeOffer.                                                        *)
(***************************************************************************)
EXTENDS ShareLinks, FiniteSetTheorems, TLAPS

USE DEF MaybeIn

\* One worker at a time makes a creator's link, or accepts a link.
LocksOK ==
  \A v, w \in Workers :
    /\ At(v, "create") /\ At(w, "create") /\ req[v].user = req[w].user => v = w
    /\ At(v, "accept") /\ At(w, "accept") /\ req[v].link = req[w].link => v = w

\* What a worker with a lock relies on.
RequestOK(w) ==
  LET r == req[w] IN
  /\ At(w, "create") => r.user \in users /\ Cardinality(Active(r.user)) < MaxActive
  /\ At(w, "accept") =>
       /\ r.link \in Links /\ Exists(r.link)
       /\ ~link[r.link].used /\ ~link[r.link].expired
       /\ \A m \in r.peers \ r.moved : owner[m] = link[r.link].creator

\* A link that can be accepted was not accepted before.
TakenOK == \A l \in Links :
  /\ Len(taken[l]) <= 1
  /\ Exists(l) => l \in made /\ (~link[l].used => taken[l] = << >>)
  /\ l \notin made => taken[l] = << >>

Inv == TypeOK /\ LocksOK /\ TakenOK /\ ActiveBounded /\ \A w \in Workers : RequestOK(w)

\* A creator's open links are finitely many, and what is left of them not more.
LEMMA ActiveCard ==
  ASSUME NEW S, NEW T, S \subseteq Links, T \subseteq S
  PROVE  Cardinality(T) <= Cardinality(S) /\ Cardinality(S) \in Nat
<1>1. IsFiniteSet(S)
  BY LinksAssumption, FS_Subset
<1> QED
  BY <1>1, FS_Subset, FS_CardinalityType

LEMMA InitInv == Init => Inv
<1> SUFFICES ASSUME Init PROVE Inv
  OBVIOUS
<1> USE NoRowAssumption DEF Init
<1>1. TypeOK
  BY DEF TypeOK, Idle, Request, Exists
<1>2. LocksOK /\ TakenOK /\ \A w \in Workers : RequestOK(w)
  BY DEF LocksOK, TakenOK, RequestOK, At, Idle, Exists
<1>3. ASSUME NEW u \in Users PROVE Cardinality(Active(u)) <= MaxActive
  <2>1. Active(u) = {}
    BY DEF Active, Exists
  <2> QED
    BY <2>1, FS_EmptySet, LimitsAssumption
<1> QED
  BY <1>1, <1>2, <1>3 DEF Inv, ActiveBounded

\* One worker's transaction begins, reads or is rolled back.
LEMMA RequestStep ==
  ASSUME Inv, NEW w \in Workers, NEW r \in Request, Goto(w, r),
         UNCHANGED <<users, owner, link, copies, made, taken>>,
         RequestOK(w)',
         r.step = "create" => ~UserLocked(r.user),
         r.step = "accept" => ~LinkLocked(r.link)
  PROVE  Inv'
<1>1. req' \in [Workers -> Request] /\ req'[w] = r /\ \A v \in Workers \ {w} : req'[v] = req[v]
  BY DEF Goto, Inv, TypeOK
<1>2. TypeOK'
  BY <1>1 DEF Inv, TypeOK, Exists
<1>3. TakenOK' /\ ActiveBounded'
  BY DEF Inv, TakenOK, ActiveBounded, Active, Exists, Open
<1>4. LocksOK'
  BY <1>1 DEF Inv, LocksOK, At, UserLocked, LinkLocked
<1>5. ASSUME NEW v \in Workers PROVE RequestOK(v)'
  <2>1. CASE v = w
    BY <2>1
  <2>2. CASE v # w
    BY <1>1, <2>2 DEF Inv, RequestOK, At, Active, Exists, Open
  <2> QED
    BY <2>1, <2>2
<1> QED
  BY <1>2, <1>3, <1>4, <1>5 DEF Inv

\* What the other requests and the environment do to the links: they only
\* make them less acceptable.
LinksFade ==
  /\ UNCHANGED <<made, taken>>
  /\ \A l \in Links : Exists(l)' =>
       /\ Exists(l)
       /\ link'[l].creator = link[l].creator
       /\ link'[l].used = link[l].used
       /\ Open(l)' => Open(l)
       /\ link[l].expired => link'[l].expired

\* Links go or age, machines leave their creator; the links locked stay, as
\* do the users.
LEMMA LinkStep ==
  ASSUME Inv, TypeOK', LinksFade,
         \A w \in Workers : /\ req'[w].step = req[w].step
                            /\ req'[w].user = req[w].user
                            /\ req'[w].link = req[w].link
                            /\ req'[w].peers = req[w].peers,
         \A w \in Workers : At(w, "create") => req[w].user \in users',
         \A w \in Workers : At(w, "accept") =>
           /\ Exists(req[w].link)' /\ ~link'[req[w].link].expired
           /\ \A m \in req[w].peers \ req'[w].moved : m \notin req[w].moved /\ owner'[m] = owner[m]
  PROVE  Inv' /\ LinksFade
<1> USE DEF LinksFade
<1>1. \A u \in Users : Active(u)' \subseteq Active(u)
  BY DEF Active
<1>2. \A u \in Users : /\ Cardinality(Active(u)') <= Cardinality(Active(u))
                       /\ Cardinality(Active(u)) \in Nat /\ Cardinality(Active(u)') \in Nat
  BY <1>1, ActiveCard DEF Active
<1>3. ActiveBounded'
  BY <1>2, LimitsAssumption DEF Inv, ActiveBounded
<1>4. TakenOK' /\ LocksOK'
  BY DEF Inv, TakenOK, LocksOK, At
<1>5. ASSUME NEW w \in Workers PROVE RequestOK(w)'
  <2>1. RequestOK(w) /\ users \subseteq Users
    BY DEF Inv, TypeOK
  <2>2. CASE At(w, "create")
    <3>1. req[w].user \in Users /\ Cardinality(Active(req[w].user)) < MaxActive
      BY <2>1, <2>2 DEF RequestOK
    <3>2. Cardinality(Active(req[w].user)') < MaxActive
      BY <1>2, <3>1, LimitsAssumption
    <3>3. Cardinality(Active(req[w].user))' < MaxActive
      BY <3>2 DEF Active, Exists, Open
    <3> QED
      BY <2>2, <3>3 DEF RequestOK, At
  <2>3. CASE At(w, "accept")
    BY <2>1, <2>3 DEF RequestOK, At
  <2>4. CASE ~At(w, "create") /\ ~At(w, "accept")
    BY <2>4 DEF RequestOK, At
  <2> QED
    BY <2>2, <2>3, <2>4
<1> QED
  BY <1>3, <1>4, <1>5 DEF Inv

LEMMA TransactionKeeps ==
  ASSUME Inv, NEW w \in Workers
  PROVE  /\ \A u, c \in Users, S \in SUBSET Machines : Select(w, u, c, S) => Inv'
         /\ CountLinks(w) => Inv'
         /\ \A u \in Users, l \in Links : OpenLink(w, u, l) => Inv'
         /\ Rollback(w) => Inv'
<1> USE NoneAssumption
<1>1. ASSUME NEW u \in Users, NEW c \in Users, NEW S \in SUBSET Machines, Select(w, u, c, S)
      PROVE  Inv'
  <2> DEFINE r == [Idle EXCEPT !.step = "select", !.user = c, !.peers = S]
  <2>1. r \in Request /\ r.step = "select"
    BY DEF Idle, Request
  <2>2. Goto(w, r) /\ req'[w] = r
    BY <1>1, <2>1 DEF Select, Goto, Inv, TypeOK
  <2>3. RequestOK(w)'
    BY <2>1, <2>2 DEF RequestOK, At
  <2> HIDE DEF r
  <2> QED
    BY <1>1, <2>1, <2>2, <2>3, RequestStep DEF Select
<1>2. ASSUME CountLinks(w) PROVE Inv'
  <2> DEFINE r == [req[w] EXCEPT !.step = "create"]
  <2>1. r \in Request /\ r.step = "create" /\ r.user = req[w].user
    BY DEF Request, Inv, TypeOK
  <2>2. Goto(w, r) /\ req'[w] = r
    BY <1>2, <2>1 DEF CountLinks, Goto, Inv, TypeOK
  <2> HIDE DEF r
  <2>3. RequestOK(w)'
    BY <1>2, <2>1, <2>2 DEF CountLinks, RequestOK, At, Active, Exists, Open
  <2> QED
    BY <1>2, <2>1, <2>2, <2>3, RequestStep DEF CountLinks
<1>3. ASSUME NEW u \in Users, NEW l \in Links, OpenLink(w, u, l) PROVE Inv'
  <2> DEFINE r == [Idle EXCEPT !.step = "accept", !.user = u, !.link = l, !.peers = link[l].peers]
  <2>0. link[l] \in Link /\ link[l].peers \in SUBSET Machines
    BY <1>3 DEF OpenLink, Exists, Inv, TypeOK, Link
  <2>1. /\ r \in Request /\ r.step = "accept" /\ r.link = l
        /\ r.peers = link[l].peers /\ r.moved = {}
    BY <2>0 DEF Idle, Request
  <2>2. Goto(w, r) /\ req'[w] = r
    BY <1>3, <2>1 DEF OpenLink, Goto, Inv, TypeOK
  <2> HIDE DEF r
  <2>3. RequestOK(w)'
    BY <1>3, <2>1, <2>2 DEF OpenLink, RequestOK, At, Exists, Open, Intact
  <2> QED
    BY <1>3, <2>1, <2>2, <2>3, RequestStep DEF OpenLink
<1>4. ASSUME Rollback(w) PROVE Inv'
  <2>1. Idle \in Request /\ Idle.step = "idle"
    BY DEF Idle, Request
  <2>2. Goto(w, Idle) /\ req'[w] = Idle
    BY <1>4, <2>1 DEF Rollback, Goto, Inv, TypeOK
  <2>3. RequestOK(w)'
    BY <2>1, <2>2 DEF RequestOK, At
  <2> QED
    BY <1>4, <2>1, <2>2, <2>3, RequestStep DEF Rollback
<1> QED
  BY <1>1, <1>2, <1>3, <1>4

\* The link made is one more than the creator had when they were counted.
LEMMA CreateKeeps ==
  ASSUME Inv, NEW w \in Workers, NEW l \in Links, CreateLink(w, l)
  PROVE  Inv'
<1> USE NoneAssumption, NoRowAssumption
<1>0. PICK c, S : c = req[w].user /\ S = req[w].peers
  OBVIOUS
<1> DEFINE n == [creator |-> c, peers |-> S, used |-> FALSE, expired |-> FALSE, by |-> None, age |-> 0]
<1>1. /\ S \in SUBSET Machines /\ c \in users /\ c \in Users
      /\ Cardinality(Active(c)) < MaxActive
  <2>1. req[w] \in Request /\ At(w, "create") /\ RequestOK(w) /\ users \subseteq Users
    BY DEF CreateLink, Inv, TypeOK
  <2> QED
    BY <1>0, <2>1 DEF RequestOK, Request
<1>2. n \in Link /\ n # None
  <2>1. n \in Link
    BY <1>1 DEF Link
  <2> QED
    BY <2>1
<1>3. /\ n.creator = c /\ n.peers = S /\ ~n.used /\ n.by = None
  OBVIOUS
<1> HIDE DEF n
<1>4. /\ link' \in [Links -> MaybeIn(Link)] /\ link'[l] = n
      /\ \A k \in Links \ {l} : link'[k] = link[k]
      /\ link[l] = None /\ taken[l] = << >> /\ made' = made \cup {l}
  BY <1>0, <1>2 DEF CreateLink, Inv, TypeOK, TakenOK, Exists, n
<1>5. /\ Idle \in Request /\ Idle.step = "idle"
      /\ req' \in [Workers -> Request] /\ req'[w] = Idle
      /\ \A v \in Workers \ {w} : req'[v] = req[v]
  BY DEF CreateLink, Goto, Idle, Request, Inv, TypeOK
<1>6. TypeOK'
  <2>1. \A m \in n.peers : owner[m] # None
    BY <1>0, <1>1, <1>3 DEF CreateLink, Shareable
  <2>2. ASSUME NEW k \in Links, Exists(k)'
        PROVE  /\ link'[k].creator \in users
               /\ \A m \in link'[k].peers : owner[m] # None
               /\ link'[k].used <=> link'[k].by # None
               /\ link'[k].used => link'[k].by \in users
    <3>1. CASE k = l
      BY <1>1, <1>3, <1>4, <2>1, <3>1
    <3>2. CASE k # l
      BY <1>4, <2>2, <3>2 DEF Inv, TypeOK, Exists
    <3> QED
      BY <3>1, <3>2
  <2> QED
    BY <1>4, <1>5, <2>2 DEF CreateLink, Inv, TypeOK
<1>7. TakenOK'
  BY <1>3, <1>4 DEF CreateLink, Inv, TakenOK, Exists
<1>8. LocksOK'
  BY <1>5 DEF Inv, LocksOK, At
<1>9. \A u \in Users \ {c} : Active(u)' = Active(u)
  BY <1>3, <1>4 DEF Active, Exists, Open
<1>10. Active(c)' \subseteq Active(c) \cup {l} /\ l \notin Active(c)
  BY <1>4 DEF Active, Exists, Open
<1>11. Cardinality(Active(c)') <= MaxActive
  <2>1. Active(c) \subseteq Links /\ Active(c) \cup {l} \subseteq Links /\ IsFiniteSet(Active(c))
    BY LinksAssumption, FS_Subset DEF Active
  <2>2. Cardinality(Active(c) \cup {l}) = Cardinality(Active(c)) + 1
    BY <1>10, <2>1, FS_AddElement
  <2>3. /\ Cardinality(Active(c)') <= Cardinality(Active(c) \cup {l})
        /\ Cardinality(Active(c)) \in Nat
        /\ Cardinality(Active(c) \cup {l}) \in Nat
    BY <1>10, <2>1, ActiveCard
  <2>4. IsFiniteSet(Active(c) \cup {l})
    BY <2>1, LinksAssumption, FS_Subset
  <2>5. Cardinality(Active(c)') \in Nat
    BY <1>10, <2>4, FS_Subset, FS_CardinalityType
  <2> QED
    BY <1>1, <2>2, <2>3, <2>5, LimitsAssumption
<1>12. ActiveBounded'
  BY <1>9, <1>11 DEF Inv, ActiveBounded
<1>13. ASSUME NEW v \in Workers PROVE RequestOK(v)'
  <2>1. CASE v = w
    BY <1>5, <2>1 DEF RequestOK, At
  <2>2. CASE v # w
    <3>1. RequestOK(v) /\ req'[v] = req[v] /\ users' = users /\ users \subseteq Users /\ owner' = owner
      BY <1>5, <2>2 DEF CreateLink, Inv, TypeOK
    <3>2. CASE At(v, "create")
      <4>1. req[v].user # c /\ req[v].user \in Users
        BY <1>0, <2>2, <3>1, <3>2 DEF CreateLink, Inv, LocksOK, RequestOK
      <4>2. PICK u : u = req[v].user
        OBVIOUS
      <4>3. Active(u)' = Active(u) /\ u = req'[v].user
        BY <1>9, <3>1, <4>1, <4>2
      <4>4. Active(req[v].user)' = Active(u)
        BY <4>3 DEF Active
      <4> QED
        BY <3>1, <3>2, <4>2, <4>4 DEF RequestOK, At
    <3>3. CASE At(v, "accept")
      BY <1>4, <3>1, <3>3 DEF RequestOK, At, Exists
    <3>4. CASE ~At(v, "create") /\ ~At(v, "accept")
      BY <3>1, <3>4 DEF RequestOK, At
    <3> QED
      BY <3>2, <3>3, <3>4
  <2> QED
    BY <2>1, <2>2
<1> QED
  BY <1>6, <1>7, <1>8, <1>12, <1>13 DEF Inv

\* A link is accepted by the only worker that has it locked.
LEMMA ImportKeeps ==
  ASSUME Inv, NEW w \in Workers, Import(w)
  PROVE  Inv'
<1> USE NoneAssumption, NoRowAssumption
<1>0. PICK l, u, S : l = req[w].link /\ u = req[w].user /\ S = req[w].peers
  OBVIOUS
<1>1. /\ l \in Links /\ Exists(l) /\ ~link[l].used /\ link[l] \in Link
      /\ u \in users /\ u \in Users /\ S \in SUBSET Machines
  <2>1. req[w] \in Request /\ At(w, "accept") /\ RequestOK(w) /\ users \subseteq Users
        /\ req[w].user \in users
    BY DEF Import, Inv, TypeOK
  <2>2. l \in Links /\ Exists(l) /\ ~link[l].used
    BY <1>0, <2>1 DEF RequestOK
  <2> QED
    BY <1>0, <2>1, <2>2 DEF Request, Exists, Inv, TypeOK
<1>2. /\ link' = [link EXCEPT ![l] = [link[l] EXCEPT !.used = TRUE, !.by = u]]
      /\ copies' = [copies EXCEPT ![u] = copies[u] \cup S]
      /\ taken' = [taken EXCEPT ![l] = Append(taken[l], u)]
  BY <1>0, <1>1 DEF Import, Inv, TypeOK
<1> DEFINE n == [link[l] EXCEPT !.used = TRUE, !.by = u]
<1>3. /\ n \in Link /\ n.used /\ n.by = u
      /\ n.creator = link[l].creator /\ n.peers = link[l].peers
  BY <1>1 DEF Link
<1>4. n # None
  BY <1>3
<1> HIDE DEF n
<1>5. /\ link' \in [Links -> MaybeIn(Link)] /\ link'[l] = n
      /\ \A k \in Links \ {l} : link'[k] = link[k]
  BY <1>1, <1>2, <1>3 DEF Inv, TypeOK, n
<1>6. /\ Idle \in Request /\ Idle.step = "idle"
      /\ req' \in [Workers -> Request] /\ req'[w] = Idle
      /\ \A v \in Workers \ {w} : req'[v] = req[v]
  BY DEF Import, Goto, Idle, Request, Inv, TypeOK
<1>7. TypeOK'
  <2>1. ASSUME NEW k \in Links, Exists(k)'
        PROVE  /\ link'[k].creator \in users
               /\ \A m \in link'[k].peers : owner[m] # None
               /\ link'[k].used <=> link'[k].by # None
               /\ link'[k].used => link'[k].by \in users
    <3>1. CASE k = l
      BY <1>1, <1>3, <1>5, <3>1 DEF Inv, TypeOK
    <3>2. CASE k # l
      BY <1>5, <2>1, <3>2 DEF Inv, TypeOK, Exists
    <3> QED
      BY <3>1, <3>2
  <2>2. copies' \in [Users -> SUBSET Machines] /\ taken' \in [Links -> Seq(Users)]
    BY <1>1, <1>2 DEF Inv, TypeOK
  <2>3. users' = users /\ owner' = owner /\ made' = made
    BY DEF Import
  <2> QED
    BY <1>5, <1>6, <2>1, <2>2, <2>3 DEF Inv, TypeOK
<1>8. TakenOK'
  <2>1. taken'[l] = Append(taken[l], u) /\ \A k \in Links \ {l} : taken'[k] = taken[k]
    BY <1>1, <1>2 DEF Inv, TypeOK
  <2>2. taken[l] = << >> /\ l \in made
    BY <1>1 DEF Inv, TakenOK
  <2>3. Len(taken'[l]) = 1
    BY <1>1, <2>1, <2>2
  <2>4. made' = made
    BY DEF Import
  <2>5. link'[l].used
    BY <1>3, <1>5
  <2>6. ASSUME NEW k \in Links
        PROVE  /\ Len(taken'[k]) <= 1
               /\ Exists(k)' => k \in made' /\ (~link'[k].used => taken'[k] = << >>)
               /\ k \notin made' => taken'[k] = << >>
    <3>1. CASE k = l
      <4>1. Len(taken'[k]) = 1 /\ k \in made' /\ link'[k].used
        BY <2>2, <2>3, <2>4, <2>5, <3>1
      <4> QED
        BY <4>1
    <3>2. CASE k # l
      <4>1. link'[k] = link[k] /\ taken'[k] = taken[k]
        BY <1>5, <2>1, <3>2
      <4> QED
        BY <2>4, <4>1 DEF Inv, TakenOK, Exists
    <3> QED
      BY <3>1, <3>2
  <2> QED
    BY <2>6 DEF TakenOK
<1>9. LocksOK'
  BY <1>6 DEF Inv, LocksOK, At
<1>10. ASSUME NEW c PROVE Active(c)' \subseteq Active(c)
  BY <1>3, <1>5 DEF Active, Exists, Open
<1>11. ASSUME NEW c
       PROVE  /\ Cardinality(Active(c)') <= Cardinality(Active(c))
              /\ Cardinality(Active(c)) \in Nat /\ Cardinality(Active(c)') \in Nat
  <2>1. Active(c) \subseteq Links /\ Active(c)' \subseteq Links
    BY DEF Active
  <2> QED
    BY <1>10, <2>1, ActiveCard
<1>12. ActiveBounded'
  BY <1>11, LimitsAssumption DEF Inv, ActiveBounded
<1>13. ASSUME NEW v \in Workers PROVE RequestOK(v)'
  <2>1. CASE v = w
    BY <1>6, <2>1 DEF RequestOK, At
  <2>2. CASE v # w
    <3>1. RequestOK(v) /\ req'[v] = req[v] /\ users' = users /\ owner' = owner
      BY <1>6, <2>2 DEF Import, Inv, TypeOK
    <3>2. CASE At(v, "create")
      <4>1. PICK c : c = req[v].user
        OBVIOUS
      <4>2. c \in users /\ Cardinality(Active(c)) < MaxActive
        BY <3>1, <3>2, <4>1 DEF RequestOK
      <4>3. Cardinality(Active(c)') < MaxActive
        BY <1>11, <4>2, LimitsAssumption
      <4>4. Cardinality(Active(req[v].user))' < MaxActive /\ req'[v].user \in users'
        BY <3>1, <4>1, <4>2, <4>3 DEF Active
      <4> QED
        BY <3>1, <3>2, <4>4 DEF RequestOK, At
    <3>3. CASE At(v, "accept")
      <4>1. req[v].link # l
        BY <1>0, <2>2, <3>3 DEF Import, Inv, LocksOK
      <4> QED
        BY <1>5, <3>1, <3>3, <4>1 DEF RequestOK, At, Exists
    <3>4. CASE ~At(v, "create") /\ ~At(v, "accept")
      BY <3>1, <3>4 DEF RequestOK, At
    <3> QED
      BY <3>2, <3>3, <3>4
  <2> QED
    BY <2>1, <2>2
<1> QED
  BY <1>7, <1>8, <1>9, <1>12, <1>13 DEF Inv

\* A link that is refused or grows older is only less acceptable.
LEMMA AgeingKeeps ==
  ASSUME Inv, NEW l \in Links, NEW r \in Link, Exists(l), link' = [link EXCEPT ![l] = r],
         UNCHANGED <<users, owner, copies, req, made, taken>>,
         r.creator = link[l].creator, r.peers = link[l].peers,
         r.used = link[l].used, r.by = link[l].by,
         ~r.used /\ ~r.expired /\ r.age = 0 => Open(l),
         link[l].expired => r.expired, LinkLocked(l) => r.expired = link[l].expired
  PROVE  Inv' /\ LinksFade
<1> USE NoneAssumption, NoRowAssumption
<1>1. /\ link' \in [Links -> MaybeIn(Link)] /\ link'[l] = r
      /\ \A k \in Links \ {l} : link'[k] = link[k]
  BY DEF Inv, TypeOK
<1>2. ASSUME NEW k \in Links
      PROVE  /\ Exists(k)' <=> Exists(k)
             /\ Exists(k) => /\ link'[k].creator = link[k].creator
                             /\ link'[k].peers = link[k].peers
                             /\ link'[k].used = link[k].used
                             /\ link'[k].by = link[k].by
                             /\ Open(k)' => Open(k)
                             /\ link[k].expired => link'[k].expired
                             /\ LinkLocked(k) => link'[k].expired = link[k].expired
  <2>1. CASE k = l
    BY <1>1, <2>1 DEF Exists, Open
  <2>2. CASE k # l
    BY <1>1, <2>2 DEF Exists, Open
  <2> QED
    BY <2>1, <2>2
<1>3. TypeOK'
  BY <1>1, <1>2 DEF Inv, TypeOK
<1>4. \A w \in Workers : At(w, "accept") => Exists(req[w].link)' /\ ~link'[req[w].link].expired
  BY <1>2 DEF Inv, RequestOK, LinkLocked
<1>5. \A w \in Workers : At(w, "accept") => req'[w].moved = req[w].moved /\ owner' = owner
  OBVIOUS
<1>6. \A w \in Workers : At(w, "create") => req[w].user \in users'
  BY DEF Inv, RequestOK
<1> QED
  BY <1>2, <1>3, <1>4, <1>5, <1>6, LinkStep DEF LinksFade

LEMMA RefuseKeeps ==
  ASSUME Inv, NEW u \in Users, NEW l \in Links, Refuse(u, l)
  PROVE  Inv' /\ LinksFade
<1> DEFINE r == [link[l] EXCEPT !.expired = TRUE]
<1>1. link[l] \in Link /\ Exists(l)
  BY DEF Refuse, Inv, TypeOK, Exists
<1>2. /\ r \in Link /\ r.expired /\ r.creator = link[l].creator /\ r.peers = link[l].peers
      /\ r.used = link[l].used /\ r.by = link[l].by
  BY <1>1 DEF Link
<1>3. link' = [link EXCEPT ![l] = r] /\ ~LinkLocked(l)
  BY DEF Refuse, Expire
<1> HIDE DEF r
<1> QED
  BY <1>1, <1>2, <1>3, AgeingKeeps DEF Refuse

LEMMA PassKeeps ==
  ASSUME Inv, NEW l \in Links, Pass(l)
  PROVE  Inv' /\ LinksFade
<1> DEFINE r == [link[l] EXCEPT !.age = link[l].age + 1]
<1>1. link[l] \in Link /\ Exists(l) /\ link[l].age < 2 /\ link[l].age \in 0 .. 2
  BY DEF Pass, Inv, TypeOK, Exists, Link
<1>2. r.age = link[l].age + 1 /\ link[l].age + 1 \in 0 .. 2 /\ link[l].age + 1 # 0
  BY <1>1 DEF Link
<1>3. /\ r \in Link /\ r.age # 0 /\ r.creator = link[l].creator /\ r.peers = link[l].peers
      /\ r.used = link[l].used /\ r.by = link[l].by /\ r.expired = link[l].expired
  BY <1>1, <1>2 DEF Link
<1>4. link' = [link EXCEPT ![l] = r]
  BY DEF Pass
<1> HIDE DEF r
<1> QED
  BY <1>1, <1>3, <1>4, AgeingKeeps DEF Pass

\* The purge waits for the links that are locked.
LEMMA PurgeKeeps ==
  ASSUME Inv, Purge
  PROVE  Inv' /\ LinksFade
<1> USE NoneAssumption, NoRowAssumption
<1>1. ASSUME NEW l \in Links
      PROVE  /\ link'[l] \in MaybeIn(Link)
             /\ Exists(l)' => /\ Exists(l)
                              /\ link'[l].creator = link[l].creator
                              /\ link'[l].peers = link[l].peers
                              /\ link'[l].used = link[l].used
                              /\ link'[l].by = link[l].by
                              /\ Open(l)' => Open(l)
                              /\ link[l].expired => link'[l].expired
             /\ LinkLocked(l) => link'[l] = link[l]
  <2> DEFINE r == [link[l] EXCEPT !.expired = TRUE]
  <2>1. CASE link'[l] = link[l]
    BY <2>1 DEF Exists, Open, Inv, TypeOK
  <2>2. CASE link'[l] = None /\ ~LinkLocked(l)
    BY <2>2 DEF Exists
  <2>3. CASE link'[l] = r /\ Exists(l) /\ ~LinkLocked(l)
    <3>1. link[l] \in Link
      BY <2>3 DEF Exists, Inv, TypeOK
    <3>2. /\ r \in Link /\ r.expired /\ r.creator = link[l].creator /\ r.peers = link[l].peers
          /\ r.used = link[l].used /\ r.by = link[l].by
      BY <3>1 DEF Link
    <3> HIDE DEF r
    <3> QED
      BY <2>3, <3>2 DEF Open, Exists
  <2> QED
    BY <2>1, <2>2, <2>3 DEF Purge
<1>2. link' \in [Links -> MaybeIn(Link)]
  BY <1>1 DEF Purge
<1>3. UNCHANGED <<users, owner, copies, req, made, taken>>
  BY DEF Purge
<1>4. TypeOK'
  <2>1. ASSUME NEW l \in Links, Exists(l)'
        PROVE  /\ link'[l].creator \in users
               /\ \A m \in link'[l].peers : owner[m] # None
               /\ link'[l].used <=> link'[l].by # None
               /\ link'[l].used => link'[l].by \in users
    BY <1>1, <2>1 DEF Inv, TypeOK
  <2> QED
    BY <1>2, <1>3, <2>1 DEF Inv, TypeOK
<1>5. ASSUME NEW w \in Workers, At(w, "accept")
      PROVE  Exists(req[w].link)' /\ ~link'[req[w].link].expired
  <2>1. PICK l \in Links : l = req[w].link /\ Exists(l) /\ ~link[l].expired
    BY <1>5 DEF Inv, RequestOK
  <2>2. link'[l] = link[l]
    BY <1>1, <1>5, <2>1 DEF LinkLocked
  <2> QED
    BY <1>3, <2>1, <2>2 DEF Exists
<1>6. \A w \in Workers : At(w, "create") => req[w].user \in users'
  BY <1>3 DEF Inv, RequestOK
<1> QED
  BY <1>1, <1>3, <1>4, <1>5, <1>6, LinkStep DEF LinksFade

\* What the requests that have a link locked remember when machines leave.
LEMMA MovedStep ==
  ASSUME Inv, NEW M \in SUBSET Machines,
         req' = [w \in Workers |-> IF At(w, "accept")
                                   THEN [req[w] EXCEPT !.moved = req[w].moved \cup M] ELSE req[w]]
  PROVE  /\ req' \in [Workers -> Request]
         /\ \A w \in Workers : /\ req'[w].step = req[w].step
                               /\ req'[w].user = req[w].user
                               /\ req'[w].link = req[w].link
                               /\ req'[w].peers = req[w].peers
                               /\ At(w, "accept") => req'[w].moved = req[w].moved \cup M
<1> SUFFICES ASSUME NEW w \in Workers
             PROVE  /\ req'[w] \in Request
                    /\ req'[w].step = req[w].step
                    /\ req'[w].user = req[w].user
                    /\ req'[w].link = req[w].link
                    /\ req'[w].peers = req[w].peers
                    /\ At(w, "accept") => req'[w].moved = req[w].moved \cup M
  OBVIOUS
<1>1. req[w] \in Request
  BY DEF Inv, TypeOK
<1>2. CASE At(w, "accept")
  BY <1>1, <1>2 DEF Request
<1>3. CASE ~At(w, "accept")
  BY <1>1, <1>3
<1> QED
  BY <1>2, <1>3

LEMMA TransferKeeps ==
  ASSUME Inv, NEW m \in Machines, NEW u \in Users, Transfer(m, u)
  PROVE  Inv' /\ LinksFade
<1> USE NoneAssumption, NoRowAssumption
<1>1. req' = [w \in Workers |-> IF At(w, "accept")
                                THEN [req[w] EXCEPT !.moved = req[w].moved \cup {m}] ELSE req[w]]
  BY DEF Transfer
<1>2. UNCHANGED <<users, link, copies, made, taken>>
  BY DEF Transfer
<1>3. /\ owner' \in [Machines -> MaybeIn(users)] /\ owner'[m] # None
      /\ \A x \in Machines \ {m} : owner'[x] = owner[x]
  BY DEF Transfer, Inv, TypeOK
<1>4. /\ req' \in [Workers -> Request]
      /\ \A w \in Workers : /\ req'[w].step = req[w].step
                            /\ req'[w].user = req[w].user
                            /\ req'[w].link = req[w].link
                            /\ req'[w].peers = req[w].peers
                            /\ At(w, "accept") => req'[w].moved = req[w].moved \cup {m}
  <2>1. {m} \in SUBSET Machines
    OBVIOUS
  <2> QED
    BY <1>1, <2>1, MovedStep
<1>5. TypeOK'
  <2>1. ASSUME NEW l \in Links, Exists(l), NEW x \in link[l].peers PROVE owner'[x] # None
    <3>1. owner[x] # None /\ x \in Machines
      BY <2>1 DEF Inv, TypeOK, Link, Exists
    <3> QED
      BY <1>3, <3>1
  <2> QED
    BY <1>2, <1>3, <1>4, <2>1 DEF Inv, TypeOK, Exists
<1>6. ASSUME NEW w \in Workers, At(w, "accept")
      PROVE  /\ Exists(req[w].link)' /\ ~link'[req[w].link].expired
             /\ \A x \in req[w].peers \ req'[w].moved : x \notin req[w].moved /\ owner'[x] = owner[x]
  <2>1. Exists(req[w].link)' /\ ~link'[req[w].link].expired
    BY <1>2, <1>4, <1>6 DEF Inv, RequestOK, Exists
  <2>2. req[w].peers \subseteq Machines
    BY DEF Inv, TypeOK, Request
  <2> QED
    BY <1>3, <1>4, <1>6, <2>1, <2>2
<1>7. \A w \in Workers : At(w, "create") => req[w].user \in users'
  BY <1>2 DEF Inv, RequestOK
<1>8. \A l \in Links : Exists(l)' => Exists(l) /\ link'[l] = link[l] /\ (Open(l)' => Open(l))
  BY <1>2 DEF Exists, Open
<1> QED
  BY <1>2, <1>4, <1>5, <1>6, <1>7, <1>8, LinkStep DEF LinksFade

\* Machines that are deleted leave their links.
LEMMA WithoutLinks ==
  ASSUME Inv, NEW M \in SUBSET Machines, NEW l \in Links, Exists(l)
  PROVE  /\ Without(l, M) \in Link /\ Without(l, M) # None
         /\ Without(l, M).creator = link[l].creator
         /\ Without(l, M).peers = link[l].peers \ M
         /\ Without(l, M).used = link[l].used
         /\ Without(l, M).by = link[l].by
         /\ Without(l, M).expired = link[l].expired
         /\ Without(l, M).age = link[l].age
<1>1. link[l] \in Link
  BY DEF Inv, TypeOK, Exists
<1> QED
  BY <1>1, NoRowAssumption DEF Without, Link

LEMMA DeleteMachineKeeps ==
  ASSUME Inv, NEW m \in Machines, DeleteMachine(m)
  PROVE  Inv' /\ LinksFade
<1> USE NoneAssumption, NoRowAssumption
<1>1. req' = [w \in Workers |-> IF At(w, "accept")
                                THEN [req[w] EXCEPT !.moved = req[w].moved \cup {m}] ELSE req[w]]
  BY DEF DeleteMachine
<1>2. UNCHANGED <<users, copies, made, taken>>
  BY DEF DeleteMachine
<1>3. /\ owner' \in [Machines -> MaybeIn(users)]
      /\ \A x \in Machines \ {m} : owner'[x] = owner[x]
  BY DEF DeleteMachine, Inv, TypeOK
<1>4. /\ req' \in [Workers -> Request]
      /\ \A w \in Workers : /\ req'[w].step = req[w].step
                            /\ req'[w].user = req[w].user
                            /\ req'[w].link = req[w].link
                            /\ req'[w].peers = req[w].peers
                            /\ At(w, "accept") => req'[w].moved = req[w].moved \cup {m}
  <2>1. {m} \in SUBSET Machines
    OBVIOUS
  <2> QED
    BY <1>1, <2>1, MovedStep
<1>5. ASSUME NEW l \in Links
      PROVE  /\ link'[l] \in MaybeIn(Link)
             /\ Exists(l)' <=> Exists(l)
             /\ Exists(l) => /\ link'[l].creator = link[l].creator
                             /\ link'[l].peers = link[l].peers \ {m}
                             /\ link'[l].used = link[l].used
                             /\ link'[l].by = link[l].by
                             /\ link'[l].expired = link[l].expired
                             /\ Open(l)' => Open(l)
  <2>1. CASE Exists(l)
    <3>1. link'[l] = Without(l, {m}) /\ {m} \in SUBSET Machines
      BY <2>1 DEF DeleteMachine
    <3>2. /\ link'[l] \in Link /\ link'[l] # None
          /\ link'[l].creator = link[l].creator
          /\ link'[l].peers = link[l].peers \ {m}
          /\ link'[l].used = link[l].used
          /\ link'[l].by = link[l].by
          /\ link'[l].expired = link[l].expired
          /\ link'[l].age = link[l].age
      BY <2>1, <3>1, WithoutLinks
    <3> QED
      BY <2>1, <3>2 DEF Exists, Open
  <2>2. CASE ~Exists(l)
    BY <2>2 DEF DeleteMachine, Exists
  <2> QED
    BY <2>1, <2>2
<1>6. TypeOK'
  <2>1. ASSUME NEW l \in Links, Exists(l)'
        PROVE  /\ link'[l].creator \in users
               /\ \A x \in link'[l].peers : owner'[x] # None
               /\ link'[l].used <=> link'[l].by # None
               /\ link'[l].used => link'[l].by \in users
    <3>1. Exists(l) /\ link[l] \in Link /\ link[l].peers \subseteq Machines
      BY <1>5, <2>1 DEF Exists, Inv, TypeOK, Link
    <3>2. \A x \in link'[l].peers : owner'[x] # None
      BY <1>3, <1>5, <3>1 DEF Inv, TypeOK
    <3> QED
      BY <1>5, <3>1, <3>2 DEF Inv, TypeOK
  <2>2. link' \in [Links -> MaybeIn(Link)]
    BY <1>5 DEF DeleteMachine
  <2> QED
    BY <1>2, <1>3, <1>4, <2>1, <2>2 DEF Inv, TypeOK
<1>7. ASSUME NEW w \in Workers, At(w, "accept")
      PROVE  /\ Exists(req[w].link)' /\ ~link'[req[w].link].expired
             /\ \A x \in req[w].peers \ req'[w].moved : x \notin req[w].moved /\ owner'[x] = owner[x]
  <2>1. PICK l \in Links : l = req[w].link /\ Exists(l) /\ ~link[l].expired
    BY <1>7 DEF Inv, RequestOK
  <2>2. Exists(req[w].link)' /\ ~link'[req[w].link].expired
    BY <1>4, <1>5, <2>1 DEF Exists
  <2>3. req[w].peers \subseteq Machines
    BY DEF Inv, TypeOK, Request
  <2> QED
    BY <1>3, <1>4, <1>7, <2>2, <2>3
<1>8. \A w \in Workers : At(w, "create") => req[w].user \in users'
  BY <1>2 DEF Inv, RequestOK
<1> QED
  BY <1>2, <1>4, <1>5, <1>6, <1>7, <1>8, LinkStep DEF LinksFade

\* An account's links go with it; it is the recipient of nobody else's.
LEMMA DeleteUserKeeps ==
  ASSUME Inv, NEW u \in Users, DeleteUser(u)
  PROVE  Inv' /\ LinksFade
<1> USE NoneAssumption, NoRowAssumption
<1>0. PICK gone \in SUBSET Machines : gone = {m \in Machines : owner[m] = u}
  OBVIOUS
<1>1. /\ users' = users \ {u} /\ u \in users
      /\ made' = made /\ taken' = taken
      /\ owner' = [m \in Machines |-> IF m \in gone THEN None ELSE owner[m]]
      /\ copies' = [copies EXCEPT ![u] = {}]
      /\ link' = [l \in Links |-> IF Exists(l) /\ link[l].creator # u THEN Without(l, gone) ELSE None]
      /\ req' = [w \in Workers |-> IF At(w, "accept")
                                   THEN [req[w] EXCEPT !.moved = req[w].moved \cup gone] ELSE req[w]]
  BY <1>0 DEF DeleteUser
<1>2. ~UserLocked(u) /\ (\A l \in Links : Exists(l) /\ link[l].creator = u => ~LinkLocked(l))
      /\ \A l \in Links : Exists(l) /\ link[l].creator # u => link[l].by # u
  BY DEF DeleteUser, Accepted
<1>3. /\ owner' \in [Machines -> MaybeIn(users')]
      /\ \A x \in Machines \ gone : owner'[x] = owner[x]
  BY <1>0, <1>1 DEF Inv, TypeOK
<1>4. /\ req' \in [Workers -> Request]
      /\ \A w \in Workers : /\ req'[w].step = req[w].step
                            /\ req'[w].user = req[w].user
                            /\ req'[w].link = req[w].link
                            /\ req'[w].peers = req[w].peers
                            /\ At(w, "accept") => req'[w].moved = req[w].moved \cup gone
  BY <1>1, MovedStep
<1>5. ASSUME NEW l \in Links
      PROVE  /\ link'[l] \in MaybeIn(Link)
             /\ Exists(l)' <=> Exists(l) /\ link[l].creator # u
             /\ Exists(l)' => /\ link'[l].creator = link[l].creator
                              /\ link'[l].peers = link[l].peers \ gone
                              /\ link'[l].used = link[l].used
                              /\ link'[l].by = link[l].by
                              /\ link'[l].expired = link[l].expired
                              /\ Open(l)' => Open(l)
  <2>1. CASE Exists(l) /\ link[l].creator # u
    <3>1. link'[l] = Without(l, gone)
      BY <1>1, <2>1
    <3> QED
      BY <2>1, <3>1, WithoutLinks DEF Exists, Open
  <2>2. CASE ~(Exists(l) /\ link[l].creator # u)
    BY <1>1, <2>2 DEF Exists
  <2> QED
    BY <2>1, <2>2
<1>6. TypeOK'
  <2>1. ASSUME NEW l \in Links, Exists(l)'
        PROVE  /\ link'[l].creator \in users'
               /\ \A x \in link'[l].peers : owner'[x] # None
               /\ link'[l].used <=> link'[l].by # None
               /\ link'[l].used => link'[l].by \in users'
    <3>1. /\ Exists(l) /\ link[l].creator # u
          /\ link[l] \in Link /\ link[l].peers \subseteq Machines
      BY <1>5, <2>1 DEF Exists, Inv, TypeOK, Link
    <3>2. \A x \in link'[l].peers : owner'[x] # None
      BY <1>3, <1>5, <2>1, <3>1 DEF Inv, TypeOK
    <3>3. /\ link[l].creator \in users /\ link[l].by # u
          /\ link[l].used <=> link[l].by # None
          /\ link[l].used => link[l].by \in users
      BY <1>2, <3>1 DEF Inv, TypeOK
    <3>4. /\ link'[l].creator = link[l].creator /\ link'[l].used = link[l].used
          /\ link'[l].by = link[l].by
      BY <1>5, <2>1
    <3>5. link'[l].creator \in users' /\ (link'[l].used => link'[l].by \in users')
      BY <1>1, <3>1, <3>3, <3>4
    <3>6. link'[l].used <=> link'[l].by # None
      BY <3>3, <3>4
    <3> QED
      BY <3>2, <3>5, <3>6
  <2>2. link' \in [Links -> MaybeIn(Link)]
    BY <1>1, <1>5
  <2>3. copies' \in [Users -> SUBSET Machines] /\ users' \subseteq Users
    BY <1>1 DEF Inv, TypeOK
  <2> QED
    BY <1>1, <1>3, <1>4, <2>1, <2>2, <2>3 DEF Inv, TypeOK
<1>7. ASSUME NEW w \in Workers, At(w, "accept")
      PROVE  /\ Exists(req[w].link)' /\ ~link'[req[w].link].expired
             /\ \A x \in req[w].peers \ req'[w].moved : x \notin req[w].moved /\ owner'[x] = owner[x]
  <2>1. PICK l \in Links : l = req[w].link /\ Exists(l) /\ ~link[l].expired
    BY <1>7 DEF Inv, RequestOK
  <2>2. link[l].creator # u
    BY <1>2, <1>7, <2>1 DEF LinkLocked
  <2>3. Exists(req[w].link)' /\ ~link'[req[w].link].expired
    BY <1>4, <1>5, <2>1, <2>2 DEF Exists
  <2>4. req[w].peers \subseteq Machines
    BY DEF Inv, TypeOK, Request
  <2> QED
    BY <1>3, <1>4, <1>7, <2>3, <2>4
<1>8. \A w \in Workers : At(w, "create") => req[w].user \in users'
  BY <1>1, <1>2 DEF Inv, RequestOK, UserLocked
<1> QED
  BY <1>1, <1>4, <1>5, <1>6, <1>7, <1>8, LinkStep DEF LinksFade

LEMMA NextInv == Inv /\ [Next]_vars => Inv'
<1> SUFFICES ASSUME Inv, [Next]_vars PROVE Inv'
  OBVIOUS
<1>1. ASSUME NEW w \in Workers
      PROVE  /\ \A u, c \in Users, S \in SUBSET Machines : Select(w, u, c, S) => Inv'
             /\ CountLinks(w) => Inv'
             /\ \A l \in Links : CreateLink(w, l) => Inv'
             /\ \A u \in Users, l \in Links : OpenLink(w, u, l) => Inv'
             /\ Import(w) => Inv'
             /\ Rollback(w) => Inv'
  BY TransactionKeeps, CreateKeeps, ImportKeeps
<1>2. /\ \A u \in Users, l \in Links : Refuse(u, l) => Inv'
      /\ \A l \in Links : Pass(l) => Inv'
      /\ Purge => Inv'
  BY RefuseKeeps, PassKeeps, PurgeKeeps
<1>3. /\ \A m \in Machines, u \in Users : Transfer(m, u) => Inv'
      /\ \A m \in Machines : DeleteMachine(m) => Inv'
      /\ \A u \in Users : DeleteUser(u) => Inv'
  BY TransferKeeps, DeleteMachineKeeps, DeleteUserKeeps
<1>4. CASE UNCHANGED vars
  <2>1. UNCHANGED <<users, owner, link, copies, req, made, taken>>
    BY <1>4 DEF vars
  <2>2. TypeOK'
    BY <2>1 DEF Inv, TypeOK, Exists
  <2>3. TakenOK' /\ LocksOK'
    BY <2>1 DEF Inv, TakenOK, LocksOK, Exists, At
  <2>4. ActiveBounded'
    BY <2>1 DEF Inv, ActiveBounded, Active, Exists, Open
  <2>5. \A w \in Workers : RequestOK(w)'
    BY <2>1 DEF Inv, RequestOK, Active, Exists, Open, At
  <2> QED
    BY <2>2, <2>3, <2>4, <2>5 DEF Inv
<1> QED
  BY <1>1, <1>2, <1>3, <1>4 DEF Next

LEMMA InvHolds == Spec => []Inv
BY InitInv, NextInv, PTL DEF Spec

-----------------------------------------------------------------------------

\* Types and foreign keys: a link's creator and recipient exist, and it
\* refers to no machine that was deleted.
THEOREM TypeCorrect == Spec => []TypeOK
<1>1. Inv => TypeOK
  BY DEF Inv
<1> QED
  BY <1>1, InvHolds, PTL

\* share: no creator has more open links than MAX_ACTIVE_SHARE_LINKS, whoever
\* makes them for him at the same time.
THEOREM LimitHolds == Spec => []ActiveBounded
<1>1. Inv => ActiveBounded
  BY DEF Inv
<1> QED
  BY <1>1, InvHolds, PTL

\* share: a link is accepted at most once.
THEOREM AcceptedOnce == Spec => []OnceTaken
<1>1. Inv => OnceTaken
  BY DEF Inv, TakenOK, OnceTaken
<1> QED
  BY <1>1, InvHolds, PTL

\* share: what a link discloses was its creator's when it was opened.
THEOREM DisclosesOwned == Spec => OnlyCreators
<1>1. ASSUME Inv
      PROVE  \A w \in Workers : At(w, "accept") /\ taken' # taken /\ req'[w] # req[w]
                => \A m \in req[w].peers \ req[w].moved : owner[m] = link[req[w].link].creator
  BY <1>1 DEF Inv, RequestOK
<1> QED
  BY <1>1, InvHolds, PTL DEF OnlyCreators

-----------------------------------------------------------------------------
(* The refinement of OneTimeOffer                                          *)

LEMMA OfferInit == Init => Offer!Init
BY DEF Init, Offer!Init, OfferStage

\* A step that touches no link.
LEMMA OfferStutter ==
  ASSUME UNCHANGED <<link, made, taken>>
  PROVE  UNCHANGED Offer!vars
BY DEF Offer!vars, OfferStage, Exists

\* Making a link makes the offer.
LEMMA OfferMade ==
  ASSUME Inv, NEW w \in Workers, NEW l \in Links, CreateLink(w, l)
  PROVE  Offer!Make(l)
<1> USE NoRowAssumption
<1>0. PICK c, S : c = req[w].user /\ S = req[w].peers
  OBVIOUS
<1>1. PICK n : n = [creator |-> c, peers |-> S, used |-> FALSE,
                    expired |-> FALSE, by |-> None, age |-> 0]
  OBVIOUS
<1>2. /\ link' = [link EXCEPT ![l] = n] /\ l \notin made /\ made' = made \cup {l}
      /\ taken' = taken
  BY <1>0, <1>1 DEF CreateLink
<1>3. n \in Link /\ ~n.used /\ ~n.expired
  <2>1. req[w] \in Request /\ At(w, "create") /\ RequestOK(w) /\ users \subseteq Users
    BY DEF CreateLink, Inv, TypeOK
  <2>2. c \in Users /\ S \in SUBSET Machines
    BY <1>0, <2>1 DEF RequestOK, Request
  <2> QED
    BY <1>1, <2>2 DEF Link
<1>4. link'[l] = n /\ n # None /\ \A k \in Links \ {l} : link'[k] = link[k]
  BY <1>2, <1>3 DEF Inv, TypeOK
<1>5. OfferStage(l) = "unmade" /\ OfferStage(l)' = "open"
  BY <1>2, <1>3, <1>4 DEF OfferStage, Exists
<1>6. \A k \in Links \ {l} : OfferStage(k)' = OfferStage(k)
  BY <1>2, <1>4 DEF OfferStage, Exists
<1> QED
  BY <1>2, <1>5, <1>6 DEF Offer!Make

\* Accepting a link takes it.
LEMMA OfferTaken ==
  ASSUME Inv, NEW w \in Workers, Import(w)
  PROVE  \E l \in Links, u \in Users : Offer!Take(l, u)
<1> USE NoneAssumption, NoRowAssumption
<1>0. PICK l, u : l = req[w].link /\ u = req[w].user
  OBVIOUS
<1>1. /\ l \in Links /\ Exists(l) /\ link[l] \in Link /\ l \in made
      /\ ~link[l].used /\ ~link[l].expired /\ u \in Users
  <2>1. At(w, "accept") /\ RequestOK(w) /\ users \subseteq Users /\ u \in users
    BY <1>0 DEF Import, Inv, TypeOK
  <2>2. l \in Links /\ Exists(l) /\ ~link[l].used /\ ~link[l].expired
    BY <1>0, <2>1 DEF RequestOK
  <2> QED
    BY <2>1, <2>2 DEF Exists, Inv, TypeOK, TakenOK
<1>2. PICK n : n = [link[l] EXCEPT !.used = TRUE, !.by = u]
  OBVIOUS
<1>3. /\ link' = [link EXCEPT ![l] = n] /\ made' = made
      /\ taken' = [taken EXCEPT ![l] = Append(taken[l], u)]
  BY <1>0, <1>1, <1>2 DEF Import, Inv, TypeOK
<1>4. n.used
  BY <1>1, <1>2 DEF Link
<1>5. link'[l] = n /\ \A k \in Links \ {l} : link'[k] = link[k]
  BY <1>1, <1>3 DEF Inv, TypeOK
<1>6. OfferStage(l) = "open" /\ OfferStage(l)' = "closed"
  BY <1>1, <1>3, <1>4, <1>5 DEF OfferStage
<1>7. \A k \in Links \ {l} : OfferStage(k)' = OfferStage(k)
  BY <1>3, <1>5 DEF OfferStage, Exists
<1>8. Offer!Take(l, u)
  BY <1>1, <1>3, <1>6, <1>7 DEF Offer!Take
<1> QED
  BY <1>1, <1>8

\* The requests and events that LinkStep covers discard offers, if anything.
LEMMA OfferFades ==
  ASSUME LinksFade
  PROVE  \E S \in SUBSET Links : Offer!Discard(S)
<1>1. PICK S \in SUBSET Links :
        S = {l \in Links : OfferStage(l) = "open" /\ OfferStage(l)' # "open"}
  OBVIOUS
<1>2. \A l \in Links : OfferStage(l)' = IF l \in S THEN "closed" ELSE OfferStage(l)
  BY <1>1 DEF LinksFade, OfferStage
<1>3. taken' = taken
  BY DEF LinksFade
<1> QED
  BY <1>1, <1>2, <1>3 DEF Offer!Discard

LEMMA OfferStep == Inv /\ [Next]_vars => [Offer!Next]_Offer!vars
<1> SUFFICES ASSUME Inv, [Next]_vars PROVE Offer!Next \/ UNCHANGED Offer!vars
  OBVIOUS
<1>1. ASSUME NEW w \in Workers,
             \/ \E u, c \in Users, S \in SUBSET Machines : Select(w, u, c, S)
             \/ CountLinks(w)
             \/ \E u \in Users, l \in Links : OpenLink(w, u, l)
             \/ Rollback(w)
      PROVE  UNCHANGED Offer!vars
  BY <1>1, OfferStutter DEF Select, CountLinks, OpenLink, Rollback
<1>2. ASSUME NEW w \in Workers, NEW l \in Links, CreateLink(w, l) PROVE Offer!Next
  BY <1>2, OfferMade DEF Offer!Next
<1>3. ASSUME NEW w \in Workers, Import(w) PROVE Offer!Next
  BY <1>3, OfferTaken DEF Offer!Next
<1>4. ASSUME \/ \E u \in Users, l \in Links : Refuse(u, l)
             \/ \E l \in Links : Pass(l)
             \/ Purge
             \/ \E m \in Machines : DeleteMachine(m) \/ \E u \in Users : Transfer(m, u)
             \/ \E u \in Users : DeleteUser(u)
      PROVE  Offer!Next
  <2>1. LinksFade
    BY <1>4, RefuseKeeps, PassKeeps, PurgeKeeps, DeleteMachineKeeps, TransferKeeps, DeleteUserKeeps
  <2> QED
    BY <2>1, OfferFades DEF Offer!Next
<1>5. CASE UNCHANGED vars
  BY <1>5, OfferStutter DEF vars
<1> QED
  BY <1>1, <1>2, <1>3, <1>4, <1>5 DEF Next

\* share: a link is an offer that is made once, taken once while it stands,
\* and never stands again.
THEOREM OfferImplemented == Spec => ImplementsOffer
<1>1. Init => Offer!Init
  BY OfferInit
<1>2. Inv /\ [Next]_vars => [Offer!Next]_Offer!vars
  BY OfferStep
<1> QED
  BY <1>1, <1>2, InvHolds, PTL DEF Spec, ImplementsOffer, Offer!Spec

=============================================================================

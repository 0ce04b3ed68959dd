--------------------------- MODULE BookTagsProofs ---------------------------
(***************************************************************************)
(* What holds of BookTags for every set of workers and every finite set of *)
(* machines, tags and names: types, the limits on tags and on counted      *)
(* machines, that a merge loses no machine's tag and a bulk change brings  *)
(* no tag back, and which transactions a deadlock of two needs.            *)
(***************************************************************************)
EXTENDS BookTags, FiniteSetTheorems, TLAPS

-----------------------------------------------------------------------------
(* The locks, and what is still so of what was read under them             *)

\* One transaction has the lock of the book.
BookExclusive == \A v, w \in Workers : HasBook(v) /\ HasBook(w) => v = w

\* A rename has the lock of a tag that is in the book, alone, under a name it
\* could ask for, and its target is another.
RenameInv ==
  \A w \in Workers : At(w, "rename") =>
    /\ req[w].old \in Live /\ tag[req[w].old] \in Plain
    /\ req[w].target # req[w].old
    /\ \E n \in Names : req[w].asked = {n}
    /\ \A v \in Workers : LocksTag(v, req[w].old) => v = w
    /\ {p \in Peers : <<p, req[w].old>> \in link} \subseteq req[w].peers

\* The machines of a bulk change stay in the book while they are locked.
BulkInv == \A w \in Workers : At(w, "bulk") => req[w].peers \subseteq peer

\* A machine that was not there, counted under the lock of the book, fits.
CountedInv ==
  \A w \in Workers : (At(w, "count") \/ At(w, "peer")) /\ req[w].counted =>
    (\E p \in Peers : req[w].peers = {p}) /\ Cardinality(peer) < MaxPeers

\* Beyond the names its machine is to have, a request asks for one at most,
\* with white space around it.
Asks(r) ==
  LET wanted == UNION {r.want[p] : p \in r.peers} IN
  r.asked \subseteq wanted \/ \E n \in Names \ Plain : r.asked \subseteq wanted \cup {n}
AskedInv ==
  \A w \in Workers : At(w, "check") \/ At(w, "count") \/ At(w, "peer") => Asks(req[w])

\* A tag counted under the lock of the book still fits.
TagInv == \A w \in Workers : At(w, "tag") =>
            (\E n \in Names : req[w].asked = {n}) /\ Cardinality(Live) < MaxTags

\* The names read under the lock of the book are there, but for those that
\* the API has removed.
GhostInv ==
  \A w \in Workers : At(w, "bulk") =>
    \A p \in req[w].peers : req[w].want[p] \subseteq Used \cup req[w].asked \cup removed

\* An update that has yet to lock the machine does not count.
CheckInv == \A w \in Workers : At(w, "check") => ~req[w].counted

BookInv == TypeOK /\ BookExclusive /\ RenameInv /\ BulkInv /\ CheckInv

-----------------------------------------------------------------------------
(* Types                                                                   *)

LEMMA IdleType == Idle \in Transaction /\ Idle.step = "idle" /\ Idle.counted = FALSE
BY DEF Idle, Transaction, MaybeIn, Nothing

LEMMA MachineType ==
  ASSUME NEW p \in Peers, NEW S \in SUBSET Names
  PROVE  /\ Machine(p, S) \in Transaction
         /\ Machine(p, S).peers = {p} /\ Machine(p, S).counted = FALSE
         /\ Machine(p, S).asked = S /\ Machine(p, S).want[p] = S
<1>1. {p} \in SUBSET Peers /\ [Nothing EXCEPT ![p] = S] \in [Peers -> SUBSET Names]
  BY DEF Nothing
<1> QED BY <1>1, IdleType DEF Machine, Idle, Transaction

LEMMA StripType == \A S \in SUBSET Names : {Strip[n] : n \in S} \in SUBSET Names
BY StripAssumption

LEMMA LiveType == Live \in SUBSET Tags /\ (TypeOK => Used \in SUBSET Names)
BY NoneAssumption DEF TypeOK, Live, Used, MaybeIn

\* New tags get rows that were free, each name one; other rows stay.
LEMMA FillFacts ==
  ASSUME TypeOK, NEW S \in SUBSET Names, Fill(S)
  PROVE  /\ tag' \in [Tags -> MaybeIn(Names)]
         /\ \A t \in Tags : t \notin Keys => tag'[t] = tag[t]
         /\ \A t \in Live : tag'[t] = tag[t]
         /\ Live \subseteq Live'
         /\ Used' = Used \cup S
         /\ \A s, t \in Live' : tag'[s] = tag'[t] => s = t
<1>0. PICK K \in SUBSET Keys : \E name \in Bijection(K, S \ Used) :
        tag' = [t \in Tags |-> IF t \in K THEN name[t] ELSE tag[t]]
  BY DEF Fill
<1>1. PICK name \in Bijection(K, S \ Used) :
        tag' = [t \in Tags |-> IF t \in K THEN name[t] ELSE tag[t]]
  BY <1>0
<1>2. /\ name \in [K -> S \ Used]
      /\ \A s, t \in K : name[s] = name[t] => s = t
      /\ \A n \in S \ Used : \E t \in K : name[t] = n
  BY DEF Bijection, Injection, Surjection, IsInjective
<1>3. K \subseteq Tags /\ K \cap Live = {}
  BY DEF Keys
<1>4. tag \in [Tags -> MaybeIn(Names)] /\ None \notin Names
  BY NoneAssumption DEF TypeOK
<1>5. tag' \in [Tags -> MaybeIn(Names)]
  BY <1>1, <1>2, <1>3, <1>4 DEF MaybeIn
<1>6. Live' = Live \cup K
  BY <1>1, <1>2, <1>3, <1>4 DEF Live
<1>7. \A t \in Live : tag'[t] = tag[t]
  BY <1>1, <1>3 DEF Live
<1>8. \A t \in K : tag'[t] = name[t]
  BY <1>1, <1>3
<1>9. Used' = Used \cup S
  <2>1. Used' = {tag'[t] : t \in Live \cup K}
    BY <1>6 DEF Used
  <2>2. Used \subseteq Used' /\ S \ Used \subseteq Used'
    <3>1. \A t \in Live : tag[t] \in Used'
      BY <2>1, <1>7
    <3>2. \A t \in K : name[t] \in Used'
      BY <2>1, <1>8
    <3>3. \A n \in S \ Used : n \in Used'
      BY <3>2, <1>2
    <3> QED BY <3>1, <3>3 DEF Used
  <2>3. Used' \subseteq Used \cup S
    BY <2>1, <1>2, <1>7, <1>8 DEF Used
  <2> QED BY <2>2, <2>3
<1>10. \A s, t \in Live' : tag'[s] = tag'[t] => s = t
  <2>1. \A s, t \in Live : tag'[s] = tag'[t] => s = t
    BY <1>7 DEF TypeOK
  <2>2. \A s, t \in K : tag'[s] = tag'[t] => s = t
    BY <1>2, <1>8
  <2>3. \A s \in Live, t \in K : tag'[s] # tag'[t]
    BY <1>2, <1>7, <1>8 DEF Used
  <2> QED BY <1>6, <2>1, <2>2, <2>3
<1>11. \A t \in Tags : t \notin Keys => tag'[t] = tag[t]
  BY <1>1
<1> QED BY <1>5, <1>6, <1>7, <1>9, <1>10, <1>11

\* The tags a machine is linked to are its own; new links are to free tags.
LEMMA LinkFacts ==
  ASSUME TypeOK, NEW w \in Workers, NEW more \in SUBSET Names, WriteLinks(w, more)
  PROVE  /\ Wanted(w) \cup more \in SUBSET Names /\ Fill(Wanted(w) \cup more)
         /\ Wanted(w) \in SUBSET Names /\ Fits(Wanted(w))
         /\ link' \subseteq (peer \cup req[w].peers) \X Live'
         /\ \A p \in Peers, t \in Live :
              <<p, t>> \in link' /\ <<p, t>> \notin link => TagFree(t)
         /\ Goto(w, Idle)
<1>1. /\ req[w].peers \in SUBSET Peers /\ req[w].want \in [Peers -> SUBSET Names]
      /\ link \subseteq peer \X Live /\ None \notin Names /\ peer \subseteq Peers
  BY NoneAssumption DEF TypeOK, Transaction
<1>2. /\ Wanted(w) \in SUBSET Names /\ Wanted(w) \cup more \in SUBSET Names
      /\ Fill(Wanted(w) \cup more) /\ Fits(Wanted(w)) /\ Goto(w, Idle)
  BY <1>1 DEF Wanted, WriteLinks
<1>3. /\ link' = (link \ (req[w].peers \X Tags)) \cup Links(w, tag')
      /\ \A pt \in Links(w, tag) \ link : TagFree(pt[2])
  BY DEF WriteLinks, Linkable
<1>4. /\ tag' \in [Tags -> MaybeIn(Names)] /\ \A t \in Live : tag'[t] = tag[t]
      /\ Live \subseteq Live'
  BY <1>2, FillFacts
<1>5. Live \subseteq Tags
  BY DEF Live
<1>6. Links(w, tag') \subseteq req[w].peers \X Live'
  <2>1. ASSUME NEW pt \in Links(w, tag') PROVE pt \in req[w].peers \X Live'
    <3>1. pt \in req[w].peers \X Tags /\ tag'[pt[2]] \in req[w].want[pt[1]]
      BY <2>1 DEF Links
    <3>2. tag'[pt[2]] # None
      BY <3>1, <1>1
    <3> QED BY <3>1, <3>2 DEF Live
  <2> QED BY <2>1
<1>7. ASSUME NEW p \in Peers, NEW t \in Live, <<p, t>> \in link', <<p, t>> \notin link
      PROVE  TagFree(t)
  <2>1. <<p, t>> \in Links(w, tag')
    BY <1>3, <1>7
  <2>2. <<p, t>> \in Links(w, tag)
    BY <2>1, <1>4, <1>5 DEF Links
  <2> QED BY <2>2, <1>3, <1>7
<1>8. link' \subseteq (peer \cup req[w].peers) \X Live'
  BY <1>1, <1>3, <1>4, <1>6
<1> QED BY <1>2, <1>7, <1>8

\* What every step does to the requests, and the rest of their types.
LEMMA RequestType ==
  ASSUME TypeOK, BookInv, [Next]_vars
  PROVE  req' \in [Workers -> Transaction]
<1>1. \A w \in Workers : req[w] \in Transaction
  BY DEF TypeOK
<1>2. \A w \in Workers, r \in Transaction : Goto(w, r) => req' \in [Workers -> Transaction]
  BY DEF TypeOK, Goto
<1>3. ASSUME NEW w \in Workers, Goto(w, Idle) PROVE req' \in [Workers -> Transaction]
  BY <1>2, <1>3, IdleType
<1>4. CASE UNCHANGED req
  BY <1>4 DEF TypeOK
<1>5. ASSUME NEW w \in Workers, NEW n \in Names, CountTags(w, n)
      PROVE  req' \in [Workers -> Transaction]
  <2>1. [Idle EXCEPT !.step = "tag", !.asked = {n}] \in Transaction
    BY IdleType DEF Transaction
  <2> QED BY <1>2, <1>5, <2>1 DEF CountTags, Begin
<1>6. ASSUME NEW w \in Workers, NEW p \in Peers, NEW S \in Requests,
             CountPeers(w, p, S) \/ CheckPeer(w, p, S) \/ ReadPeer(w, p, S)
      PROVE  req' \in [Workers -> Transaction]
  <2>1. Machine(p, S) \in Transaction
    BY MachineType DEF Requests, Plain
  <2>2. /\ [Machine(p, S) EXCEPT !.step = "peer"] \in Transaction
        /\ [Machine(p, S) EXCEPT !.step = "count", !.counted = p \notin peer] \in Transaction
        /\ [Machine(p, S) EXCEPT !.step = "check"] \in Transaction
    BY <2>1 DEF Transaction
  <2> QED BY <1>2, <1>6, <2>2 DEF CountPeers, CheckPeer, ReadPeer, Begin
<1>12. ASSUME NEW w \in Workers, NEW p \in Peers, NEW S \in SUBSET Names, FileDevice(w, p, S)
       PROVE  req' \in [Workers -> Transaction]
  <2>1. Machine(p, {Strip[n] : n \in S}) \in Transaction
    BY StripType, MachineType
  <2>2. [Machine(p, {Strip[n] : n \in S}) EXCEPT !.step = "peer", !.asked = S] \in Transaction
    BY <2>1 DEF Transaction
  <2> QED BY <1>2, <1>12, <2>2 DEF FileDevice, Begin
<1>7. ASSUME NEW w \in Workers, NEW P \in SUBSET Peers, NEW op \in {"add", "remove", "replace"},
             NEW S \in Requests, ReadTags(w, P, op, S)
      PROVE  req' \in [Workers -> Transaction]
  <2>1. \A p \in Peers : Changed(p, op, S) \in SUBSET Names
    <3>1. \A p \in Peers : NamesOf(p) \in SUBSET Names
      BY NoneAssumption DEF NamesOf, TypeOK, Live, MaybeIn
    <3> QED BY <3>1 DEF Changed, Requests, Plain
  <2>2. S \in SUBSET Names
    BY DEF Requests, Plain
  <2> DEFINE want == [p \in Peers |-> IF p \in P THEN Changed(p, op, S) ELSE {}]
  <2>3. want \in [Peers -> SUBSET Names]
    BY <2>1
  <2> HIDE DEF want
  <2>4. [Idle EXCEPT !.step = "bulk", !.peers = P, !.asked = S, !.want = want] \in Transaction
    BY <2>2, <2>3, IdleType DEF Transaction
  <2> QED BY <1>2, <1>7, <2>4 DEF ReadTags, Begin, want
<1>8. ASSUME NEW w \in Workers, NEW t \in Tags, NEW n \in Names, NEW web \in BOOLEAN,
             ReadRename(w, t, n, web)
      PROVE  req' \in [Workers -> Transaction]
  <2> DEFINE s == IF Named({n}) = {} THEN None ELSE CHOOSE s \in Named({n}) : TRUE
             P == {p \in peer : <<p, t>> \in link}
  <2>1. s \in MaybeIn(Tags)
    BY DEF Named, Live, MaybeIn
  <2>2. t \in MaybeIn(Tags) /\ P \in SUBSET Peers
    BY DEF MaybeIn, TypeOK
  <2> HIDE DEF s, P
  <2>3. [Idle EXCEPT !.step = "rename", !.old = t, !.asked = {n}, !.web = web,
                     !.target = s, !.peers = P] \in Transaction
    BY <2>1, <2>2, IdleType DEF Transaction
  <2> QED BY <1>2, <1>8, <2>3 DEF ReadRename, Begin, s, P
<1>9. ASSUME NEW w \in Workers, LockPeer(w) PROVE req' \in [Workers -> Transaction]
  <2>1. [req[w] EXCEPT !.step = "peer"] \in Transaction
    BY <1>1 DEF Transaction
  <2> QED BY <1>2, <1>9, <2>1 DEF LockPeer
<1>10. ASSUME NEW w \in Workers,
              \/ AddTag(w) \/ WritePeer(w) \/ EnsurePeer(w) \/ WriteTags(w) \/ MergeTag(w)
              \/ RenameTag(w) \/ DeleteTag(w) \/ DeletePeers(w) \/ Rollback(w)
       PROVE  req' \in [Workers -> Transaction]
  BY <1>3, <1>10 DEF AddTag, WritePeer, EnsurePeer, WriteTags, WriteLinks, MergeTag, RenameTag,
                     DeleteTag, DeletePeers, Rollback
<1>13. ASSUME NEW w \in Workers, NEW t \in Tags, NEW web \in BOOLEAN, UnlinkTag(w, t, web)
       PROVE  req' \in [Workers -> Transaction]
  <2> DEFINE pts == {pt \in link : pt[2] = t}
  <2>1. pts \in SUBSET (Peers \X Tags) /\ t \in MaybeIn(Tags)
    BY DEF TypeOK, Live, MaybeIn
  <2> HIDE DEF pts
  <2>2. [Idle EXCEPT !.step = "untag", !.old = t, !.links = pts, !.web = web] \in Transaction
    BY <2>1, IdleType DEF Transaction
  <2> QED BY <1>2, <1>13, <2>2 DEF UnlinkTag, Begin, pts
<1>14. ASSUME NEW w \in Workers, NEW P \in SUBSET Peers, UnlinkPeers(w, P)
       PROVE  req' \in [Workers -> Transaction]
  <2> DEFINE pts == {pt \in link : pt[1] \in P}
  <2>1. pts \in SUBSET (Peers \X Tags)
    BY DEF TypeOK, Live
  <2> HIDE DEF pts
  <2>2. [Idle EXCEPT !.step = "drop", !.peers = P, !.links = pts] \in Transaction
    BY <2>1, IdleType DEF Transaction
  <2> QED BY <1>2, <1>14, <2>2 DEF UnlinkPeers, Begin, pts
<1>15. ASSUME NEW w \in Workers, NEW p \in Peers, InsertPeer(w, p)
       PROVE  req' \in [Workers -> Transaction]
  <2>1. [Idle EXCEPT !.step = "ensure", !.peers = {p}] \in Transaction
    BY IdleType DEF Transaction
  <2> QED BY <1>2, <1>15, <2>1 DEF InsertPeer, Begin
<1> QED
  BY <1>4, <1>5, <1>6, <1>7, <1>8, <1>9, <1>10, <1>12, <1>13, <1>14, <1>15
  DEF Next, Starts, vars, Plain

\* The steps that change the book itself.
LEMMA BookSteps ==
  ASSUME [Next]_vars
  PROVE  \/ UNCHANGED <<peer, tag, link, removed>>
         \/ \E w \in Workers :
              \/ AddTag(w) \/ WritePeer(w) \/ EnsurePeer(w) \/ WriteTags(w) \/ MergeTag(w)
              \/ RenameTag(w) \/ DeleteTag(w) \/ DeletePeers(w) \/ Rollback(w)
<1>1. ASSUME NEW w \in Workers, Starts(w) \/ LockPeer(w)
      PROVE  UNCHANGED <<peer, tag, link, removed>>
  BY <1>1 DEF Starts, CountTags, CountPeers, FileDevice, CheckPeer, ReadPeer, ReadTags, ReadRename,
              LockPeer, UnlinkTag, UnlinkPeers, InsertPeer
<1> QED BY <1>1 DEF Next, vars

\* What a step that leaves the tags alone has to show.
LEMMA SameTags ==
  ASSUME TypeOK, tag' = tag
  PROVE  /\ Live' = Live /\ Used' = Used
         /\ tag' \in [Tags -> MaybeIn(Names)]
         /\ \A s, t \in Live' : tag'[s] = tag'[t] => s = t
BY DEF TypeOK, Live, Used

LEMMA RemovesType ==
  ASSUME TypeOK, NEW web \in BOOLEAN, NEW S \in SUBSET Names, Removes(web, S)
  PROVE  removed' \in SUBSET Names
BY DEF TypeOK, Removes

\* A tag that is gone.
LEMMA GoneFacts ==
  ASSUME TypeOK, NEW x \in Live, tag' = [tag EXCEPT ![x] = None]
  PROVE  /\ tag' \in [Tags -> MaybeIn(Names)]
         /\ Live' = Live \ {x} /\ Used \subseteq Used' \cup {tag[x]} /\ Used' \subseteq Used
         /\ \A s, t \in Live' : tag'[s] = tag'[t] => s = t
         /\ tag[x] \in Names
<1>1. tag' \in [Tags -> MaybeIn(Names)] /\ tag[x] \in Names
  BY DEF TypeOK, MaybeIn, Live
<1>2. Live' = Live \ {x} /\ \A t \in Live' : tag'[t] = tag[t]
  BY DEF TypeOK, Live
<1>3. Used \subseteq Used' \cup {tag[x]} /\ Used' \subseteq Used
  BY <1>2 DEF Used
<1>4. \A s, t \in Live' : tag'[s] = tag'[t] => s = t
  BY <1>2 DEF TypeOK
<1> QED BY <1>1, <1>2, <1>3, <1>4

\* A tag with a new name.
LEMMA RenamedFacts ==
  ASSUME TypeOK, NEW x \in Live, NEW n \in Names, n \notin Used,
         tag' = [tag EXCEPT ![x] = n]
  PROVE  /\ tag' \in [Tags -> MaybeIn(Names)]
         /\ Live' = Live /\ Used \subseteq Used' \cup {tag[x]} /\ Used' \subseteq Used \cup {n}
         /\ \A s, t \in Live' : tag'[s] = tag'[t] => s = t
         /\ tag[x] \in Names
<1>1. tag' \in [Tags -> MaybeIn(Names)] /\ tag[x] \in Names
  BY DEF TypeOK, MaybeIn, Live
<1>2. Live' = Live /\ tag'[x] = n /\ \A t \in Live : t # x => tag'[t] = tag[t]
  BY NoneAssumption DEF TypeOK, Live
<1>3. Used \subseteq Used' \cup {tag[x]} /\ Used' \subseteq Used \cup {n}
  BY <1>2 DEF Used
<1>4. \A s, t \in Live' : tag'[s] = tag'[t] => s = t
  <2>1. \A t \in Live : tag[t] # n
    BY DEF Used
  <2> QED BY <1>2, <2>1 DEF TypeOK
<1> QED BY <1>1, <1>2, <1>3, <1>4

\* What the rename that commits has read.
LEMMA RenameFacts ==
  ASSUME BookInv, NEW w \in Workers, At(w, "rename")
  PROVE  /\ req[w] \in Transaction /\ req[w].old \in Live /\ req[w].old \in Tags
         /\ req[w].peers \in SUBSET Peers /\ req[w].web \in BOOLEAN
         /\ req[w].target # req[w].old /\ req[w].target \in MaybeIn(Tags)
         /\ \E n \in Names : req[w].asked = {n} /\ (CHOOSE m \in req[w].asked : TRUE) = n
<1>1. req[w] \in Transaction
  BY DEF BookInv, TypeOK
<1>2. PICK n \in Names : req[w].asked = {n}
  BY DEF BookInv, RenameInv
<1>3. (CHOOSE m \in req[w].asked : TRUE) = n
  BY <1>2
<1> QED BY <1>1, <1>2, <1>3 DEF BookInv, RenameInv, Live, Transaction

LEMMA TypeNext == BookInv /\ [Next]_vars => TypeOK'
<1> SUFFICES ASSUME BookInv, [Next]_vars PROVE TypeOK'
  OBVIOUS
<1>0. TypeOK
  BY DEF BookInv
<1>r. req' \in [Workers -> Transaction]
  BY <1>0, RequestType
<1>1. CASE UNCHANGED <<peer, tag, link, removed>>
  <2>1. Live' = Live
    BY <1>0, <1>1, SameTags
  <2> QED BY <1>0, <1>1, <1>r, <2>1 DEF TypeOK
<1>2. ASSUME NEW w \in Workers, EnsurePeer(w) PROVE TypeOK'
  <2>1. req[w].peers \subseteq Peers
    BY <1>0 DEF TypeOK, Transaction
  <2> QED BY <1>0, <1>2, <1>r, <2>1, SameTags DEF EnsurePeer, TypeOK
<1>3. ASSUME NEW w \in Workers, DeletePeers(w) PROVE TypeOK'
  <2>1. Live' = Live /\ Live \subseteq Tags
    BY <1>0, <1>3, SameTags, LiveType DEF DeletePeers
  <2>2. link' \subseteq peer' \X Live'
    BY <1>0, <1>3, <2>1 DEF DeletePeers, TypeOK
  <2> QED BY <1>0, <1>3, <1>r, <2>1, <2>2, SameTags DEF DeletePeers, TypeOK
<1>4. ASSUME NEW w \in Workers, DeleteTag(w) PROVE TypeOK'
  <2> DEFINE t == req[w].old
             web == req[w].web
  <2>0. web \in BOOLEAN
    BY <1>0 DEF TypeOK, Transaction
  <2>1. t \in Live /\ tag' = [tag EXCEPT ![t] = None]
    BY <1>4 DEF DeleteTag
  <2>2. /\ tag' \in [Tags -> MaybeIn(Names)] /\ Live' = Live \ {t} /\ tag[t] \in Names
        /\ \A x, y \in Live' : tag'[x] = tag'[y] => x = y
    BY <1>0, <2>1, GoneFacts
  <2>3. removed' \in SUBSET Names
    <3>1. {tag[t]} \in SUBSET Names /\ Removes(web, {tag[t]})
      BY <1>4, <2>2 DEF DeleteTag
    <3> QED BY <1>0, <2>0, <3>1, RemovesType
  <2>4. link' \subseteq peer' \X Live'
    BY <1>0, <1>4, <2>2 DEF DeleteTag, TypeOK
  <2> QED BY <1>0, <1>4, <1>r, <2>2, <2>3, <2>4 DEF DeleteTag, TypeOK
<1>5. ASSUME NEW w \in Workers, AddTag(w) PROVE TypeOK'
  <2>1. req[w].asked \in SUBSET Names /\ Fill(req[w].asked)
    BY <1>0, <1>5 DEF AddTag, TypeOK, Transaction
  <2>2. /\ tag' \in [Tags -> MaybeIn(Names)] /\ Live \subseteq Live'
        /\ \A x, y \in Live' : tag'[x] = tag'[y] => x = y
    BY <1>0, <2>1, FillFacts
  <2> QED BY <1>0, <1>5, <1>r, <2>2 DEF AddTag, TypeOK
<1>6. ASSUME NEW w \in Workers, NEW more \in SUBSET Names, WriteLinks(w, more),
             peer' = peer \cup req[w].peers, removed' = removed \/ removed' = {}
      PROVE  TypeOK'
  <2>1. /\ Wanted(w) \cup more \in SUBSET Names /\ Fill(Wanted(w) \cup more)
        /\ link' \subseteq peer' \X Live'
    BY <1>0, <1>6, LinkFacts
  <2>2. /\ tag' \in [Tags -> MaybeIn(Names)]
        /\ \A x, y \in Live' : tag'[x] = tag'[y] => x = y
    BY <1>0, <2>1, FillFacts
  <2>3. peer' \subseteq Peers
    BY <1>0, <1>6 DEF TypeOK, Transaction
  <2> QED BY <1>0, <1>6, <1>r, <2>1, <2>2, <2>3 DEF TypeOK
<1>7. ASSUME NEW w \in Workers, WritePeer(w) PROVE TypeOK'
  <2>1. req[w].asked \in SUBSET Names
    BY <1>0 DEF TypeOK, Transaction
  <2> QED BY <1>6, <1>7, <2>1 DEF WritePeer
<1>8. ASSUME NEW w \in Workers, WriteTags(w) PROVE TypeOK'
  <2>1. peer' = peer \cup req[w].peers /\ {} \in SUBSET Names
    BY <1>8 DEF WriteTags, BookInv, BulkInv
  <2> QED BY <1>6, <1>8, <2>1 DEF WriteTags
<1>9. ASSUME NEW w \in Workers, MergeTag(w) PROVE TypeOK'
  <2>1. /\ req[w].old \in Live /\ req[w].target # req[w].old /\ req[w].web \in BOOLEAN
        /\ At(w, "rename")
    BY <1>9, RenameFacts DEF MergeTag
  <2>2. /\ tag' = [tag EXCEPT ![req[w].old] = None] /\ Removes(req[w].web, {tag[req[w].old]})
        /\ link' = (link \cup Moved(w)) \ (Peers \X {req[w].old}) /\ peer' = peer
        /\ Moved(w) # {} => req[w].target \in Live /\ req[w].peers \subseteq peer
    BY <1>9 DEF MergeTag
  <2>3. /\ tag' \in [Tags -> MaybeIn(Names)] /\ Live' = Live \ {req[w].old}
        /\ tag[req[w].old] \in Names
        /\ \A x, y \in Live' : tag'[x] = tag'[y] => x = y
    BY <1>0, <2>1, <2>2, GoneFacts
  <2>4. Moved(w) \subseteq peer \X Live'
    BY <2>1, <2>2, <2>3 DEF Moved
  <2>5. link' \subseteq peer' \X Live'
    BY <1>0, <2>2, <2>3, <2>4 DEF TypeOK
  <2>6. removed' \in SUBSET Names
    <3>1. {tag[req[w].old]} \in SUBSET Names
      BY <2>3
    <3> QED BY <1>0, <2>1, <2>2, <3>1, RemovesType
  <2> QED BY <1>0, <1>r, <2>2, <2>3, <2>5, <2>6 DEF TypeOK
<1>10. ASSUME NEW w \in Workers, RenameTag(w) PROVE TypeOK'
  <2>1. /\ req[w].old \in Live /\ req[w].web \in BOOLEAN /\ At(w, "rename")
        /\ \E n \in Names : req[w].asked = {n} /\ (CHOOSE m \in req[w].asked : TRUE) = n
    BY <1>10, RenameFacts DEF RenameTag
  <2>2. PICK n \in Names : req[w].asked = {n} /\ (CHOOSE m \in req[w].asked : TRUE) = n
    BY <2>1
  <2>3. /\ tag' = [tag EXCEPT ![req[w].old] = n] /\ Removes(req[w].web, {tag[req[w].old]})
        /\ n \notin Used /\ UNCHANGED <<peer, link>>
    BY <1>10, <2>2 DEF RenameTag
  <2>4. /\ tag' \in [Tags -> MaybeIn(Names)] /\ Live' = Live /\ tag[req[w].old] \in Names
        /\ \A x, y \in Live' : tag'[x] = tag'[y] => x = y
    BY <1>0, <2>1, <2>3, RenamedFacts
  <2>6. removed' \in SUBSET Names
    <3>1. {tag[req[w].old]} \in SUBSET Names
      BY <2>4
    <3> QED BY <1>0, <2>1, <2>3, <3>1, RemovesType
  <2> QED BY <1>0, <1>r, <2>3, <2>4, <2>6 DEF TypeOK
<1>11. ASSUME NEW w \in Workers, Rollback(w) PROVE TypeOK'
  BY <1>0, <1>11, <1>r, SameTags DEF Rollback, TypeOK
<1> QED
  BY <1>1, <1>2, <1>3, <1>4, <1>5, <1>7, <1>8, <1>9, <1>10, <1>11, BookSteps

-----------------------------------------------------------------------------
(* The locks hold                                                          *)

\* A request locks its machine.
Locks(w) ==
  (At(w, "check") \/ At(w, "count")) /\ req'[w] = [req[w] EXCEPT !.step = "peer"]

\* A step begins, continues or ends one worker's transaction; the lock of
\* the book is taken when it is free.
Begins(w) ==
  /\ \A v \in Workers : v # w => req'[v] = req[v]
  /\ HasBook(w)' => BookFree \/ HasBook(w)
  /\ At(w, "rename")' => \E t \in Tags, n \in Names, web \in BOOLEAN : ReadRename(w, t, n, web)
  /\ At(w, "bulk")' =>
       \E P \in SUBSET Peers, op \in {"add", "remove", "replace"}, S \in Requests :
         ReadTags(w, P, op, S)
  /\ At(w, "tag")' => \E n \in Names : CountTags(w, n)
  /\ At(w, "peer")' => Locks(w) \/ (~req'[w].counted /\ Asks(req'[w]))
  /\ At(w, "count")' => (\E p \in Peers, S \in Requests : CountPeers(w, p, S)) /\ Asks(req'[w])
  /\ At(w, "check")' => ~req'[w].counted /\ Asks(req'[w])

LEMMA MachineAsks ==
  ASSUME NEW p \in Peers, NEW S \in SUBSET Names, NEW r \in Transaction,
         r.peers = {p}, r.want = Machine(p, S).want, r.asked = S
  PROVE  Asks(r)
<1>0. Machine(p, S).want[p] = S
  BY MachineType
<1>1. r.want[p] = S
  BY <1>0
<1> QED BY <1>1 DEF Asks

\* One name at most is that of a device, besides the one its machine gets.
LEMMA DeviceAsks ==
  ASSUME NEW p \in Peers, NEW S \in SUBSET Names, Cardinality(S) <= 1, NEW r \in Transaction,
         r.peers = {p}, r.want = Machine(p, {Strip[n] : n \in S}).want, r.asked = S
  PROVE  Asks(r)
<1> DEFINE stripped == {Strip[n] : n \in S}
<1>a. stripped \in SUBSET Names
  BY StripType
<1>0. Machine(p, stripped).want[p] = stripped
  BY <1>a, MachineType
<1>1. r.want[p] = {Strip[n] : n \in S}
  BY <1>0
<1>2. IsFiniteSet(S) /\ Cardinality(S) \in Nat
  BY FiniteAssumption, FS_Subset, FS_CardinalityType
<1>3. CASE S = {}
  BY <1>3 DEF Asks
<1>4. CASE S # {}
  <2>1. Cardinality(S) = 1
    BY <1>2, <1>4, FS_EmptySet
  <2>2. PICK n : S = {n}
    BY <1>2, <2>1, FS_Singleton
  <2>3. n \in Names /\ r.want[p] = {Strip[n]}
    BY <1>1, <2>2
  <2>4. CASE n \in Plain
    BY <2>2, <2>3, <2>4 DEF Asks, Plain
  <2>5. CASE n \notin Plain
    BY <2>2, <2>3, <2>5 DEF Asks
  <2> QED BY <2>4, <2>5
<1> QED BY <1>3, <1>4

LEMMA RequestStep == BookInv /\ [Next]_vars => UNCHANGED req \/ \E w \in Workers : Begins(w)
<1> SUFFICES ASSUME BookInv, [Next]_vars, ~UNCHANGED req PROVE \E w \in Workers : Begins(w)
  OBVIOUS
<1>0. req \in [Workers -> Transaction]
  BY DEF BookInv, TypeOK
<1>1. ASSUME NEW w \in Workers, Goto(w, Idle) PROVE Begins(w)
  <2>1. req'[w].step = "idle" /\ \A v \in Workers : v # w => req'[v] = req[v]
    BY <1>0, <1>1, IdleType DEF Goto
  <2> QED BY <2>1 DEF Begins, HasBook, At
<1>2. ASSUME NEW w \in Workers, NEW n \in Names, CountTags(w, n) PROVE Begins(w)
  <2>1. req'[w].step = "tag" /\ \A v \in Workers : v # w => req'[v] = req[v]
    BY <1>0, <1>2, IdleType DEF CountTags, Begin, Goto, Transaction
  <2> QED BY <1>2, <2>1 DEF Begins, HasBook, At, CountTags
<1>3. ASSUME NEW w \in Workers, NEW p \in Peers, NEW S \in Requests,
             CountPeers(w, p, S) \/ CheckPeer(w, p, S) \/ ReadPeer(w, p, S)
      PROVE  Begins(w)
  <2>1. /\ Machine(p, S) \in Transaction /\ Machine(p, S).peers = {p}
        /\ Machine(p, S).asked = S /\ Machine(p, S).counted = FALSE /\ S \in SUBSET Names
    BY MachineType DEF Requests, Plain
  <2>2. \A v \in Workers : v # w => req'[v] = req[v]
    BY <1>0, <1>3 DEF CountPeers, CheckPeer, ReadPeer, Begin, Goto
  <2>3. PICK st \in {"count", "check", "peer"}, c \in BOOLEAN :
          /\ req' = [req EXCEPT ![w] = [Machine(p, S) EXCEPT !.step = st, !.counted = c]]
          /\ st = "count" => CountPeers(w, p, S)
          /\ st # "count" => c = FALSE
          /\ st # "check" => BookFree
    <3>1. CASE CountPeers(w, p, S)
      BY <3>1 DEF CountPeers, Begin, Goto
    <3>2. CASE CheckPeer(w, p, S)
      <4>1. [Machine(p, S) EXCEPT !.step = "check"]
              = [Machine(p, S) EXCEPT !.step = "check", !.counted = FALSE]
        BY <2>1 DEF Transaction
      <4> QED BY <3>2, <4>1 DEF CheckPeer, Begin, Goto
    <3>3. CASE ReadPeer(w, p, S)
      <4>1. [Machine(p, S) EXCEPT !.step = "peer"]
              = [Machine(p, S) EXCEPT !.step = "peer", !.counted = FALSE]
        BY <2>1 DEF Transaction
      <4> QED BY <3>3, <4>1 DEF ReadPeer, Begin, Goto
    <3> QED BY <1>3, <3>1, <3>2, <3>3
  <2>4. /\ req'[w] \in Transaction /\ req'[w].step = st /\ req'[w].counted = c
        /\ req'[w].peers = {p} /\ req'[w].want = Machine(p, S).want /\ req'[w].asked = S
    BY <1>0, <2>1, <2>3 DEF Transaction
  <2>5. Asks(req'[w])
    BY <2>1, <2>4, MachineAsks
  <2> QED BY <2>2, <2>3, <2>4, <2>5 DEF Begins, HasBook, At
<1>4. ASSUME NEW w \in Workers, NEW P \in SUBSET Peers, NEW op \in {"add", "remove", "replace"},
             NEW S \in Requests, ReadTags(w, P, op, S)
      PROVE  Begins(w)
  <2>1. req'[w].step = "bulk" /\ \A v \in Workers : v # w => req'[v] = req[v]
    BY <1>0, <1>4, IdleType DEF ReadTags, Begin, Goto, Transaction
  <2> QED BY <1>4, <2>1 DEF Begins, HasBook, At, ReadTags
<1>5. ASSUME NEW w \in Workers, NEW t \in Tags, NEW n \in Names, NEW web \in BOOLEAN,
             ReadRename(w, t, n, web)
      PROVE  Begins(w)
  <2>1. /\ req'[w].step = "rename" /\ req'[w].web = web
        /\ \A v \in Workers : v # w => req'[v] = req[v]
    BY <1>0, <1>5, IdleType DEF ReadRename, Begin, Goto, Transaction
  <2> QED BY <1>5, <2>1 DEF Begins, HasBook, At, ReadRename
<1>6. ASSUME NEW w \in Workers, LockPeer(w) PROVE Begins(w)
  <2>1. /\ req'[w] = [req[w] EXCEPT !.step = "peer"]
        /\ \A v \in Workers : v # w => req'[v] = req[v]
    BY <1>0, <1>6 DEF LockPeer, Goto
  <2>2. req'[w].step = "peer"
    BY <1>0, <2>1 DEF Transaction
  <2> QED BY <1>6, <2>1, <2>2 DEF Begins, HasBook, At, LockPeer, Locks
<1>7. ASSUME NEW w \in Workers,
              \/ AddTag(w) \/ WritePeer(w) \/ EnsurePeer(w) \/ WriteTags(w) \/ MergeTag(w)
              \/ RenameTag(w) \/ DeleteTag(w) \/ DeletePeers(w) \/ Rollback(w)
      PROVE  Begins(w)
  BY <1>1, <1>7 DEF AddTag, WritePeer, EnsurePeer, WriteTags, WriteLinks, MergeTag, RenameTag,
                    DeleteTag, DeletePeers, Rollback
<1>8. ASSUME NEW w \in Workers, NEW p \in Peers, NEW S \in SUBSET Names, FileDevice(w, p, S)
      PROVE  Begins(w)
  <2> DEFINE M == Machine(p, {Strip[n] : n \in S})
  <2>1. M \in Transaction /\ M.peers = {p} /\ M.counted = FALSE
    BY StripType, MachineType
  <2>2. /\ req' = [req EXCEPT ![w] = [M EXCEPT !.step = "peer", !.asked = S]]
        /\ Cardinality(S) <= 1 /\ BookFree
    BY <1>8 DEF FileDevice, Begin, Goto
  <2>3. M.want = Machine(p, {Strip[n] : n \in S}).want
    OBVIOUS
  <2> HIDE DEF M
  <2>4. /\ req'[w] \in Transaction /\ req'[w].step = "peer" /\ req'[w].counted = FALSE
        /\ req'[w].peers = {p} /\ req'[w].want = M.want /\ req'[w].asked = S
        /\ \A v \in Workers : v # w => req'[v] = req[v]
    BY <1>0, <2>1, <2>2 DEF Transaction
  <2>5. Asks(req'[w])
    BY <2>2, <2>3, <2>4, DeviceAsks
  <2> QED BY <2>2, <2>4, <2>5 DEF Begins, HasBook, At
<1>9. ASSUME NEW w \in Workers, NEW t \in Tags, NEW web \in BOOLEAN, UnlinkTag(w, t, web)
      PROVE  Begins(w)
  <2> DEFINE pts == {pt \in link : pt[2] = t}
  <2>1. /\ req' = [req EXCEPT ![w] =
                     [Idle EXCEPT !.step = "untag", !.old = t, !.links = pts, !.web = web]]
        /\ web => BookFree
    BY <1>9 DEF UnlinkTag, Begin, Goto
  <2> HIDE DEF pts
  <2>2. /\ req'[w].step = "untag" /\ req'[w].web = web
        /\ \A v \in Workers : v # w => req'[v] = req[v]
    BY <1>0, <2>1, IdleType DEF Transaction
  <2> QED BY <2>1, <2>2 DEF Begins, HasBook, At
<1>10. ASSUME NEW w \in Workers, NEW P \in SUBSET Peers, UnlinkPeers(w, P) PROVE Begins(w)
  <2>1. req'[w].step = "drop" /\ \A v \in Workers : v # w => req'[v] = req[v]
    BY <1>0, <1>10, IdleType DEF UnlinkPeers, Begin, Goto, Transaction
  <2> QED BY <2>1 DEF Begins, HasBook, At
<1>11. ASSUME NEW w \in Workers, NEW p \in Peers, InsertPeer(w, p) PROVE Begins(w)
  <2>1. req'[w].step = "ensure" /\ \A v \in Workers : v # w => req'[v] = req[v]
    BY <1>0, <1>11, IdleType DEF InsertPeer, Begin, Goto, Transaction
  <2> QED BY <2>1 DEF Begins, HasBook, At
<1> QED
  BY <1>2, <1>3, <1>4, <1>5, <1>6, <1>7, <1>8, <1>9, <1>10, <1>11 DEF Next, Starts, vars, Plain

LEMMA ChangedBegins ==
  ASSUME BookInv, [Next]_vars, NEW v \in Workers, req'[v] # req[v]
  PROVE  Begins(v) /\ \A u \in Workers : u # v => req'[u] = req[u]
<1>1. PICK w \in Workers : Begins(w)
  BY RequestStep
<1>2. \A u \in Workers : u # w => req'[u] = req[u]
  BY <1>1 DEF Begins
<1>3. w = v
  BY <1>2
<1> QED BY <1>1, <1>2, <1>3

LEMMA ExclusiveNext == BookInv /\ [Next]_vars => BookExclusive'
<1> SUFFICES ASSUME BookInv, [Next]_vars,
                    NEW v \in Workers, NEW w \in Workers, HasBook(v)', HasBook(w)', v # w
             PROVE  FALSE
  BY DEF BookExclusive
<1>1. CASE UNCHANGED req
  BY <1>1 DEF BookInv, BookExclusive, HasBook, At
<1>2. CASE \E x \in Workers : Begins(x)
  <2>1. PICK x \in Workers : Begins(x)
    BY <1>2
  <2>2. ASSUME NEW y \in Workers, y # x PROVE HasBook(y)' => HasBook(y)
    BY <2>1, <2>2 DEF Begins, HasBook, At
  <2> QED BY <2>1, <2>2 DEF Begins, BookFree, BookInv, BookExclusive
<1> QED BY <1>1, <1>2, RequestStep

\* A transaction that ends leaves its worker idle.
LEMMA Ends ==
  ASSUME BookInv, NEW w \in Workers, Goto(w, Idle)
  PROVE  req'[w].step = "idle"
BY IdleType DEF Goto, BookInv, TypeOK

\* While a tag is locked for its rename, it stays and no machine gets it.
LEMMA LockedTag ==
  ASSUME BookInv, [Next]_vars, NEW v \in Workers, At(v, "rename"), req'[v] = req[v]
  PROVE  /\ req[v].old \in Live' /\ tag'[req[v].old] = tag[req[v].old]
         /\ \A p \in Peers : <<p, req[v].old>> \in link' => <<p, req[v].old>> \in link
<1> DEFINE x == req[v].old
           Stays == x \in Live' /\ tag'[x] = tag[x]
<1>0. /\ TypeOK /\ x \in Live /\ x \in Tags /\ ~TagFree(x) /\ None \notin Names
      /\ req[v].step = "rename" /\ \A w \in Workers : LocksTag(w, x) => w = v
  BY RenameFacts, NoneAssumption DEF BookInv, RenameInv, TagFree, LocksTag, At
<1> HIDE DEF x
<1>1. CASE UNCHANGED tag /\ link' \subseteq link
  BY <1>0, <1>1, SameTags DEF x
<1>7. ASSUME NEW t \in Live, t # x, tag' = [tag EXCEPT ![t] = None] PROVE Stays
  BY <1>0, <1>7, GoneFacts DEF TypeOK
<1>2. ASSUME NEW w \in Workers, DeleteTag(w) PROVE Stays /\ link' \subseteq link
  <2>1. /\ req[w].old \in Live /\ tag' = [tag EXCEPT ![req[w].old] = None] /\ req[w].old # x
    BY <1>0, <1>2 DEF DeleteTag
  <2> QED BY <1>2, <1>7, <2>1 DEF DeleteTag
<1>3. ASSUME NEW w \in Workers, AddTag(w) PROVE Stays /\ link' \subseteq link
  <2>1. req[w].asked \in SUBSET Names /\ Fill(req[w].asked) /\ link' = link
    BY <1>0, <1>3 DEF AddTag, TypeOK, Transaction
  <2> QED BY <1>0, <2>1, FillFacts
<1>4. ASSUME NEW w \in Workers, WritePeer(w) \/ WriteTags(w)
      PROVE  Stays /\ \A p \in Peers : <<p, x>> \in link' => <<p, x>> \in link
  <2>1. req[w].asked \in SUBSET Names /\ {} \in SUBSET Names
    BY <1>0 DEF TypeOK, Transaction
  <2>2. PICK more \in SUBSET Names : WriteLinks(w, more)
    BY <1>4, <2>1 DEF WritePeer, WriteTags
  <2> QED BY <1>0, <2>2, LinkFacts, FillFacts
<1>5. ASSUME NEW w \in Workers, MergeTag(w)
      PROVE  Stays /\ \A p \in Peers : <<p, x>> \in link' => <<p, x>> \in link
  <2>1. w # v
    BY <1>0, <1>5, Ends DEF MergeTag
  <2>2. req[w].old # x /\ req[w].old \in Live
    BY <1>0, <1>5, <2>1, RenameFacts DEF MergeTag, LocksTag
  <2>3. tag' = [tag EXCEPT ![req[w].old] = None] /\ link' \subseteq link \cup Moved(w)
        /\ \A pt \in Moved(w) : TagFree(pt[2])
    BY <1>5 DEF MergeTag
  <2>4. Stays
    BY <1>7, <2>2, <2>3
  <2> QED BY <1>0, <2>3, <2>4
<1>6. ASSUME NEW w \in Workers, RenameTag(w) PROVE Stays /\ link' \subseteq link
  <2>1. At(w, "rename") /\ w # v
    BY <1>0, <1>6, Ends DEF RenameTag
  <2>2. /\ req[w].old \in Live /\ req[w].old # x
        /\ \E n \in Names : req[w].asked = {n} /\ (CHOOSE m \in req[w].asked : TRUE) = n
    BY <1>0, <2>1, RenameFacts DEF LocksTag
  <2>3. PICK n \in Names : req[w].asked = {n} /\ (CHOOSE m \in req[w].asked : TRUE) = n
    BY <2>2
  <2>4. tag' = [tag EXCEPT ![req[w].old] = n] /\ n \notin Used /\ link' = link
    BY <1>6, <2>3 DEF RenameTag
  <2>5. x \in Live' /\ tag'[x] = tag[x]
    BY <1>0, <2>2, <2>4, RenamedFacts DEF TypeOK
  <2> QED BY <2>4, <2>5
<1>8. UNCHANGED <<peer, tag, link, removed>> => UNCHANGED tag /\ link' \subseteq link
  OBVIOUS
<1>9. ASSUME NEW w \in Workers, EnsurePeer(w) \/ DeletePeers(w) \/ Rollback(w)
      PROVE  UNCHANGED tag /\ link' \subseteq link
  BY <1>9 DEF EnsurePeer, DeletePeers, Rollback
<1>10. (Stays /\ link' \subseteq link)
         => Stays /\ \A p \in Peers : <<p, x>> \in link' => <<p, x>> \in link
  OBVIOUS
<1> QED
  BY <1>1, <1>2, <1>3, <1>4, <1>5, <1>6, <1>8, <1>9, <1>10, BookSteps DEF x

\* While a worker has the lock of the book, no machine or tag is added, the
\* machines it has locked stay, and the names that go are recorded.
LEMMA LockedBook ==
  ASSUME BookInv, [Next]_vars, NEW v \in Workers, HasBook(v), req'[v] = req[v]
  PROVE  /\ peer' \subseteq peer /\ Live' \subseteq Live
         /\ \A p \in Peers : LocksPeer(v, p) => p \in peer'
         /\ At(v, "bulk") => Used \subseteq Used' \cup removed' /\ removed \subseteq removed'
<1>0. /\ TypeOK /\ ~BookFree /\ req[v].step # "idle"
      /\ \A w \in Workers : HasBook(w) => w = v
      /\ \A p \in Peers : LocksPeer(v, p) => p \in peer /\ ~PeerFree(p)
  BY DEF BookInv, BookExclusive, BookFree, HasBook, At, LocksPeer, PeerFree
<1>1. CASE UNCHANGED <<peer, tag, removed>>
  BY <1>0, <1>1, SameTags
<1>2. ASSUME NEW w \in Workers, EnsurePeer(w) PROVE FALSE
  BY <1>0, <1>2 DEF EnsurePeer
<1>3. ASSUME NEW w \in Workers, DeletePeers(w)
      PROVE  /\ peer' = peer \ req[w].peers /\ UNCHANGED <<tag, removed>>
             /\ \A p \in req[w].peers : ~LocksPeer(v, p)
  BY <1>0, <1>3 DEF DeletePeers, PeerFree
<1>4. ASSUME NEW t \in Live, tag' = [tag EXCEPT ![t] = None], NEW web \in BOOLEAN,
             Removes(web, {tag[t]}), ~web \/ ~At(v, "bulk"), peer' = peer
      PROVE  /\ Live' \subseteq Live
             /\ At(v, "bulk") => Used \subseteq Used' \cup removed' /\ removed \subseteq removed'
  <2>1. Live' \subseteq Live /\ Used \subseteq Used' \cup {tag[t]}
    BY <1>0, <1>4, GoneFacts
  <2>2. At(v, "bulk") => removed' = removed \cup {tag[t]}
    BY <1>4 DEF Removes
  <2> QED BY <2>1, <2>2
<1>5. ASSUME NEW w \in Workers, DeleteTag(w)
      PROVE  /\ peer' = peer /\ Live' \subseteq Live
             /\ At(v, "bulk") => Used \subseteq Used' \cup removed' /\ removed \subseteq removed'
  <2>1. At(w, "untag") /\ Goto(w, Idle)
    BY <1>5 DEF DeleteTag
  <2>2. w # v
    BY <1>0, <2>1, Ends
  <2>3. ~req[w].web /\ req[w].web \in BOOLEAN
    BY <1>0, <2>1, <2>2 DEF HasBook, TypeOK, Transaction
  <2>4. /\ req[w].old \in Live /\ tag' = [tag EXCEPT ![req[w].old] = None]
        /\ Removes(req[w].web, {tag[req[w].old]}) /\ peer' = peer
    BY <1>5 DEF DeleteTag
  <2> QED BY <1>4, <2>3, <2>4
<1>6. ASSUME NEW w \in Workers, AddTag(w) \/ WritePeer(w) \/ WriteTags(w) PROVE FALSE
  <2>1. HasBook(w) /\ Goto(w, Idle)
    BY <1>6 DEF AddTag, WritePeer, WriteTags, WriteLinks, HasBook
  <2> QED BY <1>0, <2>1, Ends
<1>7. ASSUME NEW w \in Workers, MergeTag(w)
      PROVE  /\ peer' = peer /\ Live' \subseteq Live
             /\ At(v, "bulk") => Used \subseteq Used' \cup removed' /\ removed \subseteq removed'
  <2>1. At(w, "rename") /\ Goto(w, Idle)
    BY <1>7 DEF MergeTag
  <2>2. w # v
    BY <1>0, <2>1, Ends
  <2>3. ~req[w].web
    BY <1>0, <2>1, <2>2 DEF HasBook
  <2>4. req[w].old \in Live /\ req[w].web \in BOOLEAN
    BY <2>1, RenameFacts
  <2>5. tag' = [tag EXCEPT ![req[w].old] = None] /\ Removes(req[w].web, {tag[req[w].old]})
        /\ peer' = peer
    BY <1>7 DEF MergeTag
  <2> QED BY <1>4, <2>3, <2>4, <2>5
<1>8. ASSUME NEW w \in Workers, RenameTag(w)
      PROVE  /\ peer' = peer /\ Live' \subseteq Live
             /\ At(v, "bulk") => Used \subseteq Used' \cup removed' /\ removed \subseteq removed'
  <2>1. At(w, "rename") /\ Goto(w, Idle)
    BY <1>8 DEF RenameTag
  <2>2. w # v
    BY <1>0, <2>1, Ends
  <2>3. ~req[w].web
    BY <1>0, <2>1, <2>2 DEF HasBook
  <2>4. /\ req[w].old \in Live
        /\ \E n \in Names : req[w].asked = {n} /\ (CHOOSE m \in req[w].asked : TRUE) = n
    BY <2>1, RenameFacts
  <2>5. PICK n \in Names : req[w].asked = {n} /\ (CHOOSE m \in req[w].asked : TRUE) = n
    BY <2>4
  <2>6. /\ tag' = [tag EXCEPT ![req[w].old] = n] /\ Removes(req[w].web, {tag[req[w].old]})
        /\ n \notin Used /\ peer' = peer
    BY <1>8, <2>5 DEF RenameTag
  <2>7. Live' = Live /\ Used \subseteq Used' \cup {tag[req[w].old]}
    BY <1>0, <2>4, <2>6, RenamedFacts
  <2>8. At(v, "bulk") => removed' = removed \cup {tag[req[w].old]}
    BY <2>3, <2>6 DEF Removes
  <2> QED BY <2>6, <2>7, <2>8
<1>9. ASSUME NEW w \in Workers, Rollback(w)
      PROVE  UNCHANGED <<peer, tag>> /\ (At(v, "bulk") => removed' = removed)
  <2>1. w # v
    BY <1>0, <1>9, Ends DEF Rollback
  <2>2. At(v, "bulk") => ~At(w, "bulk")
    BY <1>0, <2>1 DEF HasBook
  <2> QED BY <1>9, <2>2 DEF Rollback
<1>10. UNCHANGED tag => Live' = Live /\ Used' = Used
  BY <1>0, SameTags
<1>11. ASSUME peer' = peer PROVE \A p \in Peers : LocksPeer(v, p) => p \in peer'
  BY <1>0, <1>11
<1> QED
  BY <1>0, <1>1, <1>2, <1>3, <1>5, <1>6, <1>7, <1>8, <1>9, <1>10, <1>11, BookSteps

\* What ReadRename notes of the tag and its machines.
LEMMA ReadRenameFacts ==
  ASSUME BookInv, NEW w \in Workers, NEW t \in Tags, NEW n \in Names, NEW web \in BOOLEAN,
         ReadRename(w, t, n, web)
  PROVE  /\ req'[w].old = t /\ req'[w].asked = {n} /\ req'[w].target # t
         /\ req'[w].peers = {p \in peer : <<p, t>> \in link}
         /\ t \in Live /\ tag[t] \in Plain /\ TagFree(t)
         /\ UNCHANGED <<peer, tag, link, removed>>
         /\ \A v \in Workers : v # w => req'[v] = req[v]
<1> DEFINE s == IF Named({n}) = {} THEN None ELSE CHOOSE s \in Named({n}) : TRUE
           P == {p \in peer : <<p, t>> \in link}
<1>1. s # t
  BY NoneAssumption DEF Named, ReadRename, Live
<1> HIDE DEF s, P
<1>2. /\ req' = [req EXCEPT ![w] = [Idle EXCEPT !.step = "rename", !.old = t, !.asked = {n},
                                    !.web = web, !.target = s, !.peers = P]]
  BY DEF ReadRename, Begin, Goto, s, P
<1>3. /\ req'[w].old = t /\ req'[w].asked = {n} /\ req'[w].target = s /\ req'[w].peers = P
      /\ \A v \in Workers : v # w => req'[v] = req[v]
  BY <1>2, IdleType DEF BookInv, TypeOK, Transaction
<1> QED BY <1>1, <1>3 DEF ReadRename, P

LEMMA BookInit == Init => BookInv
<1> SUFFICES ASSUME Init PROVE BookInv
  OBVIOUS
<1>1. \A w \in Workers : req[w].step = "idle"
  BY IdleType DEF Init
<1>2. Live = {}
  BY DEF Init, Live
<1>3. TypeOK
  BY <1>2, IdleType DEF Init, TypeOK, MaybeIn
<1> QED
  BY <1>1, <1>3 DEF BookInv, BookExclusive, RenameInv, BulkInv, CheckInv, HasBook, At

LEMMA RenameNext == BookInv /\ [Next]_vars => RenameInv'
<1> SUFFICES ASSUME BookInv, [Next]_vars, NEW v \in Workers, At(v, "rename")'
             PROVE  /\ (req[v].old \in Live /\ tag[req[v].old] \in Plain)'
                    /\ (req[v].target # req[v].old)'
                    /\ \E n \in Names : (req[v].asked = {n})'
                    /\ \A u \in Workers : LocksTag(u, req[v].old)' => u = v
                    /\ ({p \in Peers : <<p, req[v].old>> \in link} \subseteq req[v].peers)'
  BY DEF RenameInv
<1>1. CASE req'[v] = req[v]
  <2>1. /\ At(v, "rename") /\ req[v].target # req[v].old /\ tag[req[v].old] \in Plain
        /\ \E n \in Names : req[v].asked = {n}
        /\ \A u \in Workers : LocksTag(u, req[v].old) => u = v
        /\ {p \in Peers : <<p, req[v].old>> \in link} \subseteq req[v].peers
    BY <1>1 DEF BookInv, RenameInv, At
  <2>2. /\ req[v].old \in Live' /\ tag'[req[v].old] = tag[req[v].old]
        /\ \A p \in Peers : <<p, req[v].old>> \in link' => <<p, req[v].old>> \in link
    BY <1>1, <2>1, LockedTag
  <2>3. ASSUME NEW u \in Workers, LocksTag(u, req[v].old)', u # v PROVE FALSE
    <3>1. req'[u] # req[u]
      BY <1>1, <2>1, <2>3 DEF LocksTag, At
    <3>2. Begins(u)
      BY <3>1, ChangedBegins
    <3>3. PICK t \in Tags, n \in Names, web \in BOOLEAN : ReadRename(u, t, n, web)
      BY <2>3, <3>2 DEF Begins, LocksTag
    <3>4. req'[u].old = t /\ TagFree(t)
      BY <3>3, ReadRenameFacts
    <3> QED BY <1>1, <2>1, <2>3, <3>4 DEF TagFree, LocksTag
  <2>4. \A u \in Workers : LocksTag(u, req[v].old)' => u = v
    BY <1>1, <2>3 DEF LocksTag, At
  <2> QED BY <1>1, <2>1, <2>2, <2>4
<1>2. CASE req'[v] # req[v]
  <2>1. Begins(v)
    BY <1>2, ChangedBegins
  <2>2. PICK t \in Tags, n \in Names, web \in BOOLEAN : ReadRename(v, t, n, web)
    BY <2>1 DEF Begins
  <2>3. /\ req'[v].old = t /\ req'[v].asked = {n} /\ req'[v].target # t
        /\ req'[v].peers = {p \in peer : <<p, t>> \in link}
        /\ t \in Live /\ tag[t] \in Plain /\ TagFree(t) /\ UNCHANGED <<tag, link>>
        /\ \A u \in Workers : u # v => req'[u] = req[u]
    BY <2>2, ReadRenameFacts
  <2>4. t \in Live'
    BY <2>3, SameTags DEF BookInv
  <2>5. \A u \in Workers : LocksTag(u, req[v].old)' => u = v
    BY <2>3 DEF TagFree, LocksTag, At
  <2>6. {p \in Peers : <<p, t>> \in link} \subseteq req'[v].peers
    BY <2>3 DEF BookInv, TypeOK
  <2> QED BY <2>3, <2>4, <2>5, <2>6
<1> QED BY <1>1, <1>2

LEMMA BulkNext == BookInv /\ [Next]_vars => BulkInv' /\ CheckInv'
<1> SUFFICES ASSUME BookInv, [Next]_vars, NEW v \in Workers
             PROVE  /\ At(v, "bulk")' => (req[v].peers \subseteq peer)'
                    /\ At(v, "check")' => (~req[v].counted)'
  BY DEF BulkInv, CheckInv
<1>0. req \in [Workers -> Transaction]
  BY DEF BookInv, TypeOK
<1>1. CASE req'[v] = req[v]
  <2>1. ASSUME At(v, "bulk") PROVE req[v].peers \subseteq peer'
    <3>1. HasBook(v) /\ \A p \in req[v].peers : LocksPeer(v, p) /\ p \in Peers
      BY <1>0, <2>1 DEF HasBook, LocksPeer, BookInv, BulkInv, Transaction
    <3> QED BY <1>1, <3>1, LockedBook
  <2>2. (At(v, "bulk")' => At(v, "bulk")) /\ (At(v, "check")' => At(v, "check"))
    BY <1>1 DEF At
  <2>3. At(v, "check") => ~req[v].counted
    BY DEF BookInv, CheckInv
  <2> QED BY <1>1, <2>1, <2>2, <2>3
<1>2. CASE req'[v] # req[v]
  <2>1. Begins(v)
    BY <1>2, ChangedBegins
  <2>2. ASSUME At(v, "bulk")' PROVE req'[v].peers \subseteq peer'
    <3>1. PICK P \in SUBSET Peers, op \in {"add", "remove", "replace"}, S \in Requests :
            ReadTags(v, P, op, S)
      BY <2>1, <2>2 DEF Begins
    <3> DEFINE want == [p \in Peers |-> IF p \in P THEN Changed(p, op, S) ELSE {}]
    <3> HIDE DEF want
    <3>2. /\ req' = [req EXCEPT ![v] = [Idle EXCEPT !.step = "bulk", !.peers = P, !.asked = S,
                                                    !.want = want]]
          /\ P \subseteq peer /\ peer' = peer
      BY <3>1 DEF ReadTags, Begin, Goto, want
    <3>3. req'[v].peers = P
      BY <1>0, <3>2, IdleType DEF Transaction
    <3> QED BY <3>2, <3>3
  <2> QED BY <2>1, <2>2 DEF Begins
<1> QED BY <1>1, <1>2

LEMMA BookNext == BookInv /\ [Next]_vars => BookInv'
BY TypeNext, ExclusiveNext, RenameNext, BulkNext DEF BookInv

THEOREM BookHolds == Spec => []BookInv
BY BookInit, BookNext, PTL DEF Spec

\* Types: what a book refers to exists, and no two of its tags share a name,
\* however the transactions interleave.
THEOREM TypeCorrect == Spec => []TypeOK
<1>1. BookInv => TypeOK
  BY DEF BookInv
<1> QED BY <1>1, BookHolds, PTL

\* Two of these transactions wait for each other only if one renames a tag
\* through the API, deletes a machine or inserts a device, none of which
\* takes the lock of the book, or one renames the tag that the other deletes
\* through the API.
THEOREM CirclesCorrect == Spec => []CirclesNeedUnlocked
<1>1. BookInv => CirclesNeedUnlocked
  <2> DEFINE Alone(x) == \/ At(x, "rename") /\ ~req[x].web
                         \/ At(x, "drop") \/ At(x, "ensure")
             Untags(x) == At(x, "untag") /\ ~req[x].web
  <2> SUFFICES ASSUME BookInv, NEW v \in Workers, NEW w \in Workers,
                      WaitsFor(v, w), WaitsFor(w, v), ~Alone(v), ~Alone(w)
               PROVE  \E x, y \in {v, w} :
                        At(x, "rename") /\ Untags(y) /\ req[y].old = req[x].old
    BY DEF CirclesNeedUnlocked
  <2>1. ASSUME NEW x \in Workers, NEW y \in Workers, WaitsFor(x, y), ~Alone(x)
        PROVE  HasBook(x) \/ Untags(x)
    BY <2>1 DEF WaitsFor, HasBook
  <2>2. ASSUME NEW x \in Workers, NEW y \in Workers, WaitsFor(x, y), Untags(x)
        PROVE  At(y, "rename") /\ req[x].old = req[y].old
    BY <2>2 DEF WaitsFor, LocksTag, At
  <2>3. CASE Untags(v) \/ Untags(w)
    BY <2>2, <2>3
  <2>4. CASE HasBook(v) /\ HasBook(w)
    <3>1. v = w
      BY <2>4 DEF BookInv, BookExclusive
    <3>2. ~(At(v, "peer") \/ At(v, "bulk") \/ At(v, "untag"))
      BY <3>1 DEF WaitsFor, LocksTag, Unlinked, Inserts, At
    <3>3. At(v, "rename")
      BY <3>1, <3>2 DEF WaitsFor
    <3>4. PICK pt \in Moved(v) : LocksPeer(v, pt[1]) \/ LocksTag(v, pt[2])
      BY <3>1, <3>3 DEF WaitsFor, Unlinked, At
    <3>5. req[v].old # req[v].target /\ ~LocksPeer(v, pt[1])
      BY <3>3 DEF BookInv, RenameInv, LocksPeer, At
    <3> QED BY <3>4, <3>5 DEF Moved, LocksTag
  <2> QED BY <2>1, <2>3, <2>4
<1> QED BY <1>1, BookHolds, PTL

-----------------------------------------------------------------------------
(* The limit on tags                                                       *)

\* Tags of different names are as many as their names.
LEMMA AsManyNames ==
  ASSUME NEW T, NEW f, IsFiniteSet({f[t] : t \in T}),
         \A s, t \in T : f[s] = f[t] => s = t
  PROVE  IsFiniteSet(T) /\ Cardinality(T) <= Cardinality({f[t] : t \in T})
<1> DEFINE S == {f[t] : t \in T}
           g == [t \in T |-> f[t]]
<1>1. g \in Injection(T, S)
  BY DEF Injection, IsInjective
<1> HIDE DEF g, S
<1>2. IsFiniteSet(S)
  BY DEF S
<1>3. IsFiniteSet(T) /\ Cardinality(T) <= Cardinality(S)
  BY <1>1, <1>2, FS_Injection
<1> QED BY <1>3 DEF S

LEMMA LiveFinite ==
  /\ IsFiniteSet(Live) /\ Cardinality(Live) \in Nat
  /\ IsFiniteSet(Live') /\ Cardinality(Live') \in Nat
<1>1. Live \in SUBSET Tags /\ Live' \in SUBSET Tags
  BY DEF Live
<1> QED BY <1>1, FiniteAssumption, FS_Subset, FS_CardinalityType

LEMMA LiveFewer ==
  ASSUME Live' \subseteq Live
  PROVE  Cardinality(Live') <= Cardinality(Live)
BY LiveFinite, FS_Subset

LEMMA UsedFinite ==
  ASSUME TypeOK, NEW S \in SUBSET Names
  PROVE  IsFiniteSet(Used \cup S) /\ Cardinality(Used \cup S) \in Nat
<1>1. Used \cup S \in SUBSET Names
  BY LiveType
<1> HIDE DEF Used
<1> QED BY <1>1, FiniteAssumption, FS_Subset, FS_CardinalityType

\* One name more is at most one tag more.
LEMMA OneTagMore ==
  ASSUME TypeOK, NEW n \in Names, Fill({n})
  PROVE  Cardinality(Live') <= Cardinality(Live) + 1
<1>1. /\ \A t \in Live : tag'[t] = tag[t]
      /\ Used' = Used \cup {n}
      /\ \A s, t \in Live' : tag'[s] = tag'[t] => s = t
      /\ Live \subseteq Live'
  <2>1. {n} \in SUBSET Names
    OBVIOUS
  <2> QED BY <2>1, FillFacts
<1>2. ASSUME NEW k \in Live', k \notin Live PROVE tag'[k] = n
  <2>1. tag'[k] \in Used \cup {n}
    BY <1>1 DEF Used
  <2>2. tag'[k] \notin Used
    <3>1. ASSUME NEW t \in Live, tag'[k] = tag[t] PROVE FALSE
      BY <1>1, <1>2, <3>1
    <3> QED BY <3>1 DEF Used
  <2> QED BY <2>1, <2>2
<1>3. CASE Live' \subseteq Live
  BY <1>3, LiveFewer, LiveFinite
<1>4. ASSUME NEW k \in Live', k \notin Live PROVE Cardinality(Live') <= Cardinality(Live) + 1
  <2>1. Live' \in SUBSET (Live \cup {k})
    BY <1>1, <1>2, <1>4
  <2>2. /\ IsFiniteSet(Live \cup {k})
        /\ Cardinality(Live \cup {k}) = Cardinality(Live) + 1
    BY <1>4, LiveFinite, FS_AddElement
  <2> QED BY <2>1, <2>2, FS_Subset
<1> QED BY <1>3, <1>4

\* Names within the limit are tags within the limit.
LEMMA FitsTags ==
  ASSUME TypeOK, NEW S \in SUBSET Names, Fill(S), Fits(S)
  PROVE  Cardinality(Live') <= MaxTags
<1>1. Used' = Used \cup S /\ \A s, t \in Live' : tag'[s] = tag'[t] => s = t
  BY FillFacts
<1>2. IsFiniteSet(Used \cup S) /\ Cardinality(Used \cup S) \in Nat
  BY UsedFinite
<1>3. Used' = {tag'[t] : t \in Live'}
  BY DEF Used
<1>4. Cardinality(Live') <= Cardinality(Used')
  BY <1>1, <1>2, <1>3, AsManyNames
<1> QED BY <1>1, <1>2, <1>4, LiveFinite, LimitsAssumption DEF Fits

TagsInv == TagInv /\ AskedInv /\ TagsBounded

LEMMA TagInvNext == BookInv /\ TagInv /\ [Next]_vars => TagInv'
<1> SUFFICES ASSUME BookInv, TagInv, [Next]_vars, NEW v \in Workers, At(v, "tag")'
             PROVE  /\ \E n \in Names : req'[v].asked = {n}
                    /\ Cardinality(Live') < MaxTags
  BY DEF TagInv
<1>1. CASE req'[v] = req[v]
  <2>1. At(v, "tag") /\ HasBook(v)
    BY <1>1 DEF At, HasBook
  <2>2. Live' \subseteq Live
    BY <1>1, <2>1, LockedBook
  <2> QED BY <1>1, <2>1, <2>2, LiveFewer, LiveFinite, LimitsAssumption DEF TagInv
<1>2. CASE req'[v] # req[v]
  <2>1. Begins(v)
    BY <1>2, ChangedBegins
  <2>2. PICK n \in Names : CountTags(v, n)
    BY <2>1 DEF Begins
  <2>3. /\ req' = [req EXCEPT ![v] = [Idle EXCEPT !.step = "tag", !.asked = {n}]]
        /\ tag' = tag /\ Cardinality(Used) < MaxTags
    BY <2>2 DEF CountTags, Begin, Goto
  <2>4. req'[v].asked = {n}
    BY <2>3, IdleType DEF BookInv, TypeOK, Transaction
  <2>5. Live' = Live /\ Used = {tag[t] : t \in Live} /\ \A s, t \in Live : tag[s] = tag[t] => s = t
    BY <2>3, SameTags DEF BookInv, TypeOK, Used
  <2>6. Used \cup {} = Used /\ {} \in SUBSET Names /\ TypeOK
    BY DEF BookInv
  <2>7. IsFiniteSet(Used) /\ Cardinality(Used) \in Nat
    BY <2>6, UsedFinite
  <2>8. Cardinality(Live) <= Cardinality(Used)
    BY <2>5, <2>7, AsManyNames
  <2> QED BY <2>3, <2>4, <2>5, <2>7, <2>8, LiveFinite, LimitsAssumption
<1> QED BY <1>1, <1>2

LEMMA AskedNext == BookInv /\ AskedInv /\ [Next]_vars => AskedInv'
<1> SUFFICES ASSUME BookInv, AskedInv, [Next]_vars, NEW v \in Workers,
                    (At(v, "check") \/ At(v, "count") \/ At(v, "peer"))'
             PROVE  Asks(req'[v])
  BY DEF AskedInv
<1>1. CASE req'[v] = req[v]
  BY <1>1 DEF AskedInv, At
<1>2. CASE req'[v] # req[v]
  <2>1. Begins(v)
    BY <1>2, ChangedBegins
  <2>2. CASE Locks(v)
    <3>1. /\ req'[v].asked = req[v].asked /\ req'[v].peers = req[v].peers
          /\ req'[v].want = req[v].want
      BY <2>2 DEF Locks, BookInv, TypeOK, Transaction
    <3>2. Asks(req[v])
      BY <2>2 DEF Locks, AskedInv
    <3> QED BY <3>1, <3>2 DEF Asks
  <2> QED BY <2>1, <2>2 DEF Begins
<1> QED BY <1>1, <1>2

\* A machine and its tags are within the limit, or the tag that is not
\* counted is the one beyond it.
LEMMA FiledTags ==
  ASSUME BookInv, AskedInv, NEW w \in Workers, At(w, "peer"), WriteLinks(w, req[w].asked)
  PROVE  TagsBounded'
<1>0. TypeOK /\ req[w].asked \in SUBSET Names /\ Asks(req[w])
  BY DEF BookInv, TypeOK, Transaction, AskedInv
<1>1. /\ Wanted(w) \in SUBSET Names /\ Fits(Wanted(w))
      /\ Wanted(w) \cup req[w].asked \in SUBSET Names /\ Fill(Wanted(w) \cup req[w].asked)
  BY <1>0, LinkFacts
<1>2. CASE req[w].asked \subseteq Wanted(w)
  <2>1. Wanted(w) \cup req[w].asked = Wanted(w)
    BY <1>2
  <2>2. Cardinality(Live') <= MaxTags
    BY <1>0, <1>1, <2>1, FitsTags
  <2> QED BY <2>2 DEF TagsBounded
<1>3. CASE ~(req[w].asked \subseteq Wanted(w))
  <2>1. PICK n \in Names \ Plain : req[w].asked \subseteq Wanted(w) \cup {n}
    BY <1>0, <1>3 DEF Asks, Wanted
  <2>2. Wanted(w) \cup req[w].asked = Wanted(w) \cup {n}
    BY <1>3, <2>1
  <2>3. Used' = (Used \cup Wanted(w)) \cup {n} /\ \A s, t \in Live' : tag'[s] = tag'[t] => s = t
    BY <1>0, <1>1, <2>2, FillFacts
  <2>4. IsFiniteSet(Used \cup Wanted(w)) /\ Cardinality(Used \cup Wanted(w)) \in Nat
    BY <1>0, <1>1, UsedFinite
  <2>5. /\ IsFiniteSet(Used') /\ Cardinality(Used') \in Nat
        /\ Cardinality(Used') <= Cardinality(Used \cup Wanted(w)) + 1
    <3>1. /\ IsFiniteSet((Used \cup Wanted(w)) \cup {n})
          /\ Cardinality((Used \cup Wanted(w)) \cup {n})
               = IF n \in Used \cup Wanted(w) THEN Cardinality(Used \cup Wanted(w))
                                             ELSE Cardinality(Used \cup Wanted(w)) + 1
      BY <2>4, FS_AddElement
    <3> QED BY <2>3, <2>4, <3>1
  <2>6. Cardinality(Live') <= Cardinality(Used')
    <3>1. Used' = {tag'[t] : t \in Live'}
      BY DEF Used
    <3> QED BY <2>3, <2>5, <3>1, AsManyNames
  <2>7. Cardinality(Live') <= MaxTags + 1
    BY <1>1, <2>4, <2>5, <2>6, LiveFinite, LimitsAssumption DEF Fits
  <2>8. Named(Names \ Plain)' # {}
    BY <2>1, <2>3 DEF Used, Named
  <2> QED BY <2>7, <2>8, LiveFinite, LimitsAssumption DEF TagsBounded
<1> QED BY <1>2, <1>3

LEMMA TagsBoundedNext == BookInv /\ TagsInv /\ [Next]_vars => TagsBounded'
<1> SUFFICES ASSUME BookInv, TagsInv, [Next]_vars PROVE TagsBounded'
  OBVIOUS
<1>0. TypeOK /\ TagsBounded /\ AskedInv
  BY DEF BookInv, TagsInv
<1>1. CASE UNCHANGED tag
  BY <1>0, <1>1, SameTags DEF TagsBounded, Named
<1>3. ASSUME NEW w \in Workers, AddTag(w) PROVE Cardinality(Live') <= MaxTags
  <2>1. PICK n \in Names : req[w].asked = {n}
    BY <1>3 DEF AddTag, TagsInv, TagInv
  <2>2. Fill({n}) /\ Cardinality(Live) < MaxTags
    BY <1>3, <2>1 DEF AddTag, TagsInv, TagInv
  <2> QED BY <1>0, <2>2, OneTagMore, LiveFinite, LimitsAssumption
<1>4. ASSUME NEW w \in Workers, WriteTags(w) PROVE Cardinality(Live') <= MaxTags
  <2>1. Wanted(w) \cup {} = Wanted(w) /\ {} \in SUBSET Names
    OBVIOUS
  <2> QED BY <1>0, <1>4, <2>1, LinkFacts, FitsTags DEF WriteTags
<1>5. ASSUME NEW t \in Live, tag' = [tag EXCEPT ![t] = None] PROVE TagsBounded'
  <2>1. Live' = Live \ {t}
    BY <1>0, <1>5, GoneFacts
  <2>2. Cardinality(Live') = Cardinality(Live) - 1
    BY <2>1, LiveFinite, FS_RemoveElement
  <2> QED BY <1>0, <2>2, LiveFinite, LimitsAssumption DEF TagsBounded
<1>6. ASSUME NEW w \in Workers, RenameTag(w) PROVE TagsBounded'
  <2>1. At(w, "rename")
    BY <1>6 DEF RenameTag
  <2>2. /\ req[w].old \in Live /\ tag[req[w].old] \in Plain
        /\ \E n \in Names : req[w].asked = {n} /\ (CHOOSE m \in req[w].asked : TRUE) = n
    BY <2>1, RenameFacts DEF BookInv, RenameInv
  <2>3. PICK n \in Names : req[w].asked = {n} /\ (CHOOSE m \in req[w].asked : TRUE) = n
    BY <2>2
  <2>4. tag' = [tag EXCEPT ![req[w].old] = n] /\ n \notin Used
    BY <1>6, <2>3 DEF RenameTag
  <2>5. Live' = Live
    BY <1>0, <2>2, <2>4, RenamedFacts
  <2>6. Named(Names \ Plain) \subseteq Named(Names \ Plain)'
    BY <1>0, <2>2, <2>4, <2>5 DEF Named, TypeOK, Live
  <2> QED BY <1>0, <2>5, <2>6 DEF TagsBounded
<1>7. ASSUME NEW w \in Workers, MergeTag(w) \/ DeleteTag(w) PROVE TagsBounded'
  BY <1>5, <1>7, RenameFacts DEF MergeTag, DeleteTag
<1>8. ASSUME NEW w \in Workers, WritePeer(w) PROVE TagsBounded'
  BY <1>0, <1>8, FiledTags DEF WritePeer
<1>9. ASSUME NEW w \in Workers, EnsurePeer(w) \/ DeletePeers(w) \/ Rollback(w) PROVE UNCHANGED tag
  BY <1>9 DEF EnsurePeer, DeletePeers, Rollback
<1>10. Cardinality(Live') <= MaxTags => TagsBounded'
  BY DEF TagsBounded
<1> QED
  BY <1>1, <1>3, <1>4, <1>6, <1>7, <1>8, <1>9, <1>10, BookSteps

\* Through every way to add, rename and merge tags, a book has at most
\* MAX_AB_TAGS of them, or one more when a device's tag was sent with white
\* space around it.
THEOREM TagsCorrect == Spec => []TagsBounded
<1>1. Init => TagsInv
  <2> SUFFICES ASSUME Init PROVE TagsInv
    OBVIOUS
  <2>1. Live = {}
    BY DEF Init, Live
  <2>2. \A w \in Workers : req[w].step = "idle"
    BY IdleType DEF Init
  <2>3. Cardinality(Live) = 0
    BY <2>1, FS_EmptySet
  <2> QED BY <2>2, <2>3, LimitsAssumption DEF TagsInv, TagInv, AskedInv, TagsBounded, At
<1>2. BookInv /\ TagsInv /\ [Next]_vars => TagsInv'
  BY TagInvNext, AskedNext, TagsBoundedNext DEF TagsInv
<1>3. TagsInv => TagsBounded
  BY DEF TagsInv
<1> QED BY <1>1, <1>2, <1>3, BookHolds, PTL DEF Spec

-----------------------------------------------------------------------------
(* The limit on counted machines                                           *)

LEMMA PeersFinite ==
  ASSUME BookInv
  PROVE  IsFiniteSet(peer) /\ Cardinality(peer) \in Nat
BY FiniteAssumption, FS_Subset, FS_CardinalityType DEF BookInv, TypeOK

\* A step that leaves a worker in its transaction leaves the book alone.
LEMMA LocksStep ==
  ASSUME BookInv, [Next]_vars, NEW v \in Workers, req'[v] # req[v], Locks(v)
  PROVE  peer' = peer
<1>1. req'[v].step = "peer"
  BY DEF Locks, BookInv, TypeOK, Transaction
<1>2. ASSUME NEW w \in Workers, Goto(w, Idle) PROVE FALSE
  <2>1. req'[w].step = "idle"
    BY <1>2, Ends
  <2>2. w # v => req'[v] = req[v]
    BY <1>2 DEF Goto, BookInv, TypeOK
  <2> QED BY <1>1, <2>1, <2>2
<1> QED
  BY <1>2, BookSteps
  DEF AddTag, WritePeer, EnsurePeer, WriteTags, WriteLinks, MergeTag, RenameTag, DeleteTag,
      DeletePeers, Rollback

LEMMA CountedNext == BookInv /\ CountedInv /\ [Next]_vars => CountedInv'
<1> SUFFICES ASSUME BookInv, CountedInv, [Next]_vars, NEW v \in Workers,
                    (At(v, "count") \/ At(v, "peer"))', req'[v].counted
             PROVE  (\E p \in Peers : req'[v].peers = {p}) /\ Cardinality(peer') < MaxPeers
  BY DEF CountedInv
<1>0. IsFiniteSet(peer) /\ Cardinality(peer) \in Nat
  BY PeersFinite
<1>1. CASE req'[v] = req[v]
  <2>1. (At(v, "count") \/ At(v, "peer")) /\ HasBook(v)
    BY <1>1 DEF At, HasBook
  <2>2. (\E p \in Peers : req[v].peers = {p}) /\ Cardinality(peer) < MaxPeers
    BY <1>1, <2>1 DEF CountedInv
  <2>3. peer' \subseteq peer
    BY <1>1, <2>1, LockedBook
  <2>4. IsFiniteSet(peer') /\ Cardinality(peer') \in Nat /\ Cardinality(peer') <= Cardinality(peer)
    BY <1>0, <2>3, FS_Subset, FS_CardinalityType
  <2> QED BY <1>0, <1>1, <2>2, <2>4, LimitsAssumption
<1>2. CASE req'[v] # req[v]
  <2>1. Begins(v)
    BY <1>2, ChangedBegins
  <2>2. CASE Locks(v)
    <3>1. /\ req'[v].peers = req[v].peers /\ req'[v].counted = req[v].counted
          /\ req'[v].step = "peer"
      BY <2>2 DEF Locks, BookInv, TypeOK, Transaction
    <3>2. At(v, "count")
      BY <2>2, <3>1 DEF Locks, BookInv, CheckInv
    <3>3. peer' = peer
      BY <1>2, <2>2, LocksStep
    <3> QED BY <3>1, <3>2, <3>3 DEF CountedInv
  <2>3. CASE At(v, "count")'
    <3>1. PICK p \in Peers, S \in Requests : CountPeers(v, p, S)
      BY <2>1, <2>3 DEF Begins
    <3>2. Machine(p, S) \in Transaction /\ Machine(p, S).peers = {p}
      BY MachineType DEF Requests, Plain
    <3>3. /\ req' = [req EXCEPT ![v] = [Machine(p, S) EXCEPT !.step = "count",
                                                              !.counted = p \notin peer]]
          /\ peer' = peer /\ (p \in peer \/ Cardinality(peer) < MaxPeers)
      BY <3>1 DEF CountPeers, Begin, Goto
    <3>4. req'[v].peers = {p} /\ req'[v].counted = (p \notin peer)
      BY <3>2, <3>3 DEF BookInv, TypeOK, Transaction
    <3> QED BY <3>3, <3>4
  <2> QED BY <2>1, <2>2, <2>3 DEF Begins
<1> QED BY <1>1, <1>2

\* A request that found no such machine and counted the others never adds one
\* to a full book.
THEOREM PeersCorrect == Spec => PeersBounded
<1>1. Init => CountedInv
  <2> SUFFICES ASSUME Init PROVE CountedInv
    OBVIOUS
  <2>1. \A w \in Workers : req[w].step = "idle"
    BY IdleType DEF Init
  <2> QED BY <2>1 DEF CountedInv, At
<1>2. BookInv /\ CountedInv /\ [Next]_vars =>
        \A w \in Workers :
          At(w, "peer") /\ req[w].counted /\ req'[w] # req[w] /\ ~(peer' \subseteq peer)
          => Cardinality(peer') <= MaxPeers
  <2> SUFFICES ASSUME BookInv, CountedInv, [Next]_vars, NEW w \in Workers,
                      At(w, "peer"), req[w].counted, req'[w] # req[w], ~(peer' \subseteq peer)
               PROVE  Cardinality(peer') <= MaxPeers
    OBVIOUS
  <2>1. WritePeer(w)
    <3>1. ASSUME NEW v \in Workers, EnsurePeer(v) PROVE FALSE
      BY <3>1 DEF EnsurePeer, BookFree, HasBook
    <3>2. ASSUME NEW v \in Workers, WritePeer(v) PROVE v = w
      BY <3>2 DEF WritePeer, BookInv, BookExclusive, HasBook
    <3>3. ASSUME NEW v \in Workers,
                 \/ AddTag(v) \/ WriteTags(v) \/ MergeTag(v) \/ RenameTag(v) \/ DeleteTag(v)
                 \/ DeletePeers(v) \/ Rollback(v)
          PROVE  peer' \subseteq peer
      BY <3>3 DEF AddTag, WriteTags, MergeTag, RenameTag, DeleteTag, DeletePeers, Rollback
    <3> QED BY <3>1, <3>2, <3>3, BookSteps
  <2>2. PICK p \in Peers : req[w].peers = {p} /\ Cardinality(peer) < MaxPeers
    BY DEF CountedInv
  <2>3. peer' = peer \cup {p} /\ p \notin peer
    BY <2>1, <2>2 DEF WritePeer
  <2>4. IsFiniteSet(peer) /\ Cardinality(peer) \in Nat
    BY PeersFinite
  <2>5. Cardinality(peer') = Cardinality(peer) + 1
    BY <2>3, <2>4, FS_AddElement
  <2> QED BY <2>2, <2>4, <2>5, LimitsAssumption
<1>3. BookInv /\ CountedInv /\ [Next]_vars => CountedInv'
  BY CountedNext
<1> QED BY <1>1, <1>2, <1>3, BookHolds, PTL DEF Spec, PeersBounded

-----------------------------------------------------------------------------
(* Merging, and changing the tags of many machines                         *)

\* Only the merge itself, or the deletion of a tag that is not locked, ends a
\* tag.
LEMMA MergeStep ==
  ASSUME BookInv, [Next]_vars, NEW w \in Workers, At(w, "rename"), req[w].target # None,
         req'[w] # req[w], tag'[req[w].old] = None
  PROVE  MergeTag(w)
<1>0. TypeOK /\ req[w].old \in Live /\ req[w].old \in Tags /\ tag[req[w].old] # None
  BY RenameFacts DEF BookInv, Live
<1>1. Begins(w) /\ \A v \in Workers : v # w => req'[v] = req[v]
  BY ChangedBegins
<1>2. ASSUME NEW v \in Workers, Goto(v, Idle) PROVE v = w \/ req'[w] = req[w]
  BY <1>0, <1>2 DEF Goto, TypeOK
<1>3. ASSUME NEW v \in Workers, MergeTag(v) PROVE v = w
  BY <1>2, <1>3 DEF MergeTag
<1>4. ASSUME NEW v \in Workers, RenameTag(v) PROVE FALSE
  BY <1>2, <1>4 DEF RenameTag
<1>5. ASSUME NEW v \in Workers, AddTag(v) \/ WritePeer(v) \/ WriteTags(v) \/ DeleteTag(v)
      PROVE  FALSE
  BY <1>2, <1>5 DEF AddTag, WritePeer, WriteTags, WriteLinks, DeleteTag, At
<1>6. tag' = tag => FALSE
  BY <1>0
<1>7. ASSUME NEW v \in Workers, EnsurePeer(v) \/ DeletePeers(v) \/ Rollback(v) PROVE tag' = tag
  BY <1>7 DEF EnsurePeer, DeletePeers, Rollback
<1> QED
  BY <1>3, <1>4, <1>5, <1>6, <1>7, BookSteps

\* When a tag is merged into another, every machine that has it then has the
\* other afterwards.
THEOREM MergeCorrect == Spec => MergeKeeps
<1>1. BookInv /\ [Next]_vars =>
        \A w \in Workers, p \in Peers :
          /\ At(w, "rename") /\ req[w].target # None /\ req'[w] # req[w]
          /\ tag'[req[w].old] = None /\ <<p, req[w].old>> \in link
          => <<p, req[w].target>> \in link'
  <2> SUFFICES ASSUME BookInv, [Next]_vars, NEW w \in Workers, NEW p \in Peers,
                      At(w, "rename"), req[w].target # None, req'[w] # req[w],
                      tag'[req[w].old] = None, <<p, req[w].old>> \in link
               PROVE  <<p, req[w].target>> \in link'
    OBVIOUS
  <2>1. MergeTag(w)
    BY MergeStep
  <2>2. p \in req[w].peers /\ req[w].target # req[w].old
    BY DEF BookInv, RenameInv
  <2>3. link' = (link \cup Moved(w)) \ (Peers \X {req[w].old})
    BY <2>1 DEF MergeTag
  <2>4. <<p, req[w].target>> \in link \cup Moved(w)
    BY <2>2 DEF Moved
  <2> QED BY <2>2, <2>3, <2>4
<1> QED BY <1>1, BookHolds, PTL DEF Spec, MergeKeeps

LEMMA GhostNext == BookInv /\ GhostInv /\ [Next]_vars => GhostInv'
<1> SUFFICES ASSUME BookInv, GhostInv, [Next]_vars, NEW v \in Workers, At(v, "bulk")',
                    NEW p, p \in req'[v].peers
             PROVE  req'[v].want[p] \subseteq Used' \cup req'[v].asked \cup removed'
  BY DEF GhostInv
<1>0. req \in [Workers -> Transaction] /\ TypeOK
  BY DEF BookInv, TypeOK
<1>1. CASE req'[v] = req[v]
  <2>1. At(v, "bulk") /\ HasBook(v) /\ p \in req[v].peers
    BY <1>1 DEF At, HasBook
  <2>2. Used \subseteq Used' \cup removed' /\ removed \subseteq removed'
    BY <1>1, <2>1, LockedBook
  <2>3. req[v].want[p] \subseteq Used \cup req[v].asked \cup removed
    BY <2>1 DEF GhostInv
  <2> QED BY <1>1, <2>2, <2>3
<1>2. CASE req'[v] # req[v]
  <2>1. Begins(v)
    BY <1>2, ChangedBegins
  <2>2. PICK P \in SUBSET Peers, op \in {"add", "remove", "replace"}, S \in Requests :
          ReadTags(v, P, op, S)
    BY <2>1 DEF Begins
  <2> DEFINE want == [q \in Peers |-> IF q \in P THEN Changed(q, op, S) ELSE {}]
  <2> HIDE DEF want
  <2>3. /\ req' = [req EXCEPT ![v] = [Idle EXCEPT !.step = "bulk", !.peers = P, !.asked = S,
                                                  !.want = want]]
        /\ tag' = tag
    BY <2>2 DEF ReadTags, Begin, Goto, want
  <2>4. req'[v].peers = P /\ req'[v].asked = S /\ req'[v].want = want
    BY <1>0, <2>3, IdleType DEF Transaction
  <2>5. want[p] = Changed(p, op, S) /\ p \in Peers
    BY <2>4 DEF want
  <2>6. NamesOf(p) \subseteq Used
    BY DEF NamesOf, Used
  <2>7. Changed(p, op, S) \subseteq Used \cup S
    BY <2>6 DEF Changed
  <2> QED BY <1>0, <2>3, <2>4, <2>5, <2>7, SameTags
<1> QED BY <1>1, <1>2

\* A bulk change of tags does not bring back a tag that was renamed or
\* deleted while it ran, unless the request named it or the API removed it.
THEOREM GhostCorrect == Spec => NoGhost
<1>1. Init => GhostInv
  <2> SUFFICES ASSUME Init PROVE GhostInv
    OBVIOUS
  <2>1. \A w \in Workers : req[w].step = "idle"
    BY IdleType DEF Init
  <2> QED BY <2>1 DEF GhostInv, At
<1>2. BookInv /\ GhostInv /\ [Next]_vars =>
        \A w \in Workers : At(w, "bulk") /\ req'[w] # req[w]
          => {tag'[t] : t \in {x \in Tags : tag'[x] # None}} \ Used
               \subseteq req[w].asked \cup removed
  <2> SUFFICES ASSUME BookInv, GhostInv, [Next]_vars, NEW w \in Workers,
                      At(w, "bulk"), req'[w] # req[w]
               PROVE  Used' \ Used \subseteq req[w].asked \cup removed
    BY DEF Used, Live
  <2>0. TypeOK /\ \A v \in Workers : HasBook(v) => v = w
    BY DEF BookInv, BookExclusive, HasBook
  <2>1. Begins(w) /\ \A v \in Workers : v # w => req'[v] = req[v]
    BY ChangedBegins
  <2>2. CASE UNCHANGED tag
    BY <2>0, <2>2, SameTags
  <2>3. ASSUME NEW v \in Workers, Goto(v, Idle) PROVE v = w
    BY <2>0, <2>3 DEF Goto, TypeOK
  <2>4. CASE WriteLinks(w, {})
    <3>1. Wanted(w) \in SUBSET Names /\ Fill(Wanted(w))
      <4>1. Wanted(w) \cup {} = Wanted(w) /\ {} \in SUBSET Names
        OBVIOUS
      <4> QED BY <2>0, <2>4, <4>1, LinkFacts
    <3>2. Used' = Used \cup Wanted(w)
      BY <2>0, <3>1, FillFacts
    <3>3. Wanted(w) \subseteq Used \cup req[w].asked \cup removed
      BY DEF GhostInv, Wanted
    <3> QED BY <3>2, <3>3
  <2>5. ASSUME NEW v \in Workers,
               AddTag(v) \/ MergeTag(v) \/ RenameTag(v) \/ WritePeer(v) \/ DeleteTag(v)
        PROVE  FALSE
    BY <2>3, <2>5 DEF AddTag, MergeTag, RenameTag, WritePeer, WriteLinks, DeleteTag, At
  <2>6. ASSUME NEW v \in Workers, WriteTags(v) PROVE WriteLinks(w, {})
    BY <2>3, <2>6 DEF WriteTags, WriteLinks
  <2>7. ASSUME NEW v \in Workers, EnsurePeer(v) \/ DeletePeers(v) \/ Rollback(v) PROVE UNCHANGED tag
    BY <2>7 DEF EnsurePeer, DeletePeers, Rollback
  <2> QED
    BY <2>2, <2>4, <2>5, <2>6, <2>7, BookSteps
<1>3. BookInv /\ GhostInv /\ [Next]_vars => GhostInv'
  BY GhostNext
<1> QED BY <1>1, <1>2, <1>3, BookHolds, PTL DEF Spec, NoGhost

=============================================================================

------------------------------ MODULE BookTags ------------------------------
(***************************************************************************)
(* The contents of one address book: its machines (RemotePeer), its tags   *)
(* (RemoteTag) and the links between them, as api/views_api.py and         *)
(* api/views_front.py change them.  Most transactions lock the row of the  *)
(* book first.  The API's rename and deletion of tags, the deletions of    *)
(* machines and the insertion of a user's own device do not, and meet the  *)
(* others at PostgreSQL's row locks, unique keys and foreign keys, the     *)
(* last of which are checked when a transaction commits.  A transaction is *)
(* an action that locks and reads and one that writes and commits; a       *)
(* deletion is one that deletes the links and one that deletes the row.    *)
(***************************************************************************)
EXTENDS Naturals, FiniteSets, Functions

CONSTANTS
  Peers,     \* machines that may be in the book
  Tags,      \* primary keys of tags
  Names,     \* names of tags
  Strip,     \* str.strip: each name without the white space around it
  Workers,   \* threads executing requests
  None,      \* no tag
  MaxPeers,  \* MAX_AB_PEERS
  MaxTags,   \* MAX_AB_TAGS
  MaxAsked   \* bound on the tags a request names

ASSUME LimitsAssumption == MaxPeers \in Nat /\ MaxTags \in Nat /\ MaxAsked \in Nat
\* Keys are 64-bit integers, names and identifiers bounded strings.
ASSUME FiniteAssumption == IsFiniteSet(Peers) /\ IsFiniteSet(Tags) /\ IsFiniteSet(Names)
ASSUME NoneAssumption   == None \notin Tags \cup Names
ASSUME StripAssumption  == Strip \in [Names -> Names] /\ \A n \in Names : Strip[Strip[n]] = Strip[n]

VARIABLES
  peer,      \* the machines in the book
  tag,       \* the name of each tag, None when there is no such row
  link,      \* RemotePeer.tags: <<machine, tag>>
  req,       \* the transaction each worker has open
  removed    \* history: names the API removed during a bulk change

vars == <<peer, tag, link, req, removed>>

-----------------------------------------------------------------------------

MaybeIn(S) == S \cup {None}

\* The names every request but two can name: all others strip theirs.
Plain == {n \in Names : Strip[n] = n}

\* want is the names each machine is to have, asked those the request names,
\* links the rows a deletion in progress has deleted.
Transaction ==
  [step: {"idle", "tag", "check", "count", "peer", "bulk", "rename", "ensure", "drop", "untag"},
   peers: SUBSET Peers, want: [Peers -> SUBSET Names], asked: SUBSET Names,
   old: MaybeIn(Tags), target: MaybeIn(Tags), links: SUBSET (Peers \X Tags),
   web: BOOLEAN, counted: BOOLEAN]

Nothing == [p \in Peers |-> {}]
Idle == [step |-> "idle", peers |-> {}, want |-> Nothing, asked |-> {}, old |-> None,
         target |-> None, links |-> {}, web |-> FALSE, counted |-> FALSE]

At(w, step) == req[w].step = step
Goto(w, r)  == req' = [req EXCEPT ![w] = r]
Begin(w, r) == At(w, "idle") /\ Goto(w, r)

Live      == {t \in Tags : tag[t] # None}
Used      == {tag[t] : t \in Live}
Named(S)  == {t \in Live : tag[t] \in S}
NamesOf(p) == {tag[t] : t \in {x \in Live : <<p, x>> \in link}}

\* SELECT ... FOR UPDATE of the book, by whoever takes it.  A new machine or
\* tag refers to the book and waits for it too.
HasBook(w) == \/ At(w, "tag") \/ At(w, "count") \/ At(w, "peer") \/ At(w, "bulk")
              \/ (At(w, "rename") \/ At(w, "untag")) /\ req[w].web
BookFree   == \A w \in Workers : ~HasBook(w)

\* SELECT ... FOR UPDATE of machines and of the tag being renamed.  A link to
\* a locked row cannot be committed, nor the row deleted.
LocksPeer(w, p) == (At(w, "bulk") \/ At(w, "peer")) /\ p \in req[w].peers \cap peer
LocksTag(w, t)  == At(w, "rename") /\ req[w].old = t
PeerFree(p)     == \A w \in Workers : ~LocksPeer(w, p)
\* Mutant: a rename does not lock the tag that is to go.
TagFree_Always(t) == TRUE
TagFree(t)      == \A w \in Workers : ~LocksTag(w, t)

\* A link that another transaction has deleted and not committed: whoever
\* deletes or inserts it waits.
Unlinked(w, pt)   == (At(w, "drop") \/ At(w, "untag")) /\ pt \in req[w].links
LinksFree(w, pts) == \A v \in Workers \ {w}, pt \in pts : ~Unlinked(v, pt)

\* A machine inserted and not committed: whoever inserts it too waits.
Inserts(w, p) == At(w, "ensure") /\ p \in req[w].peers

TypeOK ==
  /\ peer \subseteq Peers
  /\ tag \in [Tags -> MaybeIn(Names)]
  /\ link \subseteq peer \X Live
  /\ req \in [Workers -> Transaction]
  /\ removed \subseteq Names
  /\ \A s, t \in Live : tag[s] = tag[t] => s = t

\* A new address book.
Init ==
  /\ peer = {}
  /\ tag = [t \in Tags |-> None]
  /\ link = {}
  /\ req = [w \in Workers |-> Idle]
  /\ removed = {}

-----------------------------------------------------------------------------
(* Adding tags                                                             *)

\* Keys for new rows: no row has them and no transaction holds them.
Keys == {t \in Tags \ Live : \A w \in Workers : req[w].old # t /\ req[w].target # t}

\* bulk_create of the names that are missing, each in a row of its own,
\* passing over those there are.
Fill(S) ==
  \E K \in SUBSET Keys : \E name \in Bijection(K, S \ Used) :
    tag' = [t \in Tags |-> IF t \in K THEN name[t] ELSE tag[t]]

Fits(S) == Cardinality(Used \cup S) <= MaxTags

\* Mutant: the tags are counted without the lock of the book.
CountTags_Unlocked(w, n) ==
  /\ n \in Plain \ Used
  /\ Cardinality(Used) < MaxTags
  /\ Begin(w, [Idle EXCEPT !.step = "tag", !.asked = {n}])
  /\ UNCHANGED <<peer, tag, link, removed>>

\* ab_tag_add and _upsert_tag: a name that is there only gets its colour.
CountTags(w, n) ==
  /\ BookFree
  /\ n \in Plain \ Used
  /\ Cardinality(Used) < MaxTags
  /\ Begin(w, [Idle EXCEPT !.step = "tag", !.asked = {n}])
  /\ UNCHANGED <<peer, tag, link, removed>>

AddTag(w) ==
  /\ At(w, "tag")
  /\ Fill(req[w].asked)
  /\ Goto(w, Idle)
  /\ UNCHANGED <<peer, link, removed>>

-----------------------------------------------------------------------------
(* Adding and changing one machine                                         *)

Machine(p, S) == [Idle EXCEPT !.peers = {p}, !.asked = S, !.want = [Nothing EXCEPT ![p] = S]]

\* Mutant: the machines are counted without the lock of the book.
CountPeers_Unlocked(w, p, S) ==
  /\ p \in peer \/ Cardinality(peer) < MaxPeers
  /\ Begin(w, [Machine(p, S) EXCEPT !.step = "count", !.counted = p \notin peer])
  /\ UNCHANGED <<peer, tag, link, removed>>

\* ab_peer_add, and add_peer of the web, look for the machine without locking
\* it, and count the machines only when they find none.
CountPeers(w, p, S) ==
  /\ BookFree
  /\ p \in peer \/ Cardinality(peer) < MaxPeers
  /\ Begin(w, [Machine(p, S) EXCEPT !.step = "count", !.counted = p \notin peer])
  /\ UNCHANGED <<peer, tag, link, removed>>

\* devices_cli files its own device, without counting machines.  The device's
\* machine gets its tag stripped; the tag as it was sent is a row as well.
FileDevice(w, p, S) ==
  /\ BookFree
  /\ Cardinality(S) <= 1
  /\ Begin(w, [Machine(p, {Strip[n] : n \in S}) EXCEPT !.step = "peer", !.asked = S])
  /\ UNCHANGED <<peer, tag, link, removed>>

\* ab_peer_update looks for the machine before it takes the lock of the book.
CheckPeer(w, p, S) ==
  /\ p \in peer
  /\ Begin(w, [Machine(p, S) EXCEPT !.step = "check"])
  /\ UNCHANGED <<peer, tag, link, removed>>

\* update_peer of the web looks for the machine and locks it at once.
ReadPeer(w, p, S) ==
  /\ BookFree
  /\ p \in peer
  /\ Begin(w, [Machine(p, S) EXCEPT !.step = "peer"])
  /\ UNCHANGED <<peer, tag, link, removed>>

\* get_or_create locks the machine if it is (still) there.  Who else locks
\* machines has the lock of the book.
LockPeer(w) ==
  /\ (At(w, "check") /\ BookFree) \/ At(w, "count")
  /\ Goto(w, [req[w] EXCEPT !.step = "peer"])
  /\ UNCHANGED <<peer, tag, link, removed>>

\* The tags that want names, which may not be locked when they are linked.
Links(w, table) == {pt \in req[w].peers \X Tags : table[pt[2]] \in req[w].want[pt[1]]}
Linkable(w) == \A pt \in Links(w, tag) \ link : TagFree(pt[2])

\* The links that peer.tags.set takes away.
Unwanted(w) == {pt \in link : pt[1] \in req[w].peers} \ Links(w, tag)

Wanted(w) == UNION {req[w].want[p] : p \in req[w].peers}

\* peer.save(), the missing tags and peer.tags.set, in _upsert_ab_peer,
\* add_peer and update_peer, and for many machines in the bulk changes.
WriteLinks(w, more) ==
  /\ Fits(Wanted(w))
  /\ Linkable(w) /\ LinksFree(w, Unwanted(w))
  /\ Fill(Wanted(w) \cup more)
  /\ link' = (link \ (req[w].peers \X Tags)) \cup Links(w, tag')
  /\ Goto(w, Idle)

WritePeer(w) ==
  /\ At(w, "peer")
  /\ \A p \in req[w].peers \ peer, v \in Workers : ~Inserts(v, p)
  /\ WriteLinks(w, req[w].asked)
  /\ peer' = peer \cup req[w].peers
  /\ UNCHANGED removed

\* _ensure_personal_device_peer: a get_or_create of its own, whose new row
\* waits for the lock of the book when it commits.
InsertPeer(w, p) ==
  /\ p \notin peer /\ \A v \in Workers : ~Inserts(v, p)
  /\ Begin(w, [Idle EXCEPT !.step = "ensure", !.peers = {p}])
  /\ UNCHANGED <<peer, tag, link, removed>>

EnsurePeer(w) ==
  /\ At(w, "ensure")
  /\ BookFree
  /\ peer' = peer \cup req[w].peers
  /\ Goto(w, Idle)
  /\ UNCHANGED <<tag, link, removed>>

-----------------------------------------------------------------------------
(* Changing the tags of many machines (web)                                *)

Changed(p, op, S) ==
  CASE op = "add"     -> NamesOf(p) \cup S
    [] op = "remove"  -> NamesOf(p) \ S
    [] op = "replace" -> S

\* Locks the book and the machines, reads the names of their tags.
ReadTags(w, P, op, S) ==
  /\ BookFree
  /\ P # {} /\ P \subseteq peer
  /\ Begin(w, [Idle EXCEPT !.step = "bulk", !.peers = P, !.asked = S,
                           !.want = [p \in Peers |-> IF p \in P THEN Changed(p, op, S) ELSE {}]])
  /\ UNCHANGED <<peer, tag, link, removed>>

WriteTags(w) ==
  /\ At(w, "bulk")
  /\ WriteLinks(w, {})
  /\ removed' = {}
  /\ UNCHANGED <<peer>>

-----------------------------------------------------------------------------
(* Renaming tags                                                           *)

\* Recorded while a bulk change is under way.
Removes(web, S) ==
  removed' = IF ~web /\ \E w \in Workers : At(w, "bulk") THEN removed \cup S ELSE removed

\* Mutant: the web renames without the lock of the book, like the API.
ReadRename_Unlocked(w, t, n, web) ==
  /\ t \in Live /\ tag[t] \in Plain \ {n}
  /\ TagFree(t)
  /\ Begin(w, [Idle EXCEPT !.step = "rename", !.old = t, !.asked = {n}, !.web = web,
                           !.target = IF Named({n}) = {} THEN None ELSE CHOOSE s \in Named({n}) : TRUE,
                           !.peers = {p \in peer : <<p, t>> \in link}])
  /\ UNCHANGED <<peer, tag, link, removed>>

\* ab_tag_rename, and with the lock of the book _rename_tag: locks the tag,
\* looks for one of the new name and reads the machines that have the tag.
ReadRename(w, t, n, web) ==
  /\ web => BookFree
  /\ t \in Live /\ tag[t] \in Plain \ {n}
  /\ TagFree(t)
  /\ Begin(w, [Idle EXCEPT !.step = "rename", !.old = t, !.asked = {n}, !.web = web,
                           !.target = IF Named({n}) = {} THEN None ELSE CHOOSE s \in Named({n}) : TRUE,
                           !.peers = {p \in peer : <<p, t>> \in link}])
  /\ UNCHANGED <<peer, tag, link, removed>>

\* The links a merge adds to the target, and those it inserts or deletes.
Moved(w) == {<<p, req[w].target>> : p \in req[w].peers} \ link
Touched(w) == {<<p, req[w].target>> : p \in req[w].peers} \cup {pt \in link : pt[2] = req[w].old}

\* target.peers.add and old_tag.delete: the machines and the target must
\* exist when it commits.
MergeTag(w) ==
  LET r == req[w] IN
  /\ At(w, "rename") /\ r.target # None
  /\ LinksFree(w, Touched(w))
  /\ Moved(w) # {} => r.target \in Live /\ r.peers \subseteq peer
  /\ \A pt \in Moved(w) : PeerFree(pt[1]) /\ TagFree(pt[2])
  /\ link' = (link \cup Moved(w)) \ (Peers \X {r.old})
  /\ tag' = [tag EXCEPT ![r.old] = None]
  /\ Removes(r.web, {tag[r.old]})
  /\ Goto(w, Idle)
  /\ UNCHANGED <<peer>>

\* The new name is still free, or unique_tag_per_address_book refuses it.
RenameTag(w) ==
  LET r == req[w] IN
  /\ At(w, "rename") /\ r.target = None
  /\ r.asked \cap Used = {}
  /\ tag' = [tag EXCEPT ![r.old] = CHOOSE n \in r.asked : TRUE]
  /\ Removes(r.web, {tag[r.old]})
  /\ Goto(w, Idle)
  /\ UNCHANGED <<peer, link>>

-----------------------------------------------------------------------------
(* Deleting: QuerySet.delete deletes the links first, then the rows, which *)
(* must have no other links when it commits.                               *)

\* Mutant: the web deletes without the lock of the book.
UnlinkTag_Unlocked(w, t, web) ==
  LET pts == {pt \in link : pt[2] = t} IN
  /\ t \in Live /\ (web => tag[t] \in Plain)
  /\ LinksFree(w, pts)
  /\ Begin(w, [Idle EXCEPT !.step = "untag", !.old = t, !.links = pts, !.web = web])
  /\ UNCHANGED <<peer, tag, link, removed>>

\* ab_tag_delete, which does not strip the names, and with the lock of the
\* book _delete_tag.
UnlinkTag(w, t, web) ==
  LET pts == {pt \in link : pt[2] = t} IN
  /\ web => BookFree
  /\ t \in Live /\ (web => tag[t] \in Plain)
  /\ LinksFree(w, pts)
  /\ Begin(w, [Idle EXCEPT !.step = "untag", !.old = t, !.links = pts, !.web = web])
  /\ UNCHANGED <<peer, tag, link, removed>>

DeleteTag(w) ==
  LET r == req[w] IN
  /\ At(w, "untag")
  /\ r.old \in Live /\ TagFree(r.old)
  /\ {pt \in link : pt[2] = r.old} \subseteq r.links
  /\ tag' = [tag EXCEPT ![r.old] = None]
  /\ link' = link \ (Peers \X {r.old})
  /\ Removes(r.web, {tag[r.old]})
  /\ Goto(w, Idle)
  /\ UNCHANGED <<peer>>

\* ab_peer_delete, delete_peer and bulk_peer_delete, without the lock of the
\* book.  A machine that another deletion is about to delete counts as gone.
UnlinkPeers(w, P) ==
  LET pts == {pt \in link : pt[1] \in P} IN
  /\ P # {} /\ P \subseteq peer
  /\ \A v \in Workers : At(v, "drop") => req[v].peers \cap P = {}
  /\ LinksFree(w, pts)
  /\ Begin(w, [Idle EXCEPT !.step = "drop", !.peers = P, !.links = pts])
  /\ UNCHANGED <<peer, tag, link, removed>>

\* Mutant: the links of the machines stay.
DeletePeers_KeepsLinks(w) ==
  LET r == req[w] IN
  /\ At(w, "drop")
  /\ \A p \in r.peers : PeerFree(p)
  /\ peer' = peer \ r.peers
  /\ Goto(w, Idle)
  /\ UNCHANGED <<tag, link, removed>>

DeletePeers(w) ==
  LET r == req[w] IN
  /\ At(w, "drop")
  /\ \A p \in r.peers : PeerFree(p)
  /\ {pt \in link : pt[1] \in r.peers} \subseteq r.links
  /\ peer' = peer \ r.peers
  /\ link' = link \ (r.peers \X Tags)
  /\ Goto(w, Idle)
  /\ UNCHANGED <<tag, removed>>

-----------------------------------------------------------------------------

\* A limit, a constraint, a missing row, a deadlock or the end of the worker
\* rolls the transaction back.
Rollback(w) ==
  /\ ~At(w, "idle")
  /\ removed' = IF At(w, "bulk") THEN {} ELSE removed
  /\ Goto(w, Idle)
  /\ UNCHANGED <<peer, tag, link>>

Requests == {S \in SUBSET Plain : Cardinality(S) <= MaxAsked}

Starts(w) ==
  \/ \E n \in Plain : CountTags(w, n)
  \/ \E p \in Peers, S \in Requests : CountPeers(w, p, S) \/ CheckPeer(w, p, S) \/ ReadPeer(w, p, S)
  \/ \E p \in Peers, S \in SUBSET Names : FileDevice(w, p, S)
  \/ \E P \in SUBSET Peers, op \in {"add", "remove", "replace"}, S \in Requests :
       ReadTags(w, P, op, S)
  \/ \E t \in Tags, n \in Plain, web \in BOOLEAN : ReadRename(w, t, n, web)
  \/ \E t \in Tags, web \in BOOLEAN : UnlinkTag(w, t, web)
  \/ \E P \in SUBSET Peers : UnlinkPeers(w, P)
  \/ \E p \in Peers : InsertPeer(w, p)

Next ==
  \E w \in Workers :
    \/ At(w, "idle") /\ Starts(w)
    \/ AddTag(w) \/ LockPeer(w) \/ WritePeer(w) \/ EnsurePeer(w) \/ WriteTags(w)
    \/ MergeTag(w) \/ RenameTag(w) \/ DeleteTag(w) \/ DeletePeers(w) \/ Rollback(w)

Spec == Init /\ [][Next]_vars

-----------------------------------------------------------------------------
(* Properties                                                              *)

\* Through every way to add, rename and merge tags, a book has at most
\* MAX_AB_TAGS of them, or one more when it has a tag that a device sent with
\* white space around it: devices_cli inserts that one without counting.
TagsBounded ==
  \/ Cardinality(Live) <= MaxTags
  \/ Cardinality(Live) = MaxTags + 1 /\ Named(Names \ Plain) # {}

\* A request that found no such machine and counted the others never adds one
\* to a full book, though it locks nothing but the book.  Those that found the
\* machine, and those of devices themselves, add it again without counting.
PeersBounded ==
  [][\A w \in Workers :
       At(w, "peer") /\ req[w].counted /\ req'[w] # req[w] /\ ~(peer' \subseteq peer)
       => Cardinality(peer') <= MaxPeers]_vars

\* When a tag is merged into another, every machine that has it then, also
\* one that got it since the merge began, has the other afterwards.
MergeKeeps ==
  [][\A w \in Workers, p \in Peers :
       /\ At(w, "rename") /\ req[w].target # None /\ req'[w] # req[w]
       /\ tag'[req[w].old] = None /\ <<p, req[w].old>> \in link
       => <<p, req[w].target>> \in link']_vars

\* A bulk change of tags does not bring back a tag that was renamed or
\* deleted while it ran, unless the request named it or the API removed it,
\* which does not take the lock of the book.
NoGhost ==
  [][\A w \in Workers : At(w, "bulk") /\ req'[w] # req[w]
       => {tag'[t] : t \in {x \in Tags : tag'[x] # None}} \ Used
            \subseteq req[w].asked \cup removed]_vars

\* What w, which holds locks, has to wait for before it can go on.
WaitsFor(w, v) ==
  \/ /\ At(w, "peer") \/ At(w, "bulk")
     /\ \/ \E pt \in Links(w, tag) \ link : LocksTag(v, pt[2])
        \/ \E pt \in Unwanted(w) : Unlinked(v, pt)
        \/ \E p \in req[w].peers \ peer : Inserts(v, p)
  \/ /\ At(w, "rename") /\ req[w].target # None
     /\ \/ \E pt \in Moved(w) : LocksPeer(v, pt[1]) \/ LocksTag(v, pt[2])
        \/ \E pt \in Touched(w) : Unlinked(v, pt)
  \/ At(w, "drop") /\ \E p \in req[w].peers : LocksPeer(v, p)
  \/ At(w, "untag") /\ LocksTag(v, req[w].old)
  \/ At(w, "ensure") /\ HasBook(v)

\* Two of these transactions wait for each other only if one renames a tag
\* through the API, deletes a machine or inserts a device, none of which
\* takes the lock of the book, or one renames the tag that the other deletes
\* through the API.
CirclesNeedUnlocked ==
  \A v, w \in Workers : WaitsFor(v, w) /\ WaitsFor(w, v) =>
    \E x \in {v, w} :
      \/ At(x, "rename") /\ ~req[x].web
      \/ At(x, "drop") \/ At(x, "ensure")
      \/ At(x, "rename") /\ \E y \in {v, w} : At(y, "untag") /\ ~req[y].web /\ req[y].old = req[x].old

=============================================================================

----------------------------- MODULE BookAccess -----------------------------
(***************************************************************************)
(* Who owns an address book and who may use it (api/views_api.py and       *)
(* api/views_front.py): creating, renaming, transferring and deleting      *)
(* books, sharing them with users, groups and everyone, the audit of those *)
(* shares, and the three places that compute what a user may see.          *)
(*                                                                         *)
(* The code reads a row, judges the request by it and writes the row back  *)
(* in a later statement; one action is one statement or transaction.       *)
(***************************************************************************)
EXTENDS Naturals, FiniteSets

CONSTANTS
  Users,     \* accounts
  Admins,    \* those with is_admin
  Groups,    \* auth groups
  MemberOf,  \* the groups of each user
  Books,     \* AddressBookProfile primary keys; personal ones are in personal
  Names,     \* names of books
  Reserved,  \* the name of personal books
  Everyone,  \* the target of an is_everyone rule
  Ids,       \* primary keys of the shares and rules of one target
  Rules,     \* 1 read, 2 write, 3 full control
  Workers,   \* threads executing requests
  None,      \* NULL
  MaxRequests  \* bound on the requests that take several statements, and on
               \* those that die, together

ASSUME AdminsAssumption == Admins \subseteq Users
ASSUME GroupsAssumption == MemberOf \in [Users -> SUBSET Groups]
ASSUME NamesAssumption  == Reserved \in Names
ASSUME RulesAssumption  == Rules \subseteq 1 .. 3

Targets == Users \cup Groups \cup {Everyone}

ASSUME NoneAssumption   == None \notin Targets \cup Books \cup Names \cup Ids \cup Rules

VARIABLES
  users,     \* the accounts that exist
  book,      \* AddressBookProfile by primary key
  personal,  \* users whose personal book exists
  grant,     \* AddressBookShare (users) and AddressBookRule (groups, everyone)
  audited,   \* the rule of a target's latest AddressBookRuleAudit, 0 if it removed it
  req,       \* the request each worker is executing
  requests,  \* requests of several statements begun, and those that died
  devices,   \* history: devices_cli made a book named Reserved
  taken,     \* history: shares a transfer deleted, of which there is no entry since
  untraced   \* history: grants whose entry may be another request's, or missing

vars == <<users, book, personal, grant, audited, req, requests, devices, taken, untraced>>

-----------------------------------------------------------------------------

MaybeIn(S) == S \cup {None}

Book  == [owner: Users, name: Names]
Grant == [id: Ids, rule: Rules]

ASSUME NoRowAssumption == None \notin Book /\ None \notin Grant

Steps == {"idle", "save", "commit", "delete", "put", "write", "audit", "strike", "remove"}

\* owner and name are what the request is going to write into the book.
Request == [step: Steps, user: MaybeIn(Users), book: MaybeIn(Books),
            owner: MaybeIn(Users), name: MaybeIn(Names),
            target: Targets \cup {None}, id: MaybeIn(Ids), rule: MaybeIn(Rules)]

Idle == [step |-> "idle", user |-> None, book |-> None, owner |-> None,
         name |-> None, target |-> None, id |-> None, rule |-> None]

OnBook(step, u, b, o, n) ==
  [step |-> step, user |-> u, book |-> b, owner |-> o, name |-> n,
   target |-> None, id |-> None, rule |-> None]

OnGrant(step, u, b, t, i, rule) ==
  [step |-> step, user |-> u, book |-> b, owner |-> None, name |-> None,
   target |-> t, id |-> i, rule |-> rule]

At(w, step) == req[w].step = step
Start(w, r) ==
  /\ requests' = requests + 1
  /\ req' = [req EXCEPT ![w] = r]
Goto(w, r)  == req' = [req EXCEPT ![w] = r]
rows        == <<users, book, personal, grant, audited, devices, taken>>

Exists(t) == t \in Users => t \in users

\* unique_address_book_name_per_owner, for book b to have this owner and name.
Free(b, o, n) ==
  /\ o \in users
  /\ \A c \in Books \ {b} : book[c] # [owner |-> o, name |-> n]
  /\ n = Reserved => o \notin personal

\* A primary key is not used twice: no row has it and no request holds it.
NewBook(b) == book[b] = None /\ \A w \in Workers : req[w].book # b

\* What each handler asks before it changes a book or its shares.
May(u, b) ==
  /\ u \in users
  /\ book[b] # None
  /\ u \in Admins \/ book[b].owner = u

Rule(b, t) == IF grant[<<b, t>>] = None THEN 0 ELSE grant[<<b, t>>].rule

About(w, b, t) == req[w].book = b /\ req[w].target = t

\* A request about the grant has made one of its two statements: it wrote the
\* row and not the entry, or the entry and did not delete the row.
Halfway(w, b, t) == About(w, b, t) /\ req[w].step \in {"audit", "remove"}
AtRest(b, t)     == \A w \in Workers : ~Halfway(w, b, t)

\* The grant is changed, which a request that is halfway does not know of.
Change(b, t) == untraced' = IF AtRest(b, t) THEN untraced ELSE untraced \cup {<<b, t>>}

FreeIds(b, t) ==
  {i \in Ids : /\ grant[<<b, t>>] # None => grant[<<b, t>>].id # i
               /\ \A w \in Workers : About(w, b, t) => req[w].id # i}

TypeOK ==
  /\ users \subseteq Users
  /\ book \in [Books -> MaybeIn(Book)]
  /\ personal \subseteq users
  /\ grant \in [Books \X Targets -> MaybeIn(Grant)]
  /\ audited \in [Books \X Targets -> Rules \cup {0}]
  /\ req \in [Workers -> Request]
  /\ requests \in Nat
  /\ devices \in BOOLEAN
  /\ taken \subseteq Books \X Targets
  /\ untraced \subseteq Books \X Targets
  /\ \A b \in Books : book[b] # None => book[b].owner \in users
  /\ \A b \in Books, t \in Targets : grant[<<b, t>>] # None => book[b] # None /\ Exists(t)
  /\ \A b \in Books : book[b] # None =>
       /\ \A c \in Books \ {b} : book[b] # book[c]
       /\ book[b].name = Reserved => book[b].owner \notin personal

\* The accounts exist, without books.
Init ==
  /\ users = Users
  /\ book = [b \in Books |-> None]
  /\ personal = {}
  /\ grant = [g \in Books \X Targets |-> None]
  /\ audited = [g \in Books \X Targets |-> 0]
  /\ req = [w \in Workers |-> Idle]
  /\ requests = 0
  /\ devices = FALSE
  /\ taken = {}
  /\ untraced = {}

-----------------------------------------------------------------------------
(* The rows that go when books or accounts do                              *)

\* on_delete=CASCADE from a book to its shares, rules and audit.
Drop(gone, t) ==
  /\ book' = [b \in Books |-> IF b \in gone THEN None ELSE book[b]]
  /\ grant' = [g \in Books \X Targets |-> IF g[1] \in gone \/ g[2] \in t THEN None ELSE grant[g]]
  /\ audited' = [g \in Books \X Targets |-> IF g[1] \in gone THEN 0 ELSE audited[g]]
  /\ taken' = {g \in taken : g[1] \notin gone}
  /\ untraced' = {g \in Books \X Targets :
                    IF g[1] \in gone THEN ~AtRest(g[1], g[2]) ELSE g \in untraced}

\* Mutant: the shares with the user stay.
DeleteUser_KeepsShares(u) ==
  /\ u \in users
  /\ \E a \in Admins : a # u /\ a \in users
  /\ users' = users \ {u}
  /\ personal' = personal \ {u}
  /\ Drop({b \in Books : book[b] # None /\ book[b].owner = u}, {})
  /\ UNCHANGED <<req, requests, devices>>

\* user_delete, by another administrator; the books and shares cascade.
DeleteUser(u) ==
  /\ u \in users
  /\ \E a \in Admins : a # u /\ a \in users
  /\ users' = users \ {u}
  /\ personal' = personal \ {u}
  /\ Drop({b \in Books : book[b] # None /\ book[b].owner = u}, {u})
  /\ UNCHANGED <<req, requests, devices>>

\* ab_shared_delete selects the rows and deletes them by primary key.  That the
\* owner it asked for may be a former one makes no difference here: what he
\* deletes then, an administrator may.
DeleteBooks(u, b) ==
  /\ May(u, b)
  /\ Drop({b}, {})
  /\ UNCHANGED <<users, personal, req, requests, devices>>

-----------------------------------------------------------------------------
(* Books                                                                   *)

Insert(b, o, n) ==
  /\ NewBook(b)
  /\ Free(b, o, n)
  /\ book' = [book EXCEPT ![b] = [owner |-> o, name |-> n]]

\* Mutant: a reserved name is refused only by the devices' handler.
CreateBook_AnyName(u, o, n, b) ==
  /\ u \in users
  /\ o = u \/ u \in Admins
  /\ Insert(b, o, n)
  /\ UNCHANGED <<users, personal, grant, audited, req, requests, devices, taken, untraced>>

\* create_book: one INSERT, for the user or, by an administrator, for another.
CreateBook(u, o, n, b) ==
  /\ u \in users
  /\ o = u \/ u \in Admins
  /\ n # Reserved
  /\ Insert(b, o, n)
  /\ UNCHANGED <<users, personal, grant, audited, req, requests, devices, taken, untraced>>

\* devices_cli files a device in its owner's book of the name it is given.
DeviceBook(o, n, b) ==
  /\ Insert(b, o, n)
  /\ devices' = (devices \/ n = Reserved)
  /\ UNCHANGED <<users, personal, grant, audited, req, requests, taken, untraced>>

\* _ensure_personal_profile; without Free it raises IntegrityError.
EnsurePersonal(u) ==
  /\ u \in users \ personal
  /\ \A b \in Books : book[b] # [owner |-> u, name |-> Reserved]
  /\ personal' = personal \cup {u}
  /\ UNCHANGED <<users, book, grant, audited, req, requests, devices, taken, untraced>>

\* ab_shared_add: get_or_create, then save() writes back the whole row.
AddBook(w, u, n, b) ==
  /\ u \in users
  /\ n # Reserved
  /\ IF \E c \in Books : book[c] = [owner |-> u, name |-> n]
       THEN book[b] = [owner |-> u, name |-> n] /\ UNCHANGED book
       ELSE Insert(b, u, n)
  /\ Start(w, OnBook("save", u, b, u, n))
  /\ UNCHANGED <<users, personal, grant, audited, devices, taken, untraced>>

\* A new name is not reserved and not another of the owner's books'.
Renames(b, n) ==
  \/ n = book[b].name
  \/ n # Reserved /\ Free(b, book[b].owner, n)

\* update_book (web) reads the whole row, to save() it.
EditBook(w, u, b, n) ==
  /\ May(u, b)
  /\ Renames(b, n)
  /\ Start(w, OnBook("save", u, b, book[b].owner, n))
  /\ UNCHANGED <<rows, untraced>>

\* profile.save(): UPDATE by primary key, or INSERT when the row has gone.
SaveBook(w) ==
  LET r == req[w] IN
  /\ At(w, "save")
  /\ IF Free(r.book, r.owner, r.name)
       THEN book' = [book EXCEPT ![r.book] = [owner |-> r.owner, name |-> r.name]]
       ELSE UNCHANGED book
  /\ Goto(w, Idle)
  /\ UNCHANGED <<users, personal, grant, audited, requests, devices, taken, untraced>>

\* ab_shared_update_profile; new, when given, is the owner to be.
UpdateBook(w, u, b, n, new) ==
  /\ May(u, b)
  /\ Renames(b, n)
  /\ new # None => u \in Admins /\ Free(b, new, n)
  /\ Start(w, OnBook("commit", u, b, new, n))
  /\ UNCHANGED <<rows, untraced>>

\* transfer_book (web): writes the owner alone.
TransferBook(w, u, b, new) ==
  /\ May(u, b) /\ u \in Admins
  /\ new # book[b].owner
  /\ Free(b, new, book[b].name)
  /\ Start(w, OnBook("commit", u, b, new, None))
  /\ UNCHANGED <<rows, untraced>>

\* The transaction of both: it locks the row, writes name and owner and
\* deletes the share of a new owner, or the web that of any owner given, which
\* the audit is not told; a name already used or a deleted row or owner rolls
\* it back.
CommitBook(w) ==
  LET b == req[w].book
      o == IF req[w].owner = None THEN book[b].owner ELSE req[w].owner
      n == IF req[w].name = None THEN book[b].name ELSE req[w].name
      share == <<b, o>>
  IN
  /\ At(w, "commit")
  /\ IF book[b] # None /\ Free(b, o, n)
       THEN /\ book' = [book EXCEPT ![b] = [owner |-> o, name |-> n]]
            /\ IF (o # book[b].owner \/ req[w].name = None) /\ grant[share] # None
                 THEN /\ grant' = [grant EXCEPT ![share] = None]
                      /\ taken' = taken \cup {share}
                      /\ Change(b, o)
                 ELSE UNCHANGED <<grant, taken, untraced>>
       ELSE UNCHANGED <<book, grant, taken, untraced>>
  /\ Goto(w, Idle)
  /\ UNCHANGED <<users, personal, audited, requests, devices>>

\* delete_book (web) reads the row and then deletes it by primary key.
DeleteBook(w, u, b) ==
  /\ May(u, b)
  /\ Start(w, OnBook("delete", u, b, None, None))
  /\ UNCHANGED <<rows, untraced>>

DropBook(w) ==
  /\ At(w, "delete")
  /\ Drop({req[w].book}, {})
  /\ Goto(w, Idle)
  /\ UNCHANGED <<users, personal, requests, devices>>

-----------------------------------------------------------------------------
(* Shares and rules                                                        *)

\* A request about the grant of t begins.
Begin(w, r) ==
  /\ May(r.user, r.book)
  /\ Exists(r.target)
  /\ Start(w, r)
  /\ UNCHANGED <<rows, untraced>>

\* ab_rule POST (API): not for the owner.
Put(w, u, b, t, rule) ==
  /\ book[b] # None => t # book[b].owner
  /\ Begin(w, OnGrant("put", u, b, t, None, rule))

\* add_user_share, add_group_rule, add_everyone_rule (web) look for the row;
\* ab_rule PATCH and update_rule are given one.
Write(w, u, b, t, rule) ==
  Begin(w, OnGrant("write", u, b, t,
                   IF grant[<<b, t>>] = None THEN None ELSE grant[<<b, t>>].id, rule))

\* ab_rules_delete and delete_rule: the audit first, then the row.
Remove(w, u, b, t) ==
  /\ grant[<<b, t>>] # None
  /\ Begin(w, OnGrant("strike", u, b, t, grant[<<b, t>>].id, None))

\* The request ends, without its second statement if it is halfway.
Abort(w) ==
  LET r == req[w] IN
  /\ Goto(w, Idle)
  /\ untraced' = IF Halfway(w, r.book, r.target) THEN untraced \cup {<<r.book, r.target>>}
                                                 ELSE untraced
  /\ UNCHANGED rows

\* The foreign keys of the row to be written.
Insertable(r) == book[r.book] # None /\ Exists(r.target)

\* update_or_create of a share or rule, by its unique target.
PutGrant(w) ==
  LET r == req[w]
      g == <<r.book, r.target>>
  IN
  /\ At(w, "put")
  /\ Insertable(r)
  /\ \E i \in IF grant[g] = None THEN FreeIds(r.book, r.target) ELSE {grant[g].id} :
       grant' = [grant EXCEPT ![g] = [id |-> i, rule |-> r.rule]]
  /\ Goto(w, [r EXCEPT !.step = "audit"])
  /\ Change(r.book, r.target)
  /\ UNCHANGED <<users, book, personal, audited, requests, devices, taken>>

\* Mutant: the change is not audited.
WriteGrant_Unaudited(w) ==
  LET r == req[w]
      g == <<r.book, r.target>>
  IN
  /\ At(w, "write")
  /\ Insertable(r)
  /\ \E i \in IF r.id = None THEN FreeIds(r.book, r.target) ELSE {r.id} :
       /\ grant[g] # None => grant[g].id = i
       /\ grant' = [grant EXCEPT ![g] = [id |-> i, rule |-> r.rule]]
  /\ Goto(w, Idle)
  /\ UNCHANGED <<users, book, personal, audited, requests, devices, taken, untraced>>

\* save() of a row that was read or made: UPDATE by primary key, or INSERT
\* when there is none, which a row of the same target refuses.
WriteGrant(w) ==
  LET r == req[w]
      g == <<r.book, r.target>>
  IN
  /\ At(w, "write")
  /\ Insertable(r)
  /\ \E i \in IF r.id = None THEN FreeIds(r.book, r.target) ELSE {r.id} :
       /\ grant[g] # None => grant[g].id = i
       /\ grant' = [grant EXCEPT ![g] = [id |-> i, rule |-> r.rule]]
  /\ Goto(w, [r EXCEPT !.step = "audit"])
  /\ Change(r.book, r.target)
  /\ UNCHANGED <<users, book, personal, audited, requests, devices, taken>>

\* IntegrityError: a foreign key or, for save(), the unique target.
GrantFails(w) ==
  LET r == req[w] IN
  /\ r.step \in {"put", "write"}
  /\ \/ ~Insertable(r)
     \/ /\ At(w, "write")
        /\ grant[<<r.book, r.target>>] # None
        /\ grant[<<r.book, r.target>>].id # r.id
  /\ Abort(w)
  /\ UNCHANGED requests

\* _audit_ab_rule; the actor and the book must still exist.  A deletion enters
\* the row it has read, which may have gone and another taken its place.
Audit(w) ==
  LET r == req[w]
      g == <<r.book, r.target>>
  IN
  /\ r.step \in {"audit", "strike"}
  /\ book[r.book] # None /\ r.user \in users
  /\ audited' = [audited EXCEPT ![g] = IF r.step = "audit" THEN r.rule ELSE 0]
  /\ Goto(w, IF r.step = "audit" THEN Idle ELSE [r EXCEPT !.step = "remove"])
  /\ taken' = taken \ {g}
  /\ IF r.step = "audit" THEN UNCHANGED untraced
     ELSE IF grant[g] = None \/ grant[g].id = r.id THEN Change(r.book, r.target)
     ELSE untraced' = untraced \cup {g}
  /\ UNCHANGED <<users, book, personal, grant, requests, devices>>

AuditFails(w) ==
  /\ req[w].step \in {"audit", "strike"}
  /\ book[req[w].book] = None \/ req[w].user \notin users
  /\ Abort(w)
  /\ UNCHANGED requests

\* DELETE by primary key.
RemoveGrant(w) ==
  LET r == req[w]
      g == <<r.book, r.target>>
  IN
  /\ At(w, "remove")
  /\ grant' = IF grant[g] # None /\ grant[g].id = r.id THEN [grant EXCEPT ![g] = None] ELSE grant
  /\ Goto(w, Idle)
  /\ UNCHANGED <<users, book, personal, audited, requests, devices, taken, untraced>>

Crash(w) ==
  /\ ~At(w, "idle")
  /\ requests < MaxRequests
  /\ requests' = requests + 1
  /\ Abort(w)

Immediate ==
  \/ \E u \in Users : DeleteUser(u) \/ EnsurePersonal(u)
  \/ \E u \in users, b \in Books : DeleteBooks(u, b)
  \/ \E o \in users, n \in Names, b \in Books :
       DeviceBook(o, n, b) \/ \E u \in users : CreateBook(u, o, n, b)

Begins(w) ==
  /\ At(w, "idle") /\ requests < MaxRequests
  /\ \E u \in users, b \in Books :
       \/ DeleteBook(w, u, b)
       \/ \E n \in Names : AddBook(w, u, n, b) \/ EditBook(w, u, b, n)
       \/ \E n \in Names, new \in MaybeIn(users) : UpdateBook(w, u, b, n, new)
       \/ \E new \in users : TransferBook(w, u, b, new)
       \/ \E t \in Targets :
            \/ Remove(w, u, b, t)
            \/ \E rule \in Rules : Put(w, u, b, t, rule) \/ Write(w, u, b, t, rule)

Proceeds(w) ==
  \/ SaveBook(w) \/ CommitBook(w) \/ DropBook(w)
  \/ PutGrant(w) \/ WriteGrant(w) \/ GrantFails(w)
  \/ Audit(w) \/ AuditFails(w) \/ RemoveGrant(w)
  \/ Crash(w)

Next == Immediate \/ \E w \in Workers : Begins(w) \/ Proceeds(w)

Spec == Init /\ [][Next]_vars

-----------------------------------------------------------------------------
(* What a user may do with a book, computed in three places                *)

Highest(S) == CHOOSE r \in S \cup {0} : \A s \in S \cup {0} : s <= r

\* Mutant: a user's groups are not asked for.
RuleAccess_NoGroups(u, b) == Highest({Rule(b, u), Rule(b, Everyone)})

\* _get_rule_access, the same in both views.
RuleAccess(u, b) ==
  Highest({Rule(b, u), Rule(b, Everyone)} \cup {Rule(b, g) : g \in MemberOf[u]})

\* _get_profile_access and _get_profile_access_web.
Access(u, b) ==
  IF book[b] = None THEN 0
  ELSE IF u \in Admins \/ book[b].owner = u THEN 3
  ELSE RuleAccess(u, b)

\* ab_shared_profiles: every way a book comes to the user, with its rule.
Reasons(u) ==
  IF u \in Admins THEN {<<b, 3>> : b \in {c \in Books : book[c] # None}}
  ELSE {<<b, 3>> : b \in {c \in Books : book[c] # None /\ book[c].owner = u}}
       \cup {<<g[1], Rule(g[1], g[2])>> : g \in
               {x \in Books \X ({u, Everyone} \cup MemberOf[u]) : grant[x] # None}}

Listed(u, b) == Highest({r[2] : r \in {x \in Reasons(u) : x[1] = b}})

\* _ab_accessible_profiles, without the personal book.
Accessible(u) ==
  {b \in Books :
     /\ book[b] # None
     /\ \/ u \in Admins
        \/ book[b].owner = u
        \/ \E t \in {u, Everyone} \cup MemberOf[u] : grant[<<b, t>>] # None}

-----------------------------------------------------------------------------
(* Properties                                                              *)

\* The clients' list of shared books, the web's list and the check each
\* request makes agree on which books a user has and with what rights.
ListsAgree ==
  \A u \in users, b \in Books :
    /\ Listed(u, b) = Access(u, b)
    /\ b \in Accessible(u) <=> Access(u, b) > 0

\* A user can always get the personal book: unless devices_cli made one, no
\* other book is given its name by creation, renaming, transfer or a stale save.
PersonalPossible ==
  devices \/ \A b \in Books : book[b] # None => book[b].name # Reserved

\* Requests about a target may overlap as they like: once none of them is
\* halfway, its newest audit entry says what it may do, or it has nothing since
\* a transfer gave it the book.  Excepted are a change while another request is
\* halfway, a request that ends halfway, and the deletion of a row that has
\* been replaced: two statements without a transaction do not exclude these.
AuditAgrees ==
  \A b \in Books, t \in Targets :
    LET g == <<b, t>> IN
    book[b] # None /\ Exists(t) /\ AtRest(b, t) /\ g \notin untraced
      => audited[g] = Rule(b, t) \/ (g \in taken /\ Rule(b, t) = 0)

\* Only an administrator's request gives a book another owner.
TransferSticks ==
  [][\A b \in Books : book[b] # None /\ book'[b] # None /\ book'[b].owner # book[b].owner
        => \E w \in Workers : req'[w] # req[w] /\ req[w].user \in Admins]_vars

=============================================================================

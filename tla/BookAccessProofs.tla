--------------------------- MODULE BookAccessProofs ---------------------------
(***************************************************************************)
(* What holds of BookAccess for any accounts, groups, books and workers:   *)
(* rows refer to rows that are there, the ways to compute what a user may  *)
(* do agree, the name of personal books stays free, and the newest audit   *)
(* entry of a target is what it may do.                                    *)
(***************************************************************************)
EXTENDS BookAccess, TLAPS

-----------------------------------------------------------------------------
(* The requests in progress                                                *)

\* A request is about a book, or about a book's grant to a target.
RequestOK(r) ==
  /\ r.step = "idle" => r.book = None
  /\ r.step # "idle" => r.book \in Books
  /\ r.step \in {"idle", "save", "commit", "delete"} => r.target = None
  /\ r.step = "save" => r.owner \in Users /\ r.name \in Names
  /\ r.step \in {"put", "write", "audit", "strike", "remove"} => r.target \in Targets
  /\ r.step \in {"put", "write", "audit"} => r.rule \in Rules
  /\ r.step \in {"strike", "remove"} => r.id \in Ids

RequestInv == \A w \in Workers : RequestOK(req[w])

BaseInv == TypeOK /\ RequestInv

\* No request will write the name of personal books.
NameInv ==
  devices \/ \A w \in Workers : req[w].step \in {"save", "commit"} => req[w].name # Reserved

PersonalInv == PersonalPossible /\ NameInv

\* What the one request that is halfway with a grant has done, and will do.
Accounted(w, b, t) ==
  LET r == req[w] IN
  /\ r.step = "audit" => Rule(b, t) = r.rule
  /\ r.step = "remove" => /\ audited[<<b, t>>] = 0
                          /\ grant[<<b, t>>] # None => grant[<<b, t>>].id = r.id

\* The audit says what the target may do, or a transfer took its share.
Agrees(b, t) ==
  audited[<<b, t>>] = Rule(b, t) \/ (<<b, t>> \in taken /\ Rule(b, t) = 0)

\* One request at most is halfway with a traced grant.
TraceAt(b, t) ==
  <<b, t>> \notin untraced =>
    /\ \A v, w \in Workers : Halfway(v, b, t) /\ Halfway(w, b, t) => v = w
    /\ Exists(t) => /\ AtRest(b, t) => Agrees(b, t)
                    /\ \A w \in Workers : Halfway(w, b, t) => Accounted(w, b, t)

TraceInv == \A b \in Books, t \in Targets : TraceAt(b, t)

-----------------------------------------------------------------------------
(* Rows                                                                    *)

BookOK ==
  /\ book \in [Books -> MaybeIn(Book)]
  /\ personal \subseteq users
  /\ \A b \in Books : book[b] # None => book[b].owner \in users
  /\ \A b \in Books : book[b] # None =>
       /\ \A c \in Books \ {b} : book[b] # book[c]
       /\ book[b].name = Reserved => book[b].owner \notin personal

GrantOK ==
  /\ grant \in [Books \X Targets -> MaybeIn(Grant)]
  /\ \A b \in Books, t \in Targets : grant[<<b, t>>] # None => book[b] # None /\ Exists(t)

RowsOK ==
  /\ users \subseteq Users
  /\ audited \in [Books \X Targets -> Rules \cup {0}]
  /\ requests \in Nat
  /\ devices \in BOOLEAN
  /\ taken \subseteq Books \X Targets
  /\ untraced \subseteq Books \X Targets

LEMMA TypeParts ==
  /\ TypeOK <=> BookOK /\ GrantOK /\ RowsOK /\ req \in [Workers -> Request]
  /\ TypeOK' <=> BookOK' /\ GrantOK' /\ RowsOK' /\ req' \in [Workers -> Request]
BY DEF TypeOK, BookOK, GrantOK, RowsOK

LEMMA BookFacts ==
  ASSUME TypeOK, NEW b \in Books, book[b] # None
  PROVE  /\ book[b] \in Book /\ book[b].owner \in users /\ book[b].owner \in Users
         /\ book[b].name \in Names
BY DEF TypeOK, MaybeIn, Book

LEMMA GrantFacts ==
  ASSUME TypeOK, NEW b \in Books, NEW t \in Targets
  PROVE  /\ <<b, t>> \in Books \X Targets
         /\ grant[<<b, t>>] = None => Rule(b, t) = 0
         /\ grant[<<b, t>>] # None => /\ grant[<<b, t>>] \in Grant /\ grant[<<b, t>>].id \in Ids
                                  /\ Rule(b, t) = grant[<<b, t>>].rule /\ Rule(b, t) \in Rules
                                  /\ book[b] # None /\ Exists(t)
<1>1. <<b, t>> \in Books \X Targets
  OBVIOUS
<1>2. grant[<<b, t>>] \in MaybeIn(Grant)
  BY <1>1 DEF TypeOK
<1>3. grant[<<b, t>>] # None => book[b] # None /\ Exists(t)
  BY DEF TypeOK
<1> QED BY <1>1, <1>2, <1>3 DEF MaybeIn, Grant, Rule

LEMMA RequestFacts ==
  ASSUME BaseInv, NEW w \in Workers
  PROVE  /\ req[w] \in Request /\ RequestOK(req[w]) /\ req[w].step \in Steps
         /\ \A b, t : About(w, b, t) /\ t # None => req[w].step \notin {"idle", "save", "commit", "delete"}
BY DEF BaseInv, TypeOK, RequestInv, RequestOK, Request, About

LEMMA GotoFacts ==
  ASSUME TypeOK, NEW w \in Workers, NEW r \in Request, Goto(w, r)
  PROVE  /\ req' \in [Workers -> Request] /\ req'[w] = r
         /\ \A v \in Workers : v # w => req'[v] = req[v]
BY DEF TypeOK, Goto

LEMMA StartFacts ==
  ASSUME TypeOK, NEW w \in Workers, NEW r \in Request, Start(w, r)
  PROVE  /\ req' \in [Workers -> Request] /\ req'[w] = r /\ requests' \in Nat
         /\ \A v \in Workers : v # w => req'[v] = req[v]
BY DEF TypeOK, Start

LEMMA IdleFacts == Idle \in Request /\ RequestOK(Idle)
BY DEF Idle, Request, RequestOK, Steps, MaybeIn

\* A row that is written where it is free.
LEMMA WriteBook ==
  ASSUME TypeOK, NEW b \in Books, NEW o \in Users, NEW n \in Names, Free(b, o, n),
         book' = [book EXCEPT ![b] = [owner |-> o, name |-> n]], UNCHANGED <<users, personal>>
  PROVE  /\ BookOK' /\ book'[b] # None /\ book'[b].owner = o /\ book'[b].name = n
         /\ \A c \in Books : c # b => book'[c] = book[c]
<1> DEFINE row == [owner |-> o, name |-> n]
<1>1. row \in Book /\ row.owner = o /\ row.name = n /\ row # None
  BY NoRowAssumption DEF Book
<1>2. \A c \in Books \ {b} : book[c] # row
  BY DEF Free
<1>3. o \in users /\ (n = Reserved => o \notin personal)
  BY DEF Free
<1>4. book' = [book EXCEPT ![b] = row] /\ book \in [Books -> MaybeIn(Book)]
  BY DEF TypeOK
<1> HIDE DEF row
<1>5. /\ book' \in [Books -> MaybeIn(Book)] /\ book'[b] = row
      /\ \A c \in Books : c # b => book'[c] = book[c]
  BY <1>1, <1>4 DEF MaybeIn
<1>6. ASSUME NEW c \in Books, book'[c] # None
      PROVE  /\ book'[c].owner \in users'
             /\ \A d \in Books \ {c} : book'[c] # book'[d]
             /\ book'[c].name = Reserved => book'[c].owner \notin personal'
  BY <1>1, <1>2, <1>3, <1>5, <1>6 DEF TypeOK
<1> QED BY <1>1, <1>5, <1>6 DEF BookOK, TypeOK

\* Rows go with the book or the target they refer to.
LEMMA DropFacts ==
  ASSUME TypeOK, NEW gone, NEW ts, Drop(gone, ts)
  PROVE  /\ book' \in [Books -> MaybeIn(Book)]
         /\ \A b \in Books : book'[b] = IF b \in gone THEN None ELSE book[b]
         /\ grant' \in [Books \X Targets -> MaybeIn(Grant)]
         /\ audited' \in [Books \X Targets -> Rules \cup {0}]
         /\ taken' \subseteq Books \X Targets /\ untraced' \subseteq Books \X Targets
         /\ \A b \in Books, t \in Targets :
              /\ grant'[<<b, t>>] = IF b \in gone \/ t \in ts THEN None ELSE grant[<<b, t>>]
              /\ audited'[<<b, t>>] = IF b \in gone THEN 0 ELSE audited[<<b, t>>]
              /\ <<b, t>> \in taken' <=> <<b, t>> \in taken /\ b \notin gone
              /\ <<b, t>> \in untraced' <=> IF b \in gone THEN ~AtRest(b, t) ELSE <<b, t>> \in untraced
<1>1. /\ book' \in [Books -> MaybeIn(Book)]
      /\ \A b \in Books : book'[b] = IF b \in gone THEN None ELSE book[b]
  BY DEF Drop, TypeOK, MaybeIn
<1>2. grant' \in [Books \X Targets -> MaybeIn(Grant)]
  BY DEF Drop, TypeOK, MaybeIn
<1>3. audited' \in [Books \X Targets -> Rules \cup {0}]
  BY DEF Drop, TypeOK
<1>4. ASSUME NEW b \in Books, NEW t \in Targets
      PROVE  /\ grant'[<<b, t>>] = IF b \in gone \/ t \in ts THEN None ELSE grant[<<b, t>>]
             /\ audited'[<<b, t>>] = IF b \in gone THEN 0 ELSE audited[<<b, t>>]
             /\ <<b, t>> \in taken' <=> <<b, t>> \in taken /\ b \notin gone
             /\ <<b, t>> \in untraced' <=> IF b \in gone THEN ~AtRest(b, t) ELSE <<b, t>> \in untraced
  <2>1. <<b, t>> \in Books \X Targets /\ <<b, t>>[1] = b /\ <<b, t>>[2] = t
    OBVIOUS
  <2> DEFINE g == <<b, t>>
  <2>2. g \in Books \X Targets /\ g[1] = b /\ g[2] = t
    BY <2>1
  <2> HIDE DEF g
  <2>3. /\ grant'[g] = IF g[1] \in gone \/ g[2] \in ts THEN None ELSE grant[g]
        /\ audited'[g] = IF g[1] \in gone THEN 0 ELSE audited[g]
        /\ g \in taken' <=> g \in taken /\ g[1] \notin gone
        /\ g \in untraced' <=> IF g[1] \in gone THEN ~AtRest(g[1], g[2]) ELSE g \in untraced
    BY <2>2 DEF Drop
  <2> QED BY <2>2, <2>3 DEF g
<1>5. taken' \subseteq Books \X Targets /\ untraced' \subseteq Books \X Targets
  BY DEF Drop, TypeOK
<1> QED BY <1>1, <1>2, <1>3, <1>4, <1>5

\* A grant that is written or removed.
LEMMA EditGrant ==
  ASSUME TypeOK, NEW b \in Books, NEW t \in Targets, NEW x \in MaybeIn(Grant),
         grant' = [grant EXCEPT ![<<b, t>>] = x], UNCHANGED <<book, users>>,
         x # None => book[b] # None /\ Exists(t)
  PROVE  /\ GrantOK' /\ grant'[<<b, t>>] = x
         /\ \A c \in Books, s \in Targets : <<c, s>> # <<b, t>> => grant'[<<c, s>>] = grant[<<c, s>>]
<1> DEFINE g == <<b, t>>
<1>1. g \in Books \X Targets /\ grant \in [Books \X Targets -> MaybeIn(Grant)]
  BY DEF TypeOK
<1>2. grant' = [grant EXCEPT ![g] = x]
  OBVIOUS
<1> HIDE DEF g
<1>3. /\ grant' \in [Books \X Targets -> MaybeIn(Grant)] /\ grant'[g] = x
      /\ \A h \in Books \X Targets : h # g => grant'[h] = grant[h]
  BY <1>1, <1>2
<1>4. /\ grant'[<<b, t>>] = x
      /\ \A c \in Books, s \in Targets : <<c, s>> # <<b, t>> => grant'[<<c, s>>] = grant[<<c, s>>]
  BY <1>3 DEF g
<1>5. ASSUME NEW c \in Books, NEW s \in Targets, grant'[<<c, s>>] # None
      PROVE  book'[c] # None /\ Exists(s)'
  <2>1. CASE <<c, s>> = <<b, t>>
    BY <1>4, <1>5, <2>1 DEF Exists
  <2>2. CASE <<c, s>> # <<b, t>>
    BY <1>4, <1>5, <2>2 DEF Exists, TypeOK
  <2> QED BY <2>1, <2>2
<1> QED BY <1>3, <1>4, <1>5 DEF GrantOK

-----------------------------------------------------------------------------
(* Requests that begin                                                     *)

\* A request about a book; it may begin by making one, of another name than
\* that of personal books.
BookBegins(w, r) ==
  /\ r.step \in {"save", "commit", "delete"}
  /\ Start(w, r) /\ UNCHANGED <<users, personal, grant, audited, devices, taken, untraced>>
  /\ \/ UNCHANGED book
     \/ \E b \in Books, o \in Users, n \in Names : n # Reserved /\ Insert(b, o, n)
  /\ r.step \in {"save", "commit"} /\ r.name = Reserved =>
       \E b \in Books : book[b] # None /\ book[b].name = Reserved

\* A request about a grant.
GrantBegins(w, r) ==
  /\ r.step \in {"put", "write", "strike"}
  /\ Begin(w, r)
  /\ r.step = "strike" => /\ grant[<<r.book, r.target>>] # None
                          /\ r.id = grant[<<r.book, r.target>>].id

LEMMA BookRequest ==
  ASSUME NEW step \in {"save", "commit", "delete"}, NEW u \in Users, NEW b \in Books,
         NEW o \in MaybeIn(Users), NEW n \in MaybeIn(Names),
         step = "save" => o \in Users /\ n \in Names,
         NEW r, r = OnBook(step, u, b, o, n)
  PROVE  r \in Request /\ RequestOK(r) /\ r.step = step /\ r.name = n
BY DEF OnBook, Request, RequestOK, Steps, MaybeIn

LEMMA GrantRequest ==
  ASSUME NEW step \in {"put", "write", "strike"}, NEW u \in Users, NEW b \in Books,
         NEW t \in Targets, NEW i \in MaybeIn(Ids), NEW rule \in MaybeIn(Rules),
         step = "strike" => i \in Ids, step # "strike" => rule \in Rules,
         NEW r, r = OnGrant(step, u, b, t, i, rule)
  PROVE  r \in Request /\ RequestOK(r) /\ r.step = step /\ r.book = b /\ r.target = t /\ r.id = i
BY DEF OnGrant, Request, RequestOK, Steps, MaybeIn

LEMMA BeginsStep ==
  ASSUME BaseInv, NEW w \in Workers, Begins(w)
  PROVE  \E r \in Request : RequestOK(r) /\ At(w, "idle") /\ (BookBegins(w, r) \/ GrantBegins(w, r))
<1>0. TypeOK /\ At(w, "idle") /\ users \subseteq Users
  BY DEF BaseInv, TypeOK, Begins
<1>1. PICK u \in users, b \in Books :
       \/ DeleteBook(w, u, b)
       \/ \E n \in Names : AddBook(w, u, n, b) \/ EditBook(w, u, b, n)
       \/ \E n \in Names, new \in MaybeIn(users) : UpdateBook(w, u, b, n, new)
       \/ \E new \in users : TransferBook(w, u, b, new)
       \/ \E t \in Targets :
            \/ Remove(w, u, b, t)
            \/ \E rule \in Rules : Put(w, u, b, t, rule) \/ Write(w, u, b, t, rule)
  BY DEF Begins
<1>2. u \in Users /\ (book[b] # None => book[b].owner \in Users) /\ None \in MaybeIn(Users)
      /\ None \in MaybeIn(Names) /\ None \in MaybeIn(Ids) /\ None \in MaybeIn(Rules)
      /\ MaybeIn(users) \subseteq MaybeIn(Users) /\ Users \subseteq MaybeIn(Users)
      /\ Names \subseteq MaybeIn(Names) /\ Ids \subseteq MaybeIn(Ids) /\ Rules \subseteq MaybeIn(Rules)
  BY <1>0, BookFacts DEF MaybeIn
<1>3. ASSUME NEW n \in Names, May(u, b), Renames(b, n), n = Reserved
      PROVE  \E c \in Books : book[c] # None /\ book[c].name = Reserved
  BY <1>3 DEF Renames, May
<1>4. CASE DeleteBook(w, u, b)
  <2>1. PICK r : r = OnBook("delete", u, b, None, None)
    OBVIOUS
  <2>2. r \in Request /\ RequestOK(r) /\ r.step = "delete"
    BY <1>2, <2>1, BookRequest
  <2> QED BY <1>0, <1>4, <2>1, <2>2 DEF DeleteBook, BookBegins, rows
<1>5. ASSUME NEW n \in Names, AddBook(w, u, n, b)
      PROVE  \E r \in Request : RequestOK(r) /\ BookBegins(w, r)
  <2>1. PICK r : r = OnBook("save", u, b, u, n)
    OBVIOUS
  <2>2. r \in Request /\ RequestOK(r) /\ r.step = "save" /\ r.name = n
    BY <1>2, <2>1, BookRequest
  <2>3. Start(w, r) /\ n # Reserved /\ (UNCHANGED book \/ Insert(b, u, n))
        /\ UNCHANGED <<users, personal, grant, audited, devices, taken, untraced>>
    BY <1>5, <2>1 DEF AddBook
  <2> QED BY <1>2, <2>2, <2>3 DEF BookBegins
<1>6. ASSUME NEW n \in Names, EditBook(w, u, b, n)
      PROVE  \E r \in Request : RequestOK(r) /\ BookBegins(w, r)
  <2>1. PICK r : r = OnBook("save", u, b, book[b].owner, n)
    OBVIOUS
  <2>2. book[b].owner \in Users
    BY <1>2, <1>6 DEF EditBook, May
  <2>3. r \in Request /\ RequestOK(r) /\ r.step = "save" /\ r.name = n
    BY <1>2, <2>1, <2>2, BookRequest
  <2>4. Start(w, r) /\ May(u, b) /\ Renames(b, n) /\ UNCHANGED <<rows, untraced>>
    BY <1>6, <2>1 DEF EditBook
  <2> QED BY <1>3, <2>3, <2>4 DEF BookBegins, rows
<1>7. ASSUME NEW n \in Names, NEW new \in MaybeIn(users), UpdateBook(w, u, b, n, new)
      PROVE  \E r \in Request : RequestOK(r) /\ BookBegins(w, r)
  <2>1. PICK r : r = OnBook("commit", u, b, new, n)
    OBVIOUS
  <2>2. r \in Request /\ RequestOK(r) /\ r.step = "commit" /\ r.name = n
    BY <1>2, <2>1, BookRequest
  <2>3. Start(w, r) /\ May(u, b) /\ Renames(b, n) /\ UNCHANGED <<rows, untraced>>
    BY <1>7, <2>1 DEF UpdateBook
  <2> QED BY <1>3, <2>2, <2>3 DEF BookBegins, rows
<1>8. ASSUME NEW new \in users, TransferBook(w, u, b, new)
      PROVE  \E r \in Request : RequestOK(r) /\ BookBegins(w, r)
  <2>1. PICK r : r = OnBook("commit", u, b, new, None)
    OBVIOUS
  <2>2. new \in MaybeIn(Users) /\ None # Reserved
    BY <1>0, NoneAssumption, NamesAssumption DEF MaybeIn
  <2>3. r \in Request /\ RequestOK(r) /\ r.step = "commit" /\ r.name = None
    BY <1>2, <2>1, <2>2, BookRequest
  <2>4. Start(w, r) /\ UNCHANGED <<rows, untraced>>
    BY <1>8, <2>1 DEF TransferBook
  <2> QED BY <2>2, <2>3, <2>4 DEF BookBegins, rows
<1>9. ASSUME NEW t \in Targets, Remove(w, u, b, t)
      PROVE  \E r \in Request : RequestOK(r) /\ GrantBegins(w, r)
  <2>1. PICK r : r = OnGrant("strike", u, b, t, grant[<<b, t>>].id, None)
    OBVIOUS
  <2>2. grant[<<b, t>>] # None /\ grant[<<b, t>>].id \in Ids
    BY <1>0, <1>9, GrantFacts DEF Remove
  <2>3. /\ r \in Request /\ RequestOK(r) /\ r.step = "strike" /\ r.book = b /\ r.target = t
        /\ r.id = grant[<<b, t>>].id
    BY <1>2, <2>1, <2>2, GrantRequest
  <2>4. Begin(w, r)
    BY <1>9, <2>1 DEF Remove
  <2> QED BY <2>2, <2>3, <2>4 DEF GrantBegins
<1>10. ASSUME NEW t \in Targets, NEW rule \in Rules, Put(w, u, b, t, rule)
       PROVE  \E r \in Request : RequestOK(r) /\ GrantBegins(w, r)
  <2>1. PICK r : r = OnGrant("put", u, b, t, None, rule)
    OBVIOUS
  <2>2. r \in Request /\ RequestOK(r) /\ r.step = "put"
    BY <1>2, <2>1, GrantRequest
  <2> QED BY <1>10, <2>1, <2>2 DEF GrantBegins, Put
<1>11. ASSUME NEW t \in Targets, NEW rule \in Rules, Write(w, u, b, t, rule)
       PROVE  \E r \in Request : RequestOK(r) /\ GrantBegins(w, r)
  <2>1. PICK i : i = IF grant[<<b, t>>] = None THEN None ELSE grant[<<b, t>>].id
    OBVIOUS
  <2>2. i \in MaybeIn(Ids)
    BY <1>0, <2>1, GrantFacts DEF MaybeIn
  <2>3. PICK r : r = OnGrant("write", u, b, t, i, rule)
    OBVIOUS
  <2>4. r \in Request /\ RequestOK(r) /\ r.step = "write"
    BY <1>2, <2>2, <2>3, GrantRequest
  <2> QED BY <1>11, <2>1, <2>3, <2>4 DEF GrantBegins, Write
<1> QED BY <1>0, <1>1, <1>4, <1>5, <1>6, <1>7, <1>8, <1>9, <1>10, <1>11

-----------------------------------------------------------------------------
(* Requests that go on                                                     *)

LEMMA NextStep ==
  ASSUME BaseInv, NEW w \in Workers
  PROVE  /\ req[w].step \in {"put", "write"} =>
              /\ [req[w] EXCEPT !.step = "audit"] \in Request
              /\ RequestOK([req[w] EXCEPT !.step = "audit"])
         /\ req[w].step = "strike" =>
              /\ [req[w] EXCEPT !.step = "remove"] \in Request
              /\ RequestOK([req[w] EXCEPT !.step = "remove"])
BY RequestFacts DEF Request, RequestOK, Steps

LEMMA GrantWritten ==
  ASSUME BaseInv, NEW w \in Workers, PutGrant(w) \/ WriteGrant(w)
  PROVE  /\ req[w].step \in {"put", "write"} /\ Insertable(req[w])
         /\ req[w].book \in Books /\ req[w].target \in Targets /\ req[w].rule \in Rules
         /\ \E i \in Ids : grant' = [grant EXCEPT ![<<req[w].book, req[w].target>>] =
                                       [id |-> i, rule |-> req[w].rule]]
         /\ Goto(w, [req[w] EXCEPT !.step = "audit"])
         /\ Change(req[w].book, req[w].target)
         /\ UNCHANGED <<users, book, personal, audited, requests, devices, taken>>
<1>1. /\ req[w].step \in {"put", "write"} => /\ req[w].book \in Books /\ req[w].target \in Targets
                                             /\ req[w].rule \in Rules
      /\ req[w].id \in MaybeIn(Ids) /\ TypeOK
  BY RequestFacts DEF RequestOK, Request, BaseInv
<1>2. CASE PutGrant(w)
  <2>1. req[w].step \in {"put", "write"}
    BY <1>2 DEF PutGrant, At
  <2>2. grant[<<req[w].book, req[w].target>>] # None =>
          grant[<<req[w].book, req[w].target>>].id \in Ids
    BY <1>1, <2>1, GrantFacts
  <2>3. \E i \in Ids : grant' = [grant EXCEPT ![<<req[w].book, req[w].target>>] =
                                   [id |-> i, rule |-> req[w].rule]]
    BY <1>2, <2>2 DEF PutGrant, FreeIds
  <2> QED BY <1>1, <1>2, <2>1, <2>3 DEF PutGrant
<1>3. CASE WriteGrant(w)
  <2>1. req[w].step \in {"put", "write"}
    BY <1>3 DEF WriteGrant, At
  <2>2. \E i \in Ids : grant' = [grant EXCEPT ![<<req[w].book, req[w].target>>] =
                                   [id |-> i, rule |-> req[w].rule]]
    BY <1>1, <1>3 DEF WriteGrant, FreeIds, MaybeIn
  <2> QED BY <1>1, <1>3, <2>1, <2>2 DEF WriteGrant
<1> QED BY <1>2, <1>3

LEMMA GrantRemoved ==
  ASSUME BaseInv, NEW w \in Workers, RemoveGrant(w)
  PROVE  /\ req[w].step = "remove" /\ req[w].book \in Books /\ req[w].target \in Targets
         /\ \/ /\ grant[<<req[w].book, req[w].target>>] # None =>
                    grant[<<req[w].book, req[w].target>>].id # req[w].id
               /\ grant' = grant
            \/ grant' = [grant EXCEPT ![<<req[w].book, req[w].target>>] = None]
         /\ Goto(w, Idle)
         /\ UNCHANGED <<users, book, personal, audited, requests, devices, taken, untraced>>
<1>1. req[w].step = "remove"
  BY DEF RemoveGrant, At
<1>2. req[w].book \in Books /\ req[w].target \in Targets
  BY <1>1, RequestFacts DEF RequestOK
<1> QED BY <1>1, <1>2 DEF RemoveGrant

LEMMA Audited ==
  ASSUME BaseInv, NEW w \in Workers, Audit(w)
  PROVE  /\ req[w].step \in {"audit", "strike"}
         /\ req[w].book \in Books /\ req[w].target \in Targets /\ book[req[w].book] # None
         /\ audited' = [audited EXCEPT ![<<req[w].book, req[w].target>>] =
                          IF req[w].step = "audit" THEN req[w].rule ELSE 0]
         /\ (IF req[w].step = "audit" THEN req[w].rule ELSE 0) \in Rules \cup {0}
         /\ Goto(w, IF req[w].step = "audit" THEN Idle ELSE [req[w] EXCEPT !.step = "remove"])
         /\ taken' = taken \ {<<req[w].book, req[w].target>>}
         /\ req[w].step = "audit" => UNCHANGED untraced
         /\ req[w].step = "strike" =>
              \/ Change(req[w].book, req[w].target)
                 /\ (grant[<<req[w].book, req[w].target>>] # None =>
                       grant[<<req[w].book, req[w].target>>].id = req[w].id)
              \/ untraced' = untraced \cup {<<req[w].book, req[w].target>>}
         /\ UNCHANGED <<users, book, personal, grant, requests, devices>>
<1>1. req[w].step \in {"audit", "strike"}
  BY DEF Audit
<1>2. /\ req[w].book \in Books /\ req[w].target \in Targets
      /\ req[w].step = "audit" => req[w].rule \in Rules
  BY <1>1, RequestFacts DEF RequestOK
<1> QED BY <1>1, <1>2 DEF Audit

\* A request ends at a statement that fails or by dying.
Ends(w) == GrantFails(w) \/ AuditFails(w) \/ Crash(w)

LEMMA Ended ==
  ASSUME BaseInv, NEW w \in Workers, Ends(w)
  PROVE  /\ Goto(w, Idle) /\ UNCHANGED rows /\ requests' \in Nat
         /\ untraced \subseteq untraced' /\ untraced' \subseteq Books \X Targets
         /\ req[w].step \in {"audit", "remove"} => <<req[w].book, req[w].target>> \in untraced'
<1>1. Abort(w) /\ requests' \in Nat
  BY DEF Ends, GrantFails, AuditFails, Crash, BaseInv, TypeOK
<1>2. req[w].step \in {"audit", "remove"} => req[w].book \in Books /\ req[w].target \in Targets
  BY RequestFacts DEF RequestOK
<1> QED BY <1>1, <1>2 DEF Abort, Halfway, About, BaseInv, TypeOK

LEMMA Saved ==
  ASSUME BaseInv, NEW w \in Workers, SaveBook(w)
  PROVE  /\ req[w].book \in Books /\ req[w].owner \in Users /\ req[w].name \in Names
         /\ req[w].target = None /\ req[w].step = "save"
         /\ \/ book' = book
            \/ /\ Free(req[w].book, req[w].owner, req[w].name)
               /\ book' = [book EXCEPT ![req[w].book] =
                             [owner |-> req[w].owner, name |-> req[w].name]]
         /\ Goto(w, Idle)
         /\ UNCHANGED <<users, personal, grant, audited, requests, devices, taken, untraced>>
<1>1. req[w].step = "save"
  BY DEF SaveBook, At
<1>2. /\ req[w].book \in Books /\ req[w].owner \in Users /\ req[w].name \in Names
      /\ req[w].target = None
  BY <1>1, RequestFacts DEF RequestOK
<1> QED BY <1>1, <1>2 DEF SaveBook

\* A transfer takes the new owner's share, if he has one.
Takes(b, o) ==
  /\ grant' = [grant EXCEPT ![<<b, o>>] = None]
  /\ taken' = taken \cup {<<b, o>>}
  /\ Change(b, o)

LEMMA Committed ==
  ASSUME BaseInv, NEW w \in Workers, CommitBook(w)
  PROVE  /\ req[w].book \in Books /\ req[w].target = None /\ req[w].step = "commit"
         /\ \/ UNCHANGED <<book, grant, taken, untraced>>
            \/ /\ book[req[w].book] # None
               /\ \E o \in Users, n \in Names :
                    /\ Free(req[w].book, o, n)
                    /\ book' = [book EXCEPT ![req[w].book] = [owner |-> o, name |-> n]]
                    /\ n = req[w].name \/ n = book[req[w].book].name
                    /\ UNCHANGED <<grant, taken, untraced>> \/ Takes(req[w].book, o)
         /\ Goto(w, Idle)
         /\ UNCHANGED <<users, personal, audited, requests, devices>>
<1>1. req[w].step = "commit"
  BY DEF CommitBook, At
<1>2. req[w].book \in Books /\ req[w].target = None
  BY <1>1, RequestFacts DEF RequestOK
<1>3. req[w].owner \in MaybeIn(Users) /\ req[w].name \in MaybeIn(Names)
  BY RequestFacts DEF Request
<1>4. PICK o : o = IF req[w].owner = None THEN book[req[w].book].owner ELSE req[w].owner
  OBVIOUS
<1>5. PICK n : n = IF req[w].name = None THEN book[req[w].book].name ELSE req[w].name
  OBVIOUS
<1>6. book[req[w].book] # None => o \in Users /\ n \in Names
  BY <1>2, <1>3, <1>4, <1>5, BookFacts DEF MaybeIn, BaseInv
<1>7. /\ IF book[req[w].book] # None /\ Free(req[w].book, o, n)
           THEN /\ book' = [book EXCEPT ![req[w].book] = [owner |-> o, name |-> n]]
                /\ UNCHANGED <<grant, taken, untraced>> \/ Takes(req[w].book, o)
           ELSE UNCHANGED <<book, grant, taken, untraced>>
      /\ Goto(w, Idle)
      /\ UNCHANGED <<users, personal, audited, requests, devices>>
  BY <1>4, <1>5 DEF CommitBook, Takes
<1>8. n = req[w].name \/ n = book[req[w].book].name
  BY <1>5
<1>9. CASE book[req[w].book] # None /\ Free(req[w].book, o, n)
  <2>1. o \in Users /\ n \in Names
    BY <1>6, <1>9
  <2>2. /\ book' = [book EXCEPT ![req[w].book] = [owner |-> o, name |-> n]]
        /\ UNCHANGED <<grant, taken, untraced>> \/ Takes(req[w].book, o)
    BY <1>7, <1>9
  <2> QED BY <1>1, <1>2, <1>7, <1>8, <1>9, <2>1, <2>2
<1>10. CASE ~(book[req[w].book] # None /\ Free(req[w].book, o, n))
  BY <1>1, <1>2, <1>7, <1>10
<1> QED BY <1>9, <1>10

-----------------------------------------------------------------------------
(* Types                                                                   *)

LEMMA RequestKept ==
  ASSUME BaseInv, NEW w \in Workers, NEW r \in Request, RequestOK(r), Goto(w, r) \/ Start(w, r)
  PROVE  req' \in [Workers -> Request] /\ RequestInv'
<1>1. /\ req' \in [Workers -> Request] /\ req'[w] = r
      /\ \A v \in Workers : v # w => req'[v] = req[v]
  BY DEF BaseInv, TypeOK, Goto, Start
<1> QED BY <1>1 DEF RequestInv, BaseInv

\* Grants stay as long as what they refer to does.
LEMMA GrantKept ==
  ASSUME TypeOK, UNCHANGED <<grant, users>>, \A b \in Books : book[b] # None => book'[b] # None
  PROVE  GrantOK'
BY DEF TypeOK, GrantOK, Exists

LEMMA DropOK ==
  ASSUME TypeOK, NEW gone, NEW ts, Drop(gone, ts), users' \subseteq users,
         \A u \in users : u \in users' \/ u \in ts,
         personal' \subseteq personal, personal' \subseteq users',
         \A b \in Books : book[b] # None => b \in gone \/ book[b].owner \in users'
  PROVE  BookOK' /\ GrantOK'
<1>1. /\ book' \in [Books -> MaybeIn(Book)] /\ grant' \in [Books \X Targets -> MaybeIn(Grant)]
      /\ \A b \in Books : book'[b] = IF b \in gone THEN None ELSE book[b]
      /\ \A b \in Books, t \in Targets :
           grant'[<<b, t>>] = IF b \in gone \/ t \in ts THEN None ELSE grant[<<b, t>>]
  <2>1. /\ book' \in [Books -> MaybeIn(Book)] /\ grant' \in [Books \X Targets -> MaybeIn(Grant)]
        /\ \A b \in Books : book'[b] = IF b \in gone THEN None ELSE book[b]
    BY DropFacts
  <2>2. ASSUME NEW b \in Books, NEW t \in Targets
        PROVE  grant'[<<b, t>>] = IF b \in gone \/ t \in ts THEN None ELSE grant[<<b, t>>]
    BY DropFacts
  <2> QED BY <2>1, <2>2
<1>2. BookOK'
  BY <1>1 DEF BookOK, TypeOK
<1>3. ASSUME NEW b \in Books, NEW t \in Targets, grant'[<<b, t>>] # None
      PROVE  book'[b] # None /\ Exists(t)'
  BY <1>1, <1>3 DEF TypeOK, Exists
<1> QED BY <1>1, <1>2, <1>3 DEF GrantOK

LEMMA TypeProceeds ==
  ASSUME BaseInv, NEW w \in Workers, Proceeds(w)
  PROVE  TypeOK' /\ RequestInv'
<1>0. TypeOK /\ BookOK /\ GrantOK /\ RowsOK /\ Idle \in Request /\ RequestOK(Idle)
  BY TypeParts, IdleFacts DEF BaseInv
<1>1. CASE SaveBook(w)
  <2>1. BookOK' /\ \A b \in Books : book[b] # None => book'[b] # None
    BY <1>0, <1>1, Saved, WriteBook DEF BookOK
  <2>2. GrantOK' /\ RowsOK'
    BY <1>0, <1>1, <2>1, Saved, GrantKept DEF RowsOK
  <2>3. req' \in [Workers -> Request] /\ RequestInv'
    BY <1>0, <1>1, Saved, RequestKept
  <2> QED BY <2>1, <2>2, <2>3, TypeParts
<1>2. CASE CommitBook(w)
  <2>1. req' \in [Workers -> Request] /\ RequestInv'
    BY <1>0, <1>2, Committed, RequestKept
  <2>2. UNCHANGED <<users, personal, audited, requests, devices>> /\ req[w].book \in Books
    BY <1>2, Committed
  <2>3. CASE UNCHANGED <<book, grant, taken, untraced>>
    BY <1>0, <2>1, <2>2, <2>3, TypeParts DEF BookOK, GrantOK, RowsOK, Exists
  <2>4. ASSUME NEW b \in Books, NEW o \in Users, NEW n \in Names, Free(b, o, n), book[b] # None,
               book' = [book EXCEPT ![b] = [owner |-> o, name |-> n]],
               UNCHANGED <<grant, taken, untraced>>
        PROVE  BookOK' /\ GrantOK' /\ RowsOK'
    BY <1>0, <2>2, <2>4, WriteBook, GrantKept DEF RowsOK
  <2>5. ASSUME NEW b \in Books, NEW o \in Users, NEW n \in Names, Free(b, o, n), book[b] # None,
               book' = [book EXCEPT ![b] = [owner |-> o, name |-> n]],
               Takes(b, o)
        PROVE  BookOK' /\ GrantOK' /\ RowsOK'
    <3>1. BookOK' /\ \A c \in Books : book[c] # None => book'[c] # None
      BY <1>0, <2>2, <2>5, WriteBook
    <3>2. o \in Targets /\ <<b, o>> \in Books \X Targets
      BY DEF Targets
    <3>3. grant' \in [Books \X Targets -> MaybeIn(Grant)]
      BY <1>0, <2>5, <3>2 DEF GrantOK, MaybeIn, Takes
    <3>4. ASSUME NEW c \in Books, NEW t \in Targets, grant'[<<c, t>>] # None
          PROVE  grant[<<c, t>>] # None
      <4>1. PICK g : g = <<c, t>>
        OBVIOUS
      <4>2. g \in Books \X Targets /\ grant'[g] # None
        BY <3>4, <4>1
      <4>3. grant[g] # None
        BY <1>0, <2>5, <3>2, <4>2 DEF GrantOK, Takes
      <4> QED BY <4>1, <4>3
    <3>5. GrantOK'
      BY <1>0, <2>2, <3>1, <3>3, <3>4 DEF GrantOK, Exists
    <3> QED BY <1>0, <2>2, <2>5, <3>1, <3>2, <3>5 DEF RowsOK, Takes, Change
  <2>6. ASSUME ~UNCHANGED <<book, grant, taken, untraced>> PROVE BookOK' /\ GrantOK' /\ RowsOK'
    BY <1>2, <2>2, <2>4, <2>5, <2>6, Committed
  <2> QED BY <2>1, <2>3, <2>6, TypeParts
<1>3. CASE DropBook(w)
  <2>1. Drop({req[w].book}, {}) /\ Goto(w, Idle)
        /\ UNCHANGED <<users, personal, requests, devices>>
    BY <1>3 DEF DropBook
  <2>2. BookOK' /\ GrantOK'
    BY <1>0, <2>1, DropOK DEF BookOK
  <2>3. RowsOK'
    BY <1>0, <2>1, DropFacts DEF RowsOK
  <2> QED BY <1>0, <2>1, <2>2, <2>3, RequestKept, TypeParts
<1>4. CASE PutGrant(w) \/ WriteGrant(w)
  <2>1. /\ req[w].step \in {"put", "write"} /\ Insertable(req[w])
        /\ req[w].book \in Books /\ req[w].target \in Targets /\ req[w].rule \in Rules
        /\ Goto(w, [req[w] EXCEPT !.step = "audit"])
        /\ Change(req[w].book, req[w].target)
        /\ UNCHANGED <<users, book, personal, audited, requests, devices, taken>>
    BY <1>4, GrantWritten
  <2>2. PICK i \in Ids : grant' = [grant EXCEPT ![<<req[w].book, req[w].target>>] =
                                     [id |-> i, rule |-> req[w].rule]]
    BY <1>4, GrantWritten
  <2>3. [id |-> i, rule |-> req[w].rule] \in MaybeIn(Grant)
    BY <2>1 DEF MaybeIn, Grant
  <2>4. GrantOK'
    BY <1>0, <2>1, <2>2, <2>3, EditGrant DEF Insertable
  <2>5. BookOK' /\ RowsOK'
    BY <1>0, <2>1 DEF BookOK, RowsOK, Change
  <2>6. req' \in [Workers -> Request] /\ RequestInv'
    BY <2>1, NextStep, RequestKept
  <2> QED BY <2>4, <2>5, <2>6, TypeParts
<1>5. CASE Ends(w)
  <2>1. BookOK' /\ GrantOK' /\ RowsOK'
    BY <1>0, <1>5, Ended DEF BookOK, GrantOK, RowsOK, rows, Exists
  <2> QED BY <1>0, <1>5, <2>1, Ended, RequestKept, TypeParts
<1>6. CASE Audit(w)
  <2>1. BookOK' /\ GrantOK'
    BY <1>0, <1>6, Audited DEF BookOK, GrantOK, Exists
  <2>2. PICK x \in Rules \cup {0} :
          audited' = [audited EXCEPT ![<<req[w].book, req[w].target>>] = x]
    BY <1>6, Audited
  <2>3. RowsOK'
    <3>1. <<req[w].book, req[w].target>> \in Books \X Targets
      BY <1>6, Audited
    <3>2. taken' \subseteq taken
      BY <1>6, Audited
    <3>3. untraced' \subseteq Books \X Targets
      <4>1. \/ untraced' = untraced
            \/ untraced' = untraced \cup {<<req[w].book, req[w].target>>}
        BY <1>6, Audited DEF Change
      <4> QED BY <1>0, <3>1, <4>1 DEF RowsOK
    <3>4. UNCHANGED <<users, requests, devices>>
      BY <1>6, Audited
    <3> QED BY <1>0, <2>2, <3>2, <3>3, <3>4 DEF RowsOK
  <2>4. req' \in [Workers -> Request] /\ RequestInv'
    <3>1. req[w].step \in {"audit", "strike"}
          /\ Goto(w, IF req[w].step = "audit" THEN Idle ELSE [req[w] EXCEPT !.step = "remove"])
      BY <1>6, Audited
    <3>2. CASE req[w].step = "audit"
      BY <1>0, <3>1, <3>2, RequestKept
    <3>3. CASE req[w].step = "strike"
      <4>1. Goto(w, [req[w] EXCEPT !.step = "remove"])
        BY <3>1, <3>3
      <4> QED BY <3>3, <4>1, NextStep, RequestKept
    <3> QED BY <3>1, <3>2, <3>3
  <2> QED BY <2>1, <2>3, <2>4, TypeParts
<1>7. CASE RemoveGrant(w)
  <2>1. GrantOK'
    <3>1. None \in MaybeIn(Grant)
      BY DEF MaybeIn
    <3>2. /\ req[w].book \in Books /\ req[w].target \in Targets /\ UNCHANGED <<book, users>>
          /\ \/ grant' = grant
             \/ grant' = [grant EXCEPT ![<<req[w].book, req[w].target>>] = None]
      BY <1>7, GrantRemoved
    <3>3. grant' = grant => GrantOK'
      BY <1>0, <3>2, GrantKept
    <3> QED BY <1>0, <3>1, <3>2, <3>3, EditGrant
  <2>2. BookOK' /\ RowsOK'
    BY <1>0, <1>7, GrantRemoved DEF BookOK, RowsOK
  <2>3. req' \in [Workers -> Request] /\ RequestInv'
    BY <1>0, <1>7, GrantRemoved, RequestKept
  <2> QED BY <2>1, <2>2, <2>3, TypeParts
<1> QED BY <1>1, <1>2, <1>3, <1>4, <1>5, <1>6, <1>7 DEF Proceeds, Ends

LEMMA TypeBegins ==
  ASSUME BaseInv, NEW w \in Workers, Begins(w)
  PROVE  TypeOK' /\ RequestInv'
<1>0. TypeOK /\ BookOK /\ GrantOK /\ RowsOK
  BY TypeParts DEF BaseInv
<1>1. PICK r \in Request : RequestOK(r) /\ (BookBegins(w, r) \/ GrantBegins(w, r))
  BY BeginsStep
<1>2. CASE BookBegins(w, r)
  <2>1. req' \in [Workers -> Request] /\ RequestInv' /\ requests' \in Nat
    BY <1>0, <1>1, <1>2, RequestKept, StartFacts DEF BookBegins
  <2>2. BookOK' /\ \A b \in Books : book[b] # None => book'[b] # None
    BY <1>0, <1>2, WriteBook DEF BookBegins, Insert, BookOK
  <2>3. GrantOK' /\ RowsOK'
    BY <1>0, <1>2, <2>1, <2>2, GrantKept DEF BookBegins, RowsOK
  <2> QED BY <2>1, <2>2, <2>3, TypeParts
<1>3. CASE GrantBegins(w, r)
  <2>1. req' \in [Workers -> Request] /\ RequestInv' /\ requests' \in Nat
    BY <1>0, <1>1, <1>3, RequestKept, StartFacts DEF GrantBegins, Begin
  <2>2. BookOK' /\ GrantOK'
    BY <1>0, <1>3 DEF BookOK, GrantOK, GrantBegins, Begin, rows, Exists
  <2>3. <<r.book, r.target>> \in Books \X Targets
    BY <1>1, <1>3 DEF RequestOK, GrantBegins
  <2>4. RowsOK'
    BY <1>0, <1>3, <2>1, <2>3 DEF RowsOK, GrantBegins, Begin, rows
  <2> QED BY <2>1, <2>2, <2>4, TypeParts
<1> QED BY <1>1, <1>2, <1>3

LEMMA BaseNext == BaseInv /\ [Next]_vars => BaseInv'
<1> SUFFICES ASSUME BaseInv, [Next]_vars PROVE TypeOK' /\ RequestInv'
  BY DEF BaseInv
<1>0. TypeOK /\ BookOK /\ GrantOK /\ RowsOK /\ RequestInv
  BY TypeParts DEF BaseInv
<1>1. CASE UNCHANGED vars
  BY <1>0, <1>1 DEF vars, TypeOK, RequestInv, Exists
<1>2. ASSUME UNCHANGED req PROVE req' \in [Workers -> Request] /\ RequestInv'
  BY <1>0, <1>2 DEF TypeOK, RequestInv
<1>3. ASSUME NEW u \in Users, DeleteUser(u) PROVE TypeOK' /\ RequestInv'
  <2> DEFINE gone == {b \in Books : book[b] # None /\ book[b].owner = u}
  <2>1. /\ users' = users \ {u} /\ personal' = personal \ {u} /\ Drop(gone, {u})
        /\ UNCHANGED <<req, requests, devices>>
    BY <1>3 DEF DeleteUser
  <2>2. \A b \in Books : book[b] # None => b \in gone \/ book[b].owner \in users'
    BY <1>0, <2>1 DEF BookOK
  <2> HIDE DEF gone
  <2>3. BookOK' /\ GrantOK'
    BY <1>0, <2>1, <2>2, DropOK DEF BookOK
  <2>4. RowsOK'
    BY <1>0, <2>1, DropFacts DEF RowsOK
  <2> QED BY <1>2, <2>1, <2>3, <2>4, TypeParts
<1>4. ASSUME NEW u \in Users, EnsurePersonal(u) PROVE TypeOK' /\ RequestInv'
  <2>1. /\ u \in users /\ \A b \in Books : book[b] # [owner |-> u, name |-> Reserved]
        /\ personal' = personal \cup {u}
        /\ UNCHANGED <<users, book, grant, audited, req, requests, devices, taken, untraced>>
    BY <1>4 DEF EnsurePersonal
  <2>2. ASSUME NEW b \in Books, book[b] # None, book[b].name = Reserved PROVE book[b].owner # u
    BY <1>0, <2>1, <2>2, BookFacts DEF Book
  <2>3. BookOK'
    BY <1>0, <2>1, <2>2 DEF BookOK
  <2>4. GrantOK' /\ RowsOK'
    BY <1>0, <2>1, GrantKept DEF RowsOK
  <2> QED BY <1>2, <2>1, <2>3, <2>4, TypeParts
<1>5. ASSUME NEW u, NEW b \in Books, DeleteBooks(u, b) PROVE TypeOK' /\ RequestInv'
  <2>1. Drop({b}, {}) /\ UNCHANGED <<users, personal, req, requests, devices>>
    BY <1>5 DEF DeleteBooks
  <2>2. BookOK' /\ GrantOK'
    BY <1>0, <2>1, DropOK DEF BookOK
  <2>3. RowsOK'
    BY <1>0, <2>1, DropFacts DEF RowsOK
  <2> QED BY <1>2, <2>1, <2>2, <2>3, TypeParts
<1>6. ASSUME NEW o \in users, NEW n \in Names, NEW b \in Books, Insert(b, o, n),
             UNCHANGED <<users, personal, grant, audited, req, requests, taken, untraced>>,
             devices' \in BOOLEAN
      PROVE  TypeOK' /\ RequestInv'
  <2>1. o \in Users
    BY <1>0 DEF RowsOK
  <2>2. BookOK' /\ \A c \in Books : book[c] # None => book'[c] # None
    BY <1>0, <1>6, <2>1, WriteBook DEF Insert
  <2>3. GrantOK' /\ RowsOK'
    BY <1>0, <1>6, <2>2, GrantKept DEF RowsOK
  <2> QED BY <1>2, <1>6, <2>2, <2>3, TypeParts
<1>7. ASSUME NEW o \in users, NEW n \in Names, NEW b \in Books,
             DeviceBook(o, n, b) \/ \E u \in users : CreateBook(u, o, n, b)
      PROVE  TypeOK' /\ RequestInv'
  <2>1. devices' \in BOOLEAN
    BY <1>0, <1>7 DEF DeviceBook, CreateBook, RowsOK
  <2> QED BY <1>6, <1>7, <2>1 DEF DeviceBook, CreateBook
<1> QED BY <1>1, <1>3, <1>4, <1>5, <1>7, TypeBegins, TypeProceeds DEF Next, Immediate

LEMMA BaseInit == Init => BaseInv
<1> SUFFICES ASSUME Init PROVE BaseInv
  OBVIOUS
<1>1. req \in [Workers -> Request] /\ RequestInv
  BY IdleFacts DEF Init, RequestInv
<1>2. BookOK /\ GrantOK /\ RowsOK
  BY DEF Init, BookOK, GrantOK, RowsOK, MaybeIn
<1> QED BY <1>1, <1>2, TypeParts DEF BaseInv

THEOREM BaseHolds == Spec => []BaseInv
BY BaseInit, BaseNext, PTL DEF Spec

\* Types: books are their owners' and have names of their own, shares and
\* rules are of a book and for a target that are there.
THEOREM TypeCorrect == Spec => []TypeOK
<1>1. BaseInv => TypeOK
  BY DEF BaseInv
<1> QED BY <1>1, BaseHolds, PTL

-----------------------------------------------------------------------------
(* The name of personal books                                              *)

LEMMA PersonalNext == BaseInv /\ PersonalInv /\ [Next]_vars => PersonalInv'
<1> SUFFICES ASSUME BaseInv, PersonalInv, [Next]_vars, ~devices'
             PROVE  /\ \A b \in Books : book'[b] # None => book'[b].name # Reserved
                    /\ \A w \in Workers : req'[w].step \in {"save", "commit"} => req'[w].name # Reserved
  BY DEF PersonalInv, PersonalPossible, NameInv
<1> DEFINE BooksFree == \A b \in Books : book'[b] # None => book'[b].name # Reserved
           RequestsFree ==
             \A w \in Workers : req'[w].step \in {"save", "commit"} => req'[w].name # Reserved
<1>0. TypeOK
  BY DEF BaseInv
<1>1. ASSUME ~devices
      PROVE  /\ \A b \in Books : book[b] # None => book[b].name # Reserved
             /\ \A w \in Workers : req[w].step \in {"save", "commit"} => req[w].name # Reserved
  BY <1>1 DEF PersonalInv, PersonalPossible, NameInv
<1>2. ASSUME ~devices, UNCHANGED book \/ \E gone, ts : Drop(gone, ts) PROVE BooksFree
  <2>1. CASE UNCHANGED book
    BY <1>1, <1>2, <2>1
  <2>2. ASSUME NEW gone, NEW ts, Drop(gone, ts) PROVE BooksFree
    <3>1. \A b \in Books : book'[b] \in {None, book[b]}
      BY <1>0, <2>2, DropFacts
    <3> QED BY <1>1, <1>2, <3>1
  <2> QED BY <1>2, <2>1, <2>2
<1>3. ASSUME ~devices, UNCHANGED req PROVE RequestsFree
  BY <1>1, <1>3
<1>4. ASSUME ~devices, NEW w \in Workers, NEW r \in Request, Goto(w, r) \/ Start(w, r),
             r.step \in {"save", "commit"} => r.name # Reserved
      PROVE  RequestsFree
  <2>1. req'[w] = r /\ \A v \in Workers : v # w => req'[v] = req[v]
    BY <1>0, <1>4, GotoFacts, StartFacts
  <2> QED BY <1>1, <1>4, <2>1
<1>5. ASSUME ~devices, NEW b \in Books, NEW o \in Users, NEW n \in Names, n # Reserved,
             Free(b, o, n), book' = [book EXCEPT ![b] = [owner |-> o, name |-> n]],
             UNCHANGED <<users, personal>>
      PROVE  BooksFree
  <2>1. book'[b].name = n /\ \A c \in Books : c # b => book'[c] = book[c]
    BY <1>0, <1>5, WriteBook
  <2> QED BY <1>1, <1>5, <2>1
<1>6. CASE UNCHANGED vars
  BY <1>1, <1>6 DEF vars
<1>7. ASSUME NEW u \in Users, DeleteUser(u) \/ EnsurePersonal(u) PROVE BooksFree /\ RequestsFree
  BY <1>2, <1>3, <1>7 DEF DeleteUser, EnsurePersonal
<1>8. ASSUME NEW u, NEW b \in Books, DeleteBooks(u, b) PROVE BooksFree /\ RequestsFree
  BY <1>2, <1>3, <1>8 DEF DeleteBooks
<1>9. ASSUME NEW o \in users, NEW n \in Names, NEW b \in Books,
             DeviceBook(o, n, b) \/ \E u \in users : CreateBook(u, o, n, b)
      PROVE  BooksFree /\ RequestsFree
  <2>1. /\ ~devices /\ n # Reserved /\ Insert(b, o, n) /\ UNCHANGED <<users, personal, req>>
        /\ o \in Users
    BY <1>0, <1>9 DEF DeviceBook, CreateBook, TypeOK
  <2> HIDE DEF BooksFree, RequestsFree
  <2> QED BY <1>3, <1>5, <2>1 DEF Insert
<1>10. ASSUME NEW w \in Workers, Begins(w) PROVE BooksFree /\ RequestsFree
  <2>1. PICK r \in Request : BookBegins(w, r) \/ GrantBegins(w, r)
    BY <1>10, BeginsStep
  <2>2. CASE BookBegins(w, r)
    <3>1. ~devices /\ UNCHANGED <<users, personal>> /\ Start(w, r)
      BY <2>2 DEF BookBegins
    <3>2. r.step \in {"save", "commit"} => r.name # Reserved
      BY <1>1, <2>2, <3>1 DEF BookBegins
    <3>3. RequestsFree
      BY <1>4, <3>1, <3>2
    <3>4. CASE UNCHANGED book
      BY <1>2, <3>1, <3>3, <3>4
    <3>5. ASSUME NEW b \in Books, NEW o \in Users, NEW n \in Names, n # Reserved, Insert(b, o, n)
          PROVE  BooksFree
      BY <1>5, <3>1, <3>5 DEF Insert
    <3> HIDE DEF BooksFree, RequestsFree
    <3> QED BY <2>2, <3>3, <3>4, <3>5 DEF BookBegins
  <2>3. CASE GrantBegins(w, r)
    <3>1. ~devices /\ UNCHANGED book /\ Start(w, r) /\ r.step \notin {"save", "commit"}
      BY <2>3 DEF GrantBegins, Begin, rows
    <3> QED BY <1>2, <1>4, <3>1
  <2> QED BY <2>1, <2>2, <2>3
<1>11. ASSUME NEW w \in Workers, Proceeds(w) PROVE BooksFree /\ RequestsFree
  <2>1. ~devices
    BY <1>11 DEF Proceeds, SaveBook, CommitBook, DropBook, PutGrant, WriteGrant, GrantFails, Audit,
                 AuditFails, RemoveGrant, Crash, Abort, rows
  <2>2. Idle \in Request /\ Idle.step = "idle"
    BY IdleFacts DEF Idle
  <2>3. ASSUME Goto(w, Idle) PROVE RequestsFree
    BY <1>4, <2>1, <2>2, <2>3
  <2>4. CASE SaveBook(w)
    <3>1. req[w].name # Reserved
      BY <1>1, <2>1, <2>4, Saved
    <3>2. BooksFree
      BY <1>2, <1>5, <2>1, <2>4, <3>1, Saved
    <3> QED BY <2>3, <2>4, <3>2, Saved
  <2>5. CASE CommitBook(w)
    <3>1. req[w].name # Reserved /\ req[w].book \in Books /\ UNCHANGED <<users, personal>>
      BY <1>1, <2>1, <2>5, Committed
    <3>2. ASSUME NEW o \in Users, NEW n \in Names, Free(req[w].book, o, n),
                 book[req[w].book] # None,
                 book' = [book EXCEPT ![req[w].book] = [owner |-> o, name |-> n]],
                 n = req[w].name \/ n = book[req[w].book].name
          PROVE  BooksFree
      <4>1. n # Reserved
        BY <1>1, <2>1, <3>1, <3>2
      <4> QED BY <1>5, <2>1, <3>1, <3>2, <4>1
    <3>3. ASSUME UNCHANGED book PROVE BooksFree
      BY <1>2, <2>1, <3>3
    <3> HIDE DEF BooksFree
    <3>4. BooksFree
      BY <2>5, <3>2, <3>3, Committed
    <3> QED BY <2>3, <2>5, <3>4, Committed DEF BooksFree
  <2>6. CASE DropBook(w)
    BY <1>2, <2>1, <2>3, <2>6 DEF DropBook
  <2>7. CASE PutGrant(w) \/ WriteGrant(w)
    <3>1. /\ req[w].step \in {"put", "write"} /\ Goto(w, [req[w] EXCEPT !.step = "audit"])
          /\ UNCHANGED book
      BY <2>7, GrantWritten
    <3>2. [req[w] EXCEPT !.step = "audit"] \in Request /\ [req[w] EXCEPT !.step = "audit"].step = "audit"
      BY <3>1, NextStep, RequestFacts DEF Request
    <3> QED BY <1>2, <1>4, <2>1, <3>1, <3>2
  <2>8. CASE Ends(w) \/ RemoveGrant(w)
    BY <1>2, <2>1, <2>3, <2>8, Ended, GrantRemoved DEF rows
  <2>9. CASE Audit(w)
    <3>1. /\ req[w].step \in {"audit", "strike"} /\ UNCHANGED book
          /\ Goto(w, IF req[w].step = "audit" THEN Idle ELSE [req[w] EXCEPT !.step = "remove"])
      BY <2>9, Audited
    <3>2. CASE req[w].step = "audit"
      BY <1>2, <2>1, <2>3, <3>1, <3>2
    <3>3. CASE req[w].step = "strike"
      <4>1. [req[w] EXCEPT !.step = "remove"] \in Request
            /\ [req[w] EXCEPT !.step = "remove"].step = "remove"
        BY <3>3, NextStep, RequestFacts DEF Request
      <4>2. Goto(w, [req[w] EXCEPT !.step = "remove"])
        BY <3>1, <3>3
      <4> QED BY <1>2, <1>4, <2>1, <3>1, <4>1, <4>2
    <3> QED BY <3>1, <3>2, <3>3
  <2> HIDE DEF BooksFree, RequestsFree
  <2> QED BY <1>11, <2>4, <2>5, <2>6, <2>7, <2>8, <2>9 DEF Proceeds, Ends
<1> HIDE DEF BooksFree, RequestsFree
<1>12. BooksFree /\ RequestsFree
  BY <1>6, <1>7, <1>8, <1>9, <1>10, <1>11 DEF Next, Immediate, BooksFree, RequestsFree
<1> QED BY <1>12 DEF BooksFree, RequestsFree

\* A user can always get the personal book: unless devices_cli made one, no
\* other book is given its name.
THEOREM PersonalCorrect == Spec => []PersonalPossible
<1>1. Init => PersonalInv
  BY DEF Init, PersonalInv, PersonalPossible, NameInv, Idle
<1>2. PersonalInv => PersonalPossible
  BY DEF PersonalInv
<1> QED BY <1>1, <1>2, BaseHolds, PersonalNext, PTL DEF Spec

-----------------------------------------------------------------------------
(* What a user may do                                                      *)

LEMMA HighestFacts ==
  ASSUME NEW S, S \subseteq 0 .. 3
  PROVE  /\ Highest(S) \in S \cup {0} /\ Highest(S) \in 0 .. 3
         /\ \A x \in S : x <= Highest(S)
         /\ \A m \in S : (\A x \in S : x <= m) => Highest(S) = m
<1>1. \E r \in S \cup {0} : \A x \in S \cup {0} : x <= r
  <2>1. CASE 3 \in S
    BY <2>1
  <2>2. CASE 3 \notin S /\ 2 \in S
    BY <2>2
  <2>3. CASE 3 \notin S /\ 2 \notin S /\ 1 \in S
    BY <2>3
  <2>4. CASE 3 \notin S /\ 2 \notin S /\ 1 \notin S
    BY <2>4
  <2> QED BY <2>1, <2>2, <2>3, <2>4
<1>2. Highest(S) \in S \cup {0} /\ \A x \in S \cup {0} : x <= Highest(S)
  BY <1>1 DEF Highest
<1>3. PICK h : h = Highest(S)
  OBVIOUS
<1>4. h \in S \cup {0} /\ h \in 0 .. 3 /\ \A x \in S \cup {0} : x <= h
  <2>1. h \in S \cup {0} /\ \A x \in S \cup {0} : x <= h
    BY <1>2, <1>3
  <2>2. S \cup {0} \subseteq 0 .. 3
    OBVIOUS
  <2> QED BY <2>1, <2>2
<1>5. ASSUME NEW m \in S, \A x \in S : x <= m PROVE h = m
  <2>1. m \in 0 .. 3 /\ m <= h /\ h <= m
    BY <1>4, <1>5
  <2> QED BY <1>4, <2>1
<1> QED BY <1>3, <1>4, <1>5

LEMMA SameHighest ==
  ASSUME NEW S, NEW T, S \cup {0} = T \cup {0}
  PROVE  Highest(S) = Highest(T)
BY DEF Highest

\* The targets through which a user who is not the owner has a book.
Ways(u) == {u, Everyone} \cup MemberOf[u]

LEMMA WaysFacts ==
  ASSUME TypeOK, NEW u \in Users, NEW b \in Books
  PROVE  /\ Ways(u) \subseteq Targets
         /\ \A t \in Ways(u) : /\ Rule(b, t) \in 0 .. 3
                               /\ Rule(b, t) = 0 <=> grant[<<b, t>>] = None
         /\ RuleAccess(u, b) = Highest({Rule(b, t) : t \in Ways(u)})
<1>1. Ways(u) \subseteq Targets
  BY GroupsAssumption DEF Ways, Targets
<1>2. ASSUME NEW t \in Ways(u)
      PROVE  Rule(b, t) \in 0 .. 3 /\ (Rule(b, t) = 0 <=> grant[<<b, t>>] = None)
  <2>1. CASE grant[<<b, t>>] = None
    BY <1>1, <1>2, <2>1, GrantFacts
  <2>2. CASE grant[<<b, t>>] # None
    <3>1. Rule(b, t) \in Rules
      BY <1>1, <1>2, <2>2, GrantFacts
    <3>2. \A x \in Rules : x \in 0 .. 3 /\ x # 0
      BY RulesAssumption
    <3> QED BY <2>2, <3>1, <3>2
  <2> QED BY <2>1, <2>2
<1>3. {Rule(b, u), Rule(b, Everyone)} \cup {Rule(b, g) : g \in MemberOf[u]} = {Rule(b, t) : t \in Ways(u)}
  BY DEF Ways
<1> QED BY <1>1, <1>2, <1>3 DEF RuleAccess

\* The rules with which a user's list of shared books has a book.
LEMMA ListedFacts ==
  ASSUME TypeOK, NEW u \in Users, NEW b \in Books
  PROVE  {r[2] : r \in {x \in Reasons(u) : x[1] = b}} =
           IF u \in Admins THEN IF book[b] # None THEN {3} ELSE {}
           ELSE (IF book[b] # None /\ book[b].owner = u THEN {3} ELSE {})
                \cup {Rule(b, t) : t \in {s \in Ways(u) : grant[<<b, s>>] # None}}
<1> DEFINE All == {<<c, 3>> : c \in {c \in Books : book[c] # None}}
           Own == {<<c, 3>> : c \in {c \in Books : book[c] # None /\ book[c].owner = u}}
           Given == {<<g[1], Rule(g[1], g[2])>> : g \in {x \in Books \X Ways(u) : grant[x] # None}}
           Rights(S) == {r[2] : r \in {x \in S : x[1] = b}}
<1>0. ASSUME NEW P, P \subseteq Books
      PROVE  Rights({<<c, 3>> : c \in P}) = IF b \in P THEN {3} ELSE {}
  <2>1. ASSUME NEW y \in Rights({<<c, 3>> : c \in P}) PROVE b \in P /\ y = 3
    <3>1. PICK c \in P : <<c, 3>>[1] = b /\ y = <<c, 3>>[2]
      OBVIOUS
    <3> QED BY <3>1
  <2>2. ASSUME b \in P PROVE 3 \in Rights({<<c, 3>> : c \in P})
    <3>1. <<b, 3>> \in {<<c, 3>> : c \in P} /\ <<b, 3>>[1] = b /\ <<b, 3>>[2] = 3
      BY <2>2
    <3> QED BY <3>1
  <2> HIDE DEF Rights
  <2> QED BY <2>1, <2>2
<1>1. Rights(All) = IF book[b] # None THEN {3} ELSE {}
  <2>1. PICK P : P = {c \in Books : book[c] # None}
    OBVIOUS
  <2>2. P \subseteq Books /\ (b \in P <=> book[b] # None) /\ All = {<<c, 3>> : c \in P}
    BY <2>1
  <2> HIDE DEF Rights, All
  <2> QED BY <1>0, <2>2
<1>2. Rights(Own) = IF book[b] # None /\ book[b].owner = u THEN {3} ELSE {}
  <2>1. PICK P : P = {c \in Books : book[c] # None /\ book[c].owner = u}
    OBVIOUS
  <2>2. /\ P \subseteq Books /\ (b \in P <=> book[b] # None /\ book[b].owner = u)
        /\ Own = {<<c, 3>> : c \in P}
    BY <2>1
  <2> HIDE DEF Rights, Own
  <2> QED BY <1>0, <2>2
<1>3. Rights(Given) = {Rule(b, t) : t \in {s \in Ways(u) : grant[<<b, s>>] # None}}
  <2>1. ASSUME NEW y \in Rights(Given)
        PROVE  \E t \in Ways(u) : grant[<<b, t>>] # None /\ y = Rule(b, t)
    <3>1. PICK g \in Books \X Ways(u) :
            /\ grant[g] # None /\ <<g[1], Rule(g[1], g[2])>>[1] = b
            /\ y = <<g[1], Rule(g[1], g[2])>>[2]
      OBVIOUS
    <3>2. g[1] = b /\ y = Rule(g[1], g[2]) /\ g = <<g[1], g[2]>> /\ g[2] \in Ways(u)
      BY <3>1
    <3> QED BY <3>1, <3>2
  <2>2. ASSUME NEW t \in Ways(u), grant[<<b, t>>] # None PROVE Rule(b, t) \in Rights(Given)
    <3>1. PICK g \in Books \X Ways(u) : g = <<b, t>>
      OBVIOUS
    <3>2. g[1] = b /\ g[2] = t /\ grant[g] # None
      BY <2>2, <3>1
    <3>3. <<g[1], Rule(g[1], g[2])>> \in Given
      BY <3>1, <3>2
    <3>4. <<b, Rule(b, t)>> \in Given /\ <<b, Rule(b, t)>>[1] = b /\ <<b, Rule(b, t)>>[2] = Rule(b, t)
      BY <3>2, <3>3
    <3> HIDE DEF Given
    <3> QED BY <3>4
  <2> HIDE DEF Rights, Given
  <2> QED BY <2>1, <2>2
<1>4. Rights(Own \cup Given) = Rights(Own) \cup Rights(Given)
  OBVIOUS
<1>5. Reasons(u) = IF u \in Admins THEN All ELSE Own \cup Given
  BY DEF Reasons, Ways
<1> HIDE DEF All, Own, Given
<1> QED BY <1>1, <1>2, <1>3, <1>4, <1>5

\* The clients' list of shared books, the web's list and the check each
\* request makes agree on which books a user has and with what rights.
THEOREM ListsCorrect == Spec => []ListsAgree
<1>1. TypeOK => ListsAgree
  <2> SUFFICES ASSUME TypeOK, NEW u \in users, NEW b \in Books
               PROVE  Listed(u, b) = Access(u, b) /\ (b \in Accessible(u) <=> Access(u, b) > 0)
    BY DEF ListsAgree
  <2>0. u \in Users
    BY DEF TypeOK
  <2> DEFINE Given == {s \in Ways(u) : grant[<<b, s>>] # None}
             All   == {Rule(b, t) : t \in Ways(u)}
             Some  == {Rule(b, t) : t \in Given}
  <2>1. /\ \A t \in Ways(u) : /\ Rule(b, t) \in 0 .. 3 /\ t \in Targets
                              /\ Rule(b, t) = 0 <=> grant[<<b, t>>] = None
        /\ RuleAccess(u, b) = Highest(All)
    BY <2>0, WaysFacts
  <2>2. All \subseteq 0 .. 3 /\ Some \subseteq 0 .. 3 /\ All \cup {0} = Some \cup {0}
    BY <2>1
  <2>3. Listed(u, b) = Highest({r[2] : r \in {x \in Reasons(u) : x[1] = b}})
    BY DEF Listed
  <2>4. {r[2] : r \in {x \in Reasons(u) : x[1] = b}} =
          IF u \in Admins THEN IF book[b] # None THEN {3} ELSE {}
          ELSE (IF book[b] # None /\ book[b].owner = u THEN {3} ELSE {}) \cup Some
    BY <2>0, ListedFacts
  <2>5. Given # {} => book[b] # None
    BY <2>1, GrantFacts
  <2>6. b \in Accessible(u) <=> /\ book[b] # None
                                /\ u \in Admins \/ book[b].owner = u \/ Given # {}
    BY DEF Accessible, Ways
  <2>7. Given # {} <=> Highest(Some) > 0
    <3>1. ASSUME NEW t \in Given PROVE Rule(b, t) \in 1 .. 3
      <4>1. t \in Ways(u) /\ Rule(b, t) # 0
        BY <2>1
      <4> QED BY <2>1, <4>1
    <3>3. \A x \in Some : x \in 1 .. 3
      <4> HIDE DEF Given
      <4> QED BY <3>1
    <3>2. Given = {} <=> Some = {}
      OBVIOUS
    <3> HIDE DEF Given, Some
    <3> QED BY <2>2, <3>2, <3>3, HighestFacts
  <2>8. Highest({3}) = 3 /\ Highest({}) = 0 /\ Highest({3} \cup Some) = 3
    <3> HIDE DEF Some
    <3>1. ASSUME NEW S, S \subseteq 0 .. 3, 3 \in S PROVE Highest(S) = 3
      <4>1. \A x \in S : x <= 3
        BY <3>1
      <4> QED BY <3>1, <4>1, HighestFacts
    <3>2. Highest({}) = 0
      BY HighestFacts
    <3> QED BY <2>2, <3>1, <3>2
  <2>9. Highest(All) = Highest(Some)
    BY <2>2, SameHighest
  <2> HIDE DEF Given, All, Some
  <2>10. Some = {} \cup Some
    OBVIOUS
  <2>11. book[b] = None => Some = {}
    BY <2>5 DEF Some
  <2>12. CASE book[b] = None
    BY <2>3, <2>4, <2>6, <2>8, <2>11, <2>12 DEF Access
  <2>13. CASE book[b] # None /\ (u \in Admins \/ book[b].owner = u)
    <3>1. Access(u, b) = 3 /\ b \in Accessible(u)
      BY <2>6, <2>13 DEF Access
    <3>2. CASE u \in Admins
      BY <2>3, <2>4, <2>8, <2>13, <3>1, <3>2
    <3>3. CASE u \notin Admins
      BY <2>3, <2>4, <2>8, <2>13, <3>1, <3>3
    <3> QED BY <3>2, <3>3
  <2>14. CASE book[b] # None /\ u \notin Admins /\ book[b].owner # u
    <3>1. Listed(u, b) = Highest(Some)
      BY <2>3, <2>4, <2>10, <2>14
    <3> QED BY <2>1, <2>6, <2>7, <2>9, <2>14, <3>1 DEF Access
  <2> QED BY <2>12, <2>13, <2>14
<1> QED BY <1>1, TypeCorrect, PTL

-----------------------------------------------------------------------------
(* The audit of shares and rules                                           *)

\* A step that is not about a grant leaves what is known of it.
LEMMA Bystander ==
  ASSUME NEW b \in Books, NEW t \in Targets, TraceAt(b, t),
         audited'[<<b, t>>] = audited[<<b, t>>], grant'[<<b, t>>] = grant[<<b, t>>],
         <<b, t>> \in taken => <<b, t>> \in taken',
         <<b, t>> \in untraced => <<b, t>> \in untraced',
         Exists(t)' => Exists(t),
         \A v \in Workers : Halfway(v, b, t)' <=> Halfway(v, b, t),
         \A v \in Workers : Halfway(v, b, t) => req'[v] = req[v]
  PROVE  TraceAt(b, t)'
<1>1. Rule(b, t)' = Rule(b, t)
  BY DEF Rule
<1>2. ASSUME NEW v \in Workers, Halfway(v, b, t), Accounted(v, b, t) PROVE Accounted(v, b, t)'
  BY <1>1, <1>2 DEF Accounted
<1>3. Agrees(b, t) => Agrees(b, t)'
  BY <1>1 DEF Agrees
<1> QED BY <1>2, <1>3 DEF TraceAt, AtRest

\* Who is halfway changes only with the request that goes on.
LEMMA OtherRequests ==
  ASSUME BaseInv, NEW b \in Books, NEW t \in Targets, NEW w \in Workers, NEW r \in Request,
         Goto(w, r) \/ Start(w, r)
  PROVE  /\ Halfway(w, b, t)' <=> r.book = b /\ r.target = t /\ r.step \in {"audit", "remove"}
         /\ req'[w] = r
         /\ \A v \in Workers : v # w => /\ Halfway(v, b, t)' <=> Halfway(v, b, t)
                                        /\ req'[v] = req[v]
<1>1. req'[w] = r /\ \A v \in Workers : v # w => req'[v] = req[v]
  BY GotoFacts, StartFacts DEF BaseInv
<1> QED BY <1>1 DEF About, Halfway

\* A request that is not halfway with a grant, and goes on not to be, leaves
\* what is known of it.
LEMMA Unconcerned ==
  ASSUME BaseInv, NEW b \in Books, NEW t \in Targets, TraceAt(b, t),
         NEW w \in Workers, NEW r \in Request, Goto(w, r) \/ Start(w, r), ~Halfway(w, b, t),
         r.book = b /\ r.target = t => r.step \notin {"audit", "remove"},
         audited'[<<b, t>>] = audited[<<b, t>>], grant'[<<b, t>>] = grant[<<b, t>>],
         <<b, t>> \in taken => <<b, t>> \in taken',
         <<b, t>> \in untraced => <<b, t>> \in untraced', Exists(t)' => Exists(t)
  PROVE  TraceAt(b, t)'
<1>1. \A v \in Workers : /\ Halfway(v, b, t)' <=> Halfway(v, b, t)
                         /\ Halfway(v, b, t) => req'[v] = req[v]
  BY OtherRequests
<1> QED BY <1>1, Bystander

LEMMA TraceDrop ==
  ASSUME BaseInv, TraceInv, NEW b \in Books, NEW t \in Targets, NEW gone, NEW ts, Drop(gone, ts),
         Exists(t)' => Exists(t) /\ t \notin ts,
         \A v \in Workers : Halfway(v, b, t)' <=> Halfway(v, b, t),
         \A v \in Workers : Halfway(v, b, t) => req'[v] = req[v]
  PROVE  TraceAt(b, t)'
<1>1. /\ grant'[<<b, t>>] = IF b \in gone \/ t \in ts THEN None ELSE grant[<<b, t>>]
      /\ audited'[<<b, t>>] = IF b \in gone THEN 0 ELSE audited[<<b, t>>]
      /\ <<b, t>> \in taken' <=> <<b, t>> \in taken /\ b \notin gone
      /\ <<b, t>> \in untraced' <=> IF b \in gone THEN ~AtRest(b, t) ELSE <<b, t>> \in untraced
  BY DropFacts DEF BaseInv
<1>2. TraceAt(b, t)
  BY DEF TraceInv
<1>3. CASE b \in gone
  <2>1. Agrees(b, t)'
    BY <1>1, <1>3 DEF Rule, Agrees
  <2>2. <<b, t>> \notin untraced' => \A v \in Workers : ~Halfway(v, b, t)'
    BY <1>1, <1>3 DEF AtRest
  <2> QED BY <2>1, <2>2 DEF TraceAt
<1>4. CASE b \notin gone /\ t \notin ts
  BY <1>1, <1>2, <1>4, Bystander
<1>5. CASE b \notin gone /\ t \in ts
  <2>1. ~Exists(t)'
    BY <1>5
  <2> QED BY <1>1, <1>2, <1>5, <2>1 DEF TraceAt
<1> QED BY <1>3, <1>4, <1>5

LEMMA TraceBegins ==
  ASSUME BaseInv, TraceInv, NEW w \in Workers, Begins(w), NEW b \in Books, NEW t \in Targets
  PROVE  TraceAt(b, t)'
<1>1. PICK r \in Request :
        RequestOK(r) /\ At(w, "idle") /\ (BookBegins(w, r) \/ GrantBegins(w, r))
  BY BeginsStep
<1>2. TraceAt(b, t) /\ ~Halfway(w, b, t)
  BY <1>1 DEF TraceInv, At, Halfway
<1>3. /\ Start(w, r) /\ UNCHANGED <<grant, audited, users, taken, untraced>>
      /\ r.step \notin {"audit", "remove"}
  BY <1>1 DEF BookBegins, GrantBegins, Begin, rows
<1>4. Exists(t)' <=> Exists(t)
  BY <1>3 DEF Exists
<1> QED BY <1>2, <1>3, <1>4, Unconcerned

\* Nobody else is halfway with a traced grant, and then nobody when it ends.
LEMMA OnlyRequest ==
  ASSUME TraceInv, NEW b \in Books, NEW t \in Targets, NEW w \in Workers, Halfway(w, b, t),
         <<b, t>> \notin untraced
  PROVE  /\ \A v \in Workers : v # w => ~Halfway(v, b, t)
         /\ Exists(t) => Accounted(w, b, t)
BY DEF TraceInv, TraceAt

\* The second statement of a request about a grant brings them to agree.
LEMMA TraceEnds ==
  ASSUME BaseInv, TraceInv, NEW b \in Books, NEW t \in Targets, NEW w \in Workers,
         Halfway(w, b, t), Goto(w, Idle), UNCHANGED <<users, untraced>>,
         <<b, t>> \notin untraced /\ Accounted(w, b, t) => Agrees(b, t)'
  PROVE  TraceAt(b, t)'
<1>1. Idle \in Request /\ Idle.step = "idle"
  BY IdleFacts DEF Idle
<1>2. <<b, t>> \notin untraced' => \A v \in Workers : ~Halfway(v, b, t)'
  BY <1>1, OnlyRequest, OtherRequests
<1>3. Exists(t)' <=> Exists(t)
  BY DEF Exists
<1> QED BY <1>2, <1>3, OnlyRequest DEF TraceAt

\* The first statement, unless another request is halfway, is the one whose
\* second is to come.
LEMMA TraceTurns ==
  ASSUME BaseInv, TraceInv, NEW b \in Books, NEW t \in Targets, NEW w \in Workers,
         NEW r \in Request, Goto(w, r), r.book = b, r.target = t, r.step \in {"audit", "remove"},
         <<b, t>> \notin untraced' => AtRest(b, t) /\ Accounted(w, b, t)'
  PROVE  TraceAt(b, t)'
<1>1. Halfway(w, b, t)' /\ \A v \in Workers : v # w => (Halfway(v, b, t)' <=> Halfway(v, b, t))
  BY OtherRequests
<1>2. ASSUME <<b, t>> \notin untraced' PROVE \A v \in Workers : Halfway(v, b, t)' => v = w
  BY <1>1, <1>2 DEF AtRest
<1> QED BY <1>1, <1>2 DEF TraceAt, AtRest

LEMMA TraceProceeds ==
  ASSUME BaseInv, TraceInv, NEW w \in Workers, Proceeds(w), NEW b \in Books, NEW t \in Targets
  PROVE  TraceAt(b, t)'
<1>0. /\ TypeOK /\ TraceAt(b, t) /\ Idle \in Request /\ Idle.step = "idle"
  BY IdleFacts DEF BaseInv, TraceInv, Idle
<1>1. CASE SaveBook(w)
  <2>1. /\ ~Halfway(w, b, t) /\ Goto(w, Idle)
        /\ UNCHANGED <<users, grant, audited, taken, untraced>>
    BY <1>1, Saved DEF Halfway
  <2>2. Exists(t)' <=> Exists(t)
    BY <2>1 DEF Exists
  <2> QED BY <1>0, <2>1, <2>2, Unconcerned
<1>2. CASE CommitBook(w)
  <2>1. /\ ~Halfway(w, b, t) /\ Goto(w, Idle) /\ UNCHANGED <<users, personal, audited>>
        /\ req[w].book \in Books
    BY <1>2, Committed DEF Halfway
  <2>2. Exists(t)' <=> Exists(t)
    BY <2>1 DEF Exists
  <2>3. ASSUME grant'[<<b, t>>] = grant[<<b, t>>], <<b, t>> \in taken => <<b, t>> \in taken',
               <<b, t>> \in untraced => <<b, t>> \in untraced'
        PROVE  TraceAt(b, t)'
    BY <1>0, <2>1, <2>2, <2>3, Unconcerned
  <2>4. CASE UNCHANGED <<grant, taken, untraced>>
    BY <2>3, <2>4
  <2>5. ASSUME NEW c \in Books, NEW o \in Users, Takes(c, o) PROVE TraceAt(b, t)'
    <3>1. CASE <<b, t>> = <<c, o>>
      <4>1. b = c /\ t = o /\ <<b, t>> \in Books \X Targets
        BY <3>1
      <4>2. grant'[<<b, t>>] = None /\ <<b, t>> \in taken'
        BY <1>0, <2>5, <4>1 DEF Takes, TypeOK
      <4>3. Agrees(b, t)'
        BY <4>2 DEF Agrees, Rule
      <4>4. <<b, t>> \notin untraced' => AtRest(b, t)
        BY <2>5, <4>1 DEF Takes, Change
      <4>5. \A v \in Workers : Halfway(v, b, t)' => Halfway(v, b, t)
        BY <1>0, <2>1, OtherRequests
      <4> QED BY <4>3, <4>4, <4>5 DEF TraceAt, AtRest
    <3>2. CASE <<b, t>> # <<c, o>>
      <4>1. PICK g : g = <<b, t>>
        OBVIOUS
      <4>2. g \in Books \X Targets /\ g # <<c, o>>
        BY <3>2, <4>1
      <4>3. grant'[g] = grant[g] /\ (g \in taken => g \in taken') /\ (g \in untraced => g \in untraced')
        BY <1>0, <2>5, <4>2 DEF TypeOK, Takes, Change
      <4> QED BY <2>3, <4>1, <4>3
    <3> QED BY <3>1, <3>2
  <2> QED BY <1>2, <2>1, <2>4, <2>5, Committed
<1>3. CASE DropBook(w)
  <2>1. /\ Drop({req[w].book}, {}) /\ Goto(w, Idle) /\ UNCHANGED users /\ req[w].step = "delete"
    BY <1>3 DEF DropBook, At
  <2>2. ~Halfway(w, b, t)
    BY <2>1 DEF Halfway
  <2>3. \A v \in Workers : /\ Halfway(v, b, t)' <=> Halfway(v, b, t)
                           /\ Halfway(v, b, t) => req'[v] = req[v]
    BY <1>0, <2>1, <2>2, OtherRequests
  <2>4. Exists(t)' => Exists(t)
    BY <2>1 DEF Exists
  <2>5. PICK gone : gone = {req[w].book}
    OBVIOUS
  <2> QED BY <2>1, <2>3, <2>4, <2>5, TraceDrop
<1>4. CASE PutGrant(w) \/ WriteGrant(w)
  <2>1. /\ req[w].step \in {"put", "write"} /\ Insertable(req[w])
        /\ req[w].book \in Books /\ req[w].target \in Targets /\ req[w].rule \in Rules
        /\ Goto(w, [req[w] EXCEPT !.step = "audit"])
        /\ Change(req[w].book, req[w].target)
        /\ UNCHANGED <<users, book, personal, audited, requests, devices, taken>>
    BY <1>4, GrantWritten
  <2>2. PICK i \in Ids : grant' = [grant EXCEPT ![<<req[w].book, req[w].target>>] =
                                     [id |-> i, rule |-> req[w].rule]]
    BY <1>4, GrantWritten
  <2>3. PICK x : x = [id |-> i, rule |-> req[w].rule]
    OBVIOUS
  <2>4. x \in Grant /\ x \in MaybeIn(Grant) /\ x # None /\ x.rule = req[w].rule
    BY <2>1, <2>3, NoRowAssumption DEF Grant, MaybeIn
  <2>5. /\ grant'[<<req[w].book, req[w].target>>] = x
        /\ \A c \in Books, s \in Targets :
             <<c, s>> # <<req[w].book, req[w].target>> => grant'[<<c, s>>] = grant[<<c, s>>]
    <3>1. PICK c, s : c = req[w].book /\ s = req[w].target
      OBVIOUS
    <3>2. grant' = [grant EXCEPT ![<<c, s>>] = x] /\ c \in Books /\ s \in Targets
      BY <2>1, <2>2, <2>3, <3>1
    <3>3. grant' = [k \in Books \X Targets |-> IF k = <<c, s>> THEN x ELSE grant[k]]
      BY <1>0, <3>2 DEF TypeOK
    <3> QED BY <3>1, <3>2, <3>3
  <2>6. PICK r : r = [req[w] EXCEPT !.step = "audit"]
    OBVIOUS
  <2>7. /\ r \in Request /\ Goto(w, r) /\ r.step = "audit" /\ r.rule = req[w].rule
        /\ r.book = req[w].book /\ r.target = req[w].target
    BY <2>1, <2>6, NextStep, RequestFacts DEF Request
  <2>8. Exists(t)' <=> Exists(t)
    BY <2>1 DEF Exists
  <2>9. CASE ~About(w, b, t)
    <3>1. ~(r.book = b /\ r.target = t) /\ <<b, t>> # <<req[w].book, req[w].target>>
          /\ ~Halfway(w, b, t)
      BY <2>7, <2>9 DEF About, Halfway
    <3>2. grant'[<<b, t>>] = grant[<<b, t>>]
      BY <2>5, <3>1
    <3>3. <<b, t>> \in untraced => <<b, t>> \in untraced'
      BY <2>1 DEF Change
    <3> QED BY <1>0, <2>1, <2>7, <2>8, <3>1, <3>2, <3>3, Unconcerned
  <2>10. CASE About(w, b, t)
    <3>1. r.book = b /\ r.target = t /\ grant'[<<b, t>>] = x
      BY <2>5, <2>7, <2>10 DEF About
    <3>2. Rule(b, t)' = r.rule
      BY <2>4, <2>7, <3>1 DEF Rule
    <3>3. req'[w] = r
      BY <2>7, <3>1, OtherRequests
    <3>4. Accounted(w, b, t)'
      BY <2>7, <3>2, <3>3 DEF Accounted
    <3>5. <<b, t>> \notin untraced' => AtRest(b, t)
      BY <2>1, <2>10 DEF Change, About
    <3> QED BY <2>7, <3>1, <3>4, <3>5, TraceTurns
  <2> QED BY <2>9, <2>10
<1>5. CASE Ends(w)
  <2>1. /\ Goto(w, Idle) /\ UNCHANGED rows /\ untraced \subseteq untraced'
        /\ req[w].step \in {"audit", "remove"} => <<req[w].book, req[w].target>> \in untraced'
    BY <1>5, Ended
  <2>2. UNCHANGED <<users, grant, audited, taken>> /\ (Exists(t)' <=> Exists(t))
    BY <2>1 DEF rows, Exists
  <2>3. CASE ~Halfway(w, b, t)
    BY <1>0, <2>1, <2>2, <2>3, Unconcerned
  <2>4. CASE Halfway(w, b, t)
    BY <2>1, <2>4 DEF Halfway, About, TraceAt
  <2> QED BY <2>3, <2>4
<1>6. CASE Audit(w)
  <2>1. /\ req[w].step \in {"audit", "strike"}
        /\ req[w].book \in Books /\ req[w].target \in Targets
        /\ Goto(w, IF req[w].step = "audit" THEN Idle ELSE [req[w] EXCEPT !.step = "remove"])
        /\ UNCHANGED <<users, book, personal, grant, requests, devices>>
    BY <1>6, Audited
  <2>2. PICK x : x = IF req[w].step = "audit" THEN req[w].rule ELSE 0
    OBVIOUS
  <2>3. audited' = [audited EXCEPT ![<<req[w].book, req[w].target>>] = x]
    BY <1>6, <2>2, Audited
  <2>4. audited'[<<b, t>>] = IF About(w, b, t) THEN x ELSE audited[<<b, t>>]
    <3>1. PICK g : g = <<b, t>>
      OBVIOUS
    <3>2. PICK h : h = <<req[w].book, req[w].target>>
      OBVIOUS
    <3>3. g \in Books \X Targets /\ h \in Books \X Targets /\ (g = h <=> About(w, b, t))
      BY <2>1, <3>1, <3>2 DEF About
    <3>4. audited'[g] = IF g = h THEN x ELSE audited[g]
      BY <1>0, <2>3, <3>2, <3>3 DEF TypeOK
    <3> QED BY <3>1, <3>3, <3>4
  <2>5. PICK r : r = IF req[w].step = "audit" THEN Idle ELSE [req[w] EXCEPT !.step = "remove"]
    OBVIOUS
  <2>6. /\ r \in Request /\ Goto(w, r)
        /\ req[w].step = "audit" => r = Idle
        /\ req[w].step = "strike" =>
             /\ r.step = "remove" /\ r.book = req[w].book /\ r.target = req[w].target
             /\ r.id = req[w].id
    BY <1>0, <2>1, <2>5, NextStep, RequestFacts DEF Request
  <2>7. (Exists(t)' <=> Exists(t)) /\ Rule(b, t)' = Rule(b, t)
    BY <2>1 DEF Exists, Rule
  <2>8. CASE ~About(w, b, t)
    <3>1. ~Halfway(w, b, t) /\ (r.book = b /\ r.target = t => r.step \notin {"audit", "remove"})
      BY <1>0, <2>1, <2>6, <2>8 DEF About, Halfway
    <3>2. /\ <<b, t>> \in taken => <<b, t>> \in taken'
          /\ <<b, t>> \in untraced => <<b, t>> \in untraced'
      BY <1>6, <2>8, Audited DEF About, Change
    <3> QED BY <1>0, <2>1, <2>4, <2>6, <2>7, <2>8, <3>1, <3>2, Unconcerned
  <2>9. CASE About(w, b, t) /\ req[w].step = "audit"
    <3>1. audited'[<<b, t>>] = req[w].rule /\ Goto(w, Idle) /\ Halfway(w, b, t)
      BY <2>2, <2>4, <2>6, <2>9 DEF Halfway
    <3>2. UNCHANGED untraced
      BY <1>6, <2>9, Audited
    <3>3. Accounted(w, b, t) => Agrees(b, t)'
      BY <2>7, <2>9, <3>1 DEF Accounted, Agrees
    <3> QED BY <2>1, <3>1, <3>2, <3>3, TraceEnds
  <2>10. CASE About(w, b, t) /\ req[w].step = "strike"
    <3>1. audited'[<<b, t>>] = 0 /\ r.book = b /\ r.target = t
      BY <2>2, <2>4, <2>6, <2>10 DEF About
    <3>2. req'[w] = r
      BY <2>6, <3>1, OtherRequests
    <3>3. ASSUME <<b, t>> \notin untraced'
          PROVE  AtRest(b, t) /\ (grant[<<b, t>>] # None => grant[<<b, t>>].id = req[w].id)
      BY <1>6, <2>10, <3>3, Audited DEF About, Change
    <3>4. <<b, t>> \notin untraced' => Accounted(w, b, t)'
      BY <2>1, <2>6, <2>10, <3>1, <3>2, <3>3 DEF Accounted
    <3> QED BY <2>6, <2>10, <3>1, <3>3, <3>4, TraceTurns
  <2> QED BY <2>1, <2>8, <2>9, <2>10
<1>7. CASE RemoveGrant(w)
  <2>1. /\ req[w].step = "remove" /\ req[w].book \in Books /\ req[w].target \in Targets
        /\ Goto(w, Idle)
        /\ UNCHANGED <<users, book, personal, audited, requests, devices, taken, untraced>>
    BY <1>7, GrantRemoved
  <2>2. \/ /\ grant[<<req[w].book, req[w].target>>] # None =>
                grant[<<req[w].book, req[w].target>>].id # req[w].id
           /\ grant' = grant
        \/ /\ grant'[<<req[w].book, req[w].target>>] = None
           /\ \A c \in Books, s \in Targets :
                <<c, s>> # <<req[w].book, req[w].target>> => grant'[<<c, s>>] = grant[<<c, s>>]
    <3>1. None \in MaybeIn(Grant)
      BY DEF MaybeIn
    <3> QED BY <1>0, <1>7, <2>1, <3>1, GrantRemoved, EditGrant
  <2>3. Exists(t)' <=> Exists(t)
    BY <2>1 DEF Exists
  <2>4. CASE ~About(w, b, t)
    <3>1. grant'[<<b, t>>] = grant[<<b, t>>] /\ ~Halfway(w, b, t)
      BY <2>2, <2>4 DEF About, Halfway
    <3> QED BY <1>0, <2>1, <2>3, <3>1, Unconcerned
  <2>5. CASE About(w, b, t)
    <3>1. ASSUME Accounted(w, b, t) PROVE Agrees(b, t)'
      <4>1. audited[<<b, t>>] = 0 /\ (grant[<<b, t>>] # None => grant[<<b, t>>].id = req[w].id)
        BY <2>1, <3>1 DEF Accounted
      <4>2. grant'[<<b, t>>] = None
        BY <2>2, <2>5, <4>1 DEF About
      <4> QED BY <2>1, <4>1, <4>2 DEF Rule, Agrees
    <3>2. Halfway(w, b, t)
      BY <2>1, <2>5 DEF Halfway
    <3> QED BY <2>1, <3>1, <3>2, TraceEnds
  <2> QED BY <2>4, <2>5
<1> QED BY <1>1, <1>2, <1>3, <1>4, <1>5, <1>6, <1>7 DEF Proceeds, Ends

LEMMA TraceNext == BaseInv /\ TraceInv /\ [Next]_vars => TraceInv'
<1> SUFFICES ASSUME BaseInv, TraceInv, [Next]_vars, NEW b \in Books, NEW t \in Targets
             PROVE  TraceAt(b, t)'
  BY DEF TraceInv
<1>0. TypeOK /\ TraceAt(b, t)
  BY DEF BaseInv, TraceInv
<1>1. ASSUME UNCHANGED req
      PROVE  \A v \in Workers : /\ Halfway(v, b, t)' <=> Halfway(v, b, t)
                                /\ Halfway(v, b, t) => req'[v] = req[v]
  BY <1>1 DEF About, Halfway
<1>2. ASSUME UNCHANGED <<users, grant, audited, req, taken, untraced>> PROVE TraceAt(b, t)'
  <2>1. Exists(t)' <=> Exists(t)
    BY <1>2 DEF Exists
  <2> QED BY <1>0, <1>1, <1>2, <2>1, Bystander
<1>3. CASE UNCHANGED vars
  BY <1>2, <1>3 DEF vars
<1>4. ASSUME NEW u \in Users, DeleteUser(u) PROVE TraceAt(b, t)'
  <2>1. PICK gone : gone = {c \in Books : book[c] # None /\ book[c].owner = u}
    OBVIOUS
  <2>2. Drop(gone, {u}) /\ UNCHANGED req /\ users' = users \ {u}
    BY <1>4, <2>1 DEF DeleteUser
  <2>3. Exists(t)' => Exists(t) /\ t \notin {u}
    BY <2>2 DEF Exists
  <2> QED BY <1>1, <2>2, <2>3, TraceDrop
<1>5. ASSUME NEW u \in Users, EnsurePersonal(u) PROVE TraceAt(b, t)'
  BY <1>2, <1>5 DEF EnsurePersonal
<1>6. ASSUME NEW u, NEW c \in Books, DeleteBooks(u, c) PROVE TraceAt(b, t)'
  <2>1. Drop({c}, {}) /\ UNCHANGED <<users, req>>
    BY <1>6 DEF DeleteBooks
  <2>2. Exists(t)' => Exists(t)
    BY <2>1 DEF Exists
  <2> QED BY <1>1, <2>1, <2>2, TraceDrop
<1>7. ASSUME NEW o \in users, NEW n \in Names, NEW c \in Books,
             DeviceBook(o, n, c) \/ \E u \in users : CreateBook(u, o, n, c)
      PROVE  TraceAt(b, t)'
  BY <1>2, <1>7 DEF DeviceBook, CreateBook
<1> QED BY <1>3, <1>4, <1>5, <1>6, <1>7, TraceBegins, TraceProceeds DEF Next, Immediate

\* However requests about a target overlap, once none of them is halfway its
\* newest audit entry says what it may do, or a transfer to it took its share;
\* but for what changes it while another request is halfway, a request that
\* ends halfway, and the deletion of a row that has been replaced.
THEOREM AuditCorrect == Spec => []AuditAgrees
<1>1. Init => TraceInv
  <2> SUFFICES ASSUME Init, NEW b \in Books, NEW t \in Targets PROVE TraceAt(b, t)
    BY DEF TraceInv
  <2>1. audited[<<b, t>>] = 0 /\ Rule(b, t) = 0
    BY DEF Init, Rule
  <2>2. \A w \in Workers : ~Halfway(w, b, t)
    BY DEF Init, Halfway, Idle
  <2> QED BY <2>1, <2>2 DEF TraceAt, Agrees
<1>2. TraceInv => AuditAgrees
  BY DEF TraceInv, TraceAt, AuditAgrees, Agrees
<1> QED BY <1>1, <1>2, BaseHolds, TraceNext, PTL DEF Spec

=============================================================================

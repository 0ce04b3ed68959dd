---------------------------- MODULE DeviceProofs ----------------------------
(***************************************************************************)
(* Theorems about what devices report, ConnAudit, and what they are told,  *)
(* StrategyPolicy, for every set of accounts, devices, connections, groups *)
(* and strategies, every number of workers and every bound on the clock.   *)
(*                                                                         *)
(* What a transaction of the log writes was decided by the record it read. *)
(* Its invariant says that the record is still the one it read (Holding):  *)
(* that is what FOR UPDATE is for, and why the log is, as ConnectionLog    *)
(* says, as if each report and request were handled alone.                 *)
(*                                                                         *)
(* A device is told of a strategy by the second it was saved in.  The      *)
(* invariant says that a version a device has, or is going to have, is of  *)
(* the past, and stands for no other options than those of the strategy    *)
(* that was saved alone in its second (Genuine).                           *)
(***************************************************************************)
EXTENDS ConnAudit, TLAPS

USE DEF MaybeIn

\* No two transactions have the same record locked.
Exclusive ==
  \A v, w \in Workers : req[v] # None /\ req[w] # None /\ req[v].key = req[w].key => v = w

\* What an open transaction relies on of the record it has locked.
Holding(r) ==
  LET k == r.key IN
  /\ Exists(k)
  /\ r.read.actor = log[k].actor
  /\ r.step = "close" => log[k].end = None
  /\ r.step # "close" => r.user \in Users /\ log[k].actor \in {None, r.user}
  /\ r.step = "active" => r.type \in Types

LocksOK == Exclusive /\ \A w \in Workers : req[w] # None => Holding(req[w])

\* The properties, and the foreign keys, of one record.
RecordOK(k) ==
  /\ Exists(k) => {log[k].reporter, log[k].actor} \subseteq MaybeIn(users)
  /\ acked[k] # {} => Exists(k)
  /\ "peer" \in acked[k] => log[k].peer # None
  /\ "close" \in acked[k] => log[k].end # None
  /\ \A u \in users : <<u, k>> \in told => Exists(k) /\ log[k].actor = u
  /\ Exists(k) /\ log[k].note \in users => log[k].actor = log[k].note

Typed ==
  /\ users \subseteq Users
  /\ log \in [Keys -> MaybeIn(Record)]
  /\ now \in 0 .. MaxTime
  /\ req \in [Workers -> MaybeIn(Request)]
  /\ acked \in [Keys -> SUBSET {"new", "peer", "close"}]
  /\ told \subseteq Users \X Keys

Inv == Typed /\ LocksOK /\ \A k \in Keys : RecordOK(k)

LEMMA InvTypes == Inv => TypeOK
BY DEF Inv, Typed, RecordOK, TypeOK

LEMMA InitInv == Init => Inv
<1> SUFFICES ASSUME Init PROVE Inv
  OBVIOUS
<1>1. Typed
  BY TimeAssumption DEF Init, Typed
<1>2. LocksOK /\ \A k \in Keys : RecordOK(k)
  BY DEF Init, LocksOK, Exclusive, RecordOK, Exists
<1> QED
  BY <1>1, <1>2 DEF Inv

\* A transaction that begins has locked a record that nobody else has.
LEMMA BeginKeeps ==
  ASSUME Inv, NEW w \in Workers, NEW r \in Request, Begin(w, r), Free(r.key), Holding(r),
         UNCHANGED <<users, log, now, acked, told>>
  PROVE  Inv'
<1> USE NoRowAssumption
<1>1. req' \in [Workers -> MaybeIn(Request)] /\ req'[w] = r
      /\ \A v \in Workers \ {w} : req'[v] = req[v]
  BY DEF Begin, Inv, Typed
<1>2. \A k \in Keys : RecordOK(k)'
  BY DEF Inv, RecordOK, Exists
<1>3. Exclusive'
  BY <1>1 DEF Inv, LocksOK, Exclusive, Free
<1>4. ASSUME NEW v \in Workers, req'[v] # None PROVE Holding(req[v])'
  <2>1. CASE v = w
    BY <1>1, <2>1 DEF Holding, Exists
  <2>2. CASE v # w
    BY <1>1, <1>4, <2>2 DEF Holding, Exists, Inv, LocksOK
  <2> QED
    BY <2>1, <2>2
<1> QED
  BY <1>1, <1>2, <1>3, <1>4 DEF Inv, Typed, LocksOK

\* A step that saves record k and, if a transaction does it, ends it.
LEMMA SaveKeeps ==
  ASSUME Inv, NEW k \in Keys, NEW r \in Record,
         log' = [log EXCEPT ![k] = r],
         UNCHANGED <<users, now>>,
         req' \in [Workers -> MaybeIn(Request)],
         \A w \in Workers : \/ req'[w] = None
                            \/ req'[w] = req[w] /\ (req[w] # None => req[w].key # k),
         acked' \in [Keys -> SUBSET {"new", "peer", "close"}],
         told' \subseteq Users \X Keys,
         \A j \in Keys \ {k} : /\ acked'[j] = acked[j]
                               /\ \A u \in Users : <<u, j>> \in told' => <<u, j>> \in told,
         RecordOK(k)'
  PROVE  Inv'
<1> USE NoRowAssumption
<1>1. /\ log' \in [Keys -> MaybeIn(Record)]
      /\ log'[k] = r
      /\ \A j \in Keys \ {k} : log'[j] = log[j]
  BY DEF Inv, Typed
<1>2. Typed'
  BY <1>1 DEF Inv, Typed
<1>3. ASSUME NEW j \in Keys PROVE RecordOK(j)'
  <2>1. CASE j = k
    BY <2>1
  <2>2. CASE j # k
    <3>1. log'[j] = log[j] /\ acked'[j] = acked[j] /\ users' = users /\ users \subseteq Users
      BY <1>1, <2>2 DEF Inv, Typed
    <3>2. \A u \in users : <<u, j>> \in told' => <<u, j>> \in told
      BY <2>2, <3>1
    <3> QED
      BY <3>1, <3>2 DEF Inv, RecordOK, Exists
  <2> QED
    BY <2>1, <2>2
<1>4. Exclusive'
  BY DEF Inv, LocksOK, Exclusive
<1>5. ASSUME NEW w \in Workers, req'[w] # None PROVE Holding(req[w])'
  <2>1. req'[w] = req[w] /\ req[w].key # k /\ Holding(req[w]) /\ req[w] \in Request
    BY <1>5 DEF Inv, LocksOK, Typed
  <2>2. log'[req[w].key] = log[req[w].key]
    BY <1>1, <2>1 DEF Request
  <2> QED
    BY <2>1, <2>2 DEF Holding, Exists
<1> QED
  BY <1>2, <1>3, <1>4, <1>5 DEF Inv, LocksOK

\* What ends the transaction of w, and with it the lock of its record.
LEMMA EndFrees ==
  ASSUME Inv, NEW w \in Workers, req[w] # None, End(w)
  PROVE  /\ req' \in [Workers -> MaybeIn(Request)]
         /\ \A v \in Workers : \/ req'[v] = None
                               \/ req'[v] = req[v] /\ (req[v] # None => req[v].key # req[w].key)
         /\ req[w] \in Request /\ Holding(req[w])
         /\ req[w].key \in Keys /\ log[req[w].key] \in Record
BY NoRowAssumption DEF End, Inv, Typed, LocksOK, Exclusive, Holding, Exists, Request

LEMMA NewKeeps ==
  ASSUME Inv, NEW u \in Users, NEW k \in Keys, NEW i \in Ids, NEW t \in MaybeIn(Types),
         New(u, k, i, t)
  PROVE  Inv'
<1> USE NoneAssumption, NoRowAssumption
<1>0. /\ acked' \in [Keys -> SUBSET {"new", "peer", "close"}]
      /\ acked'[k] = acked[k] \cup {"new"}
      /\ \A j \in Keys \ {k} : acked'[j] = acked[j]
  BY DEF New, Acknowledge, Inv, Typed
<1>1. CASE Exists(k)
  <2>1. log' = log
    BY <1>1 DEF New, Inv, Typed
  <2>2. \A j \in Keys : RecordOK(j)'
    BY <1>0, <1>1, <2>1 DEF New, Inv, RecordOK, Exists
  <2>3. LocksOK'
    BY <2>1 DEF New, Inv, LocksOK, Exclusive, Holding, Exists
  <2> QED
    BY <1>0, <2>1, <2>2, <2>3 DEF New, Inv, Typed
<1>2. CASE ~Exists(k)
  <2>1. Fresh(u, i, t) \in Record
    BY DEF Fresh, Record
  <2>2. log' = [log EXCEPT ![k] = Fresh(u, i, t)]
    BY <1>2 DEF New
  <2>3. log'[k] = Fresh(u, i, t)
    BY <2>2 DEF Inv, Typed
  <2>4. \A w \in Workers : req[w] # None => req[w].key # k
    BY <1>2 DEF Inv, LocksOK, Holding
  <2>5. acked[k] = {} /\ (\A v \in users : <<v, k>> \notin told)
    BY <1>2 DEF Inv, RecordOK
  <2>6. RecordOK(k)'
    <3>1. /\ Fresh(u, i, t).reporter = u /\ Fresh(u, i, t).actor = None
          /\ Fresh(u, i, t).note = None
      BY DEF Fresh
    <3>2. Exists(k)' /\ u \in users' /\ acked'[k] = {"new"} /\ users' = users /\ told' = told
      BY <1>0, <2>1, <2>3, <2>5 DEF Exists, New
    <3>3. None \notin users'
      BY <3>2 DEF Inv, Typed
    <3> QED
      BY <2>3, <2>5, <3>1, <3>2, <3>3 DEF RecordOK
  <2> QED
    BY <1>0, <2>1, <2>2, <2>4, <2>6, SaveKeeps DEF New, Inv, Typed
<1> QED
  BY <1>1, <1>2

LEMMA UpdateKeeps ==
  ASSUME Inv, NEW k \in Keys, NEW i \in Ids, NEW c \in MaybeIn(Controllers),
         NEW t \in MaybeIn(Types), NEW n \in BOOLEAN, Update(k, i, c, t, n)
  PROVE  Inv'
<1> USE NoneAssumption, NoRowAssumption
<1> DEFINE p == IF c = None THEN log[k].peer ELSE c
           y == IF t = None THEN log[k].type ELSE t
           z == IF n THEN "host" ELSE log[k].note
           s == [log[k] EXCEPT !.peer = p, !.type = y, !.note = z]
<1>1. log[k] \in Record /\ log' = [log EXCEPT ![k] = s]
  BY DEF Update, Exists, Inv, Typed
<1>t. p \in MaybeIn(Controllers) /\ y \in MaybeIn(Types) /\ z \in MaybeIn(Users \cup {"host"})
  BY <1>1 DEF Record
<1> HIDE DEF p, y, z
<1>f. /\ s \in Record
      /\ s.reporter = log[k].reporter /\ s.actor = log[k].actor /\ s.end = log[k].end
      /\ s.peer = p /\ s.note = z
  BY <1>1, <1>t DEF Record
<1>2. /\ s \in Record
      /\ s.reporter = log[k].reporter /\ s.actor = log[k].actor /\ s.end = log[k].end
      /\ s.peer = (IF c = None THEN log[k].peer ELSE c)
      /\ s.note = (IF n THEN "host" ELSE log[k].note)
  BY <1>f DEF p, z
<1>3. /\ acked' \in [Keys -> SUBSET {"new", "peer", "close"}]
      /\ acked'[k] = IF c = None THEN acked[k] ELSE acked[k] \cup {"peer"}
      /\ \A j \in Keys \ {k} : acked'[j] = acked[j]
  BY DEF Update, Acknowledge, Inv, Typed
<1> HIDE DEF s
<1>4. log'[k] = s
  BY <1>1 DEF Inv, Typed
<1>5. RecordOK(k)'
  <2>1. Exists(k)' /\ users' = users /\ told' = told /\ Exists(k) /\ RecordOK(k)
    BY <1>2, <1>4 DEF Exists, Update, Inv
  <2>2. s.note \in users => s.actor = s.note
    BY <1>2, <2>1, HostAssumption DEF RecordOK, Inv, Typed
  <2>3. "peer" \in acked'[k] => s.peer # None
    BY <1>2, <1>3, <2>1 DEF RecordOK
  <2>4. "close" \in acked'[k] => s.end # None
    BY <1>2, <1>3, <2>1 DEF RecordOK
  <2> QED
    BY <1>2, <1>4, <2>1, <2>2, <2>3, <2>4 DEF RecordOK
<1> QED
  BY <1>1, <1>2, <1>3, <1>5, SaveKeeps DEF Update, Free, Inv, Typed

LEMMA CloseKeeps ==
  ASSUME Inv, NEW w \in Workers, Close(w)
  PROVE  Inv'
<1> USE NoneAssumption, NoRowAssumption
<1>0. PICK k \in Keys : k = req[w].key
  BY EndFrees DEF Close
<1> DEFINE s == [log[k] EXCEPT !.end = now]
<1>1. /\ log[k] \in Record /\ Holding(req[w])
      /\ req' \in [Workers -> MaybeIn(Request)]
      /\ \A v \in Workers : req'[v] = None \/ (req'[v] = req[v] /\ (req[v] # None => req[v].key # k))
  BY <1>0, EndFrees DEF Close
<1>2. /\ s \in Record
      /\ s.reporter = log[k].reporter /\ s.actor = log[k].actor /\ s.end = now
      /\ s.peer = log[k].peer /\ s.note = log[k].note
  BY <1>1 DEF Record, Inv, Typed
<1>3. /\ acked' \in [Keys -> SUBSET {"new", "peer", "close"}]
      /\ acked'[k] = acked[k] \cup {"close"}
      /\ \A j \in Keys \ {k} : acked'[j] = acked[j]
  BY <1>0 DEF Close, Acknowledge, Inv, Typed
<1>4. log' = [log EXCEPT ![k] = s]
  BY <1>0 DEF Close
<1> HIDE DEF s
<1>5. log'[k] = s
  BY <1>1, <1>4 DEF Inv, Typed
<1>6. RecordOK(k)'
  <2>1. /\ Exists(k)' /\ users' = users /\ told' = told /\ Exists(k) /\ RecordOK(k)
        /\ now # None
    <3>1. Exists(k) /\ now # None
      BY <1>0, <1>1 DEF Holding, Inv, Typed
    <3> QED
      BY <1>2, <1>5, <3>1 DEF Exists, Close, Inv
  <2>2. \A u \in users : <<u, k>> \in told => s.actor = u
    BY <1>2, <2>1 DEF RecordOK
  <2>3. {s.reporter, s.actor} \subseteq MaybeIn(users) /\ (s.note \in users => s.actor = s.note)
    BY <1>2, <2>1 DEF RecordOK
  <2>4. ("peer" \in acked'[k] => s.peer # None) /\ s.end # None
    BY <1>2, <1>3, <2>1 DEF RecordOK
  <2> QED
    BY <1>5, <2>1, <2>2, <2>3, <2>4 DEF RecordOK
<1> QED
  BY <1>1, <1>2, <1>3, <1>4, <1>6, SaveKeeps DEF Close, Inv, Typed

\* The end of a transaction of the controller: the record's actor becomes, or
\* is, the one the transaction is for.
LEMMA ClaimKeeps ==
  ASSUME Inv, NEW w \in Workers, req[w] # None, End(w), req[w].step # "close",
         NEW k \in Keys, k = req[w].key,
         NEW u, u = req[w].user,
         NEW s \in Record,
         log' = [log EXCEPT ![k] = s],
         s.actor = u,
         u \in users \/ u = log[k].actor,
         s.note \in {log[k].note, u},
         s.reporter = log[k].reporter, s.peer = log[k].peer, s.end = log[k].end,
         told' \subseteq told \cup {<<u, k>>},
         UNCHANGED <<users, now, acked>>
  PROVE  Inv'
<1> USE NoneAssumption, NoRowAssumption
<1>1. /\ log[k] \in Record /\ Holding(req[w])
      /\ req' \in [Workers -> MaybeIn(Request)]
      /\ \A v \in Workers : req'[v] = None \/ (req'[v] = req[v] /\ (req[v] # None => req[v].key # k))
  BY EndFrees
<1>2. u \in Users /\ log[k].actor \in {None, u} /\ Exists(k)
  BY <1>1 DEF Holding, Inv, Typed
<1>3. log'[k] = s /\ users' = users /\ acked' = acked /\ None \notin users
  BY <1>1 DEF Inv, Typed
<1>4. told' \subseteq Users \X Keys
  BY <1>1, <1>2 DEF Inv, Typed
<1>5. \A j \in Keys \ {k} : \A v \in Users : <<v, j>> \in told' => <<v, j>> \in told
  OBVIOUS
<1>6. RecordOK(k)'
  <2>1. Exists(k)' /\ RecordOK(k)
    BY <1>1, <1>3 DEF Exists, Inv
  <2>2. \A v \in users : <<v, k>> \in told' => v = u
    BY <1>2, <1>3, <2>1 DEF RecordOK
  <2>3. s.note \in users => s.note = u
    BY <1>2, <1>3, <2>1 DEF RecordOK
  <2>4. {s.reporter, s.actor} \subseteq MaybeIn(users)
    BY <1>2, <2>1 DEF RecordOK
  <2>5. ("peer" \in acked[k] => s.peer # None) /\ ("close" \in acked[k] => s.end # None)
    BY <2>1 DEF RecordOK
  <2> QED
    BY <1>3, <2>1, <2>2, <2>3, <2>4, <2>5 DEF RecordOK
<1> QED
  BY <1>1, <1>3, <1>4, <1>5, <1>6, SaveKeeps DEF Inv, Typed

LEMMA ActiveKeeps ==
  ASSUME Inv, NEW w \in Workers, Active(w)
  PROVE  Inv'
<1>0. PICK r \in Request : r = req[w]
  BY EndFrees DEF Active
<1> DEFINE a == IF r.read.actor = None THEN r.user ELSE log[r.key].actor
           y == IF r.read.type = None THEN r.type ELSE log[r.key].type
           s == [log[r.key] EXCEPT !.actor = a, !.type = y]
<1>1. Holding(r) /\ r.key \in Keys /\ log[r.key] \in Record
  BY <1>0, EndFrees DEF Active
<1>t. a \in MaybeIn(Users) /\ y \in MaybeIn(Types)
  BY <1>0, <1>1 DEF Record, Holding, Active
<1> HIDE DEF a, y
<1>f. /\ s \in Record
      /\ s.actor = a
      /\ s.reporter = log[r.key].reporter /\ s.peer = log[r.key].peer
      /\ s.end = log[r.key].end /\ s.note = log[r.key].note
  BY <1>1, <1>t DEF Record
<1>2. /\ s \in Record
      /\ s.actor = (IF r.read.actor = None THEN r.user ELSE log[r.key].actor)
      /\ s.reporter = log[r.key].reporter /\ s.peer = log[r.key].peer
      /\ s.end = log[r.key].end /\ s.note = log[r.key].note
  BY <1>f DEF a
<1>3. log' = [log EXCEPT ![r.key] = s]
  BY <1>0 DEF Active, a, y
<1>4. s.actor = r.user /\ (r.user \in users \/ r.user = log[r.key].actor)
  BY <1>0, <1>1, <1>2 DEF Holding, Active
<1> HIDE DEF s
<1>5. /\ req[w] # None /\ End(w) /\ r.step # "close" /\ UNCHANGED <<users, now, acked>>
      /\ told' \subseteq told \cup {<<r.user, r.key>>}
  BY <1>0 DEF Active
<1> QED
  BY <1>0, <1>1, <1>2, <1>3, <1>4, <1>5, ClaimKeeps

LEMMA NoteKeeps ==
  ASSUME Inv, NEW w \in Workers, Note(w)
  PROVE  Inv'
<1>0. PICK r \in Request : r = req[w]
  BY EndFrees DEF Note
<1> DEFINE s == [log[r.key] EXCEPT !.actor = r.user, !.note = r.user]
<1>1. Holding(r) /\ r.key \in Keys /\ log[r.key] \in Record
  BY <1>0, EndFrees DEF Note
<1>2. /\ s \in Record
      /\ s.actor = r.user /\ s.note = r.user
      /\ s.reporter = log[r.key].reporter /\ s.peer = log[r.key].peer
      /\ s.end = log[r.key].end
  BY <1>0, <1>1 DEF Record, Holding, Note
<1>3. log' = [log EXCEPT ![r.key] = s]
  BY <1>0 DEF Note
<1> HIDE DEF s
<1>4. /\ req[w] # None /\ End(w) /\ r.step # "close" /\ UNCHANGED <<users, now, acked, told>>
      /\ r.user \in users
  BY <1>0 DEF Note
<1> QED
  BY <1>0, <1>1, <1>2, <1>3, <1>4, ClaimKeeps

LEMMA NoteByGuidKeeps ==
  ASSUME Inv, NEW u \in Users, NEW c \in Controllers, NEW k \in Keys, NoteByGuid(u, c, k)
  PROVE  Inv'
<1> USE NoRowAssumption
<1> DEFINE s == [log[k] EXCEPT !.note = u]
<1>1. log[k] \in Record /\ log' = [log EXCEPT ![k] = s]
  BY DEF NoteByGuid, Exists, Inv, Typed
<1>2. /\ s \in Record
      /\ s.reporter = log[k].reporter /\ s.actor = log[k].actor /\ s.end = log[k].end
      /\ s.peer = log[k].peer /\ s.note = u
  BY <1>1 DEF Record
<1> HIDE DEF s
<1>3. log'[k] = s
  BY <1>1 DEF Inv, Typed
<1>4. RecordOK(k)'
  BY <1>2, <1>3 DEF NoteByGuid, Inv, RecordOK, Exists
<1> QED
  BY <1>1, <1>2, <1>4, SaveKeeps DEF NoteByGuid, Free, Inv, Typed

LEMMA DeleteUserKeeps ==
  ASSUME Inv, NEW u \in Users, DeleteUser(u)
  PROVE  Inv'
<1> USE NoneAssumption, NoRowAssumption
<1>1. ASSUME NEW r \in Record
      PROVE  /\ Forget(u, r) \in Record
             /\ Forget(u, r).actor = IF r.actor = u THEN None ELSE r.actor
             /\ Forget(u, r).reporter = IF r.reporter = u THEN None ELSE r.reporter
             /\ Forget(u, r).peer = r.peer /\ Forget(u, r).end = r.end
             /\ Forget(u, r).note = r.note
  BY DEF Forget, Record
<1>2. ASSUME NEW k \in Keys
      PROVE  \/ /\ Exists(k) /\ u \in {log[k].actor, log[k].reporter}
                /\ log[k] \in Record /\ log'[k] = Forget(u, log[k]) /\ Free(k)
             \/ /\ Exists(k) => u \notin {log[k].actor, log[k].reporter}
                /\ log'[k] = log[k]
  BY DEF DeleteUser, Exists, Inv, Typed
<1>3. log' \in [Keys -> MaybeIn(Record)]
  <2>1. \A k \in Keys : log'[k] \in MaybeIn(Record)
    BY <1>1, <1>2 DEF Inv, Typed
  <2> QED
    BY <2>1 DEF DeleteUser
<1>4. Typed'
  BY <1>3 DEF DeleteUser, Inv, Typed
<1>5. ASSUME NEW k \in Keys PROVE RecordOK(k)'
  <2>1. users' = users \ {u} /\ acked' = acked /\ told' = told /\ RecordOK(k)
    BY DEF DeleteUser, Inv
  <2>2. CASE log'[k] = log[k] /\ (Exists(k) => u \notin {log[k].actor, log[k].reporter})
    BY <2>1, <2>2 DEF RecordOK, Exists
  <2>3. CASE /\ Exists(k) /\ log[k] \in Record /\ log'[k] = Forget(u, log[k])
    <3>1. Exists(k)'
      BY <1>1, <2>3 DEF Exists
    <3>2. {log'[k].reporter, log'[k].actor} \subseteq MaybeIn(users')
      BY <1>1, <2>1, <2>3 DEF RecordOK
    <3>3. log'[k].peer = log[k].peer /\ log'[k].end = log[k].end /\ log'[k].note = log[k].note
      BY <1>1, <2>3
    <3>4. \A v \in users' : log[k].actor = v => log'[k].actor = v
      BY <1>1, <2>1, <2>3
    <3> QED
      BY <2>1, <2>3, <3>1, <3>2, <3>3, <3>4 DEF RecordOK
  <2> QED
    BY <1>2, <2>2, <2>3
<1>6. LocksOK'
  <2>1. req' = req
    BY DEF DeleteUser
  <2>2. ASSUME NEW w \in Workers, req[w] # None PROVE Holding(req[w])'
    <3>1. Holding(req[w]) /\ req[w].key \in Keys
      BY <2>2 DEF Inv, LocksOK, Typed, Request
    <3>2. log'[req[w].key] = log[req[w].key]
      BY <1>2, <2>2, <3>1 DEF Free
    <3> QED
      BY <2>1, <3>1, <3>2 DEF Holding, Exists
  <2> QED
    BY <2>1, <2>2 DEF Inv, LocksOK, Exclusive
<1> QED
  BY <1>4, <1>5, <1>6 DEF Inv

LEMMA ReadKeeps ==
  ASSUME Inv, NEW w \in Workers, NEW k \in Keys,
         \/ \E i \in Ids : ReadToClose(w, k, i)
         \/ \E u \in Users, c \in Controllers : \/ \E t \in Types : ReadActive(w, u, c, k, t)
                                                \/ ReadToNote(w, u, c, k)
  PROVE  Inv'
<1>0. Exists(k) /\ log[k] \in Record
  BY DEF ReadToClose, ReadActive, ReadToNote, Exists, Inv, Typed
<1>1. ASSUME NEW i \in Ids, ReadToClose(w, k, i) PROVE Inv'
  <2> DEFINE r == [step |-> "close", key |-> k, user |-> None, type |-> None, read |-> log[k]]
  <2>1. r \in Request /\ Holding(r)
    BY <1>0, <1>1 DEF Request, Holding, ReadToClose
  <2> QED
    BY <1>1, <2>1, BeginKeeps DEF ReadToClose
<1>2. ASSUME NEW u \in Users, NEW c \in Controllers, NEW t \in Types, ReadActive(w, u, c, k, t)
      PROVE  Inv'
  <2> DEFINE r == [step |-> "active", key |-> k, user |-> u, type |-> t, read |-> log[k]]
  <2>1. r \in Request /\ Holding(r)
    BY <1>0, <1>2 DEF Request, Holding, ReadActive, MayUse
  <2> QED
    BY <1>2, <2>1, BeginKeeps DEF ReadActive
<1>3. ASSUME NEW u \in Users, NEW c \in Controllers, ReadToNote(w, u, c, k)
      PROVE  Inv'
  <2> DEFINE r == [step |-> "note", key |-> k, user |-> u, type |-> None, read |-> log[k]]
  <2>1. r \in Request /\ Holding(r)
    BY <1>0, <1>3 DEF Request, Holding, ReadToNote, MayUse
  <2> QED
    BY <1>3, <2>1, BeginKeeps DEF ReadToNote
<1> QED
  BY <1>1, <1>2, <1>3

LEMMA NextInv == Inv /\ [Next]_vars => Inv'
<1> SUFFICES ASSUME Inv, [Next]_vars PROVE Inv'
  OBVIOUS
<1>1. CASE UNCHANGED vars
  BY <1>1 DEF vars, Inv, Typed, LocksOK, Exclusive, Holding, RecordOK, Exists
<1>2. ASSUME NEW w \in Workers, Rollback(w) PROVE Inv'
  <2>1. /\ req' \in [Workers -> MaybeIn(Request)]
        /\ \A v \in Workers : req'[v] = None \/ req'[v] = req[v]
    BY <1>2, EndFrees DEF Rollback
  <2>2. UNCHANGED <<users, log, now, acked, told>>
    BY <1>2 DEF Rollback
  <2>3. LocksOK'
    BY <2>1, <2>2 DEF Inv, LocksOK, Exclusive, Holding, Exists
  <2> QED
    BY <2>1, <2>2, <2>3 DEF Inv, Typed, RecordOK, Exists
<1>3. CASE Tick
  <2>1. now' \in 0 .. MaxTime
    BY <1>3, TimeAssumption DEF Tick, Inv, Typed
  <2> QED
    BY <1>3, <2>1 DEF Tick, Inv, Typed, LocksOK, Exclusive, Holding, RecordOK, Exists
<1> QED
  BY <1>1, <1>2, <1>3, NewKeeps, UpdateKeeps, ReadKeeps, CloseKeeps, ActiveKeeps, NoteKeeps,
     NoteByGuidKeeps, DeleteUserKeeps DEF Next

LEMMA InvAlways == Spec => []Inv
BY InitInv, NextInv, PTL DEF Spec

\* Types and foreign keys: a record's reporter and actor are accounts.
THEOREM TypeCorrect == Spec => []TypeOK
BY InvAlways, InvTypes, PTL

\* What the host was told is recorded stays so, in whatever order its reports
\* are handled and however often.
THEOREM ReportsStay == Spec => []Reported
<1>1. Inv => Reported
  BY DEF Inv, RecordOK, Reported
<1> QED
  BY <1>1, InvAlways, PTL

\* Whoever learned a record's guid is its actor, as long as he exists.
THEOREM GuidForActor == Spec => []GuidIsActors
<1>1. Inv => GuidIsActors
  BY DEF Inv, Typed, RecordOK, GuidIsActors
<1> QED
  BY <1>1, InvAlways, PTL

\* A controller's note is that of the record's actor.
THEOREM NoteOfActor == Spec => []NoteIsActors
<1>1. Inv => NoteIsActors
  BY DEF Inv, RecordOK, NoteIsActors
<1> QED
  BY <1>1, InvAlways, PTL

\* A step keeps the time of closing of a record that has one.
LEMMA EndKept ==
  ASSUME Inv, Next, NEW k \in Keys, Exists(k), log[k].end # None
  PROVE  log'[k].end = log[k].end
<1> USE NoRowAssumption
<1>1. log[k] \in Record
  BY DEF Exists, Inv, Typed
<1>2. CASE log'[k] = log[k]
  BY <1>2
<1>3. ASSUME NEW j \in Keys, NEW r, j # k, log' = [log EXCEPT ![j] = r] PROVE log'[k] = log[k]
  BY <1>3 DEF Inv, Typed
<1>4. ASSUME NEW u \in Users, NEW j \in Keys, NEW i \in Ids, NEW t \in MaybeIn(Types), New(u, j, i, t)
      PROVE  log'[k] = log[k]
  BY <1>4 DEF New, Inv, Typed
<1>5. ASSUME NEW j \in Keys, NEW i \in Ids, NEW c \in MaybeIn(Controllers),
             NEW t \in MaybeIn(Types), NEW n \in BOOLEAN, Update(j, i, c, t, n)
      PROVE  log'[k].end = log[k].end
  <2>1. CASE j = k
    <3> DEFINE p == IF c = None THEN log[k].peer ELSE c
               y == IF t = None THEN log[k].type ELSE t
               z == IF n THEN "host" ELSE log[k].note
    <3>1. log'[k] = [log[k] EXCEPT !.peer = p, !.type = y, !.note = z]
      BY <1>5, <2>1 DEF Update, Inv, Typed
    <3> HIDE DEF p, y, z
    <3> QED
      BY <1>1, <3>1 DEF Record
  <2>2. CASE j # k
    BY <1>3, <1>5, <2>2 DEF Update
  <2> QED
    BY <2>1, <2>2
<1>6. ASSUME NEW w \in Workers, Close(w) PROVE log'[k] = log[k]
  <2>1. PICK j \in Keys : j = req[w].key /\ Holding(req[w])
    BY <1>6, EndFrees DEF Close
  <2>2. j # k
    BY <1>6, <2>1 DEF Close, Holding
  <2> QED
    BY <1>3, <1>6, <2>1, <2>2 DEF Close
<1>7. ASSUME NEW w \in Workers, Active(w) PROVE log'[k].end = log[k].end
  <2>1. PICK r \in Request : r = req[w]
    BY <1>7, EndFrees DEF Active
  <2>2. CASE r.key = k
    <3> DEFINE a == IF r.read.actor = None THEN r.user ELSE log[k].actor
               y == IF r.read.type = None THEN r.type ELSE log[k].type
    <3>1. log'[k] = [log[k] EXCEPT !.actor = a, !.type = y]
      BY <1>7, <2>1, <2>2 DEF Active, Inv, Typed
    <3> HIDE DEF a, y
    <3> QED
      BY <1>1, <3>1 DEF Record
  <2>3. CASE r.key # k
    BY <1>3, <1>7, <2>1, <2>3 DEF Active, Request
  <2> QED
    BY <2>2, <2>3
<1>8. ASSUME NEW w \in Workers, Note(w) PROVE log'[k].end = log[k].end
  <2>1. PICK r \in Request : r = req[w]
    BY <1>8, EndFrees DEF Note
  <2>2. CASE r.key = k
    <3>1. log'[k] = [log[k] EXCEPT !.actor = r.user, !.note = r.user]
      BY <1>8, <2>1, <2>2 DEF Note, Inv, Typed
    <3> QED
      BY <1>1, <3>1 DEF Record
  <2>3. CASE r.key # k
    BY <1>3, <1>8, <2>1, <2>3 DEF Note, Request
  <2> QED
    BY <2>2, <2>3
<1>9. ASSUME NEW u \in Users, NEW c \in Controllers, NEW j \in Keys, NoteByGuid(u, c, j)
      PROVE  log'[k].end = log[k].end
  BY <1>1, <1>9 DEF NoteByGuid, Inv, Typed, Record
<1>10. ASSUME NEW u \in Users, DeleteUser(u) PROVE log'[k].end = log[k].end
  <2>1. log'[k] = log[k] \/ log'[k] = Forget(u, log[k])
    BY <1>10 DEF DeleteUser, Inv, Typed
  <2> QED
    BY <1>1, <2>1 DEF Forget, Record
<1>11. ASSUME NEW w \in Workers, NEW j \in Keys, NEW i \in Ids, ReadToClose(w, j, i)
       PROVE  log'[k] = log[k]
  BY <1>11 DEF ReadToClose
<1>12. ASSUME NEW w \in Workers, NEW u \in Users, NEW c \in Controllers, NEW j \in Keys,
              ReadToNote(w, u, c, j) \/ \E t \in Types : ReadActive(w, u, c, j, t)
       PROVE  log'[k] = log[k]
  BY <1>12 DEF ReadToNote, ReadActive
<1>13. CASE Tick \/ \E w \in Workers : Rollback(w)
  BY <1>13 DEF Tick, Rollback
<1> QED
  BY <1>4, <1>5, <1>6, <1>7, <1>8, <1>9, <1>10, <1>11, <1>12, <1>13 DEF Next

\* The time of closing is that of the first close, however many reports of it
\* are handled at once.
THEOREM ClosesOnce == Spec => ClosedOnce
<1>1. Inv /\ [Next]_vars =>
        [\A k \in Keys : Exists(k) /\ log[k].end # None => log[k].end = log'[k].end]_vars
  BY EndKept
<1>2. ClosedOnce <=>
        [][\A k \in Keys : Exists(k) /\ log[k].end # None => log[k].end = log'[k].end]_vars
  BY DEF ClosedOnce
<1> QED
  BY <1>1, <1>2, InvAlways, PTL DEF Spec

-----------------------------------------------------------------------------
(* The connection log implements ConnectionLog                             *)

\* A step that changes no record.
LEMMA LogStutter ==
  ASSUME UNCHANGED <<users, log, told>>
  PROVE  UNCHANGED Abstract!vars
BY DEF Abstract!vars, Made, EndOf, ActorOf, NoteOf, Exists

\* What saving a record changes of the abstract log: nothing of the others.
LEMMA LogSaved ==
  ASSUME Inv, NEW k \in Keys, NEW r \in Record, log' = [log EXCEPT ![k] = r], Exists(k)
  PROVE  /\ log[k] \in Record
         /\ Made' = Made /\ k \in Made
         /\ EndOf(k) = log[k].end /\ ActorOf(k) = log[k].actor /\ NoteOf(k) = log[k].note
         /\ [j \in Keys |-> EndOf(j)]' = [[j \in Keys |-> EndOf(j)] EXCEPT ![k] = r.end]
         /\ [j \in Keys |-> ActorOf(j)]' = [[j \in Keys |-> ActorOf(j)] EXCEPT ![k] = r.actor]
         /\ [j \in Keys |-> NoteOf(j)]' = [[j \in Keys |-> NoteOf(j)] EXCEPT ![k] = r.note]
<1> USE NoRowAssumption
<1>1. log'[k] = r /\ r # None /\ (\A j \in Keys \ {k} : log'[j] = log[j]) /\ log[k] \in Record
  BY DEF Exists, Inv, Typed
<1>2. Made' = Made /\ k \in Made
  BY <1>1 DEF Made, Exists
<1>3. /\ EndOf(k)' = r.end /\ ActorOf(k)' = r.actor /\ NoteOf(k)' = r.note
      /\ \A j \in Keys \ {k} : EndOf(j)' = EndOf(j) /\ ActorOf(j)' = ActorOf(j)
                               /\ NoteOf(j)' = NoteOf(j)
  BY <1>1 DEF EndOf, ActorOf, NoteOf, Exists
<1>4. EndOf(k) = log[k].end /\ ActorOf(k) = log[k].actor /\ NoteOf(k) = log[k].note
  BY DEF EndOf, ActorOf, NoteOf
<1> QED
  BY <1>1, <1>2, <1>3, <1>4

\* A record that is saved with the fields the abstract log has is a stutter.
LEMMA SameSaved ==
  ASSUME Inv, NEW k \in Keys, NEW r \in Record, log' = [log EXCEPT ![k] = r], Exists(k),
         r.end = log[k].end, r.actor = log[k].actor, r.note = log[k].note,
         UNCHANGED <<users, told>>
  PROVE  UNCHANGED Abstract!vars
<1>1. \A j \in Keys : EndOf(j)' = EndOf(j) /\ ActorOf(j)' = ActorOf(j) /\ NoteOf(j)' = NoteOf(j)
  BY NoRowAssumption DEF EndOf, ActorOf, NoteOf, Exists, Inv, Typed
<1> QED
  BY <1>1, LogSaved DEF Abstract!vars

LEMMA LogMade ==
  ASSUME Inv, NEW u \in Users, NEW k \in Keys, NEW i \in Ids, NEW t \in MaybeIn(Types),
         New(u, k, i, t)
  PROVE  Abstract!Make(k) \/ UNCHANGED Abstract!vars
<1> USE NoRowAssumption
<1>1. CASE Exists(k)
  <2>1. log' = log
    BY <1>1 DEF New, Inv, Typed
  <2> QED
    BY <2>1, LogStutter DEF New
<1>2. CASE ~Exists(k)
  <2>1. PICK r : r = Fresh(u, i, t)
    OBVIOUS
  <2>2. r # None /\ r.end = None /\ r.actor = None /\ r.note = None
    <3>1. r \in Record
      BY <2>1 DEF Fresh, Record
    <3> QED
      BY <2>1, <3>1 DEF Fresh
  <2>3. log'[k] = r /\ \A j \in Keys \ {k} : log'[j] = log[j]
    BY <1>2, <2>1 DEF New, Inv, Typed
  <2>4. Made' = Made \cup {k} /\ k \notin Made
    BY <1>2, <2>2, <2>3 DEF Made, Exists
  <2>5. \A j \in Keys : EndOf(j)' = EndOf(j) /\ ActorOf(j)' = ActorOf(j) /\ NoteOf(j)' = NoteOf(j)
    BY <1>2, <2>2, <2>3 DEF EndOf, ActorOf, NoteOf, Exists
  <2> QED
    BY <2>4, <2>5 DEF New, Abstract!Make
<1> QED
  BY <1>1, <1>2

\* A report that says who controls, or how, is none of the abstract log's
\* business; one with a note replaces the note.
LEMMA LogUpdated ==
  ASSUME Inv, NEW k \in Keys, NEW i \in Ids, NEW c \in MaybeIn(Controllers),
         NEW t \in MaybeIn(Types), NEW n \in BOOLEAN, Update(k, i, c, t, n)
  PROVE  Abstract!HostNote(k) \/ UNCHANGED Abstract!vars
<1> DEFINE p == IF c = None THEN log[k].peer ELSE c
           y == IF t = None THEN log[k].type ELSE t
           z == IF n THEN "host" ELSE log[k].note
           s == [log[k] EXCEPT !.peer = p, !.type = y, !.note = z]
<1>1. log[k] \in Record /\ log' = [log EXCEPT ![k] = s] /\ Exists(k)
  BY DEF Update, Exists, Inv, Typed
<1>2. p \in MaybeIn(Controllers) /\ y \in MaybeIn(Types) /\ z \in MaybeIn(Users \cup {"host"})
  BY <1>1 DEF Record
<1> HIDE DEF p, y, z
<1>3. s \in Record /\ s.end = log[k].end /\ s.actor = log[k].actor /\ s.note = z
  BY <1>1, <1>2 DEF Record
<1> HIDE DEF s
<1>4. UNCHANGED <<users, told>>
  BY DEF Update
<1>5. CASE n
  <2>1. s.note = "host"
    BY <1>3, <1>5 DEF z
  <2>2. \A j \in Keys : EndOf(j)' = EndOf(j) /\ ActorOf(j)' = ActorOf(j)
    BY <1>1, <1>3, NoRowAssumption DEF EndOf, ActorOf, Exists, Inv, Typed
  <2>3. /\ Made' = Made /\ k \in Made
        /\ [j \in Keys |-> NoteOf(j)]' = [[j \in Keys |-> NoteOf(j)] EXCEPT ![k] = s.note]
    BY <1>1, <1>3, LogSaved
  <2>4. [j \in Keys |-> NoteOf(j)]' = [[j \in Keys |-> NoteOf(j)] EXCEPT ![k] = "host"]
    BY <2>1, <2>3, Zenon
  <2> QED
    BY <1>4, <2>2, <2>3, <2>4 DEF Abstract!HostNote
<1>6. CASE ~n
  <2>1. s.note = log[k].note
    BY <1>3, <1>6 DEF z
  <2> QED
    BY <1>1, <1>3, <1>4, <2>1, SameSaved
<1> QED
  BY <1>5, <1>6

\* The record a close saves is open, as it was when the close read it.
LEMMA LogClosed ==
  ASSUME Inv, NEW w \in Workers, Close(w)
  PROVE  \E k \in Keys, t \in 0 .. MaxTime : Abstract!Close(k, t)
<1>0. PICK k \in Keys : k = req[w].key /\ Holding(req[w]) /\ log[k] \in Record
  BY EndFrees DEF Close
<1> DEFINE s == [log[k] EXCEPT !.end = now]
<1>1. s \in Record /\ s.end = now /\ s.actor = log[k].actor /\ s.note = log[k].note
  BY <1>0 DEF Record, Inv, Typed
<1>2. log' = [log EXCEPT ![k] = s] /\ UNCHANGED <<users, told>>
  BY <1>0 DEF Close
<1> HIDE DEF s
<1>3. Exists(k) /\ log[k].end = None /\ now \in 0 .. MaxTime
  BY <1>0 DEF Holding, Close, Inv, Typed
<1>4. \A j \in Keys : ActorOf(j)' = ActorOf(j) /\ NoteOf(j)' = NoteOf(j)
  BY <1>0, <1>1, <1>2, NoRowAssumption DEF ActorOf, NoteOf, Exists, Inv, Typed
<1>5. Abstract!Close(k, now)
  BY <1>0, <1>1, <1>2, <1>3, <1>4, LogSaved DEF Abstract!Close
<1> QED
  BY <1>3, <1>5

\* A record that is saved with its actor u, who was it or finds none.
LEMMA LogClaimed ==
  ASSUME Inv, NEW k \in Keys, NEW u \in users, NEW s \in Record,
         log' = [log EXCEPT ![k] = s], Exists(k),
         log[k].actor \in {None, u}, s.actor = u, s.end = log[k].end,
         users' = users
  PROVE  Abstract!Claim(u, k)
<1>1. \A j \in Keys : EndOf(j)' = EndOf(j)
  BY NoRowAssumption DEF EndOf, Exists, Inv, Typed
<1> QED
  BY <1>1, LogSaved DEF Abstract!Claim

\* Who is told the guid is, or becomes, the actor.
LEMMA LogLearned ==
  ASSUME Inv, NEW w \in Workers, Active(w)
  PROVE  \E k \in Keys, u \in Users : Abstract!Learn(u, k)
<1>0. PICK r \in Request : r = req[w]
  BY EndFrees DEF Active
<1> DEFINE k == r.key
           u == r.user
           a == IF r.read.actor = None THEN u ELSE log[k].actor
           y == IF r.read.type = None THEN r.type ELSE log[k].type
           s == [log[k] EXCEPT !.actor = a, !.type = y]
<1>1. Holding(r) /\ k \in Keys /\ log[k] \in Record
  BY <1>0, EndFrees DEF Active
<1>2. /\ Exists(k) /\ u \in Users /\ log[k].actor \in {None, u} /\ a = u
      /\ r.read.actor = log[k].actor /\ y \in MaybeIn(Types)
  BY <1>0, <1>1 DEF Holding, Active, Record
<1>3. log' = [log EXCEPT ![k] = s] /\ users' = users /\ told' = told \cup {<<u, k>>}
  BY <1>0 DEF Active
<1>4. u \in users
  <2>1. CASE log[k].actor = None
    BY <1>0, <1>2, <2>1 DEF Active
  <2>2. CASE log[k].actor # None
    BY <1>1, <1>2, <2>2 DEF Inv, RecordOK
  <2> QED
    BY <2>1, <2>2
<1> HIDE DEF a, y
<1>5. /\ s \in Record /\ s.actor = a /\ s.end = log[k].end /\ s.note = log[k].note
  BY <1>1, <1>2 DEF Record
<1> HIDE DEF s, k, u
<1>6. Abstract!Claim(u, k)
  BY <1>1, <1>2, <1>3, <1>4, <1>5, LogClaimed
<1>7. \A j \in Keys : NoteOf(j)' = NoteOf(j)
  BY <1>1, <1>3, <1>5, NoRowAssumption DEF NoteOf, Exists, Inv, Typed
<1>8. Abstract!Learn(u, k)
  BY <1>3, <1>6, <1>7 DEF Abstract!Learn
<1> QED
  BY <1>1, <1>2, <1>8

\* A note by session makes its writer the actor; one by guid is the actor's.
LEMMA LogNoted ==
  ASSUME Inv,
         \/ \E w \in Workers : Note(w)
         \/ \E u \in Users, c \in Controllers, k \in Keys : NoteByGuid(u, c, k)
  PROVE  \E k \in Keys, u \in Users : Abstract!Note(u, k)
<1>1. ASSUME NEW k \in Keys, NEW u \in users, NEW s \in Record,
             log' = [log EXCEPT ![k] = s], Exists(k), log[k].actor \in {None, u},
             s.actor = u, s.note = u, s.end = log[k].end, UNCHANGED <<users, told>>
      PROVE  Abstract!Note(u, k)
  <2>1. Abstract!Claim(u, k)
    BY <1>1, LogClaimed
  <2>2. [j \in Keys |-> NoteOf(j)]' = [[j \in Keys |-> NoteOf(j)] EXCEPT ![k] = s.note]
    BY <1>1, LogSaved
  <2>3. [j \in Keys |-> NoteOf(j)]' = [[j \in Keys |-> NoteOf(j)] EXCEPT ![k] = u]
    BY <1>1, <2>2, Zenon
  <2> QED
    BY <1>1, <2>1, <2>3 DEF Abstract!Note
<1>2. users \subseteq Users
  BY DEF Inv, Typed
<1>3. ASSUME NEW w \in Workers, Note(w) PROVE \E k \in Keys, u \in Users : Abstract!Note(u, k)
  <2>0. PICK r \in Request : r = req[w]
    BY <1>3, EndFrees DEF Note
  <2> DEFINE k == r.key
             u == r.user
             s == [log[k] EXCEPT !.actor = u, !.note = u]
  <2>1. Holding(r) /\ k \in Keys /\ log[k] \in Record /\ u \in users
    BY <1>3, <2>0, EndFrees DEF Note
  <2>2. s \in Record /\ s.actor = u /\ s.note = u /\ s.end = log[k].end
    BY <1>2, <2>1 DEF Record
  <2>3. log' = [log EXCEPT ![k] = s] /\ UNCHANGED <<users, told>>
    BY <1>3, <2>0 DEF Note
  <2>4. Exists(k) /\ log[k].actor \in {None, u}
    BY <1>3, <2>0, <2>1 DEF Holding, Note
  <2> HIDE DEF s, k, u
  <2>5. Abstract!Note(u, k)
    BY <1>1, <2>1, <2>2, <2>3, <2>4
  <2> QED
    BY <1>2, <2>1, <2>5
<1>4. ASSUME NEW u \in Users, NEW c \in Controllers, NEW k \in Keys, NoteByGuid(u, c, k)
      PROVE  Abstract!Note(u, k)
  <2> DEFINE s == [log[k] EXCEPT !.note = u]
  <2>1. log[k] \in Record /\ Exists(k) /\ u \in users /\ log[k].actor = u
    BY <1>4 DEF NoteByGuid, Exists, Inv, Typed
  <2>2. s \in Record /\ s.actor = u /\ s.note = u /\ s.end = log[k].end
    BY <2>1 DEF Record
  <2>3. log' = [log EXCEPT ![k] = s] /\ UNCHANGED <<users, told>>
    BY <1>4 DEF NoteByGuid
  <2> HIDE DEF s
  <2> QED
    BY <1>1, <2>1, <2>2, <2>3
<1> QED
  BY <1>3, <1>4

LEMMA LogForgets ==
  ASSUME Inv, NEW u \in Users, DeleteUser(u)
  PROVE  Abstract!Forget(u)
<1> USE NoneAssumption, NoRowAssumption
<1>1. ASSUME NEW k \in Keys
      PROVE  /\ Exists(k)' <=> Exists(k)
             /\ EndOf(k)' = EndOf(k) /\ NoteOf(k)' = NoteOf(k)
             /\ ActorOf(k)' = IF ActorOf(k) = u THEN None ELSE ActorOf(k)
  <2>1. CASE Exists(k) /\ u \in {log[k].actor, log[k].reporter}
    <3>1. log'[k] = Forget(u, log[k]) /\ log[k] \in Record
      BY <2>1 DEF DeleteUser, Exists, Inv, Typed
    <3>2. /\ Forget(u, log[k]) \in Record
          /\ Forget(u, log[k]).actor = IF log[k].actor = u THEN None ELSE log[k].actor
          /\ Forget(u, log[k]).end = log[k].end /\ Forget(u, log[k]).note = log[k].note
      BY <3>1 DEF Forget, Record
    <3> QED
      BY <2>1, <3>1, <3>2 DEF Exists, EndOf, NoteOf, ActorOf
  <2>2. CASE ~(Exists(k) /\ u \in {log[k].actor, log[k].reporter})
    <3>1. log'[k] = log[k]
      BY <2>2 DEF DeleteUser
    <3> QED
      BY <2>2, <3>1 DEF Exists, EndOf, NoteOf, ActorOf
  <2> QED
    BY <2>1, <2>2
<1>2. Made' = Made
  BY <1>1 DEF Made
<1> QED
  BY <1>1, <1>2 DEF DeleteUser, Abstract!Forget

LEMMA LogStep == Inv /\ [Next]_vars => [Abstract!Next]_Abstract!vars
<1> SUFFICES ASSUME Inv, [Next]_vars PROVE Abstract!Next \/ UNCHANGED Abstract!vars
  OBVIOUS
<1>1. ASSUME NEW u \in Users, NEW k \in Keys, NEW i \in Ids, NEW t \in MaybeIn(Types),
             New(u, k, i, t)
      PROVE  Abstract!Next \/ UNCHANGED Abstract!vars
  BY <1>1, LogMade DEF Abstract!Next
<1>2. ASSUME NEW k \in Keys, NEW i \in Ids, NEW c \in MaybeIn(Controllers),
             NEW t \in MaybeIn(Types), NEW n \in BOOLEAN, Update(k, i, c, t, n)
      PROVE  Abstract!Next \/ UNCHANGED Abstract!vars
  BY <1>2, LogUpdated DEF Abstract!Next
<1>3. ASSUME NEW w \in Workers, Close(w) PROVE Abstract!Next
  BY <1>3, LogClosed DEF Abstract!Next
<1>4. ASSUME NEW w \in Workers, Active(w) PROVE Abstract!Next
  BY <1>4, LogLearned DEF Abstract!Next
<1>5. ASSUME \/ \E w \in Workers : Note(w)
             \/ \E u \in Users, c \in Controllers, k \in Keys : NoteByGuid(u, c, k)
      PROVE  Abstract!Next
  BY <1>5, LogNoted DEF Abstract!Next
<1>6. ASSUME NEW u \in Users, DeleteUser(u) PROVE Abstract!Next
  BY <1>6, LogForgets DEF Abstract!Next
<1>7. ASSUME \/ Tick \/ \E w \in Workers : Rollback(w)
             \/ \E w \in Workers, k \in Keys :
                  \/ \E i \in Ids : ReadToClose(w, k, i)
                  \/ \E u \in Users, c \in Controllers :
                       \/ \E t \in Types : ReadActive(w, u, c, k, t)
                       \/ ReadToNote(w, u, c, k)
             \/ UNCHANGED vars
      PROVE  UNCHANGED Abstract!vars
  BY <1>7, LogStutter DEF Tick, Rollback, ReadToClose, ReadActive, ReadToNote, vars
<1> QED
  BY <1>1, <1>2, <1>3, <1>4, <1>5, <1>6, <1>7 DEF Next

\* _audit_conn, _audit_conn_active, audit_note, _audit_controller_note and
\* user_delete: whatever they read before they save, the log is as if each
\* was executed alone.
THEOREM LogImplemented == Spec => ImplementsLog
<1>1. Init => Abstract!Init
  BY DEF Init, Abstract!Init, Made, EndOf, ActorOf, NoteOf, Exists
<1>2. Inv /\ [Next]_vars => [Abstract!Next]_Abstract!vars
  BY LogStep
<1> QED
  BY <1>1, <1>2, InvAlways, PTL DEF Spec, ImplementsLog, Abstract!Spec

-----------------------------------------------------------------------------
(* The strategies                                                          *)

CONSTANTS Devices, Groups, Strategies, Options
VARIABLES strategy, direct, group, owner, groups, user, saved, answer, client

\* The clock and the accounts are those of the connection log.
Policy == INSTANCE StrategyPolicy

\* A version a device has, or is going to have: it is no later than the clock,
\* earlier if a save could still be the only one of this second, and the
\* options are those of the strategy whose version nothing else shares.
Genuine(v) ==
  /\ v.at <= now
  /\ ~saved => v.at < now
  /\ \A s \in Strategies :
       Policy!Exists(s) /\ strategy[s].alone /\ v.at = strategy[s].updated
         => v.options = strategy[s].options

\* The same of the strategies, and that a save alone in its second is alone.
StrategiesOK ==
  /\ \A s \in Strategies : Policy!Exists(s) =>
       strategy[s].updated <= now /\ (~saved => strategy[s].updated < now)
  /\ \A s, t \in Strategies :
       Policy!Exists(s) /\ Policy!Exists(t) /\ strategy[s].alone
         /\ strategy[s].updated = strategy[t].updated => s = t

PolicyInv ==
  /\ Policy!TypeOK
  /\ StrategiesOK
  /\ \A d \in Devices : Genuine(client[d]) /\ (answer[d] # None => Genuine(answer[d]))

LEMMA PolicyInit ==
  ASSUME Policy!ConstantsOK, Policy!Init
  PROVE  PolicyInv
<1>1. 1 \in 1 .. MaxTime
  BY DEF Policy!ConstantsOK
<1>2. [at |-> 0, options |-> None] \in Policy!Version
  BY DEF Policy!ConstantsOK, Policy!Version, Policy!MaybeIn
<1>3. Policy!TypeOK
  BY <1>1, <1>2 DEF Policy!Init, Policy!TypeOK, Policy!MaybeIn, Policy!Assignable
<1>4. \A s \in Strategies : ~Policy!Exists(s)
  BY DEF Policy!Init, Policy!Exists
<1> QED BY <1>3, <1>4 DEF Policy!Init, PolicyInv, StrategiesOK, Genuine

\* The effective strategy exists.
LEMMA EffectiveExists ==
  ASSUME Policy!ConstantsOK, Policy!TypeOK, NEW d \in Devices, Policy!Effective(d) # None
  PROVE  /\ Policy!Effective(d) \in Strategies /\ Policy!Exists(Policy!Effective(d))
         /\ strategy[Policy!Effective(d)] \in Policy!Profile
<1>1. direct[d] \in Policy!Assignable /\ (direct[d] # None => Policy!Effective(d) = direct[d])
  BY DEF Policy!TypeOK, Policy!Effective
<1>2. ASSUME direct[d] = None, group[d] # None, groups[group[d]] # None
      PROVE  groups[group[d]] \in Policy!Assignable /\ Policy!Effective(d) = groups[group[d]]
  BY <1>2 DEF Policy!TypeOK, Policy!Effective, Policy!MaybeIn, Policy!GroupExists
<1>3. ASSUME direct[d] = None, ~(group[d] # None /\ groups[group[d]] # None)
      PROVE  owner[d] # None /\ user[owner[d]] \in Policy!Assignable /\ Policy!Effective(d) = user[owner[d]]
  BY <1>3 DEF Policy!TypeOK, Policy!Effective, Policy!MaybeIn
<1>4. Policy!Effective(d) \in Policy!Assignable
  BY <1>1, <1>2, <1>3
<1> QED BY <1>4 DEF Policy!Assignable, Policy!MaybeIn, Policy!Exists, Policy!TypeOK

\* A save: its strategy is stamped with the second, and alone in it or not.
LEMMA Saved ==
  ASSUME Policy!ConstantsOK, PolicyInv, NEW s \in Strategies, NEW p \in Policy!Profile, Policy!Save(s, p)
  PROVE  PolicyInv'
<1> DEFINE new == [options |-> p.options, enabled |-> p.enabled, updated |-> now, alone |-> ~saved]
<1>1. Policy!TypeOK /\ now \in 1 .. MaxTime /\ now \in Nat /\ saved \in BOOLEAN
  BY DEF PolicyInv, Policy!TypeOK, Policy!ConstantsOK
<1>2. /\ new \in Policy!Profile /\ new # None
      /\ [Policy!Stamped(s, p) EXCEPT !.alone = ~saved] = new
  <2>1. PICK a \in BOOLEAN : a = ~saved
    OBVIOUS
  <2>2. [options |-> p.options, enabled |-> p.enabled, updated |-> now, alone |-> a] \in Policy!Profile
    BY <1>1 DEF Policy!Profile
  <2>3. [Policy!Stamped(s, p) EXCEPT !.alone = a] =
          [options |-> p.options, enabled |-> p.enabled, updated |-> now, alone |-> a]
    <3>1. Policy!Stamped(s, p) = [p EXCEPT !.updated = now]
      BY DEF Policy!Stamped
    <3>2. PICK q : q = [p EXCEPT !.updated = now]
      OBVIOUS
    <3>3. q = [options |-> p.options, enabled |-> p.enabled, updated |-> now, alone |-> p.alone]
      BY <3>2 DEF Policy!Profile
    <3>4. [q EXCEPT !.alone = a] =
            [options |-> p.options, enabled |-> p.enabled, updated |-> now, alone |-> a]
      BY <3>3
    <3> QED BY <3>1, <3>2, <3>4
  <2> QED BY <2>1, <2>2, <2>3 DEF Policy!ConstantsOK
<1>3. /\ strategy'[s] = new
      /\ \A t \in Strategies \ {s} : Policy!Exists(t) =>
           /\ strategy'[t] \in Policy!Profile /\ strategy'[t] # None
           /\ strategy'[t].updated = strategy[t].updated /\ strategy'[t].options = strategy[t].options
           /\ strategy'[t].alone <=> strategy[t].alone /\ strategy[t].updated # now
      /\ \A t \in Strategies \ {s} : ~Policy!Exists(t) => strategy'[t] = None
      /\ saved' = TRUE /\ UNCHANGED <<direct, group, owner, groups, user, now, answer, client>>
      /\ DOMAIN strategy' = Strategies
  <2> HIDE DEF new
  <2>1. strategy' = [x \in Strategies |->
                      IF x = s THEN new
                      ELSE IF Policy!Exists(x)
                             THEN [strategy[x] EXCEPT !.alone = strategy[x].alone /\ strategy[x].updated # now]
                             ELSE None]
    BY <1>2 DEF Policy!Save
  <2>2. \A t \in Strategies : Policy!Exists(t) => strategy[t] \in Policy!Profile
    BY <1>1 DEF Policy!TypeOK, Policy!Exists, Policy!MaybeIn
  <2>3. \A r \in Policy!Profile : \A a \in BOOLEAN :
          /\ [r EXCEPT !.alone = a] \in Policy!Profile
          /\ [r EXCEPT !.alone = a].updated = r.updated /\ [r EXCEPT !.alone = a].options = r.options
          /\ [r EXCEPT !.alone = a].alone = a
    BY DEF Policy!Profile
  <2>4. ASSUME NEW t \in Strategies \ {s}, Policy!Exists(t)
        PROVE  /\ strategy'[t] \in Policy!Profile /\ strategy'[t] # None
               /\ strategy'[t].updated = strategy[t].updated /\ strategy'[t].options = strategy[t].options
               /\ strategy'[t].alone <=> strategy[t].alone /\ strategy[t].updated # now
    <3>1. PICK a \in BOOLEAN : a = (strategy[t].alone /\ strategy[t].updated # now)
      OBVIOUS
    <3>2. strategy'[t] = [strategy[t] EXCEPT !.alone = a]
      BY <2>1, <2>4, <3>1
    <3>3. PICK r \in Policy!Profile : r = strategy[t]
      BY <2>2, <2>4
    <3>4. PICK n \in Policy!Profile : n = [r EXCEPT !.alone = a]
      BY <2>3
    <3>5. n.updated = r.updated /\ n.options = r.options /\ n.alone = a
      BY <2>3, <3>4
    <3>6. strategy'[t] = n /\ n # None
      BY <3>2, <3>3, <3>4 DEF Policy!ConstantsOK
    <3> QED BY <3>1, <3>3, <3>5, <3>6
  <2> QED BY <2>1, <2>4 DEF Policy!Save
<1>4. \A t \in Strategies : /\ Policy!Exists(t)' <=> t = s \/ Policy!Exists(t)
                            /\ Policy!Exists(t) => strategy[t] \in Policy!Profile
  BY <1>1, <1>2, <1>3 DEF Policy!Exists, Policy!TypeOK, Policy!MaybeIn
<1>5. Policy!TypeOK'
  <2>1. Policy!Assignable \subseteq Policy!Assignable'
    BY <1>4 DEF Policy!Assignable, Policy!MaybeIn
  <2>2. strategy' \in [Strategies -> Policy!MaybeIn(Policy!Profile)]
    <3>1. \A t \in Strategies : strategy'[t] \in Policy!MaybeIn(Policy!Profile)
      BY <1>2, <1>3 DEF Policy!MaybeIn
    <3>2. strategy' = [t \in Strategies |-> strategy'[t]]
      BY DEF Policy!Save
    <3> QED BY <3>1, <3>2
  <2> QED BY <1>1, <1>3, <2>1, <2>2 DEF Policy!TypeOK, Policy!MaybeIn, Policy!GroupExists
<1>6. StrategiesOK'
  BY <1>1, <1>2, <1>3, <1>4 DEF PolicyInv, StrategiesOK, Policy!Profile
<1>7. ASSUME NEW v \in Policy!Version, Genuine(v) PROVE Genuine(v)'
  <2>1. v.at \in Nat /\ v.at <= now /\ (~saved => v.at < now) /\ now' = now /\ saved'
    BY <1>1, <1>3, <1>7 DEF Genuine, Policy!Version
  <2>2. ASSUME NEW t \in Strategies, Policy!Exists(t)', strategy'[t].alone, v.at = strategy'[t].updated
        PROVE  v.options = strategy'[t].options
    <3>1. CASE t = s
      <4>1. strategy'[s].updated = now /\ (strategy'[s].alone <=> ~saved)
        <5>1. PICK a \in BOOLEAN : a = ~saved
          OBVIOUS
        <5>2. strategy'[s] = [options |-> p.options, enabled |-> p.enabled, updated |-> now, alone |-> a]
          BY <1>3, <5>1
        <5>3. strategy'[s].alone = a /\ strategy'[s].updated = now
          BY <5>2
        <5> HIDE DEF new
        <5> QED BY <5>1, <5>3
      <4> QED BY <2>1, <2>2, <3>1, <4>1
    <3>2. CASE t # s
      BY <1>3, <1>4, <1>7, <2>2, <3>2 DEF Genuine
    <3> QED BY <3>1, <3>2
  <2> QED BY <2>1, <2>2 DEF Genuine
<1> QED BY <1>1, <1>3, <1>5, <1>6, <1>7 DEF PolicyInv, Policy!TypeOK, Policy!MaybeIn

\* The assignments change, of strategies that exist, and no strategy or version.
LEMMA Assigned ==
  ASSUME Policy!ConstantsOK, PolicyInv, UNCHANGED <<now, saved, answer, client>>,
         \A s \in Strategies : strategy'[s] \in {strategy[s], None},
         Policy!TypeOK => Policy!TypeOK'
  PROVE  PolicyInv'
<1>1. \A s \in Strategies : Policy!Exists(s)' => Policy!Exists(s) /\ strategy'[s] = strategy[s]
  BY DEF Policy!Exists
<1> QED BY <1>1 DEF PolicyInv, StrategiesOK, Genuine

\* Whatever the administrator does.
LEMMA Administered ==
  ASSUME Policy!ConstantsOK, PolicyInv, Policy!Administer
  PROVE  PolicyInv'
<1>0. Policy!TypeOK
  BY DEF PolicyInv
<1>1. ASSUME NEW s \in Strategies, NEW e \in BOOLEAN, Policy!SetStatus(s, e) PROVE PolicyInv'
  <2>1. strategy[s] \in Policy!Profile
    BY <1>0, <1>1 DEF Policy!SetStatus, Policy!Exists, Policy!TypeOK, Policy!MaybeIn
  <2>2. [strategy[s] EXCEPT !.enabled = e] \in Policy!Profile
    BY <2>1 DEF Policy!Profile
  <2> QED BY <1>1, <2>2, Saved DEF Policy!SetStatus
<1>2. ASSUME NEW s \in Strategies, NEW o \in Options, NEW e \in BOOLEAN, Policy!SaveStrategy(s, o, e)
      PROVE  PolicyInv'
  <2>1. [options |-> o, enabled |-> e, updated |-> now, alone |-> TRUE] \in Policy!Profile
    BY <1>0 DEF Policy!TypeOK, Policy!Profile
  <2> QED BY <1>2, <2>1, Saved DEF Policy!SaveStrategy
<1>3. ASSUME NEW s \in Strategies, Policy!DeleteStrategy(s) PROVE PolicyInv'
  <2>1. /\ strategy' = [strategy EXCEPT ![s] = None]
        /\ direct' = Policy!Without(direct, s)
        /\ groups' = Policy!Without(groups, s) /\ user' = Policy!Without(user, s)
        /\ UNCHANGED <<group, owner, now, saved, answer, client>>
    BY <1>3 DEF Policy!DeleteStrategy
  <2>2. Policy!Assignable' = (Policy!Assignable \ {s}) \cup {None}
    BY <1>0, <2>1 DEF Policy!Assignable, Policy!Exists, Policy!TypeOK, Policy!MaybeIn
  <2>3. /\ direct' \in [Devices -> Policy!Assignable'] /\ user' \in [Users -> Policy!Assignable']
        /\ groups' \in [Groups -> Policy!Assignable' \cup {"none"}]
        /\ \A g \in Groups : Policy!GroupExists(g)' <=> Policy!GroupExists(g)
    BY <1>0, <2>1, <2>2 DEF Policy!TypeOK, Policy!Without, Policy!GroupExists, Policy!ConstantsOK
  <2>4. Policy!TypeOK => Policy!TypeOK'
    BY <2>1, <2>3 DEF Policy!TypeOK, Policy!MaybeIn
  <2>5. \A t \in Strategies : strategy'[t] \in {strategy[t], None}
    BY <1>0, <2>1 DEF Policy!TypeOK
  <2> QED BY <2>1, <2>4, <2>5, Assigned
<1>4. ASSUME NEW D \in SUBSET Devices, NEW G \in SUBSET Groups, NEW U \in SUBSET Users,
             NEW s \in Policy!Assignable, Policy!Assign(D, G, U, s)
      PROVE  PolicyInv'
  <2>1. /\ direct' = [d \in Devices |-> IF d \in D THEN s ELSE direct[d]]
        /\ groups' = [g \in Groups |-> IF g \in G /\ Policy!GroupExists(g) THEN s ELSE groups[g]]
        /\ user' = [u \in Users |-> IF u \in U THEN s ELSE user[u]]
        /\ UNCHANGED <<strategy, group, owner, now, saved, answer, client>>
    BY <1>4 DEF Policy!Assign
  <2>2. Policy!Assignable' = Policy!Assignable /\ s # "none"
    BY <2>1 DEF Policy!Assignable, Policy!Exists, Policy!MaybeIn, Policy!ConstantsOK
  <2>3. \A g \in Groups : Policy!GroupExists(g)' <=> Policy!GroupExists(g)
    BY <2>1, <2>2 DEF Policy!GroupExists
  <2>4. Policy!TypeOK => Policy!TypeOK'
    BY <2>1, <2>2, <2>3 DEF Policy!TypeOK, Policy!MaybeIn
  <2> QED BY <2>1, <2>4, Assigned
<1>5. ASSUME NEW g \in Groups, Policy!DeleteGroup(g) PROVE PolicyInv'
  <2>1. /\ groups' = [groups EXCEPT ![g] = "none"] /\ group' = Policy!Without(group, g)
        /\ UNCHANGED <<strategy, direct, owner, user, now, saved, answer, client>>
    BY <1>5 DEF Policy!DeleteGroup
  <2>2. Policy!Assignable' = Policy!Assignable
    BY <2>1 DEF Policy!Assignable, Policy!Exists
  <2>3. \A h \in Groups : Policy!GroupExists(h)' <=> Policy!GroupExists(h) /\ h # g
    BY <1>0, <2>1 DEF Policy!GroupExists, Policy!TypeOK
  <2>4. group' \in [Devices -> Policy!MaybeIn({h \in Groups : Policy!GroupExists(h)'})]
    BY <1>0, <2>1, <2>3 DEF Policy!TypeOK, Policy!Without, Policy!MaybeIn
  <2>5. Policy!TypeOK => Policy!TypeOK'
    BY <2>1, <2>2, <2>4 DEF Policy!TypeOK
  <2> QED BY <2>1, <2>5, Assigned
<1>6. ASSUME NEW g \in Groups, NEW s \in Policy!Assignable, Policy!SaveGroup(g, s) PROVE PolicyInv'
  <2>1. /\ groups' = [groups EXCEPT ![g] = s]
        /\ UNCHANGED <<strategy, direct, group, owner, user, now, saved, answer, client>>
    BY <1>6 DEF Policy!SaveGroup
  <2>2. Policy!Assignable' = Policy!Assignable /\ s # "none"
    BY <2>1 DEF Policy!Assignable, Policy!Exists, Policy!MaybeIn, Policy!ConstantsOK
  <2>3. \A h \in Groups : Policy!GroupExists(h) => Policy!GroupExists(h)'
    BY <1>0, <2>1, <2>2 DEF Policy!GroupExists, Policy!TypeOK
  <2>4. Policy!TypeOK => Policy!TypeOK'
    BY <2>1, <2>2, <2>3 DEF Policy!TypeOK, Policy!MaybeIn
  <2> QED BY <2>1, <2>4, Assigned
<1>7. ASSUME NEW d \in Devices, NEW g \in Groups, Policy!Join(d, g) \/ Policy!Leave(d, g) PROVE PolicyInv'
  <2>1. PICK h \in {g, None} : group' = [group EXCEPT ![d] = h]
    BY <1>7 DEF Policy!Join, Policy!Leave
  <2>2. UNCHANGED <<strategy, direct, owner, groups, user, now, saved, answer, client>> /\ Policy!GroupExists(g)
    BY <1>7 DEF Policy!Join, Policy!Leave
  <2>3. Policy!TypeOK => Policy!TypeOK'
    BY <2>1, <2>2 DEF Policy!TypeOK, Policy!MaybeIn, Policy!Assignable, Policy!Exists, Policy!GroupExists
  <2> QED BY <2>2, <2>3, Assigned
<1>8. ASSUME NEW d \in Devices, NEW u \in Users, Policy!SetOwner(d, u) PROVE PolicyInv'
  <2>1. Policy!TypeOK => Policy!TypeOK'
    BY <1>8 DEF Policy!SetOwner, Policy!TypeOK, Policy!MaybeIn, Policy!Assignable, Policy!Exists,
                Policy!GroupExists
  <2> QED BY <1>8, <2>1, Assigned DEF Policy!SetOwner
<1>9. ASSUME NEW u \in Users, Policy!DeleteUser(u) PROVE PolicyInv'
  <2>1. None \in Policy!Assignable
    BY DEF Policy!Assignable, Policy!MaybeIn
  <2>2. Policy!TypeOK => Policy!TypeOK'
    BY <1>9, <2>1 DEF Policy!DeleteUser, Policy!Without, Policy!TypeOK, Policy!MaybeIn, Policy!Assignable,
                      Policy!Exists, Policy!GroupExists
  <2> QED BY <1>9, <2>2, Assigned DEF Policy!DeleteUser
<1> QED
  <2>1. {} \in SUBSET Devices /\ {} \in SUBSET Groups /\ {} \in SUBSET Users
    OBVIOUS
  <2> QED BY <1>1, <1>2, <1>3, <1>4, <1>5, <1>6, <1>7, <1>8, <1>9, <2>1 DEF Policy!Administer

\* A heartbeat hands out the version of a strategy that exists.
LEMMA Answered ==
  ASSUME Policy!ConstantsOK, PolicyInv, NEW d \in Devices, Policy!Heartbeat(d)
  PROVE  PolicyInv'
<1> DEFINE e == Policy!Effective(d)
           v == [at |-> strategy[e].updated, options |-> strategy[e].options]
<1>1. e \in Strategies /\ Policy!Exists(e) /\ strategy[e] \in Policy!Profile
  BY EffectiveExists DEF PolicyInv, Policy!Heartbeat, Policy!InForce
<1>2. v \in Policy!Version
  BY <1>1 DEF Policy!Profile, Policy!Version, Policy!MaybeIn
<1>3. Genuine(v)
  BY <1>1 DEF Genuine, PolicyInv, StrategiesOK
<1>4. answer' = [answer EXCEPT ![d] = v]
      /\ UNCHANGED <<strategy, direct, group, owner, groups, user, now, saved, client>>
  BY DEF Policy!Heartbeat, Policy!table
<1> HIDE DEF v
<1>5. Policy!TypeOK' /\ StrategiesOK'
  BY <1>2, <1>4 DEF PolicyInv, Policy!TypeOK, Policy!MaybeIn, Policy!Assignable, Policy!Exists,
                    Policy!GroupExists, StrategiesOK
<1>6. ASSUME NEW w, Genuine(w) PROVE Genuine(w)'
  BY <1>4, <1>6 DEF Genuine, Policy!Exists
<1>7. \A x \in Devices : (client[x] = client'[x]) /\ (answer'[x] = v \/ answer'[x] = answer[x])
  BY <1>4 DEF PolicyInv, Policy!TypeOK
<1> QED BY <1>3, <1>5, <1>6, <1>7 DEF PolicyInv

\* The version of an answer reaches the device, or is lost.
LEMMA Delivery ==
  ASSUME Policy!ConstantsOK, PolicyInv, NEW d \in Devices, Policy!Receive(d) \/ Policy!Lose(d)
  PROVE  PolicyInv'
<1>1. PICK v \in Policy!Version : client' = [client EXCEPT ![d] = v] /\ Genuine(v)
  BY DEF Policy!Receive, Policy!Lose, PolicyInv, Policy!TypeOK, Policy!MaybeIn
<1>2. answer' = [answer EXCEPT ![d] = None]
      /\ UNCHANGED <<strategy, direct, group, owner, groups, user, now, saved>>
  BY DEF Policy!Receive, Policy!Lose, Policy!table
<1>3. Policy!TypeOK' /\ StrategiesOK'
  BY <1>1, <1>2 DEF PolicyInv, Policy!TypeOK, Policy!MaybeIn, Policy!Assignable, Policy!Exists,
                    Policy!GroupExists, StrategiesOK
<1> QED BY <1>1, <1>2, <1>3 DEF PolicyInv, Policy!TypeOK, Genuine, Policy!Exists

LEMMA Ticked ==
  ASSUME Policy!ConstantsOK, PolicyInv, Policy!Tick
  PROVE  PolicyInv'
<1>1. /\ now \in 1 .. MaxTime /\ now < MaxTime /\ now' = now + 1 /\ saved' = FALSE /\ MaxTime \in Nat
      /\ UNCHANGED <<strategy, direct, group, owner, groups, user, answer, client>>
  BY DEF Policy!Tick, Policy!table, PolicyInv, Policy!TypeOK, Policy!ConstantsOK
<1>2. Policy!TypeOK'
  <2>1. now' \in 1 .. MaxTime
    BY <1>1
  <2>2. saved' \in BOOLEAN
    BY <1>1
  <2> QED BY <1>1, <2>1, <2>2 DEF PolicyInv, Policy!TypeOK, Policy!MaybeIn, Policy!Assignable, Policy!Exists,
                            Policy!GroupExists
<1>3. \A s \in Strategies : Policy!Exists(s) => strategy[s].updated \in Nat
  BY <1>1 DEF PolicyInv, Policy!TypeOK, Policy!MaybeIn, Policy!Exists, Policy!Profile
<1>4. StrategiesOK'
  BY <1>1, <1>3 DEF PolicyInv, StrategiesOK, Policy!Exists
<1>5. ASSUME NEW v \in Policy!Version, Genuine(v) PROVE Genuine(v)'
  BY <1>1, <1>5 DEF Genuine, Policy!Exists, Policy!Version
<1> QED BY <1>1, <1>2, <1>4, <1>5 DEF PolicyInv, Policy!TypeOK, Policy!MaybeIn

LEMMA PolicyNext ==
  ASSUME Policy!ConstantsOK, PolicyInv, [Policy!Next]_(Policy!vars)
  PROVE  PolicyInv'
<1>1. CASE UNCHANGED Policy!vars
  BY <1>1 DEF Policy!vars, Policy!table, PolicyInv, Policy!TypeOK, Policy!MaybeIn, Policy!Assignable,
              Policy!Exists, Policy!GroupExists, StrategiesOK, Genuine
<1> QED BY <1>1, Administered, Answered, Delivery, Ticked DEF Policy!Next

LEMMA PolicyHolds ==
  ASSUME Policy!ConstantsOK
  PROVE  Policy!Spec => []PolicyInv
<1>1. Policy!Init => PolicyInv
  BY PolicyInit
<1>2. PolicyInv /\ [Policy!Next]_(Policy!vars) => PolicyInv'
  BY PolicyNext
<1> QED BY <1>1, <1>2, PTL DEF Policy!Spec

\* Types and foreign keys: what is assigned to a device, a group or an account
\* exists (on_delete=SET_NULL of StrategyProfile and DeviceGroup).
THEOREM PolicyTypeCorrect ==
  ASSUME Policy!ConstantsOK
  PROVE  Policy!Spec => []Policy!TypeOK
<1>1. PolicyInv => Policy!TypeOK
  BY DEF PolicyInv
<1> QED BY <1>1, PolicyHolds, PTL

\* heartbeat says nothing only to a device that has the options of its
\* effective strategy, whatever was edited, deleted and assigned meanwhile, but
\* for a version that two saves of one second share.
THEOREM SilenceCorrect ==
  ASSUME Policy!ConstantsOK
  PROVE  Policy!Spec => []Policy!SilentIfCurrent
<1>1. PolicyInv => Policy!SilentIfCurrent
  <2> SUFFICES ASSUME PolicyInv, NEW d \in Devices, Policy!InForce(d), ~Policy!Differs(d),
                      strategy[Policy!Effective(d)].alone
               PROVE  client[d].options = strategy[Policy!Effective(d)].options
    BY DEF Policy!SilentIfCurrent
  <2>1. Policy!Effective(d) \in Strategies /\ Policy!Exists(Policy!Effective(d))
    BY EffectiveExists DEF PolicyInv, Policy!InForce
  <2> QED BY <2>1 DEF PolicyInv, Genuine, Policy!Differs
<1> QED BY <1>1, PolicyHolds, PTL

=============================================================================

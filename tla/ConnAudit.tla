----------------------------- MODULE ConnAudit ------------------------------
(***************************************************************************)
(* The connection log (_audit_conn, _audit_conn_active, audit_note and     *)
(* _audit_controller_note in api/views_api.py).  The device that is being  *)
(* controlled, the host, reports a connection: new, update and close.  The *)
(* device that controls it asks for the record's guid and writes notes.    *)
(*                                                                         *)
(* Reports may be repeated, delayed and handled in any order, by several   *)
(* workers: the server keeps nothing of a report but its record, so any    *)
(* report may arrive at any time.  A transaction that reads a record with  *)
(* FOR UPDATE and then saves it is two actions.                            *)
(***************************************************************************)
EXTENDS Naturals

CONSTANTS
  Users,        \* accounts
  Controllers,  \* device ids that control others
  Keys,         \* connections: device id, uuid and session id of the host
  Ids,          \* conn_id and address, which a host could get wrong
  Types,        \* connection types
  Workers,      \* threads executing requests
  None,         \* NULL, or the empty string
  MaxTime       \* bound on the clock

ASSUME NoneAssumption == None \notin Users \cup Controllers \cup Types \cup Nat
ASSUME HostAssumption == "host" \notin Users
ASSUME TimeAssumption == MaxTime \in Nat

VARIABLES
  users,   \* the accounts that exist
  log,     \* ConnLog
  now,     \* the clock, which tells two times of closing apart
  req,     \* the transaction each worker has open
  acked,   \* history: the reports of each connection that were answered "ok"
  told     \* history: who was given the guid of which record

vars == <<users, log, now, req, acked, told>>

-----------------------------------------------------------------------------

MaybeIn(S) == S \cup {None}

\* note: the controller who wrote it, "host" or None.
Record == [id: Ids, reporter: MaybeIn(Users), peer: MaybeIn(Controllers), type: MaybeIn(Types),
           actor: MaybeIn(Users), end: MaybeIn(0 .. MaxTime), note: MaybeIn(Users \cup {"host"})]

\* read: the record as the transaction read it.
Request == [step: {"close", "active", "note"}, key: Keys, user: MaybeIn(Users), type: MaybeIn(Types),
            read: Record]

ASSUME NoRowAssumption == None \notin Record /\ None \notin Request

Exists(k) == log[k] # None

\* SELECT ... FOR UPDATE of a record.
Free(k) == \A w \in Workers : req[w] # None => req[w].key # k

TypeOK ==
  /\ users \subseteq Users
  /\ log \in [Keys -> MaybeIn(Record)]
  /\ now \in 0 .. MaxTime
  /\ req \in [Workers -> MaybeIn(Request)]
  /\ acked \in [Keys -> SUBSET {"new", "peer", "close"}]
  /\ told \subseteq Users \X Keys
  /\ \A k \in Keys : Exists(k) => {log[k].reporter, log[k].actor} \subseteq MaybeIn(users)

Init ==
  /\ users = Users
  /\ log = [k \in Keys |-> None]
  /\ now = 0
  /\ req = [w \in Workers |-> None]
  /\ acked = [k \in Keys |-> {}]
  /\ told = {}

Acknowledge(k, report) == acked' = [acked EXCEPT ![k] = @ \cup {report}]

-----------------------------------------------------------------------------
(* The host                                                                *)

Fresh(u, i, t) ==
  [id |-> i, reporter |-> u, peer |-> None, type |-> t, actor |-> None, end |-> None, note |-> None]

\* Mutant: update_or_create.
New_Overwrites(u, k, i, t) ==
  /\ u \in users
  /\ Exists(k) => log[k].id = i /\ log[k].reporter = u /\ Free(k)
  /\ log' = [log EXCEPT ![k] = IF Exists(k) THEN [@ EXCEPT !.type = t, !.peer = None] ELSE Fresh(u, i, t)]
  /\ Acknowledge(k, "new")
  /\ UNCHANGED <<users, now, req, told>>

\* The first report makes the record; a repeated one must agree with it.
New(u, k, i, t) ==
  /\ u \in users
  /\ Exists(k) => log[k].id = i /\ log[k].reporter = u
  /\ log' = [log EXCEPT ![k] = IF Exists(k) THEN @ ELSE Fresh(u, i, t)]
  /\ Acknowledge(k, "new")
  /\ UNCHANGED <<users, now, req, told>>

\* One statement that writes what the report has: who controls, how, a note.
Update(k, i, c, t, n) ==
  LET r == log[k] IN
  /\ Exists(k) /\ Free(k)
  /\ r.id = i
  /\ log' = [log EXCEPT ![k] = [r EXCEPT !.peer = IF c = None THEN r.peer ELSE c,
                                         !.type = IF t = None THEN r.type ELSE t,
                                         !.note = IF n THEN "host" ELSE r.note]]
  /\ IF c = None THEN UNCHANGED acked ELSE Acknowledge(k, "peer")
  /\ UNCHANGED <<users, now, req, told>>

Begin(w, r) == req[w] = None /\ req' = [req EXCEPT ![w] = r]
End(w)      == req' = [req EXCEPT ![w] = None]

\* Mutant: the record is read without FOR UPDATE.
ReadToClose_Unlocked(w, k, i) ==
  /\ Exists(k)
  /\ log[k].id = i /\ log[k].end = None
  /\ Begin(w, [step |-> "close", key |-> k, user |-> None, type |-> None, read |-> log[k]])
  /\ UNCHANGED <<users, log, now, acked, told>>

\* A report of a record that is closed already is answered "ok" as well.
ReadToClose(w, k, i) ==
  /\ Exists(k) /\ Free(k)
  /\ log[k].id = i /\ log[k].end = None
  /\ Begin(w, [step |-> "close", key |-> k, user |-> None, type |-> None, read |-> log[k]])
  /\ UNCHANGED <<users, log, now, acked, told>>

Close(w) ==
  LET k == req[w].key IN
  /\ req[w] # None /\ req[w].step = "close"
  /\ log' = [log EXCEPT ![k] = [@ EXCEPT !.end = now]]
  /\ End(w)
  /\ Acknowledge(k, "close")
  /\ UNCHANGED <<users, now, told>>

-----------------------------------------------------------------------------
(* The controller                                                          *)

\* The record the host said this device controls; another user's is refused.
MayUse(u, c, r) == r.peer = c /\ r.actor \in {None, u}

\* Mutant: the record is read without FOR UPDATE.
ReadActive_Unlocked(w, u, c, k, t) ==
  /\ u \in users /\ Exists(k)
  /\ MayUse(u, c, log[k]) /\ log[k].type \in {None, t}
  /\ Begin(w, [step |-> "active", key |-> k, user |-> u, type |-> t, read |-> log[k]])
  /\ UNCHANGED <<users, log, now, acked, told>>

ReadActive(w, u, c, k, t) ==
  /\ u \in users /\ Exists(k) /\ Free(k)
  /\ MayUse(u, c, log[k]) /\ log[k].type \in {None, t}
  /\ Begin(w, [step |-> "active", key |-> k, user |-> u, type |-> t, read |-> log[k]])
  /\ UNCHANGED <<users, log, now, acked, told>>

\* Saves the user, and the type, if the record had none, and answers with
\* the guid.
Active(w) ==
  LET r   == req[w]
      row == log[r.key] IN
  /\ r # None /\ r.step = "active"
  /\ r.read.actor = None => r.user \in users
  /\ log' = [log EXCEPT ![r.key] = [row EXCEPT
         !.actor = IF r.read.actor = None THEN r.user ELSE row.actor,
         !.type  = IF r.read.type = None THEN r.type ELSE row.type]]
  /\ End(w)
  /\ told' = told \cup {<<r.user, r.key>>}
  /\ UNCHANGED <<users, now, acked>>

ReadToNote(w, u, c, k) ==
  /\ u \in users /\ Exists(k) /\ Free(k)
  /\ MayUse(u, c, log[k])
  /\ Begin(w, [step |-> "note", key |-> k, user |-> u, type |-> None, read |-> log[k]])
  /\ UNCHANGED <<users, log, now, acked, told>>

\* Mutant: the note does not make its writer the record's actor.
Note_Unclaimed(w) ==
  LET r == req[w] IN
  /\ r # None /\ r.step = "note"
  /\ r.user \in users
  /\ log' = [log EXCEPT ![r.key] = [@ EXCEPT !.note = r.user]]
  /\ End(w)
  /\ UNCHANGED <<users, now, acked, told>>

\* _audit_controller_note, which both saves.
Note(w) ==
  LET r == req[w] IN
  /\ r # None /\ r.step = "note"
  /\ r.user \in users
  /\ log' = [log EXCEPT ![r.key] = [@ EXCEPT !.actor = r.user, !.note = r.user]]
  /\ End(w)
  /\ UNCHANGED <<users, now, acked, told>>

\* audit_note, by the guid, in one statement.
NoteByGuid(u, c, k) ==
  /\ u \in users /\ <<u, k>> \in told
  /\ Exists(k) /\ Free(k)
  /\ log[k].actor = u /\ log[k].peer = c
  /\ log' = [log EXCEPT ![k] = [@ EXCEPT !.note = u]]
  /\ UNCHANGED <<users, now, req, acked, told>>

-----------------------------------------------------------------------------

\* A constraint, or the end of the worker.
Rollback(w) ==
  /\ req[w] # None
  /\ End(w)
  /\ UNCHANGED <<users, log, now, acked, told>>

Tick ==
  /\ now < MaxTime
  /\ now' = now + 1
  /\ UNCHANGED <<users, log, req, acked, told>>

\* reporter and actor: on_delete=SET_NULL.
Forget(u, r) ==
  [r EXCEPT !.actor = IF @ = u THEN None ELSE @, !.reporter = IF @ = u THEN None ELSE @]

DeleteUser(u) ==
  LET of == {k \in Keys : Exists(k) /\ u \in {log[k].actor, log[k].reporter}} IN
  /\ u \in users /\ users # {u}
  /\ \A k \in of : Free(k)
  /\ users' = users \ {u}
  /\ log' = [k \in Keys |-> IF k \in of THEN Forget(u, log[k]) ELSE log[k]]
  /\ UNCHANGED <<now, req, acked, told>>

Next ==
  \/ \E k \in Keys, i \in Ids :
       \/ \E u \in Users, t \in MaybeIn(Types) : New(u, k, i, t)
       \/ \E c \in MaybeIn(Controllers), t \in MaybeIn(Types), n \in BOOLEAN : Update(k, i, c, t, n)
       \/ \E w \in Workers : ReadToClose(w, k, i)
  \/ \E u \in Users, c \in Controllers, k \in Keys :
       \/ \E w \in Workers : (\E t \in Types : ReadActive(w, u, c, k, t)) \/ ReadToNote(w, u, c, k)
       \/ NoteByGuid(u, c, k)
  \/ \E w \in Workers : Close(w) \/ Active(w) \/ Note(w) \/ Rollback(w)
  \/ Tick
  \/ \E u \in Users : DeleteUser(u)

Spec == Init /\ [][Next]_vars

-----------------------------------------------------------------------------
(* Properties                                                              *)

\* What the host was told is recorded stays so, however often and in
\* whatever order new, update and close are handled.
Reported ==
  \A k \in Keys :
    /\ acked[k] # {}         => Exists(k)
    /\ "peer" \in acked[k]   => log[k].peer # None
    /\ "close" \in acked[k]  => log[k].end # None

\* The time of closing is that of the first report.
ClosedOnce == [][\A k \in Keys : Exists(k) /\ log[k].end # None => log[k].end = log'[k].end]_vars

\* Two users of a device do not both learn a record's guid: who does is, as
\* long as the account exists, its actor.
GuidIsActors == \A p \in told : p[1] \in users => log[p[2]].actor = p[1]

\* A controller's note is that of the record's actor.
NoteIsActors == \A k \in Keys : Exists(k) /\ log[k].note \in users => log[k].actor = log[k].note

Made        == {k \in Keys : Exists(k)}
EndOf(k)    == IF Exists(k) THEN log[k].end ELSE None
ActorOf(k)  == IF Exists(k) THEN log[k].actor ELSE None
NoteOf(k)   == IF Exists(k) THEN log[k].note ELSE None

Abstract == INSTANCE ConnectionLog WITH
  Times <- 0 .. MaxTime, made <- Made,
  end <- [k \in Keys |-> EndOf(k)], actor <- [k \in Keys |-> ActorOf(k)],
  note <- [k \in Keys |-> NoteOf(k)]

\* Reports and requests that read a record, wait and save it act as if each
\* were handled alone: a second close, a second claim and a deletion in
\* between come before or after, and save nothing that was read too early.
ImplementsLog == Abstract!Spec

=============================================================================

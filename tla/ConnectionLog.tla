--------------------------- MODULE ConnectionLog ----------------------------
(***************************************************************************)
(* What the connection log promises, as if each report and request were    *)
(* handled alone and at once: a record is made once and closed once; it    *)
(* gets one actor, and until his account is deleted nobody else becomes    *)
(* its actor, learns its guid or writes its controller's note.             *)
(* ConnAudit is shown to implement this module.                            *)
(***************************************************************************)
CONSTANTS
  Users,   \* accounts
  Keys,    \* connections
  Times,   \* times of closing
  None     \* nobody, or never

VARIABLES
  users,   \* the accounts that exist
  made,    \* the connections that have a record
  end,     \* when a connection was closed
  actor,   \* the user who controls a connection
  note,    \* who wrote its note, a user or "host"
  told     \* who was given the guid of which record

vars == <<users, made, end, actor, note, told>>

Init ==
  /\ users = Users
  /\ made = {}
  /\ end = [k \in Keys |-> None]
  /\ actor = [k \in Keys |-> None]
  /\ note = [k \in Keys |-> None]
  /\ told = {}

Make(k) ==
  /\ k \notin made
  /\ made' = made \cup {k}
  /\ UNCHANGED <<users, end, actor, note, told>>

Close(k, t) ==
  /\ k \in made /\ end[k] = None
  /\ end' = [end EXCEPT ![k] = t]
  /\ UNCHANGED <<users, made, actor, note, told>>

HostNote(k) ==
  /\ k \in made
  /\ note' = [note EXCEPT ![k] = "host"]
  /\ UNCHANGED <<users, made, end, actor, told>>

\* The first user who asks for the guid or writes a note becomes the actor.
Claim(u, k) ==
  /\ u \in users /\ k \in made
  /\ actor[k] \in {None, u}
  /\ actor' = [actor EXCEPT ![k] = u]
  /\ UNCHANGED <<users, made, end>>

Learn(u, k) ==
  /\ Claim(u, k)
  /\ told' = told \cup {<<u, k>>}
  /\ UNCHANGED note

Note(u, k) ==
  /\ Claim(u, k)
  /\ note' = [note EXCEPT ![k] = u]
  /\ UNCHANGED told

Forget(u) ==
  /\ u \in users
  /\ users' = users \ {u}
  /\ actor' = [k \in Keys |-> IF actor[k] = u THEN None ELSE actor[k]]
  /\ UNCHANGED <<made, end, note, told>>

Next ==
  \/ \E k \in Keys :
       \/ Make(k)
       \/ HostNote(k)
       \/ \E t \in Times : Close(k, t)
       \/ \E u \in Users : Learn(u, k) \/ Note(u, k)
  \/ \E u \in Users : Forget(u)

Spec == Init /\ [][Next]_vars

=============================================================================

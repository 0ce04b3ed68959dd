---------------------------- MODULE SessionTable ----------------------------
(***************************************************************************)
(* What the RemoteToken table promises to every client, whatever the       *)
(* handlers do: a device has at most one open session; a session is opened *)
(* once, by a login, under a secret nobody has held before; and a session  *)
(* that was closed (replaced, logged out, revoked, reaped, purged) stays   *)
(* closed.  Sessions is shown to implement this module.                    *)
(***************************************************************************)
CONSTANTS
  Devices,      \* the devices a session can be bound to
  Secrets,      \* the session secrets that can be drawn
  None          \* "no open session"

VARIABLES
  open,         \* the secret of each device's open session, or None
  spent         \* every secret whose session was closed

vars == <<open, spent>>

Init == /\ open = [d \in Devices |-> None]
        /\ spent = {}

\* Secrets that were never handed out.
Fresh == {s \in Secrets : s \notin spent /\ \A d \in Devices : open[d] # s}

Closing(D) == {open[d] : d \in D} \ {None}

\* A login opens a session on d; the one d had, if any, is closed by it.
Open(d) == \E s \in Fresh :
             /\ open' = [open EXCEPT ![d] = s]
             /\ spent' = spent \cup Closing({d})

\* The sessions of the devices in D are closed together.
Close(D) == /\ open' = [d \in Devices |-> IF d \in D THEN None ELSE open[d]]
            /\ spent' = spent \cup Closing(D)

Next == \/ \E d \in Devices : Open(d)
        \/ \E D \in SUBSET Devices : Close(D)

Spec == Init /\ [][Next]_vars
=============================================================================

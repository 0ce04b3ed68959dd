---------------------------- MODULE OneTimeOffer ----------------------------
(***************************************************************************)
(* What a share link promises to those who open it, and a sign-in flow to  *)
(* the clients that poll it: an offer is made once, is taken at most once, *)
(* by one taker and while it stands, and once it was taken or discarded    *)
(* (expired, refused, failed, purged, its account deleted) it stays so.    *)
(* Who may take it can be decided on the way; that is then final.          *)
(* ShareLinks and OidcFlow are shown to implement this module.             *)
(***************************************************************************)
EXTENDS Sequences

CONSTANTS
  Offers,   \* what is handed out once
  Takers,   \* who can take an offer
  None,     \* "not decided"
  Decided   \* whether the taker is decided before an offer is taken

VARIABLES
  stage,    \* of each offer: "unmade", "open" or "closed"
  winner,   \* who an open offer was decided for, or None
  taken     \* who took each offer, in order

vars == <<stage, winner, taken>>

Init ==
  /\ stage = [o \in Offers |-> "unmade"]
  /\ winner = [o \in Offers |-> None]
  /\ taken = [o \in Offers |-> << >>]

Make(o) ==
  /\ stage[o] = "unmade"
  /\ stage' = [stage EXCEPT ![o] = "open"]
  /\ UNCHANGED <<winner, taken>>

Decide(o, t) ==
  /\ stage[o] = "open" /\ winner[o] = None
  /\ winner' = [winner EXCEPT ![o] = t]
  /\ UNCHANGED <<stage, taken>>

Take(o, t) ==
  /\ stage[o] = "open"
  /\ winner[o] = IF Decided THEN t ELSE None
  /\ stage' = [stage EXCEPT ![o] = "closed"]
  /\ winner' = [winner EXCEPT ![o] = None]
  /\ taken' = [taken EXCEPT ![o] = Append(@, t)]

\* Several offers can be discarded at once.
Discard(S) ==
  /\ \A o \in S : stage[o] = "open"
  /\ stage' = [o \in Offers |-> IF o \in S THEN "closed" ELSE stage[o]]
  /\ winner' = [o \in Offers |-> IF o \in S THEN None ELSE winner[o]]
  /\ UNCHANGED taken

Next ==
  \/ \E S \in SUBSET Offers : Discard(S)
  \/ \E o \in Offers : Make(o) \/ \E t \in Takers : Decide(o, t) \/ Take(o, t)

Spec == Init /\ [][Next]_vars

=============================================================================

------------------------------ MODULE OidcFlow ------------------------------
(***************************************************************************)
(* Signing in through an OpenID Connect provider (api/views_api.py): the   *)
(* client starts a flow and polls for its result, the browser comes back   *)
(* from the provider to the callback, which verifies who signed in and     *)
(* finds or creates the account bound to that identity.  One action is one *)
(* committed statement or transaction; the poll keeps its row locked until *)
(* it has issued the session.                                              *)
(***************************************************************************)
EXTENDS Naturals, Sequences, FiniteSets

CONSTANTS
  Flows,       \* OidcPendingAuth.state, random and never used twice
  Subjects,    \* (issuer, subject) pairs, the provider's identifiers
  Names,       \* user names people have, here and at the provider
  Base,        \* the local name made of a subject's claims
  Workers,     \* threads executing requests
  None,        \* NULL
  Attempts,    \* iterations of _resolve_oidc_user (16)
  MaxPending,  \* OIDC_MAX_PENDING_PER_IP, all clients at one address
  MaxUsers,    \* bound on the account rows ever created
  MaxCrashes   \* bound on the requests that die

ASSUME FiniteAssumption == IsFiniteSet(Flows) /\ IsFiniteSet(Workers) /\ Workers # {}
ASSUME BaseAssumption   == Base \in [Subjects -> Names]
ASSUME BoundsAssumption == /\ Attempts \in Nat \ {0} /\ MaxPending \in Nat
                           /\ MaxUsers \in Nat /\ MaxCrashes \in Nat
ASSUME NoneAssumption   == None \notin Flows \cup Subjects \cup Nat

VARIABLES
  user,      \* UserProfile by user name (unique)
  identity,  \* OidcIdentity: the account id a subject is bound to
  row,       \* OidcPendingAuth by state
  code,      \* the provider's authorization code for a flow
  who,       \* the subject that signed in at the provider for a flow
  req,       \* the request each worker is executing
  users,     \* account rows created so far; the primary key of the next
  crashes,   \* requests that died
  started,   \* history: the flows ever created
  issued,    \* history: the sessions issued for each flow
  made       \* history: the accounts created by sign-ins

vars == <<user, identity, row, code, who, req, users, crashes, started, issued, made>>

-----------------------------------------------------------------------------

\* The name of attempt n: the base name, or one with a hash of (subject, n).
Suffixed == Subjects \X (0 .. Attempts - 1)
AllNames == Names \cup Suffixed

MaybeIn(S) == S \cup {None}

Account == [id: Nat, active: BOOLEAN]
\* old is created_at more than OIDC_PENDING_RETENTION_MINUTES ago, which is
\* both the flow's validity and what the purge deletes.
Pending == [status: {"pending", "done", "error"}, user: MaybeIn(Nat), old: BOOLEAN]

ASSUME NoRowAssumption == None \notin Account /\ None \notin Pending

Steps == {"idle", "create", "fetch", "identify", "name", "clean", "clash", "insert",
          "recover", "store", "fail", "consumed", "issue"}

Request == [step: Steps, flow: MaybeIn(Flows), sub: MaybeIn(Subjects),
            name: MaybeIn(AllNames), try: Nat, uid: MaybeIn(Nat)]

Idle == [step |-> "idle", flow |-> None, sub |-> None, name |-> None, try |-> 0, uid |-> None]

At(w, step) == req[w].step = step
Goto(w, r)  == req' = [req EXCEPT ![w] = r]
Step(w, s)  == Goto(w, [req[w] EXCEPT !.step = s])
Flow(w)     == req[w].flow

\* The poll's SELECT ... FOR UPDATE, until its transaction ends.
Locked(f) == \E w \in Workers : At(w, "issue") /\ Flow(w) = f

Exists(id) == \E n \in AllNames : user[n] # None /\ user[n].id = id
Active(id) == \E n \in AllNames : user[n] # None /\ user[n].id = id /\ user[n].active

Fresh == [status |-> "pending", user |-> None, old |-> FALSE]

TypeOK ==
  /\ user \in [AllNames -> MaybeIn(Account)]
  /\ identity \in [Subjects -> MaybeIn(Nat)]
  /\ row \in [Flows -> MaybeIn(Pending)]
  /\ code \in [Flows -> {"none", "ready", "used"}]
  /\ who \in [Flows -> MaybeIn(Subjects)]
  /\ req \in [Workers -> Request]
  /\ users \in Nat /\ crashes \in Nat
  /\ started \subseteq Flows
  /\ issued \in [Flows -> Seq(Nat)]
  /\ made \subseteq Nat
  /\ \A s \in Subjects : identity[s] # None => Exists(identity[s])
  /\ \A f \in Flows : row[f] # None => /\ f \in started
                                       /\ row[f].user # None => Exists(row[f].user)

\* No account is bound to an identity yet, and no flow started.
Init ==
  /\ user = [n \in AllNames |-> None]
  /\ identity = [s \in Subjects |-> None]
  /\ row = [f \in Flows |-> None]
  /\ code = [f \in Flows |-> "none"]
  /\ who = [f \in Flows |-> None]
  /\ req = [w \in Workers |-> Idle]
  /\ users = 0 /\ crashes = 0
  /\ started = {} /\ made = {}
  /\ issued = [f \in Flows |-> << >>]

-----------------------------------------------------------------------------
(* oidc_auth                                                               *)

\* The flows that count towards the limit.
Live == {f \in Flows : row[f] # None /\ ~row[f].old}

CountPending(w) ==
  /\ At(w, "idle")
  /\ started # Flows
  /\ Cardinality(Live) < MaxPending
  /\ Step(w, "create")
  /\ UNCHANGED <<user, identity, row, code, who, users, crashes, started, issued, made>>

CreatePending(w) ==
  /\ At(w, "create")
  /\ \E f \in Flows \ started :
       /\ row' = [row EXCEPT ![f] = Fresh]
       /\ started' = started \cup {f}
  /\ Goto(w, Idle)
  /\ UNCHANGED <<user, identity, code, who, users, crashes, issued, made>>

\* The provider's metadata cannot be fetched: 502.
StartFails(w) ==
  /\ At(w, "create")
  /\ Goto(w, Idle)
  /\ UNCHANGED <<user, identity, row, code, who, users, crashes, started, issued, made>>

-----------------------------------------------------------------------------
(* oidc_callback                                                           *)

\* At the provider, the user signs in for flow f.
SignIn(f) ==
  /\ f \in started
  /\ who[f] = None
  /\ \E s \in Subjects : who' = [who EXCEPT ![f] = s]
  /\ code' = [code EXCEPT ![f] = "ready"]
  /\ UNCHANGED <<user, identity, row, req, users, crashes, started, issued, made>>

SetRow(f, r) == row' = [row EXCEPT ![f] = r]

\* Mutant: without the condition on the status.
SetError_Any(f) ==
  IF row[f] # None THEN SetRow(f, [row[f] EXCEPT !.status = "error"]) ELSE UNCHANGED row

\* UPDATE ... SET status = 'error' WHERE state = f AND status = 'pending'.
SetError(f) ==
  IF row[f] # None /\ row[f].status = "pending"
  THEN SetRow(f, [row[f] EXCEPT !.status = "error"])
  ELSE UNCHANGED row

\* The browser returns with an error from the provider instead of a code.
Denied ==
  /\ \E f \in Flows : /\ who[f] = None
                      /\ row[f] # None /\ row[f].status = "pending"
                      /\ SetError(f)
  /\ UNCHANGED <<user, identity, code, who, req, users, crashes, started, issued, made>>

\* The browser returns with the code, once or, on a reload, several times.
Callback(w) ==
  /\ At(w, "idle")
  /\ \E f \in Flows :
       /\ who[f] # None
       /\ row[f] # None /\ ~row[f].old /\ row[f].status = "pending"
       /\ Goto(w, [Idle EXCEPT !.step = "fetch", !.flow = f])
  /\ UNCHANGED <<user, identity, row, code, who, users, crashes, started, issued, made>>

\* The flow expired; its row is deleted.
Delete(f) == SetRow(f, None)

CallbackExpired ==
  /\ \E f \in Flows : /\ who[f] # None /\ row[f] # None /\ row[f].old
                      /\ ~Locked(f)
                      /\ Delete(f)
  /\ UNCHANGED <<user, identity, code, who, req, users, crashes, started, issued, made>>

\* The provider accepts a code once, and names the subject that signed in.
Fetch(w) ==
  /\ At(w, "fetch")
  /\ code[Flow(w)] = "ready"
  /\ code' = [code EXCEPT ![Flow(w)] = "used"]
  /\ Goto(w, [req[w] EXCEPT !.step = "identify", !.sub = who[Flow(w)]])
  /\ UNCHANGED <<user, identity, row, who, users, crashes, started, issued, made>>

\* The code was used, the provider is down, or the ID token is not valid.
FetchFails(w) ==
  /\ At(w, "fetch")
  /\ Step(w, "fail")
  /\ UNCHANGED <<user, identity, row, code, who, users, crashes, started, issued, made>>

\* The end of _resolve_oidc_user: a disabled account may not sign in.
Resolved(w, id) ==
  Goto(w, [req[w] EXCEPT !.uid = id, !.step = IF Active(id) THEN "store" ELSE "fail"])

\* The subject's identity, locked, or none.
Identify(w) ==
  /\ At(w, "identify")
  /\ IF identity[req[w].sub] # None THEN Resolved(w, identity[req[w].sub])
     ELSE Step(w, "name")
  /\ UNCHANGED <<user, identity, row, code, who, users, crashes, started, issued, made>>

\* _oidc_local_username.
LocalUsername(s, n) == IF n = 0 /\ user[Base[s]] = None THEN Base[s] ELSE <<s, n>>

ChooseName(w) ==
  /\ At(w, "name")
  /\ Goto(w, [req[w] EXCEPT !.step = "clean", !.name = LocalUsername(req[w].sub, req[w].try)])
  /\ UNCHANGED <<user, identity, row, code, who, users, crashes, started, issued, made>>

\* full_clean of create_user raises ValidationError if the name is taken.
Clean(w) ==
  /\ At(w, "clean")
  /\ Step(w, IF user[req[w].name] = None THEN "insert" ELSE "clash")
  /\ UNCHANGED <<user, identity, row, code, who, users, crashes, started, issued, made>>

\* Mutant: no unique constraint on the issuer and the subject.
Insertable_Name(n, s) == user[n] = None

\* The unique constraints on the name and on the identity.
Insertable(n, s) == user[n] = None /\ identity[s] = None

\* The account and its identity are inserted in one transaction.
Insert(w) == LET n == req[w].name  s == req[w].sub IN
  /\ At(w, "insert")
  /\ Insertable(n, s)
  /\ users < MaxUsers
  /\ user' = [user EXCEPT ![n] = [id |-> users, active |-> TRUE]]
  /\ identity' = [identity EXCEPT ![s] = users]
  /\ users' = users + 1
  /\ made' = made \cup {users}
  /\ Goto(w, [req[w] EXCEPT !.step = "store", !.uid = users])
  /\ UNCHANGED <<row, code, who, crashes, started, issued>>

\* IntegrityError: both are rolled back.
InsertFails(w) ==
  /\ At(w, "insert")
  /\ ~Insertable(req[w].name, req[w].sub)
  /\ Step(w, "recover")
  /\ UNCHANGED <<user, identity, row, code, who, users, crashes, started, issued, made>>

\* Mutant: the account is looked up by its user name.
Winner_Name(r) == IF user[r.name] # None THEN user[r.name].id ELSE None

\* Who holds the identity now, if another sign-in created it.
Winner(r) == identity[r.sub]

\* The account another sign-in of the subject created, or another attempt.
Recover(w) == LET r == req[w] IN
  /\ At(w, "recover")
  /\ \/ Winner(r) # None /\ Resolved(w, Winner(r))
     \/ /\ Winner(r) = None
        /\ IF r.try + 1 < Attempts
           THEN Goto(w, [r EXCEPT !.step = "identify", !.try = r.try + 1])
           ELSE Step(w, "fail")
  /\ UNCHANGED <<user, identity, row, code, who, users, crashes, started, issued, made>>

\* The flow's row, locked and read again, is still pending.
Storable(f) == row[f] # None /\ row[f].status = "pending"

\* The account was deleted meanwhile: the foreign key fails.
Store(w) == LET f == Flow(w)  id == req[w].uid IN
  /\ At(w, "store")
  /\ ~Locked(f)
  /\ \/ /\ Storable(f) /\ Exists(id)
        /\ SetRow(f, [row[f] EXCEPT !.status = "done", !.user = id])
        /\ Goto(w, Idle)
     \/ /\ Storable(f) /\ ~Exists(id)
        /\ Step(w, "fail")
        /\ UNCHANGED row
     \/ /\ ~Storable(f)
        /\ Step(w, "consumed")
        /\ UNCHANGED row
  /\ UNCHANGED <<user, identity, code, who, users, crashes, started, issued, made>>

\* 409 "OIDC authorization was already consumed."
AnswerConsumed(w) ==
  /\ At(w, "consumed")
  /\ Goto(w, Idle)
  /\ UNCHANGED <<user, identity, row, code, who, users, crashes, started, issued, made>>

\* Any exception, a ValidationError included, ends the flow unless it is done.
Fail(w) ==
  /\ req[w].step \in {"fail", "clash"}
  /\ SetError(Flow(w))
  /\ Goto(w, Idle)
  /\ UNCHANGED <<user, identity, code, who, users, crashes, started, issued, made>>

-----------------------------------------------------------------------------
(* oidc_auth_query                                                         *)

\* The outcome is negative: the client is told, and the row goes.
Rejected(r) == r.old \/ r.status = "error" \/ (r.status = "done" /\ ~Active(r.user))

PollRejected ==
  /\ \E f \in Flows : /\ row[f] # None /\ ~Locked(f)
                      /\ Rejected(row[f])
                      /\ Delete(f)
  /\ UNCHANGED <<user, identity, code, who, req, users, crashes, started, issued, made>>

\* Mutant: the row is read without FOR UPDATE.
Pollable_Unlocked(f) == row[f] # None

\* Another poll of the flow waits for the row's lock.
Pollable(f) == row[f] # None /\ ~Locked(f)

\* The flow is done; the row stays locked.
PollDone(w) ==
  /\ At(w, "idle")
  /\ \E f \in Flows :
       /\ Pollable(f)
       /\ row[f].status = "done" /\ ~Rejected(row[f])
       /\ Goto(w, [Idle EXCEPT !.step = "issue", !.flow = f, !.uid = row[f].user])
  /\ UNCHANGED <<user, identity, row, code, who, users, crashes, started, issued, made>>

\* The device is claimed and the session issued (module Sessions), and the
\* flow's row deleted, in the transaction that locked it.
PollIssue(w) ==
  /\ At(w, "issue")
  /\ issued' = [issued EXCEPT ![Flow(w)] = Append(@, req[w].uid)]
  /\ Delete(Flow(w))
  /\ Goto(w, Idle)
  /\ UNCHANGED <<user, identity, code, who, users, crashes, started, made>>

\* The device belongs to someone else, is disabled or is in conflict.
PollRefused(w) ==
  /\ At(w, "issue")
  /\ Delete(Flow(w))
  /\ Goto(w, Idle)
  /\ UNCHANGED <<user, identity, code, who, users, crashes, started, issued, made>>

-----------------------------------------------------------------------------
(* Other requests and the environment                                      *)

\* Registration, or an administrator, creates an account.
CreateUser(n) ==
  /\ user[n] = None
  /\ users < MaxUsers
  /\ user' = [user EXCEPT ![n] = [id |-> users, active |-> TRUE]]
  /\ users' = users + 1
  /\ UNCHANGED <<identity, row, code, who, req, crashes, started, issued, made>>

\* user_status.
SetActive(n) ==
  /\ user[n] # None
  /\ user' = [user EXCEPT ![n].active = ~@]
  /\ UNCHANGED <<identity, row, code, who, req, users, crashes, started, issued, made>>

\* on_delete=CASCADE.
RowsWithout(id) == [f \in Flows |-> IF row[f] # None /\ row[f].user = id THEN None ELSE row[f]]

\* user_delete: the identity and the finished flows go with the account, so it
\* waits for a poll that has one of them locked.
DeleteUser(n) == LET id == user[n].id IN
  /\ user[n] # None
  /\ \A f \in Flows : row[f] # None /\ row[f].user = id => ~Locked(f)
  /\ user' = [user EXCEPT ![n] = None]
  /\ identity' = [s \in Subjects |-> IF identity[s] = id THEN None ELSE identity[s]]
  /\ row' = RowsWithout(id)
  /\ UNCHANGED <<code, who, req, users, crashes, started, issued, made>>

Age(f) ==
  /\ row[f] # None /\ ~row[f].old
  /\ row' = [row EXCEPT ![f].old = TRUE]
  /\ UNCHANGED <<user, identity, code, who, req, users, crashes, started, issued, made>>

\* purge_expired_state.
Purgeable(f) == row[f] # None /\ row[f].old

Purge ==
  /\ \E f \in Flows : Purgeable(f)
  /\ \A f \in Flows : Purgeable(f) => ~Locked(f)
  /\ row' = [f \in Flows |-> IF Purgeable(f) THEN None ELSE row[f]]
  /\ UNCHANGED <<user, identity, code, who, req, users, crashes, started, issued, made>>

\* The worker is killed; its open transaction is rolled back.
Crash(w) ==
  /\ ~At(w, "idle")
  /\ crashes < MaxCrashes
  /\ crashes' = crashes + 1
  /\ Goto(w, Idle)
  /\ UNCHANGED <<user, identity, row, code, who, users, started, issued, made>>

\* What a request does once it has begun.
Proceed(w) ==
  \/ CreatePending(w) \/ StartFails(w) \/ Fetch(w) \/ FetchFails(w) \/ Identify(w)
  \/ ChooseName(w) \/ Clean(w) \/ Insert(w) \/ InsertFails(w) \/ Recover(w) \/ Store(w)
  \/ AnswerConsumed(w) \/ Fail(w) \/ PollIssue(w) \/ PollRefused(w)

Next ==
  \/ \E w \in Workers : CountPending(w) \/ Callback(w) \/ PollDone(w) \/ Proceed(w) \/ Crash(w)
  \/ \E f \in Flows : SignIn(f) \/ Age(f)
  \/ \E n \in Names : CreateUser(n)
  \/ \E n \in AllNames : SetActive(n) \/ DeleteUser(n)
  \/ Denied \/ CallbackExpired \/ PollRejected \/ Purge

Spec == Init /\ [][Next]_vars

-----------------------------------------------------------------------------
(* Properties                                                              *)

\* A flow that is done carries the account of the subject that signed in at
\* the provider, whichever of the callbacks, concurrent first sign-ins and
\* lost insertions of _resolve_oidc_user led to it.
DoneMatchesIdentity ==
  \A f \in Flows : row[f] # None /\ row[f].status = "done" =>
    /\ who[f] # None
    /\ row[f].user = identity[who[f]]

\* An account made by a sign-in belongs to one subject for as long as it
\* exists: concurrent first sign-ins of one subject make one account, and
\* none is left without the identity that was inserted with it.
OneAccountPerSubject ==
  \A id \in made : Exists(id) => \E s \in Subjects :
    \A t \in Subjects : identity[t] = id <=> t = s

\* A flow yields at most one session however often and concurrently its
\* result is polled, and it is a session of the account that the subject who
\* signed in has at that moment.
EarnedOnce ==
  [][\A f \in Flows : issued'[f] # issued[f] =>
       /\ issued[f] = << >>
       /\ who[f] # None
       /\ issued'[f] = <<identity[who[f]]>>]_vars

\* The outcome of a flow is final: late callbacks and failures of a second
\* callback do not turn it, and a flow that is gone does not come back.
OutcomeSticks ==
  [][\A f \in started :
       /\ row[f] = None => row'[f] = None
       /\ row[f] # None /\ row'[f] # None /\ row[f].status # "pending" =>
            /\ row'[f].status = row[f].status
            /\ row'[f].user = row[f].user]_vars

\* A flow whose sign-in failed is over, though its row is still there.
OfferStage(f) ==
  IF f \notin started THEN "unmade"
  ELSE IF row[f] # None /\ row[f].status # "error" THEN "open" ELSE "closed"

OfferWinner(f) == IF row[f] # None /\ row[f].status = "done" THEN row[f].user ELSE None

Offer == INSTANCE OneTimeOffer WITH
  Offers <- Flows, Takers <- 0 .. MaxUsers, Decided <- TRUE,
  stage <- [f \in Flows |-> OfferStage(f)], winner <- [f \in Flows |-> OfferWinner(f)],
  taken <- issued

\* A flow is one offer of a session: callbacks decide once whose it is, one
\* poll takes it for that account, and a flow that failed, was refused or
\* deleted yields nothing to the requests that still hold it.
ImplementsOffer == Offer!Spec

\* oidc_auth counts and then creates, so concurrent requests overshoot the
\* limit on flows per address, but by no more than their own number less one.
PendingBounded ==
  Cardinality({f \in Flows : row[f] # None /\ ~row[f].old})
    <= MaxPending + Cardinality(Workers) - 1

=============================================================================

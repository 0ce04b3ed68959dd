------------------------------ MODULE Sessions ------------------------------
(***************************************************************************)
(* Accounts, devices and device sessions: the part of api/views_api.py     *)
(* every authenticated request goes through.  Worker threads execute       *)
(* requests against three tables (UserProfile, RemoteDevice, RemoteToken). *)
(* The database is PostgreSQL at READ COMMITTED and requests are not       *)
(* wrapped in transactions, so one action below is one committed statement *)
(* or one row-locked transaction, and what a handler read earlier may be   *)
(* stale when its next action runs.                                        *)
(***************************************************************************)
EXTENDS Naturals, Sequences

CONSTANTS
  Users,      \* accounts
  Admins,     \* the accounts with is_admin
  Uuids,      \* device UUIDs (RemoteDevice.uuid, unique and never changed)
  Rids,       \* client ids (RemoteDevice.rid, unique)
  Keys,       \* public key hashes (RemoteDevice.public_key_hash, unique)
  Workers,    \* worker threads, each serving one request at a time
  None,       \* NULL
  MaxIssues,  \* bound on the number of sessions ever issued
  MaxRows     \* bound on the number of device rows ever created

ASSUME AdminsAssumption == Admins \subseteq Users
ASSUME NoneAssumption   == None \notin Users \cup Uuids \cup Rids \cup Keys \cup Nat
ASSUME BoundsAssumption == MaxIssues \in Nat /\ MaxRows \in Nat

VARIABLES
  account,  \* UserProfile: account[u] is "active", "disabled" or "deleted"
  device,   \* RemoteDevice: the row with uuid d, or None
  token,    \* RemoteToken: the row bound to device d, or None (OneToOne)
  req,      \* the request each worker is executing
  rows,     \* device rows created so far; the primary key of the next one
  grants,   \* history: grants[s] is what session secret s was issued for
  lost      \* history: secrets whose revocation died with its worker

vars == <<account, device, token, req, rows, grants, lost>>

-----------------------------------------------------------------------------
(* Rows and requests                                                       *)

Secret == 1..Len(grants)
MaybeIn(S) == S \cup {None}

DeviceRow == [pk: Nat, rid: Rids, owner: MaybeIn(Users), active: BOOLEAN,
              key: MaybeIn(Keys)]
\* Re-login updates the row in place, so pk survives a rotation while secret
\* does not; live is expires_at > now.
TokenRow  == [pk: Nat, secret: Nat, live: BOOLEAN]

ASSUME NoRowAssumption == None \notin DeviceRow /\ None \notin TokenRow

Steps == {"idle", "claim", "issue", "reap", "serve", "admin", "revoke_user",
          "revoke_device", "delete_device", "delete_user"}

\* A request's local variables: the user, device and token rows it read.
Request == [step: Steps, user: MaybeIn(Users), dev: MaybeIn(Uuids),
            rid: MaybeIn(Rids), pk: MaybeIn(Nat), tok: MaybeIn(Nat),
            secret: MaybeIn(Nat), doomed: SUBSET Nat]

Idle == [step |-> "idle", user |-> None, dev |-> None, rid |-> None, pk |-> None,
         tok |-> None, secret |-> None, doomed |-> {}]

At(w, step) == req[w].step = step
Goto(w, r)  == req' = [req EXCEPT ![w] = r]
Done(w)     == Goto(w, Idle)

Rows == {d \in Uuids : device[d] # None}
Open == {d \in Uuids : token[d] # None}
OwnerOf(d) == IF device[d] = None THEN None ELSE device[d].owner
DevicesOf(u) == {d \in Rows : device[d].owner = u}

\* The devices whose token row an open user_delete transaction has deleted
\* but not committed: the row is still visible to readers, and locked.
Locked(d) == \E w \in Workers : At(w, "delete_user") /\ token[d].pk \in req[w].doomed
\* The account row held FOR UPDATE by that transaction.
Held(u) == \E w \in Workers : At(w, "delete_user") /\ req[w].user = u

\* Setting device.owner to u takes a KEY SHARE lock on u's row and needs it
\* to exist when the transaction commits.
Referable(u) == account[u] # "deleted" /\ ~Held(u)

\* DELETE FROM RemoteToken for the devices in D.
DropTokens(D) ==
  /\ \A d \in D \cap Open : ~Locked(d)
  /\ token' = [d \in Uuids |-> IF d \in D THEN None ELSE token[d]]

\* Types, and the two foreign keys: a device's owner exists, and a session's
\* device does.
TypeOK ==
  /\ account \in [Users -> {"active", "disabled", "deleted"}]
  /\ device \in [Uuids -> MaybeIn(DeviceRow)]
  /\ token \in [Uuids -> MaybeIn(TokenRow)]
  /\ req \in [Workers -> Request]
  /\ rows \in Nat
  /\ grants \in Seq([user: Users, rid: Rids, key: MaybeIn(Keys)])
  /\ lost \subseteq Nat
  /\ \A d \in Rows : device[d].owner # None => account[device[d].owner] # "deleted"
  /\ Open \subseteq Rows

\* A server with its administrators and users created and no device yet.
Init ==
  /\ account = [u \in Users |-> "active"]
  /\ device = [d \in Uuids |-> None]
  /\ token = [d \in Uuids |-> None]
  /\ req = [w \in Workers |-> Idle]
  /\ rows = 0
  /\ grants = << >>
  /\ lost = {}

-----------------------------------------------------------------------------
(* POST /api/login                                                         *)

\* The password is verified and the account found active; nothing is held.
Authenticate(w) ==
  /\ At(w, "idle")
  /\ \E u \in Users :
       /\ account[u] = "active"
       /\ Goto(w, [Idle EXCEPT !.step = "claim", !.user = u])
  /\ UNCHANGED <<account, device, token, rows, grants, lost>>

\* The rows an identity touches; any row but the exact one is a conflict.
Matches(r, d) == {x \in Rows : x = d \/ device[x].rid = r}
NewIdentity(r, d) == Matches(r, d) = {}
ExactIdentity(r, d) == Matches(r, d) = {d} /\ device[d].rid = r

\* A disabled device, or one of another owner, is not available to u.
Available(d, u) == device[d].active /\ device[d].owner \in {None, u}

\* The client's device is unknown: a row is created for it.
ClaimNew(w) ==
  /\ At(w, "claim")
  /\ rows < MaxRows
  /\ Referable(req[w].user)
  /\ \E d \in Uuids, r \in Rids :
       /\ NewIdentity(r, d)
       /\ device' = [device EXCEPT ![d] =
            [pk |-> rows, rid |-> r, owner |-> req[w].user, active |-> TRUE, key |-> None]]
       /\ Goto(w, [req[w] EXCEPT !.step = "issue", !.dev = d, !.pk = rows])
  /\ rows' = rows + 1
  /\ UNCHANGED <<account, token, grants, lost>>

\* The client's device is known; an ownerless one becomes the user's.
ClaimExisting(w) ==
  /\ At(w, "claim")
  /\ \E d \in Rows, r \in Rids :
       /\ ExactIdentity(r, d)
       /\ Available(d, req[w].user)
       /\ device[d].owner = None => Referable(req[w].user)
       /\ device' = [device EXCEPT ![d].owner = req[w].user]
       /\ Goto(w, [req[w] EXCEPT !.step = "issue", !.dev = d, !.pk = device[d].pk])
  /\ UNCHANGED <<account, token, rows, grants, lost>>

\* 403 or 409: the device is unavailable, the identity is in conflict, or the
\* account vanished before its reference could be committed.
ClaimRefused(w) ==
  /\ At(w, "claim")
  /\ \/ account[req[w].user] = "deleted"
     \/ \E d \in Uuids, r \in Rids :
          /\ ~NewIdentity(r, d)
          /\ ~(ExactIdentity(r, d) /\ Available(d, req[w].user))
  /\ Done(w)
  /\ UNCHANGED <<account, device, token, rows, grants, lost>>

\* The row read by the claim is locked and checked again before issuing.
MayIssue_AnyOwner(w) ==
  LET d == req[w].dev
  IN  device[d] # None /\ device[d].pk = req[w].pk /\ device[d].active
MayIssue_NotActive(w) ==
  LET d == req[w].dev
  IN  device[d] # None /\ device[d].pk = req[w].pk /\ device[d].owner = req[w].user
MayIssue(w) ==
  LET d == req[w].dev
  IN  /\ device[d] # None
      /\ device[d].pk = req[w].pk
      /\ device[d].owner = req[w].user
      /\ device[d].active

\* update_or_create: a new secret, in the row the device already has if any.
\* The account is not read again.
Issue(w) ==
  LET d == req[w].dev
      s == Len(grants) + 1
  IN  /\ At(w, "issue")
      /\ Len(grants) < MaxIssues
      /\ MayIssue(w)
      /\ d \in Open => ~Locked(d)
      /\ token' = [token EXCEPT ![d] =
           [pk |-> IF d \in Open THEN token[d].pk ELSE s, secret |-> s, live |-> TRUE]]
      /\ grants' = Append(grants, [user |-> req[w].user, rid |-> device[d].rid,
                                   key |-> device[d].key])
      /\ Done(w)
      /\ UNCHANGED <<account, device, rows, lost>>

IssueRefused(w) ==
  /\ At(w, "issue")
  /\ ~MayIssue(w)
  /\ Done(w)
  /\ UNCHANGED <<account, device, token, rows, grants, lost>>

-----------------------------------------------------------------------------
(* Requests that present a session secret                                  *)

\* The account a session authenticates: the owner of its device, if active.
Serves(d) ==
  /\ token[d].live
  /\ OwnerOf(d) # None
  /\ account[OwnerOf(d)] = "active"

\* _get_token_user reads token, device and owner in one SELECT.  A session that
\* serves nobody is deleted by a second statement.
Lookup(w) ==
  /\ At(w, "idle")
  /\ \E d \in Open :
       Goto(w, [step   |-> IF Serves(d) THEN "serve" ELSE "reap",
                user   |-> IF Serves(d) THEN device[d].owner ELSE None,
                dev    |-> d,
                rid    |-> device[d].rid,
                pk     |-> None,
                tok    |-> token[d].pk,
                secret |-> token[d].secret,
                doomed |-> {}])
  /\ UNCHANGED <<account, device, token, rows, grants, lost>>

\* token.delete() deletes by primary key: whatever the row now holds.
RowsOfToken(p) == {d \in Open : token[d].pk = p}

Reap(w) ==
  /\ At(w, "reap")
  /\ DropTokens(RowsOfToken(req[w].tok))
  /\ Done(w)
  /\ UNCHANGED <<account, device, rows, grants, lost>>

Logout(w) ==
  /\ At(w, "serve")
  /\ DropTokens(RowsOfToken(req[w].tok))
  /\ Done(w)
  /\ UNCHANGED <<account, device, rows, grants, lost>>

\* _is_active_owned_device, on the row read again, by identity, under its lock.
ActiveOwned(d, r, u) ==
  /\ device[d] # None
  /\ device[d].rid = r
  /\ device[d].active
  /\ device[d].key # None
  /\ device[d].owner = u
  /\ account[u] = "active"

\* save(update_fields=...) is an UPDATE and fails when the row is gone; a bare
\* save() would insert the row it no longer finds.
Extend_Upsert(w) ==
  token' = [token EXCEPT ![req[w].dev] =
              [pk |-> req[w].tok, secret |-> req[w].secret, live |-> TRUE]]
Extend(w) ==
  LET D == RowsOfToken(req[w].tok)
  IN  /\ D # {}
      /\ \A d \in D : ~Locked(d)
      /\ token' = [d \in Uuids |-> IF d \in D THEN [token[d] EXCEPT !.live = TRUE]
                                              ELSE token[d]]

\* The sliding expiry is extended after the device is checked under its lock.
Heartbeat(w) ==
  /\ At(w, "serve")
  /\ ActiveOwned(req[w].dev, req[w].rid, req[w].user)
  /\ Extend(w)
  /\ Done(w)
  /\ UNCHANGED <<account, device, rows, grants, lost>>

\* The identity a deployed device may take: the client id is free or already
\* its own, and so is the public key.
Deployable(d, r, k) ==
  /\ \A x \in Rows \ {d} : device[x].rid # r /\ device[x].key # k

\* A change of client id or of an enrolled key ends the device's session.
Rekeyed_IdOnly(d, r, k) == device[d].rid # r
Rekeyed(d, r, k) == device[d].rid # r \/ device[d].key \notin {None, k}

DeployAllowed(d, u) == device[d].owner \in {None, u} /\ device[d].active

\* The device enrols its public key, possibly under a new client id.
Deploy(w) ==
  LET d == req[w].dev
      u == req[w].user
  IN  /\ At(w, "serve")
      /\ d \in Rows
      /\ DeployAllowed(d, u)
      /\ device[d].owner = None => Referable(u)
      /\ \E r \in Rids, k \in Keys :
           /\ Deployable(d, r, k)
           /\ device' = [device EXCEPT ![d] = [@ EXCEPT !.rid = r, !.key = k, !.owner = u]]
           /\ IF Rekeyed(d, r, k) THEN DropTokens({d}) ELSE UNCHANGED token
      /\ Done(w)
      /\ UNCHANGED <<account, rows, grants, lost>>

\* The device row was deleted since the lookup: deploying creates it again.
Redeploy(w) ==
  LET d == req[w].dev
  IN  /\ At(w, "serve")
      /\ d \notin Rows
      /\ rows < MaxRows
      /\ Referable(req[w].user)
      /\ \E r \in Rids, k \in Keys :
           /\ Deployable(d, r, k)
           /\ device' = [device EXCEPT ![d] =
                [pk |-> rows, rid |-> r, owner |-> req[w].user, active |-> TRUE, key |-> k]]
      /\ rows' = rows + 1
      /\ Done(w)
      /\ UNCHANGED <<account, token, grants, lost>>

\* A handler that only reads, or returns early without changing a row.
Respond(w) ==
  /\ At(w, "serve") \/ At(w, "admin")
  /\ Done(w)
  /\ UNCHANGED <<account, device, token, rows, grants, lost>>

-----------------------------------------------------------------------------
(* Administration.  An administrator's console session is not one of Uuids. *)

\* _require_admin: the caller is an active administrator when it looks.
AdminAuth(w) ==
  /\ At(w, "idle")
  /\ \E c \in Admins :
       /\ account[c] = "active"
       /\ Goto(w, [Idle EXCEPT !.step = "admin", !.user = c])
  /\ UNCHANGED <<account, device, token, rows, grants, lost>>

\* An account another administrator may disable or delete.
Target(w, u) == u # req[w].user /\ account[u] # "deleted" /\ ~Held(u)

\* POST /api/users/<guid>/disable: two statements, committed one by one.
DisableUser(w) ==
  /\ At(w, "admin")
  /\ \E u \in Users :
       /\ Target(w, u)
       /\ account' = [account EXCEPT ![u] = "disabled"]
       /\ Goto(w, [Idle EXCEPT !.step = "revoke_user", !.user = u])
  /\ UNCHANGED <<device, token, rows, grants, lost>>

RevokeUser(w) ==
  /\ At(w, "revoke_user")
  /\ DropTokens(DevicesOf(req[w].user))
  /\ Done(w)
  /\ UNCHANGED <<account, device, rows, grants, lost>>

EnableUser(w) ==
  /\ At(w, "admin")
  /\ \E u \in Users :
       /\ account[u] # "deleted"
       /\ ~Held(u)
       /\ account' = [account EXCEPT ![u] = "active"]
  /\ Done(w)
  /\ UNCHANGED <<device, token, rows, grants, lost>>

\* POST /api/users/force-logout revokes every session of the listed accounts.
ForceLogout(w) ==
  /\ At(w, "admin")
  /\ \E U \in SUBSET Users : DropTokens(UNION {DevicesOf(u) : u \in U})
  /\ Done(w)
  /\ UNCHANGED <<account, device, rows, grants, lost>>

\* DELETE /api/users/<guid> is one transaction.  Its first half locks the
\* account row and deletes, uncommitted, the sessions its devices hold now.
DeleteUserBegin(w) ==
  /\ At(w, "admin")
  /\ \E u \in Users :
       /\ Target(w, u)
       /\ \A d \in DevicesOf(u) \cap Open : ~Locked(d)
       /\ Goto(w, [Idle EXCEPT !.step = "delete_user", !.user = u,
                     !.doomed = {token[d].pk : d \in DevicesOf(u) \cap Open}])
  /\ UNCHANGED <<account, device, token, rows, grants, lost>>

\* Its second half takes the devices the account owns by now: they lose their
\* owner and key and are disabled.  Then the account goes and all commits.
Surrendered_KeepKey(row) == [row EXCEPT !.owner = None, !.active = FALSE]
Surrendered(row) == [row EXCEPT !.owner = None, !.key = None, !.active = FALSE]

DeleteUserCommit(w) ==
  LET u == req[w].user
  IN  /\ At(w, "delete_user")
      /\ token' = [d \in Uuids |-> IF d \in Open /\ token[d].pk \in req[w].doomed
                                   THEN None ELSE token[d]]
      /\ device' = [d \in Uuids |-> IF d \in DevicesOf(u) THEN Surrendered(device[d])
                                                          ELSE device[d]]
      /\ account' = [account EXCEPT ![u] = "deleted"]
      /\ Done(w)
      /\ UNCHANGED <<rows, grants, lost>>

\* POST /api/devices/<guid>/assign, type user_name.  The owner change commits
\* on its own; the sessions are revoked by the next statement.
AssignDevice(w) ==
  /\ At(w, "admin")
  /\ \E d \in Rows, u \in Users :
       /\ account[u] = "active"
       /\ device[d].owner # u => Referable(u)
       /\ device' = [device EXCEPT ![d].owner = u]
       /\ IF device[d].owner # u
          THEN Goto(w, [Idle EXCEPT !.step = "revoke_device", !.pk = device[d].pk])
          ELSE Done(w)
  /\ UNCHANGED <<account, token, rows, grants, lost>>

\* POST /api/devices/<guid>/enable
EnableDevice(w) ==
  /\ At(w, "admin")
  /\ \E d \in Rows : device' = [device EXCEPT ![d].active = TRUE]
  /\ Done(w)
  /\ UNCHANGED <<account, token, rows, grants, lost>>

\* POST /api/devices/<guid>/disable, again two statements.
DisableDevice(w) ==
  /\ At(w, "admin")
  /\ \E d \in Rows :
       /\ device' = [device EXCEPT ![d].active = FALSE]
       /\ Goto(w, [Idle EXCEPT !.step = "revoke_device", !.pk = device[d].pk])
  /\ UNCHANGED <<account, token, rows, grants, lost>>

RowsOfDevice(p) == {d \in Rows : device[d].pk = p}

RevokeDevice(w) ==
  /\ At(w, "revoke_device")
  /\ DropTokens(RowsOfDevice(req[w].pk))
  /\ Done(w)
  /\ UNCHANGED <<account, device, rows, grants, lost>>

\* DELETE /api/devices/<guid>: the sessions are revoked, then the row goes and
\* takes with it a session issued in between.
DeleteDeviceRevoke(w) ==
  /\ At(w, "admin")
  /\ \E d \in Rows :
       /\ DropTokens({d})
       /\ Goto(w, [Idle EXCEPT !.step = "delete_device", !.pk = device[d].pk])
  /\ UNCHANGED <<account, device, rows, grants, lost>>

DeleteDevice(w) ==
  LET D == RowsOfDevice(req[w].pk)
  IN  /\ At(w, "delete_device")
      /\ DropTokens(D)
      /\ device' = [d \in Uuids |-> IF d \in D THEN None ELSE device[d]]
      /\ Done(w)
      /\ UNCHANGED <<account, rows, grants, lost>>

-----------------------------------------------------------------------------
(* The environment                                                         *)

\* EFFECTIVE_SECONDS pass without a heartbeat.
Expire(d) ==
  /\ d \in Open
  /\ token[d].live
  /\ token' = [token EXCEPT ![d].live = FALSE]
  /\ UNCHANGED <<account, device, req, rows, grants, lost>>

\* The purge_expired_state command, run by a timer.
Expired == {d \in Open : ~token[d].live}

Purge ==
  /\ Expired # {}
  /\ DropTokens(Expired)
  /\ UNCHANGED <<account, device, req, rows, grants, lost>>

\* The sessions a request is about to revoke.
ToRevoke(w) ==
  LET D == CASE At(w, "revoke_user")   -> DevicesOf(req[w].user)
             [] At(w, "revoke_device") -> RowsOfDevice(req[w].pk)
             [] OTHER                  -> {}
  IN  {token[d].secret : d \in D \cap Open}

\* The worker is killed, the statement fails or a deadlock is broken at its
\* expense: what is not committed is rolled back, the rest of the request never
\* happens.
Crash(w) ==
  /\ ~At(w, "idle")
  /\ lost' = lost \cup ToRevoke(w)
  /\ Done(w)
  /\ UNCHANGED <<account, device, token, rows, grants>>

-----------------------------------------------------------------------------
\* A request under way takes its next step.
Proceed(w) ==
  \/ ClaimNew(w) \/ ClaimExisting(w) \/ ClaimRefused(w)
  \/ Issue(w) \/ IssueRefused(w)
  \/ Reap(w) \/ Logout(w) \/ Heartbeat(w) \/ Deploy(w) \/ Redeploy(w) \/ Respond(w)
  \/ DisableUser(w) \/ RevokeUser(w) \/ EnableUser(w) \/ ForceLogout(w)
  \/ DeleteUserBegin(w) \/ DeleteUserCommit(w)
  \/ AssignDevice(w) \/ EnableDevice(w) \/ DisableDevice(w) \/ RevokeDevice(w)
  \/ DeleteDeviceRevoke(w) \/ DeleteDevice(w)

Arrive(w) == Authenticate(w) \/ Lookup(w) \/ AdminAuth(w)

Next == \/ \E w \in Workers : Arrive(w) \/ Proceed(w) \/ Crash(w)
        \/ \E d \in Uuids : Expire(d)
        \/ Purge

Spec == Init /\ [][Next]_vars

-----------------------------------------------------------------------------
(* Properties                                                              *)

GranteeOf(d) == grants[token[d].secret].user

\* A revocation of device d's sessions that a request still has to execute.
RevocationPending(d) ==
  \E w \in Workers : At(w, "revoke_device") /\ req[w].pk = device[d].pk

\* The only ways a session escapes the change that should have ended it: the
\* revocation is still to come, its worker died, or the session was issued to
\* an account while that account was being deleted.
Excused(d) == \/ RevocationPending(d)
              \/ token[d].secret \in lost
              \/ account[GranteeOf(d)] = "deleted"

\* A session carries no user: it speaks for the owner of its device.  Apart
\* from the windows named by Excused, that is the account it was issued to,
\* through claims, assignments, deletions and re-creations of the device.
OwnerAgreement ==
  \A d \in Open : OwnerOf(d) = GranteeOf(d) \/ Excused(d)

\* Outside the same windows no disabled device holds a session, although the
\* device is disabled and its session revoked by separate statements while
\* logins that found it enabled are under way.
ActiveAgreement ==
  \A d \in Open : device[d].active \/ Excused(d)

\* A session lives on the client id and enrolled key it was issued to: a
\* deployment that changes either ends it, whoever else is logging in.  Only an
\* excused session can see its key go, with the account that owns its device.
IdentityAgreement ==
  \A d \in Open :
    LET g == grants[token[d].secret]
    IN  /\ device[d].rid = g.rid
        /\ device[d].key # g.key => g.key = None \/ Excused(d)

\* An enrolled key is always answered for by an account: the devices a deleted
\* account leaves behind lose their key, even those enrolled meanwhile.
KeysAreOwned == \A d \in Rows : device[d].key # None => device[d].owner # None

\* Device sessions implement the abstract table: at most one open session per
\* device, each opened under a fresh secret, and none ever opens again.
Spent == Secret \ {token[d].secret : d \in Open}
Table == INSTANCE SessionTable WITH
           Devices <- Uuids, Secrets <- 1..MaxIssues,
           open <- [d \in Uuids |-> IF d \in Open THEN token[d].secret ELSE None],
           spent <- Spent
ImplementsTable == Table!Spec
=============================================================================

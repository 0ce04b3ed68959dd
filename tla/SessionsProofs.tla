--------------------------- MODULE SessionsProofs ---------------------------
(***************************************************************************)
(* Theorems about Sessions, for every set of accounts, devices, client     *)
(* ids, keys and workers and every bound: its types; that no key is left   *)
(* without an owner; that a session agrees with its device, whose owner is *)
(* the account it was issued to, which is enabled, and whose identity is   *)
(* the one it was issued for, but for the windows that Excused names; and  *)
(* that it implements SessionTable: sessions are opened once, under fresh  *)
(* secrets, one per device, and stay closed once closed.                   *)
(***************************************************************************)
EXTENDS Sessions, SequenceTheorems, TLAPS

\* A login has its account, then its device; an account deletion its account.
RequestsOK ==
  \A w \in Workers :
    /\ req[w].step \in {"claim", "issue", "delete_user"} => req[w].user \in Users
    /\ req[w].step = "issue" => req[w].dev \in Uuids

TypeInv == TypeOK /\ RequestsOK

USE DEF MaybeIn

LEMMA InitType == Init => TypeInv
BY EmptySeq DEF Init, TypeInv, TypeOK, RequestsOK, Request, Steps, Idle, Rows, Open

\* What every action does to requests: worker w's changes, to a request.
LEMMA DoneType ==
  ASSUME TypeInv, NEW w \in Workers, Done(w)
  PROVE  req' \in [Workers -> Request] /\ RequestsOK'
BY DEF Done, Goto, Idle, TypeInv, TypeOK, RequestsOK, Request, Steps

LEMMA GotoType ==
  ASSUME TypeInv, NEW w \in Workers, NEW r \in Request, Goto(w, r),
         r.step \in {"claim", "issue", "delete_user"} => r.user \in Users,
         r.step = "issue" => r.dev \in Uuids
  PROVE  req' \in [Workers -> Request] /\ RequestsOK'
BY DEF Goto, TypeInv, TypeOK, RequestsOK

\* Deleting sessions leaves a table of sessions of existing devices.
LEMMA DropType ==
  ASSUME TypeInv, NEW D, DropTokens(D)
  PROVE  /\ token' \in [Uuids -> MaybeIn(TokenRow)]
         /\ \A d \in Uuids : token'[d] = IF d \in D THEN None ELSE token[d]
BY DEF DropTokens, TypeInv, TypeOK

LEMMA NextType == TypeInv /\ [Next]_vars => TypeInv'
<1> SUFFICES ASSUME TypeInv, [Next]_vars PROVE TypeInv'
  OBVIOUS
<1> USE NoneAssumption, NoRowAssumption
<1>1. CASE UNCHANGED vars
  BY <1>1 DEF vars, TypeInv, TypeOK, RequestsOK, Rows, Open
<1>2. ASSUME NEW w \in Workers, Authenticate(w) PROVE TypeInv'
  <2>1. PICK u \in Users : Goto(w, [Idle EXCEPT !.step = "claim", !.user = u])
    BY <1>2 DEF Authenticate
  <2>2. [Idle EXCEPT !.step = "claim", !.user = u] \in Request
    BY DEF Idle, Request, Steps
  <2>3. req' \in [Workers -> Request] /\ RequestsOK'
    BY <2>1, <2>2, GotoType DEF Idle
  <2> QED
    BY <1>2, <2>3 DEF Authenticate, TypeInv, TypeOK, Rows, Open
<1>3. ASSUME NEW w \in Workers, ClaimNew(w) PROVE TypeInv'
  <2>1. PICK d \in Uuids, r \in Rids :
          /\ NewIdentity(r, d)
          /\ device' = [device EXCEPT ![d] =
               [pk |-> rows, rid |-> r, owner |-> req[w].user, active |-> TRUE, key |-> None]]
          /\ Goto(w, [req[w] EXCEPT !.step = "issue", !.dev = d, !.pk = rows])
    BY <1>3 DEF ClaimNew
  <2>2. req[w].user \in Users /\ req[w] \in Request
    BY <1>3 DEF ClaimNew, At, TypeInv, TypeOK, RequestsOK
  <2>3. [req[w] EXCEPT !.step = "issue", !.dev = d, !.pk = rows] \in Request
    BY <2>2 DEF Request, Steps, TypeInv, TypeOK
  <2>4. req' \in [Workers -> Request] /\ RequestsOK'
    BY <2>1, <2>2, <2>3, GotoType DEF Request
  <2>5. device' \in [Uuids -> MaybeIn(DeviceRow)]
    BY <2>1, <2>2 DEF DeviceRow, TypeInv, TypeOK
  <2>6. \A e \in Rows' : device'[e].owner # None => account'[device'[e].owner] # "deleted"
    BY <1>3, <2>1 DEF ClaimNew, Referable, Rows, TypeInv, TypeOK
  <2>7. Open' \subseteq Rows'
    <3>1. [pk |-> rows, rid |-> r, owner |-> req[w].user, active |-> TRUE, key |-> None]
            \in DeviceRow
      BY <2>2 DEF DeviceRow, TypeInv, TypeOK
    <3>2. Rows \subseteq Rows'
      BY <2>1, <3>1 DEF Rows, TypeInv, TypeOK
    <3> QED
      BY <1>3, <3>2 DEF ClaimNew, Open, TypeInv, TypeOK
  <2> QED
    BY <1>3, <2>4, <2>5, <2>6, <2>7 DEF ClaimNew, TypeInv, TypeOK
<1>4. ASSUME NEW w \in Workers, ClaimExisting(w) PROVE TypeInv'
  <2>1. PICK d \in Rows, r \in Rids :
          /\ Available(d, req[w].user)
          /\ device[d].owner = None => Referable(req[w].user)
          /\ device' = [device EXCEPT ![d].owner = req[w].user]
          /\ Goto(w, [req[w] EXCEPT !.step = "issue", !.dev = d, !.pk = device[d].pk])
    BY <1>4 DEF ClaimExisting
  <2>2. req[w].user \in Users /\ req[w] \in Request /\ d \in Uuids /\ device[d] \in DeviceRow
    BY <1>4 DEF ClaimExisting, At, TypeInv, TypeOK, RequestsOK, Rows
  <2>3. [req[w] EXCEPT !.step = "issue", !.dev = d, !.pk = device[d].pk] \in Request
    BY <2>2 DEF Request, Steps, DeviceRow
  <2>4. req' \in [Workers -> Request] /\ RequestsOK'
    BY <2>1, <2>2, <2>3, GotoType DEF Request
  <2>5. device' \in [Uuids -> MaybeIn(DeviceRow)] /\ Rows' = Rows
    BY <2>1, <2>2 DEF DeviceRow, TypeInv, TypeOK, Rows
  <2>6. \A e \in Rows' : device'[e].owner # None => account'[device'[e].owner] # "deleted"
    BY <1>4, <2>1, <2>2, <2>5 DEF ClaimExisting, Available, Referable, Rows, TypeInv, TypeOK
  <2> QED
    BY <1>4, <2>4, <2>5, <2>6 DEF ClaimExisting, TypeInv, TypeOK, Open
<1>5. ASSUME NEW w \in Workers, ClaimRefused(w) \/ IssueRefused(w) \/ Respond(w) PROVE TypeInv'
  BY <1>5, DoneType DEF ClaimRefused, IssueRefused, Respond, TypeInv, TypeOK, Rows, Open
<1>6. ASSUME NEW w \in Workers, Issue(w) PROVE TypeInv'
  <2> DEFINE d == req[w].dev
             s == Len(grants) + 1
  <2>1. d \in Uuids /\ req[w].user \in Users /\ device[d] \in DeviceRow /\ s \in Nat
    BY <1>6, LenProperties DEF Issue, At, MayIssue, TypeInv, TypeOK, RequestsOK
  <2>2. [pk |-> IF d \in Open THEN token[d].pk ELSE s, secret |-> s, live |-> TRUE] \in TokenRow
    BY <2>1 DEF TokenRow, Open, TypeInv, TypeOK
  <2>3. token' \in [Uuids -> MaybeIn(TokenRow)] /\ Open' \subseteq Rows'
    BY <1>6, <2>1, <2>2 DEF Issue, MayIssue, Open, Rows, TypeInv, TypeOK
  <2>4. [user |-> req[w].user, rid |-> device[d].rid, key |-> device[d].key]
          \in [user: Users, rid: Rids, key: MaybeIn(Keys)]
    BY <2>1 DEF DeviceRow
  <2>5. grants' \in Seq([user: Users, rid: Rids, key: MaybeIn(Keys)])
    BY <1>6, <2>4, AppendProperties DEF Issue, TypeInv, TypeOK
  <2>6. Done(w)
    BY <1>6 DEF Issue
  <2> QED
    BY <1>6, <2>3, <2>5, <2>6, DoneType DEF Issue, TypeInv, TypeOK, Rows
<1>7. ASSUME NEW w \in Workers, Lookup(w) PROVE TypeInv'
  <2>1. PICK d \in Open, r \in Request :
          /\ Goto(w, r)
          /\ r.step \in {"serve", "reap"}
    <3>1. PICK d \in Open :
            Goto(w, [step   |-> IF Serves(d) THEN "serve" ELSE "reap",
                     user   |-> IF Serves(d) THEN device[d].owner ELSE None,
                     dev    |-> d, rid |-> device[d].rid, pk |-> None,
                     tok    |-> token[d].pk, secret |-> token[d].secret, doomed |-> {}])
      BY <1>7 DEF Lookup
    <3>2. d \in Uuids /\ device[d] \in DeviceRow /\ token[d] \in TokenRow
      BY DEF Open, Rows, TypeInv, TypeOK
    <3> QED
      BY <3>1, <3>2 DEF Request, Steps, DeviceRow, TokenRow
  <2>2. req' \in [Workers -> Request] /\ RequestsOK'
    BY <2>1, GotoType
  <2> QED
    BY <1>7, <2>2 DEF Lookup, TypeInv, TypeOK, Rows, Open
<1>8. ASSUME NEW w \in Workers, NEW D, DropTokens(D), Done(w),
             UNCHANGED <<account, device, rows, grants, lost>>
      PROVE  TypeInv'
  BY <1>8, DropType, DoneType DEF TypeInv, TypeOK, Rows, Open
<1>9. ASSUME NEW w \in Workers, Reap(w) \/ Logout(w) PROVE TypeInv'
  BY <1>8, <1>9 DEF Reap, Logout
<1>10. ASSUME NEW w \in Workers, RevokeUser(w) \/ ForceLogout(w) \/ RevokeDevice(w)
       PROVE  TypeInv'
  BY <1>8, <1>10 DEF RevokeUser, ForceLogout, RevokeDevice
<1>11. ASSUME NEW w \in Workers, Heartbeat(w) PROVE TypeInv'
  <2>1. token' \in [Uuids -> MaybeIn(TokenRow)] /\ Open' \subseteq Rows'
    BY <1>11 DEF Heartbeat, Extend, RowsOfToken, Open, Rows, TypeInv, TypeOK, TokenRow
  <2> QED
    BY <1>11, <2>1, DoneType DEF Heartbeat, TypeInv, TypeOK, Rows
<1>12. ASSUME NEW w \in Workers, Deploy(w) PROVE TypeInv'
  <2> DEFINE d == req[w].dev
             u == req[w].user
  <2>1. PICK r \in Rids, k \in Keys :
          /\ device' = [device EXCEPT ![d] = [@ EXCEPT !.rid = r, !.key = k, !.owner = u]]
          /\ IF Rekeyed(d, r, k) THEN DropTokens({d}) ELSE UNCHANGED token
    BY <1>12 DEF Deploy
  <2>2. d \in Rows /\ u \in MaybeIn(Users) /\ device[d] \in DeviceRow
    BY <1>12 DEF Deploy, Rows, Request, TypeInv, TypeOK
  <2>0. [device[d] EXCEPT !.rid = r, !.key = k, !.owner = u] \in DeviceRow
    BY <2>2 DEF DeviceRow
  <2>3. device' \in [Uuids -> MaybeIn(DeviceRow)] /\ Rows' = Rows
    BY <2>1, <2>2, <2>0 DEF Rows, TypeInv, TypeOK
  <2>4. device[d].owner \in {None, u} /\ (device[d].owner = None => Referable(u))
    BY <1>12 DEF Deploy, DeployAllowed
  <2>5. \A e \in Rows' : device'[e].owner # None => account'[device'[e].owner] # "deleted"
    BY <1>12, <2>1, <2>2, <2>3, <2>4 DEF Deploy, Referable, Rows, DeviceRow, TypeInv, TypeOK
  <2>6. token' \in [Uuids -> MaybeIn(TokenRow)] /\ Open' \subseteq Open
    <3>1. CASE Rekeyed(d, r, k)
      BY <2>1, <3>1, DropType DEF Open
    <3>2. CASE ~Rekeyed(d, r, k)
      BY <2>1, <3>2 DEF Open, TypeInv, TypeOK
    <3> QED
      BY <3>1, <3>2
  <2> QED
    BY <1>12, <2>3, <2>5, <2>6, DoneType DEF Deploy, TypeInv, TypeOK
<1>13. ASSUME NEW w \in Workers, Redeploy(w) PROVE TypeInv'
  <2> DEFINE d == req[w].dev
  <2>1. PICK r \in Rids, k \in Keys :
          device' = [device EXCEPT ![d] =
            [pk |-> rows, rid |-> r, owner |-> req[w].user, active |-> TRUE, key |-> k]]
    BY <1>13 DEF Redeploy
  <2>2. req[w].user \in MaybeIn(Users)
    BY DEF Request, TypeInv, TypeOK
  <2>3. device' \in [Uuids -> MaybeIn(DeviceRow)]
    BY <2>1, <2>2 DEF DeviceRow, TypeInv, TypeOK
  <2>4. \A e \in Rows' : device'[e].owner # None => account'[device'[e].owner] # "deleted"
    BY <1>13, <2>1 DEF Redeploy, Referable, Rows, TypeInv, TypeOK
  <2>5. Open' \subseteq Rows'
    BY <1>13, <2>1 DEF Redeploy, Rows, Open, TypeInv, TypeOK
  <2> QED
    BY <1>13, <2>3, <2>4, <2>5, DoneType DEF Redeploy, TypeInv, TypeOK
<1>14. ASSUME NEW w \in Workers, AdminAuth(w) PROVE TypeInv'
  <2>1. PICK c \in Admins : Goto(w, [Idle EXCEPT !.step = "admin", !.user = c])
    BY <1>14 DEF AdminAuth
  <2>2. [Idle EXCEPT !.step = "admin", !.user = c] \in Request
    BY AdminsAssumption DEF Idle, Request, Steps
  <2>3. req' \in [Workers -> Request] /\ RequestsOK'
    BY <2>1, <2>2, GotoType DEF Idle
  <2> QED
    BY <1>14, <2>3 DEF AdminAuth, TypeInv, TypeOK, Rows, Open
<1>15. ASSUME NEW w \in Workers, DisableUser(w) PROVE TypeInv'
  <2>1. PICK u \in Users :
          /\ account' = [account EXCEPT ![u] = "disabled"]
          /\ Goto(w, [Idle EXCEPT !.step = "revoke_user", !.user = u])
    BY <1>15 DEF DisableUser
  <2>2. [Idle EXCEPT !.step = "revoke_user", !.user = u] \in Request
    BY DEF Idle, Request, Steps
  <2>3. req' \in [Workers -> Request] /\ RequestsOK'
    BY <2>1, <2>2, GotoType DEF Idle
  <2> QED
    BY <1>15, <2>1, <2>3 DEF DisableUser, TypeInv, TypeOK, Rows, Open
<1>16. ASSUME NEW w \in Workers, EnableUser(w) PROVE TypeInv'
  <2>1. account' \in [Users -> {"active", "disabled", "deleted"}]
    BY <1>16 DEF EnableUser, TypeInv, TypeOK
  <2>2. \A e \in Rows' : device'[e].owner # None => account'[device'[e].owner] # "deleted"
    BY <1>16 DEF EnableUser, TypeInv, TypeOK, Rows
  <2> QED
    BY <1>16, <2>1, <2>2, DoneType DEF EnableUser, TypeInv, TypeOK, Rows, Open
<1>17. ASSUME NEW w \in Workers, DeleteUserBegin(w) PROVE TypeInv'
  <2>1. PICK u \in Users :
          Goto(w, [Idle EXCEPT !.step = "delete_user", !.user = u,
                     !.doomed = {token[d].pk : d \in DevicesOf(u) \cap Open}])
    BY <1>17 DEF DeleteUserBegin
  <2>2. {token[d].pk : d \in DevicesOf(u) \cap Open} \in SUBSET Nat
    BY DEF Open, TypeInv, TypeOK, TokenRow
  <2>3. [Idle EXCEPT !.step = "delete_user", !.user = u,
           !.doomed = {token[d].pk : d \in DevicesOf(u) \cap Open}] \in Request
    BY <2>2 DEF Idle, Request, Steps
  <2>4. req' \in [Workers -> Request] /\ RequestsOK'
    BY <2>1, <2>3, GotoType DEF Idle
  <2> QED
    BY <1>17, <2>4 DEF DeleteUserBegin, TypeInv, TypeOK, Rows, Open
<1>18. ASSUME NEW w \in Workers, DeleteUserCommit(w) PROVE TypeInv'
  <2> DEFINE u == req[w].user
  <2>1. token' \in [Uuids -> MaybeIn(TokenRow)] /\ Open' \subseteq Open
    BY <1>18 DEF DeleteUserCommit, Open, TypeInv, TypeOK
  <2>0. \A row \in DeviceRow : Surrendered(row) \in DeviceRow
    BY DEF Surrendered, DeviceRow
  <2>2. device' \in [Uuids -> MaybeIn(DeviceRow)] /\ Rows' = Rows
    BY <1>18, <2>0 DEF DeleteUserCommit, DevicesOf, Rows, TypeInv, TypeOK
  <2>3. account' \in [Users -> {"active", "disabled", "deleted"}]
    BY <1>18 DEF DeleteUserCommit, TypeInv, TypeOK
  <2>4. ASSUME NEW e \in Rows', device'[e].owner # None
        PROVE  account'[device'[e].owner] # "deleted"
    <3>1. e \in Rows /\ device[e] \in DeviceRow
      BY <2>2 DEF Rows, TypeInv, TypeOK
    <3>2. CASE device[e].owner = u
      <4>1. device'[e] = Surrendered(device[e])
        BY <1>18, <3>1, <3>2 DEF DeleteUserCommit, DevicesOf, Rows
      <4> QED
        BY <2>4, <3>1, <4>1 DEF Surrendered, DeviceRow
    <3>3. CASE device[e].owner # u
      <4>1. device'[e] = device[e]
        BY <1>18, <3>1, <3>3 DEF DeleteUserCommit, DevicesOf, Rows
      <4>2. device[e].owner \in Users /\ account[device[e].owner] # "deleted"
        BY <2>4, <3>1, <4>1 DEF DeviceRow, TypeInv, TypeOK
      <4> QED
        BY <1>18, <3>3, <4>1, <4>2 DEF DeleteUserCommit, TypeInv, TypeOK
    <3> QED
      BY <3>2, <3>3
  <2> QED
    BY <1>18, <2>1, <2>2, <2>3, <2>4, DoneType DEF DeleteUserCommit, TypeInv, TypeOK
<1>19. ASSUME NEW w \in Workers, NEW e \in Rows, NEW p \in Nat,
              Goto(w, [Idle EXCEPT !.step = "revoke_device", !.pk = p]) \/ Done(w)
       PROVE  req' \in [Workers -> Request] /\ RequestsOK'
  <2>1. [Idle EXCEPT !.step = "revoke_device", !.pk = p] \in Request
    BY DEF Idle, Request, Steps
  <2> QED
    BY <1>19, <2>1, GotoType, DoneType DEF Idle
<1>20. ASSUME NEW w \in Workers, AssignDevice(w) PROVE TypeInv'
  <2>1. PICK d \in Rows, u \in Users :
          /\ account[u] = "active"
          /\ device' = [device EXCEPT ![d].owner = u]
          /\ IF device[d].owner # u
             THEN Goto(w, [Idle EXCEPT !.step = "revoke_device", !.pk = device[d].pk])
             ELSE Done(w)
    BY <1>20 DEF AssignDevice
  <2>2. device[d] \in DeviceRow /\ device[d].pk \in Nat
    BY DEF Rows, DeviceRow, TypeInv, TypeOK
  <2>3. device' \in [Uuids -> MaybeIn(DeviceRow)] /\ Rows' = Rows
    BY <2>1, <2>2 DEF DeviceRow, Rows, TypeInv, TypeOK
  <2>4. \A e \in Rows' : device'[e].owner # None => account'[device'[e].owner] # "deleted"
    BY <1>20, <2>1, <2>2, <2>3 DEF AssignDevice, Rows, DeviceRow, TypeInv, TypeOK
  <2>5. req' \in [Workers -> Request] /\ RequestsOK'
    BY <1>19, <2>1, <2>2
  <2> QED
    BY <1>20, <2>3, <2>4, <2>5 DEF AssignDevice, TypeInv, TypeOK, Open
<1>21. ASSUME NEW w \in Workers, EnableDevice(w) \/ DisableDevice(w) PROVE TypeInv'
  <2>1. PICK d \in Rows, b \in BOOLEAN : device' = [device EXCEPT ![d].active = b]
    BY <1>21 DEF EnableDevice, DisableDevice
  <2>2. device[d] \in DeviceRow
    BY DEF Rows, TypeInv, TypeOK
  <2>3. device' \in [Uuids -> MaybeIn(DeviceRow)] /\ Rows' = Rows
    BY <2>1, <2>2 DEF DeviceRow, Rows, TypeInv, TypeOK
  <2>4. \A e \in Rows : device'[e].owner = device[e].owner
    BY <2>1, <2>2 DEF DeviceRow, Rows, TypeInv, TypeOK
  <2>5. req' \in [Workers -> Request] /\ RequestsOK'
    BY <1>19, <1>21 DEF EnableDevice, DisableDevice, Rows, DeviceRow, TypeInv, TypeOK
  <2> QED
    BY <1>21, <2>3, <2>4, <2>5 DEF EnableDevice, DisableDevice, TypeInv, TypeOK, Open
<1>22. ASSUME NEW w \in Workers, DeleteDeviceRevoke(w) PROVE TypeInv'
  <2>1. PICK d \in Rows :
          /\ DropTokens({d})
          /\ Goto(w, [Idle EXCEPT !.step = "delete_device", !.pk = device[d].pk])
    BY <1>22 DEF DeleteDeviceRevoke
  <2>2. [Idle EXCEPT !.step = "delete_device", !.pk = device[d].pk] \in Request
    BY DEF Idle, Request, Steps, Rows, DeviceRow, TypeInv, TypeOK
  <2>3. req' \in [Workers -> Request] /\ RequestsOK'
    BY <2>1, <2>2, GotoType DEF Idle
  <2> QED
    BY <1>22, <2>1, <2>3, DropType DEF DeleteDeviceRevoke, TypeInv, TypeOK, Rows, Open
<1>23. ASSUME NEW w \in Workers, DeleteDevice(w) PROVE TypeInv'
  <2> DEFINE D == RowsOfDevice(req[w].pk)
  <2>1. DropTokens(D) /\ device' = [d \in Uuids |-> IF d \in D THEN None ELSE device[d]]
    BY <1>23 DEF DeleteDevice
  <2>2. device' \in [Uuids -> MaybeIn(DeviceRow)] /\ Rows' = Rows \ D
    BY <2>1 DEF Rows, TypeInv, TypeOK
  <2>3. token' \in [Uuids -> MaybeIn(TokenRow)] /\ Open' = Open \ D
    BY <2>1, DropType DEF Open
  <2>4. \A e \in Rows' : device'[e] = device[e]
    BY <2>1, <2>2 DEF Rows
  <2> QED
    BY <1>23, <2>2, <2>3, <2>4, DoneType DEF DeleteDevice, TypeInv, TypeOK, Rows
<1>24. ASSUME NEW d \in Uuids, Expire(d) PROVE TypeInv'
  <2>0. [token[d] EXCEPT !.live = FALSE] \in TokenRow
    BY <1>24 DEF Expire, Open, TokenRow, TypeInv, TypeOK
  <2>1. token' \in [Uuids -> MaybeIn(TokenRow)] /\ Open' = Open
    BY <1>24, <2>0 DEF Expire, Open, TypeInv, TypeOK
  <2> QED
    BY <1>24, <2>1 DEF Expire, TypeInv, TypeOK, RequestsOK, Rows
<1>25. CASE Purge
  BY <1>25, DropType DEF Purge, TypeInv, TypeOK, RequestsOK, Rows, Open
<1>26. ASSUME NEW w \in Workers, Crash(w) PROVE TypeInv'
  <2>1. ToRevoke(w) \subseteq Nat
    BY DEF ToRevoke, Open, TokenRow, TypeInv, TypeOK
  <2> QED
    BY <1>26, <2>1, DoneType DEF Crash, TypeInv, TypeOK, Rows, Open
<1> QED
  BY <1>1, <1>2, <1>3, <1>4, <1>5, <1>6, <1>7, <1>9, <1>10, <1>11, <1>12, <1>13, <1>14,
     <1>15, <1>16, <1>17, <1>18, <1>20, <1>21, <1>22, <1>23, <1>24, <1>25, <1>26
     DEF Next, Arrive, Proceed

\* Every reachable state is well typed: owners exist, sessions belong to
\* devices that exist, and an in-flight login knows its account.
THEOREM TypeCorrect == Spec => []TypeOK
<1>1. TypeInv => TypeOK
  BY DEF TypeInv
<1> QED
  BY <1>1, InitType, NextType, PTL DEF Spec

-----------------------------------------------------------------------------
\* A request that presents a session works for the account it found.
ServersKnown == \A w \in Workers : At(w, "serve") => req[w].user \in Users

KeysInv == KeysAreOwned /\ ServersKnown

\* A request that leaves this state, or does not enter "serve", keeps the rest.
LEMMA LeaveServe ==
  ASSUME TypeInv, ServersKnown, NEW w \in Workers, NEW r, Goto(w, r),
         r.step = "serve" => r.user \in Users
  PROVE  ServersKnown'
BY DEF ServersKnown, Goto, At, TypeInv, TypeOK

LEMMA LookupKnown ==
  ASSUME TypeInv, ServersKnown, NEW w \in Workers, Lookup(w)
  PROVE  ServersKnown'
<1> USE NoneAssumption, NoRowAssumption
<1>1. PICK d \in Open :
        Goto(w, [step   |-> IF Serves(d) THEN "serve" ELSE "reap",
                 user   |-> IF Serves(d) THEN device[d].owner ELSE None,
                 dev    |-> d, rid |-> device[d].rid, pk |-> None,
                 tok    |-> token[d].pk, secret |-> token[d].secret, doomed |-> {}])
  BY DEF Lookup
<1>2. Serves(d) => device[d].owner \in Users
  BY DEF Serves, OwnerOf, Open, Rows, DeviceRow, TypeInv, TypeOK
<1> QED
  BY <1>1, <1>2, LeaveServe

LEMMA NextServers ==
  ASSUME TypeInv, ServersKnown, [Next]_vars
  PROVE  ServersKnown'
<1>1. ASSUME NEW w \in Workers, Arrive(w) \/ Proceed(w) \/ Crash(w)
      PROVE  ServersKnown'
  <2>1. CASE Lookup(w)
    BY <2>1, LookupKnown
  <2>2. CASE Done(w)
    BY <2>2, LeaveServe DEF Done, Idle
  <2>3. ASSUME NEW u, NEW s \in Steps \ {"serve"},
               Goto(w, [Idle EXCEPT !.step = s, !.user = u])
        PROVE  ServersKnown'
    BY <2>3, LeaveServe DEF Idle
  <2>4. CASE Authenticate(w) \/ AdminAuth(w) \/ DisableUser(w)
    BY <2>3, <2>4 DEF Authenticate, AdminAuth, DisableUser, Steps
  <2>5. ASSUME NEW p, NEW s \in Steps \ {"serve"},
               Goto(w, [Idle EXCEPT !.step = s, !.pk = p])
        PROVE  ServersKnown'
    BY <2>5, LeaveServe DEF Idle
  <2>6. CASE AssignDevice(w) \/ DisableDevice(w) \/ DeleteDeviceRevoke(w)
    BY <2>2, <2>5, <2>6 DEF AssignDevice, DisableDevice, DeleteDeviceRevoke, Steps
  <2>7. CASE ClaimNew(w) \/ ClaimExisting(w)
    <3>1. PICK d, p : Goto(w, [req[w] EXCEPT !.step = "issue", !.dev = d, !.pk = p])
      BY <2>7 DEF ClaimNew, ClaimExisting
    <3>2. [req[w] EXCEPT !.step = "issue", !.dev = d, !.pk = p].step = "issue"
      BY DEF TypeInv, TypeOK, Request
    <3> QED
      BY <3>1, <3>2, LeaveServe
  <2>8. CASE DeleteUserBegin(w)
    <3>1. PICK u, D : Goto(w, [Idle EXCEPT !.step = "delete_user", !.user = u, !.doomed = D])
      BY <2>8 DEF DeleteUserBegin
    <3> QED
      BY <3>1, LeaveServe DEF Idle
  <2>9. CASE \/ ClaimRefused(w) \/ Issue(w) \/ IssueRefused(w) \/ Reap(w) \/ Logout(w)
             \/ Heartbeat(w) \/ Deploy(w) \/ Redeploy(w) \/ Respond(w) \/ RevokeUser(w)
             \/ EnableUser(w) \/ ForceLogout(w) \/ DeleteUserCommit(w) \/ EnableDevice(w)
             \/ RevokeDevice(w) \/ DeleteDevice(w) \/ Crash(w)
    BY <2>2, <2>9 DEF ClaimRefused, Issue, IssueRefused, Reap, Logout, Heartbeat, Deploy,
       Redeploy, Respond, RevokeUser, EnableUser, ForceLogout, DeleteUserCommit,
       EnableDevice, RevokeDevice, DeleteDevice, Crash
  <2> QED
    BY <1>1, <2>1, <2>4, <2>6, <2>7, <2>8, <2>9 DEF Arrive, Proceed
<1>2. CASE Purge \/ UNCHANGED vars \/ \E d \in Uuids : Expire(d)
  BY <1>2 DEF Purge, Expire, vars, ServersKnown, At
<1> QED
  BY <1>1, <1>2 DEF Next

\* What a step may do to a device: it gets an owner, keeps its owner and key,
\* or loses its key.
LEMMA NextKeys ==
  ASSUME TypeInv, KeysInv, [Next]_vars
  PROVE  KeysAreOwned'
<1> USE NoneAssumption, NoRowAssumption
<1>0. ASSUME NEW d \in Uuids, NEW row \in DeviceRow, row.key = None \/ row.owner # None,
             device' = [device EXCEPT ![d] = row]
      PROVE  KeysAreOwned'
  BY <1>0 DEF KeysInv, KeysAreOwned, Rows, TypeInv, TypeOK
<1>1. ASSUME NEW w \in Workers, Arrive(w) \/ Proceed(w) \/ Crash(w)
      PROVE  KeysAreOwned'
  <2>1. CASE UNCHANGED device
    BY <2>1 DEF KeysInv, KeysAreOwned, Rows
  <2>2. CASE ClaimNew(w)
    <3>1. PICK d \in Uuids, r \in Rids :
            device' = [device EXCEPT ![d] =
              [pk |-> rows, rid |-> r, owner |-> req[w].user, active |-> TRUE, key |-> None]]
      BY <2>2 DEF ClaimNew
    <3> QED
      BY <2>2, <3>1 DEF KeysInv, KeysAreOwned, Rows, TypeInv, TypeOK
  <2>3. CASE ClaimExisting(w)
    <3>1. PICK d \in Rows : device' = [device EXCEPT ![d].owner = req[w].user]
      BY <2>3 DEF ClaimExisting
    <3>2. req[w].user \in Users
      BY <2>3 DEF ClaimExisting, At, TypeInv, RequestsOK
    <3>3. device[d] \in DeviceRow
      BY DEF Rows, TypeInv, TypeOK
    <3>4. [device[d] EXCEPT !.owner = req[w].user] \in DeviceRow
      BY <3>2, <3>3 DEF DeviceRow
    <3>5. [device[d] EXCEPT !.owner = req[w].user].owner # None
      BY <3>2, <3>3 DEF DeviceRow
    <3> QED
      BY <1>0, <3>1, <3>4, <3>5 DEF Rows
  <2>4. CASE Deploy(w)
    <3> DEFINE d == req[w].dev
               u == req[w].user
    <3>1. PICK r \in Rids, k \in Keys :
            device' = [device EXCEPT ![d] = [@ EXCEPT !.rid = r, !.key = k, !.owner = u]]
      BY <2>4 DEF Deploy
    <3>2. u \in Users /\ d \in Rows
      BY <2>4 DEF Deploy, KeysInv, ServersKnown
    <3>3. device[d] \in DeviceRow
      BY <3>2 DEF Rows, TypeInv, TypeOK
    <3>4. [device[d] EXCEPT !.rid = r, !.key = k, !.owner = u] \in DeviceRow
      BY <3>2, <3>3 DEF DeviceRow
    <3>5. [device[d] EXCEPT !.rid = r, !.key = k, !.owner = u].owner # None
      BY <3>2, <3>3 DEF DeviceRow
    <3> QED
      BY <1>0, <3>1, <3>2, <3>4, <3>5 DEF Rows
  <2>5. CASE Redeploy(w)
    <3> DEFINE d == req[w].dev
    <3>1. PICK r \in Rids, k \in Keys :
            device' = [device EXCEPT ![d] =
              [pk |-> rows, rid |-> r, owner |-> req[w].user, active |-> TRUE, key |-> k]]
      BY <2>5 DEF Redeploy
    <3>2. req[w].user \in Users
      BY <2>5 DEF Redeploy, KeysInv, ServersKnown
    <3> QED
      BY <3>1, <3>2 DEF KeysInv, KeysAreOwned, Rows, TypeInv, TypeOK
  <2>6. CASE DeleteUserCommit(w)
    <3>1. device' = [d \in Uuids |-> IF d \in DevicesOf(req[w].user)
                                     THEN Surrendered(device[d]) ELSE device[d]]
      BY <2>6 DEF DeleteUserCommit
    <3>2. \A row \in DeviceRow : Surrendered(row).key = None
      BY DEF Surrendered, DeviceRow
    <3>3. ASSUME NEW d \in Rows' PROVE device'[d].key # None => device'[d].owner # None
      <4>1. CASE d \in DevicesOf(req[w].user)
        BY <3>1, <3>2, <4>1 DEF DevicesOf, Rows, TypeInv, TypeOK
      <4>2. CASE d \notin DevicesOf(req[w].user)
        BY <3>1, <3>3, <4>2 DEF KeysInv, KeysAreOwned, Rows
      <4> QED
        BY <4>1, <4>2
    <3> QED
      BY <3>3 DEF KeysAreOwned
  <2>7. CASE AssignDevice(w)
    <3>1. PICK d \in Rows, u \in Users : device' = [device EXCEPT ![d].owner = u]
      BY <2>7 DEF AssignDevice
    <3>2. device[d] \in DeviceRow
      BY DEF Rows, TypeInv, TypeOK
    <3>3. [device[d] EXCEPT !.owner = u] \in DeviceRow
      BY <3>2 DEF DeviceRow
    <3>4. [device[d] EXCEPT !.owner = u].owner # None
      BY <3>2 DEF DeviceRow
    <3> QED
      BY <1>0, <3>1, <3>3, <3>4 DEF Rows
  <2>8. CASE EnableDevice(w) \/ DisableDevice(w)
    <3>1. PICK d \in Rows, b \in BOOLEAN : device' = [device EXCEPT ![d].active = b]
      BY <2>8 DEF EnableDevice, DisableDevice
    <3>2. device[d] \in DeviceRow
      BY DEF Rows, TypeInv, TypeOK
    <3>3. /\ [device[d] EXCEPT !.active = b] \in DeviceRow
          /\ [device[d] EXCEPT !.active = b].owner = device[d].owner
          /\ [device[d] EXCEPT !.active = b].key = device[d].key
      BY <3>2 DEF DeviceRow
    <3>4. device[d].key = None \/ device[d].owner # None
      BY DEF KeysInv, KeysAreOwned
    <3> QED
      BY <1>0, <3>1, <3>3, <3>4 DEF Rows
  <2>9. CASE DeleteDevice(w)
    BY <2>9 DEF DeleteDevice, KeysInv, KeysAreOwned, Rows
  <2> QED
    BY <1>1, <2>1, <2>2, <2>3, <2>4, <2>5, <2>6, <2>7, <2>8, <2>9
       DEF Arrive, Proceed, Authenticate, Lookup, AdminAuth, ClaimRefused, Issue,
       IssueRefused, Reap, Logout, Heartbeat, Respond, DisableUser, RevokeUser, EnableUser,
       ForceLogout, DeleteUserBegin, RevokeDevice, DeleteDeviceRevoke, Crash
<1>2. CASE Purge \/ UNCHANGED vars \/ \E d \in Uuids : Expire(d)
  BY <1>2 DEF Purge, Expire, vars, KeysInv, KeysAreOwned, Rows
<1> QED
  BY <1>1, <1>2 DEF Next

\* No enrolled key is left without an account that answers for it: a request
\* that enrols one works for an account, and a deletion takes the keys of all
\* the devices the account has when it commits.
THEOREM KeysOwned == Spec => []KeysAreOwned
<1>1. Init => KeysInv
  BY DEF Init, KeysInv, KeysAreOwned, ServersKnown, At, Idle, Rows
<1>2. TypeInv /\ KeysInv /\ [Next]_vars => KeysInv'
  BY NextServers, NextKeys DEF KeysInv
<1>3. KeysInv => KeysAreOwned
  BY DEF KeysInv
<1> QED
  BY <1>1, <1>2, <1>3, InitType, NextType, PTL DEF Spec

-----------------------------------------------------------------------------
(* Agreement of sessions and devices                                       *)

\* Secrets are drawn in order, and no two devices hold the same one.
SecretsOK ==
  /\ Len(grants) \in Nat
  /\ \A d \in Open : token[d].secret \in Secret
  /\ \A d, e \in Open : token[d].secret = token[e].secret => d = e

\* A step keeps device d's session: it may be extended, not replaced.
Kept(d) == d \in Open /\ d \in Open' /\ token'[d].secret = token[d].secret

-----------------------------------------------------------------------------
(* What a step does to sessions                                            *)

LEMMA DropKeeps ==
  ASSUME TypeInv, NEW D, DropTokens(D)
  PROVE  \A d \in Open' : Kept(d) /\ d \notin D
BY DEF DropTokens, Kept, Open, TypeInv, TypeOK

\* Every step but an issue only keeps or ends sessions.
LEMMA StepKeeps ==
  ASSUME TypeInv, [Next]_vars, ~ \E w \in Workers : Issue(w)
  PROVE  grants' = grants /\ \A d \in Open' : Kept(d)
<1>1. CASE UNCHANGED vars
  BY <1>1 DEF vars, Open, Kept
<1>2. CASE \E w \in Workers : Arrive(w)
  BY <1>2 DEF Arrive, Authenticate, Lookup, AdminAuth, Open, Kept
<1>3. ASSUME NEW w \in Workers, Proceed(w) PROVE grants' = grants /\ \A d \in Open' : Kept(d)
  <2>1. CASE ClaimNew(w) \/ ClaimExisting(w) \/ ClaimRefused(w) \/ IssueRefused(w)
    BY <2>1 DEF ClaimNew, ClaimExisting, ClaimRefused, IssueRefused, Open, Kept
  <2>2. CASE Reap(w) \/ Logout(w) \/ RevokeUser(w) \/ ForceLogout(w) \/ RevokeDevice(w)
    BY <2>2, DropKeeps DEF Reap, Logout, RevokeUser, ForceLogout, RevokeDevice
  <2>3. CASE Heartbeat(w)
    BY <2>3, NoRowAssumption
       DEF Heartbeat, Extend, RowsOfToken, Open, Kept, TypeInv, TypeOK, TokenRow
  <2>4. CASE Deploy(w)
    BY <2>4, DropKeeps DEF Deploy, Open, Kept
  <2>5. CASE Redeploy(w) \/ Respond(w) \/ DisableUser(w) \/ EnableUser(w) \/ DeleteUserBegin(w)
    BY <2>5 DEF Redeploy, Respond, DisableUser, EnableUser, DeleteUserBegin, Open, Kept
  <2>6. CASE AssignDevice(w) \/ EnableDevice(w) \/ DisableDevice(w)
    BY <2>6 DEF AssignDevice, EnableDevice, DisableDevice, Open, Kept
  <2>7. CASE DeleteUserCommit(w)
    BY <2>7 DEF DeleteUserCommit, Open, Kept
  <2>8. CASE DeleteDeviceRevoke(w) \/ DeleteDevice(w)
    BY <2>8, DropKeeps DEF DeleteDeviceRevoke, DeleteDevice
  <2> QED
    BY <1>3, <2>1, <2>2, <2>3, <2>4, <2>5, <2>6, <2>7, <2>8 DEF Proceed
<1>4. CASE \E w \in Workers : Crash(w)
  BY <1>4 DEF Crash, Open, Kept
<1>5. ASSUME NEW d \in Uuids, Expire(d) PROVE grants' = grants /\ \A e \in Open' : Kept(e)
  BY <1>5 DEF Expire, Open, Kept, TypeInv, TypeOK, TokenRow
<1>6. CASE Purge
  BY <1>6, DropKeeps DEF Purge
<1> QED
  BY <1>1, <1>2, <1>3, <1>4, <1>5, <1>6 DEF Next

\* An issue gives the device a new secret and keeps the other sessions.
LEMMA IssueKeeps ==
  ASSUME TypeInv, NEW w \in Workers, Issue(w)
  PROVE  LET d == req[w].dev
         IN  /\ d \in Uuids /\ d \in Open'
             /\ token'[d].secret = Len(grants) + 1
             /\ Len(grants) \in Nat /\ Len(grants') = Len(grants) + 1
             /\ \A i \in 1..Len(grants) : grants'[i] = grants[i]
             /\ grants'[Len(grants) + 1].user = req[w].user
             /\ grants'[Len(grants) + 1].rid = device[d].rid
             /\ grants'[Len(grants) + 1].key = device[d].key
             /\ \A e \in Open' \ {d} : Kept(e)
<1> DEFINE d == req[w].dev
           g == [user |-> req[w].user, rid |-> device[d].rid, key |-> device[d].key]
<1>1. d \in Uuids /\ device[d] \in DeviceRow /\ req[w].user \in Users
  BY DEF Issue, At, MayIssue, TypeInv, TypeOK, RequestsOK
<1>2. g \in [user: Users, rid: Rids, key: MaybeIn(Keys)]
  BY <1>1 DEF DeviceRow
<1>3. /\ Len(grants) \in Nat /\ Len(grants') = Len(grants) + 1
      /\ \A i \in 1..Len(grants) : grants'[i] = grants[i]
      /\ grants'[Len(grants) + 1] = g
  BY <1>2, AppendProperties, LenProperties DEF Issue, TypeInv, TypeOK
<1>4. [pk |-> IF d \in Open THEN token[d].pk ELSE Len(grants) + 1,
       secret |-> Len(grants) + 1, live |-> TRUE] \in TokenRow
  BY <1>1, <1>3 DEF TokenRow, Open, TypeInv, TypeOK
<1>5. d \in Open' /\ token'[d].secret = Len(grants) + 1 /\ \A e \in Open' \ {d} : Kept(e)
  BY <1>1, <1>4, NoRowAssumption DEF Issue, Open, Kept, TypeInv, TypeOK
<1> QED
  BY <1>1, <1>3, <1>5

LEMMA SecretsStep == TypeInv /\ SecretsOK /\ [Next]_vars => SecretsOK'
<1> SUFFICES ASSUME TypeInv, SecretsOK, [Next]_vars PROVE SecretsOK'
  OBVIOUS
<1>1. CASE ~ \E w \in Workers : Issue(w)
  BY <1>1, StepKeeps DEF SecretsOK, Secret, Kept
<1>2. ASSUME NEW w \in Workers, Issue(w) PROVE SecretsOK'
  BY <1>2, IssueKeeps DEF SecretsOK, Secret, Kept
<1> QED
  BY <1>1, <1>2

-----------------------------------------------------------------------------
(* What a step does to requests, accounts and devices                      *)

\* Only executing the revocation, or a crash, takes a request off its list.
LEMMA PendingStays ==
  ASSUME TypeInv, [Next]_vars, NEW v \in Workers, At(v, "revoke_device"),
         ~RevokeDevice(v), ~Crash(v)
  PROVE  req'[v] = req[v]
<1> USE DEF At, Goto, Done, TypeInv, TypeOK
<1>1. CASE UNCHANGED vars
  BY <1>1 DEF vars
<1>2. ASSUME NEW w \in Workers, Arrive(w) PROVE req'[v] = req[v]
  BY <1>2 DEF Arrive, Authenticate, Lookup, AdminAuth
<1>3. ASSUME NEW w \in Workers, Proceed(w) PROVE req'[v] = req[v]
  <2>1. CASE ClaimNew(w) \/ ClaimExisting(w) \/ ClaimRefused(w) \/ Issue(w) \/ IssueRefused(w)
    BY <2>1 DEF ClaimNew, ClaimExisting, ClaimRefused, Issue, IssueRefused
  <2>2. CASE Reap(w) \/ Logout(w) \/ Heartbeat(w) \/ Deploy(w) \/ Redeploy(w) \/ Respond(w)
    BY <2>2 DEF Reap, Logout, Heartbeat, Deploy, Redeploy, Respond
  <2>3. CASE DisableUser(w) \/ RevokeUser(w) \/ EnableUser(w) \/ ForceLogout(w)
    BY <2>3 DEF DisableUser, RevokeUser, EnableUser, ForceLogout
  <2>4. CASE DeleteUserBegin(w) \/ DeleteUserCommit(w)
    BY <2>4 DEF DeleteUserBegin, DeleteUserCommit
  <2>5. CASE AssignDevice(w) \/ EnableDevice(w) \/ DisableDevice(w)
    BY <2>5 DEF AssignDevice, EnableDevice, DisableDevice
  <2>6. CASE RevokeDevice(w)
    BY <2>6 DEF RevokeDevice
  <2>7. CASE DeleteDeviceRevoke(w) \/ DeleteDevice(w)
    BY <2>7 DEF DeleteDeviceRevoke, DeleteDevice
  <2> QED
    BY <1>3, <2>1, <2>2, <2>3, <2>4, <2>5, <2>6, <2>7 DEF Proceed
<1>4. ASSUME NEW w \in Workers, Crash(w) PROVE req'[v] = req[v]
  BY <1>4 DEF Crash
<1>5. ASSUME NEW d \in Uuids, Expire(d) PROVE req'[v] = req[v]
  BY <1>5 DEF Expire
<1>6. CASE Purge
  BY <1>6 DEF Purge
<1> QED
  BY <1>1, <1>2, <1>3, <1>4, <1>5, <1>6 DEF Next

\* A deleted account stays deleted, a lost revocation stays lost.
LEMMA HistoryGrows ==
  ASSUME TypeInv, [Next]_vars
  PROVE  /\ lost \subseteq lost'
         /\ \A u \in Users : account[u] = "deleted" => account'[u] = "deleted"
<1> USE DEF TypeInv, TypeOK
<1>1. CASE UNCHANGED vars
  BY <1>1 DEF vars
<1>2. ASSUME NEW w \in Workers, Arrive(w)
      PROVE  UNCHANGED <<lost, account>>
  BY <1>2 DEF Arrive, Authenticate, Lookup, AdminAuth
<1>3. ASSUME NEW w \in Workers, Proceed(w)
      PROVE  lost' = lost /\ \A u \in Users : account[u] = "deleted" => account'[u] = "deleted"
  <2>1. CASE ClaimNew(w) \/ ClaimExisting(w) \/ ClaimRefused(w) \/ Issue(w) \/ IssueRefused(w)
    BY <2>1 DEF ClaimNew, ClaimExisting, ClaimRefused, Issue, IssueRefused
  <2>2. CASE Reap(w) \/ Logout(w) \/ Heartbeat(w) \/ Deploy(w) \/ Redeploy(w) \/ Respond(w)
    BY <2>2 DEF Reap, Logout, Heartbeat, Deploy, Redeploy, Respond
  <2>3. CASE DisableUser(w) \/ EnableUser(w)
    BY <2>3 DEF DisableUser, EnableUser, Target
  <2>4. CASE RevokeUser(w) \/ ForceLogout(w) \/ DeleteUserBegin(w)
    BY <2>4 DEF RevokeUser, ForceLogout, DeleteUserBegin
  <2>5. CASE DeleteUserCommit(w)
    BY <2>5 DEF DeleteUserCommit
  <2>6. CASE AssignDevice(w) \/ EnableDevice(w) \/ DisableDevice(w) \/ RevokeDevice(w)
    BY <2>6 DEF AssignDevice, EnableDevice, DisableDevice, RevokeDevice
  <2>7. CASE DeleteDeviceRevoke(w) \/ DeleteDevice(w)
    BY <2>7 DEF DeleteDeviceRevoke, DeleteDevice
  <2> QED
    BY <1>3, <2>1, <2>2, <2>3, <2>4, <2>5, <2>6, <2>7 DEF Proceed
<1>4. ASSUME NEW w \in Workers, Crash(w) PROVE lost \subseteq lost' /\ account' = account
  BY <1>4 DEF Crash
<1>5. ASSUME NEW d \in Uuids, Expire(d) PROVE UNCHANGED <<lost, account>>
  BY <1>5 DEF Expire
<1>6. CASE Purge
  BY <1>6 DEF Purge
<1> QED
  BY <1>1, <1>2, <1>3, <1>4, <1>5, <1>6 DEF Next

\* The account that owned d's row is gone after the step.
Orphaned(d) == device[d].owner \in Users /\ account'[device[d].owner] = "deleted"

\* What a step may do to the row of a device whose session it keeps.
RowKept(d) ==
  /\ d \in Rows /\ d \in Rows'
  /\ device'[d].pk = device[d].pk
  /\ \/ device'[d].owner = device[d].owner
     \/ device[d].owner = None
     \/ RevocationPending(d)'
     \/ Orphaned(d)
  /\ \/ device'[d].active
     \/ device'[d].active = device[d].active
     \/ RevocationPending(d)'
     \/ Orphaned(d)
  /\ device'[d].rid = device[d].rid
  /\ \/ device'[d].key = device[d].key
     \/ device[d].key = None
     \/ Orphaned(d)

LEMMA SameRow ==
  ASSUME TypeInv, NEW d \in Open, d \in Rows, device' = device
  PROVE  RowKept(d)
BY DEF RowKept, Rows

LEMMA RowStep ==
  ASSUME TypeInv, [Next]_vars, NEW d, Kept(d)
  PROVE  RowKept(d)
<1> USE NoneAssumption, NoRowAssumption
<1>0. d \in Open /\ d \in Rows /\ d \in Uuids /\ d \in Open' /\ device[d] \in DeviceRow
  BY DEF Kept, Open, Rows, TypeInv, TypeOK
<1>1. CASE UNCHANGED vars
  BY <1>0, <1>1, SameRow DEF vars
<1>2. CASE \E w \in Workers : Arrive(w)
  BY <1>0, <1>2, SameRow DEF Arrive, Authenticate, Lookup, AdminAuth
<1>3. ASSUME NEW w \in Workers, Proceed(w) PROVE RowKept(d)
  <2>1. CASE ClaimRefused(w) \/ Issue(w) \/ IssueRefused(w) \/ Reap(w) \/ Logout(w)
             \/ Heartbeat(w) \/ Respond(w)
    BY <1>0, <2>1, SameRow
       DEF ClaimRefused, Issue, IssueRefused, Reap, Logout, Heartbeat, Respond
  <2>2. CASE DisableUser(w) \/ RevokeUser(w) \/ EnableUser(w) \/ ForceLogout(w)
             \/ DeleteUserBegin(w) \/ RevokeDevice(w) \/ DeleteDeviceRevoke(w)
    BY <1>0, <2>2, SameRow
       DEF DisableUser, RevokeUser, EnableUser, ForceLogout, DeleteUserBegin, RevokeDevice,
           DeleteDeviceRevoke
  <2>3. CASE ClaimNew(w)
    <3>1. PICK e \in Uuids, r \in Rids :
            /\ NewIdentity(r, e)
            /\ device' = [device EXCEPT ![e] =
                 [pk |-> rows, rid |-> r, owner |-> req[w].user, active |-> TRUE, key |-> None]]
      BY <2>3 DEF ClaimNew
    <3>2. e # d
      BY <1>0, <3>1 DEF NewIdentity, Matches
    <3> QED
      BY <1>0, <3>1, <3>2 DEF RowKept, Rows, TypeInv, TypeOK
  <2>4. CASE ClaimExisting(w)
    <3>1. PICK e \in Rows :
            /\ Available(e, req[w].user)
            /\ device' = [device EXCEPT ![e].owner = req[w].user]
      BY <2>4 DEF ClaimExisting
    <3>2. [device[d] EXCEPT !.owner = req[w].user] \in DeviceRow
      BY <1>0 DEF DeviceRow, Request, TypeInv, TypeOK
    <3> QED
      BY <1>0, <3>1, <3>2 DEF RowKept, Available, Rows, DeviceRow, TypeInv, TypeOK
  <2>5. CASE Deploy(w)
    <3> DEFINE e == req[w].dev
    <3>1. PICK r \in Rids, k \in Keys :
            /\ device' = [device EXCEPT ![e] =
                            [@ EXCEPT !.rid = r, !.key = k, !.owner = req[w].user]]
            /\ IF Rekeyed(e, r, k) THEN DropTokens({e}) ELSE UNCHANGED token
            /\ DeployAllowed(e, req[w].user)
      BY <2>5 DEF Deploy
    <3>2. [device[d] EXCEPT !.rid = r, !.key = k, !.owner = req[w].user] \in DeviceRow
      BY <1>0 DEF DeviceRow, Request, TypeInv, TypeOK
    <3>3. CASE e = d
      <4>1. ~Rekeyed(e, r, k)
        BY <1>0, <3>1, <3>3, DropKeeps
      <4>2. device'[d] = [device[d] EXCEPT !.rid = r, !.key = k, !.owner = req[w].user]
        BY <1>0, <3>1, <3>3 DEF TypeInv, TypeOK
      <4>3. /\ device'[d].pk = device[d].pk /\ device'[d].rid = r
            /\ device'[d].key = k /\ device'[d].owner = req[w].user
            /\ device'[d].active = device[d].active
        BY <1>0, <4>2 DEF DeviceRow
      <4>4. r = device[d].rid /\ (device[d].key = None \/ device[d].key = k)
        BY <3>3, <4>1 DEF Rekeyed
      <4>5. device[d].owner = None \/ device[d].owner = req[w].user
        BY <3>1, <3>3 DEF DeployAllowed
      <4>6. d \in Rows'
        BY <1>0, <3>2, <4>2 DEF Rows
      <4> QED
        BY <1>0, <4>3, <4>4, <4>5, <4>6 DEF RowKept
    <3>4. CASE e # d
      BY <1>0, <3>1, <3>4 DEF RowKept, Rows, TypeInv, TypeOK
    <3> QED
      BY <3>3, <3>4
  <2>6. CASE Redeploy(w)
    <3>1. device'[d] = device[d]
      BY <1>0, <2>6 DEF Redeploy, TypeInv, TypeOK
    <3> QED
      BY <1>0, <3>1 DEF RowKept, Rows
  <2>7. CASE DeleteUserCommit(w)
    <3>1. CASE device[d].owner = req[w].user
      <4>1. device'[d] = Surrendered(device[d])
        BY <1>0, <2>7, <3>1 DEF DeleteUserCommit, DevicesOf, Rows
      <4>2. device'[d] \in DeviceRow
        BY <1>0, <4>1 DEF Surrendered, DeviceRow
      <4>3. device[d].owner = None \/ Orphaned(d)
        BY <1>0, <2>7, <3>1 DEF DeleteUserCommit, Orphaned, DeviceRow, TypeInv, TypeOK
      <4>4. device[d].owner # None
        BY <1>0, <2>7, <3>1 DEF DeleteUserCommit, At, TypeInv, TypeOK, RequestsOK
      <4>5. device'[d].pk = device[d].pk /\ device'[d].rid = device[d].rid
        BY <1>0, <4>1 DEF Surrendered, DeviceRow
      <4>6. d \in Rows'
        BY <1>0, <4>2 DEF Rows
      <4> QED
        BY <1>0, <4>3, <4>4, <4>5, <4>6 DEF RowKept
    <3>2. CASE device[d].owner # req[w].user
      <4>1. device'[d] = device[d]
        BY <1>0, <2>7, <3>2 DEF DeleteUserCommit, DevicesOf, Rows
      <4> QED
        BY <1>0, <4>1 DEF RowKept, Rows
    <3> QED
      BY <3>1, <3>2
  <2>8. CASE AssignDevice(w) \/ DisableDevice(w)
    <3>1. PICK e \in Rows, row \in DeviceRow :
            /\ device' = [device EXCEPT ![e] = row]
            /\ row.pk = device[e].pk /\ row.rid = device[e].rid /\ row.key = device[e].key
            /\ \/ row = device[e]
               \/ Goto(w, [Idle EXCEPT !.step = "revoke_device", !.pk = device[e].pk])
      <4>1. CASE AssignDevice(w)
        <5>1. PICK e \in Rows, u \in Users :
                /\ device' = [device EXCEPT ![e].owner = u]
                /\ IF device[e].owner # u
                   THEN Goto(w, [Idle EXCEPT !.step = "revoke_device", !.pk = device[e].pk])
                   ELSE Done(w)
          BY <4>1 DEF AssignDevice
        <5>2. device[e] \in DeviceRow
          BY DEF Rows, TypeInv, TypeOK
        <5>3. [device[e] EXCEPT !.owner = u] \in DeviceRow
          BY <5>2 DEF DeviceRow
        <5> WITNESS e \in Rows, [device[e] EXCEPT !.owner = u] \in DeviceRow
        <5> QED
          BY <5>1, <5>2, <5>3 DEF DeviceRow
      <4>2. CASE DisableDevice(w)
        <5>1. PICK e \in Rows :
                /\ device' = [device EXCEPT ![e].active = FALSE]
                /\ Goto(w, [Idle EXCEPT !.step = "revoke_device", !.pk = device[e].pk])
          BY <4>2 DEF DisableDevice
        <5>2. device[e] \in DeviceRow
          BY DEF Rows, TypeInv, TypeOK
        <5>3. [device[e] EXCEPT !.active = FALSE] \in DeviceRow
          BY <5>2 DEF DeviceRow
        <5> WITNESS e \in Rows, [device[e] EXCEPT !.active = FALSE] \in DeviceRow
        <5> QED
          BY <5>1, <5>2, <5>3 DEF DeviceRow
      <4> QED
        BY <2>8, <4>1, <4>2
    <3>2. CASE e = d
      <4>1. device'[d] = row /\ d \in Rows'
        BY <1>0, <3>1, <3>2 DEF Rows, TypeInv, TypeOK
      <4>2. ASSUME Goto(w, [Idle EXCEPT !.step = "revoke_device", !.pk = device[e].pk])
            PROVE  RevocationPending(d)'
        <5>1. req'[w].step = "revoke_device" /\ req'[w].pk = device[e].pk
          BY <4>2 DEF Goto, Idle, TypeInv, TypeOK
        <5> QED
          BY <3>1, <3>2, <4>1, <5>1 DEF RevocationPending, At
      <4> QED
        BY <1>0, <3>1, <3>2, <4>1, <4>2 DEF RowKept
    <3>3. CASE e # d
      <4>1. device'[d] = device[d]
        BY <1>0, <3>1, <3>3 DEF TypeInv, TypeOK
      <4> QED
        BY <1>0, <4>1 DEF RowKept, Rows
    <3> QED
      BY <3>2, <3>3
  <2>9. CASE EnableDevice(w)
    <3>1. PICK e \in Rows : device' = [device EXCEPT ![e].active = TRUE]
      BY <2>9 DEF EnableDevice
    <3>2. [device[d] EXCEPT !.active = TRUE] \in DeviceRow
      BY <1>0 DEF DeviceRow
    <3> QED
      BY <1>0, <3>1, <3>2 DEF RowKept, Rows, DeviceRow, TypeInv, TypeOK
  <2>10. CASE DeleteDevice(w)
    <3>1. d \notin RowsOfDevice(req[w].pk)
      BY <1>0, <2>10, DropKeeps DEF DeleteDevice
    <3>2. device'[d] = device[d]
      BY <1>0, <2>10, <3>1 DEF DeleteDevice
    <3> QED
      BY <1>0, <3>2 DEF RowKept, Rows
  <2> QED
    BY <1>3, <2>1, <2>2, <2>3, <2>4, <2>5, <2>6, <2>7, <2>8, <2>9, <2>10 DEF Proceed
<1>4. CASE \E w \in Workers : Crash(w)
  BY <1>0, <1>4, SameRow DEF Crash
<1>5. CASE \E e \in Uuids : Expire(e)
  BY <1>0, <1>5, SameRow DEF Expire
<1>6. CASE Purge
  BY <1>0, <1>6, SameRow DEF Purge
<1> QED
  BY <1>1, <1>2, <1>3, <1>4, <1>5, <1>6 DEF Next

-----------------------------------------------------------------------------
(* The agreement of sessions with their devices                            *)

Agreement == TypeInv /\ SecretsOK /\ OwnerAgreement /\ ActiveAgreement /\ IdentityAgreement

LEMMA GranteeKept ==
  ASSUME TypeInv, SecretsOK, [Next]_vars, NEW d, Kept(d)
  PROVE  /\ grants[token[d].secret] \in [user: Users, rid: Rids, key: MaybeIn(Keys)]
         /\ grants'[token'[d].secret] = grants[token[d].secret]
<1>1. d \in Open /\ token'[d].secret = token[d].secret /\ token[d].secret \in 1..Len(grants)
  BY DEF Kept, SecretsOK, Secret
<1>2. grants[token[d].secret] \in [user: Users, rid: Rids, key: MaybeIn(Keys)]
  BY <1>1, ElementOfSeq DEF SecretsOK, TypeInv, TypeOK
<1>3. CASE \E w \in Workers : Issue(w)
  BY <1>1, <1>2, <1>3, IssueKeeps
<1>4. CASE ~ \E w \in Workers : Issue(w)
  BY <1>1, <1>2, <1>4, StepKeeps
<1> QED
  BY <1>3, <1>4

\* A window that is open stays open as long as the session is kept.
LEMMA ExcuseStep ==
  ASSUME TypeInv, SecretsOK, [Next]_vars, NEW d, Kept(d), Excused(d)
  PROVE  Excused(d)'
<1>1. d \in Open /\ d \in Uuids /\ token'[d].secret = token[d].secret
  BY DEF Kept, Open
<1>2. d \in Rows /\ device'[d].pk = device[d].pk
  BY RowStep DEF RowKept
<1>3. CASE RevocationPending(d)
  <2>1. PICK v \in Workers : At(v, "revoke_device") /\ req[v].pk = device[d].pk
    BY <1>3 DEF RevocationPending
  <2>2. d \in RowsOfDevice(req[v].pk)
    BY <1>2, <2>1 DEF RowsOfDevice
  <2>3. CASE RevokeDevice(v)
    BY <2>2, <2>3, DropKeeps DEF RevokeDevice, Kept
  <2>4. CASE Crash(v)
    <3>1. token[d].secret \in ToRevoke(v)
      BY <1>1, <2>1, <2>2 DEF ToRevoke, At
    <3> QED
      BY <1>1, <2>4, <3>1 DEF Crash, Excused
  <2>5. CASE ~RevokeDevice(v) /\ ~Crash(v)
    <3>1. req'[v] = req[v]
      BY <2>1, <2>5, PendingStays
    <3> QED
      BY <1>2, <2>1, <3>1 DEF Excused, RevocationPending, At
  <2> QED
    BY <2>3, <2>4, <2>5
<1>4. CASE token[d].secret \in lost
  BY <1>1, <1>4, HistoryGrows DEF Excused
<1>5. CASE account[GranteeOf(d)] = "deleted"
  BY <1>5, GranteeKept, HistoryGrows DEF Excused, GranteeOf
<1> QED
  BY <1>3, <1>4, <1>5 DEF Excused

\* The owner of a device whose session is kept: the agreement survives.
LEMMA KeptAgrees ==
  ASSUME Agreement, [Next]_vars, NEW d, Kept(d)
  PROVE  /\ OwnerOf(d)' = GranteeOf(d)' \/ Excused(d)'
         /\ device'[d].active \/ Excused(d)'
         /\ device'[d].rid = grants'[token'[d].secret].rid
         /\ device'[d].key # grants'[token'[d].secret].key
              => grants'[token'[d].secret].key = None \/ Excused(d)'
<1> DEFINE g == grants[token[d].secret]
<1>1. TypeInv /\ SecretsOK /\ d \in Open
  BY DEF Agreement, Kept
<1>2. RowKept(d) /\ OwnerOf(d) = device[d].owner /\ OwnerOf(d)' = device'[d].owner
  BY <1>1, RowStep DEF RowKept, OwnerOf, Rows
<1>3. g.user \in Users /\ g.user # None /\ grants'[token'[d].secret] = g
  BY <1>1, GranteeKept, NoneAssumption
<1>4. GranteeOf(d) = g.user /\ GranteeOf(d)' = g.user
  BY <1>3 DEF GranteeOf
<1>5. Excused(d) => Excused(d)'
  BY <1>1, ExcuseStep
<1>6. device[d].owner = g.user \/ Excused(d)
  BY <1>1, <1>2, <1>4 DEF Agreement, OwnerAgreement
<1>7. Orphaned(d) => Excused(d)'
  BY <1>4, <1>5, <1>6 DEF Orphaned, Excused
<1>8. RevocationPending(d)' => Excused(d)'
  BY DEF Excused
<1>9. device[d].active \/ Excused(d)
  BY <1>1 DEF Agreement, ActiveAgreement
<1>10. device[d].rid = g.rid /\ (device[d].key # g.key => g.key = None \/ Excused(d))
  BY <1>1 DEF Agreement, IdentityAgreement
<1>11. device'[d].owner = g.user \/ Excused(d)'
  BY <1>2, <1>3, <1>5, <1>6, <1>7, <1>8 DEF RowKept
<1>12. device'[d].active \/ Excused(d)'
  BY <1>2, <1>5, <1>7, <1>8, <1>9 DEF RowKept
<1>13. device'[d].rid = g.rid
  BY <1>2, <1>10 DEF RowKept
<1>14. device'[d].key # g.key => g.key = None \/ Excused(d)'
  BY <1>2, <1>5, <1>7, <1>10 DEF RowKept
<1> QED
  BY <1>2, <1>3, <1>4, <1>11, <1>12, <1>13, <1>14

LEMMA AgreementInit == Init => Agreement
<1>1. Init => Open = {} /\ Len(grants) = 0
  BY EmptySeq DEF Init, Open
<1> QED
  BY <1>1, InitType
     DEF Agreement, SecretsOK, OwnerAgreement, ActiveAgreement, IdentityAgreement

LEMMA AgreementStep == Agreement /\ [Next]_vars => Agreement'
<1> SUFFICES ASSUME Agreement, [Next]_vars PROVE Agreement'
  OBVIOUS
<1>1. TypeInv' /\ SecretsOK'
  BY NextType, SecretsStep DEF Agreement
<1>2. TypeInv /\ SecretsOK
  BY DEF Agreement
<1>3. CASE ~ \E w \in Workers : Issue(w)
  <2>1. \A d \in Open' : Kept(d)
    BY <1>2, <1>3, StepKeeps
  <2> QED
    BY <1>1, <2>1, KeptAgrees
       DEF Agreement, OwnerAgreement, ActiveAgreement, IdentityAgreement
<1>4. ASSUME NEW w \in Workers, Issue(w) PROVE Agreement'
  <2>0. PICK d \in Uuids : d = req[w].dev
    BY <1>2, <1>4, IssueKeeps
  <2>1. \A e \in Open' \ {d} : Kept(e)
    BY <1>2, <1>4, <2>0, IssueKeeps
  <2>2. /\ grants'[token'[d].secret].user = req[w].user
        /\ grants'[token'[d].secret].rid = device[d].rid
        /\ grants'[token'[d].secret].key = device[d].key
    BY <1>2, <1>4, <2>0, IssueKeeps
  <2>3. device' = device /\ device[d] # None /\ device[d].owner = req[w].user /\ device[d].active
    BY <1>4, <2>0 DEF Issue, MayIssue
  <2>4. OwnerOf(d)' = GranteeOf(d)'
    BY <2>2, <2>3 DEF OwnerOf, GranteeOf
  <2> QED
    BY <1>1, <2>1, <2>2, <2>3, <2>4, KeptAgrees
       DEF Agreement, OwnerAgreement, ActiveAgreement, IdentityAgreement
<1> QED
  BY <1>3, <1>4

\* No interleaving of logins, assignments, deployments, deletions and crashes
\* leaves a session on a device of another account, but for the windows named
\* by Excused.
THEOREM OwnersAgree == Spec => []OwnerAgreement
<1>1. Agreement => OwnerAgreement
  BY DEF Agreement
<1> QED
  BY <1>1, AgreementInit, AgreementStep, PTL DEF Spec

\* Nor on a disabled device.  The proof needs OwnerAgreement: deleting an
\* account disables its devices and excuses the sessions issued to it, which
\* are those of these devices.
THEOREM ActiveAgree == Spec => []ActiveAgreement
<1>1. Agreement => ActiveAgreement
  BY DEF Agreement
<1> QED
  BY <1>1, AgreementInit, AgreementStep, PTL DEF Spec

\* Nor on a device that changed its client id or its enrolled key.
THEOREM IdentitiesAgree == Spec => []IdentityAgreement
<1>1. Agreement => IdentityAgreement
  BY DEF Agreement
<1> QED
  BY <1>1, AgreementInit, AgreementStep, PTL DEF Spec

-----------------------------------------------------------------------------
(* The refinement of SessionTable                                          *)

TableInv == TypeInv /\ SecretsOK

\* The state of SessionTable that Sessions represents.
TableOpen == [d \in Uuids |-> IF d \in Open THEN token[d].secret ELSE None]

LEMMA SecretIsNotNone == TableInv => \A d \in Open : token[d].secret # None
BY NoneAssumption DEF TableInv, SecretsOK, Secret

LEMMA SecretsKnown == TableInv => \A d \in Open : token[d].secret \in Secret
BY DEF TableInv, SecretsOK

LEMMA TableInit == Init => Table!Init
<1> SUFFICES ASSUME Init PROVE Table!Init
  OBVIOUS
<1>1. Open = {} /\ Secret = {}
  <2>1. Len(grants) = 0
    BY EmptySeq DEF Init
  <2> QED
    BY <2>1 DEF Init, Open, Secret
<1> QED
  BY <1>1 DEF Table!Init, Spent

\* A step that issues nothing closes the sessions it drops.
LEMMA CloseStep ==
  ASSUME TableInv, [Next]_vars, ~ \E w \in Workers : Issue(w),
         NEW D, D = Open \ Open'
  PROVE  Table!Close(D)
<1>1. grants' = grants /\ \A d \in Open' : Kept(d)
  BY StepKeeps DEF TableInv
<1>2. Open' \subseteq Open /\ Open \subseteq Uuids
  BY <1>1 DEF Kept, Open
<1>3. TableOpen' = [d \in Uuids |-> IF d \in D THEN None ELSE TableOpen[d]]
  <2>1. ASSUME NEW d \in Uuids
        PROVE  TableOpen'[d] = IF d \in D THEN None ELSE TableOpen[d]
    <3>1. CASE d \in Open'
      BY <1>1, <1>2, <3>1 DEF TableOpen, Kept
    <3>2. CASE d \notin Open'
      BY <1>2, <3>2 DEF TableOpen
    <3> QED
      BY <3>1, <3>2
  <2> QED
    BY <2>1 DEF TableOpen
<1>4. {TableOpen[d] : d \in D} \ {None} = {token[d].secret : d \in D}
  BY <1>2, SecretIsNotNone DEF TableOpen
<1>5. Spent' = Spent \cup {token[d].secret : d \in D}
  <2>1. Secret' = Secret
    BY <1>1 DEF Secret
  <2>2. {token'[d].secret : d \in Open'} = {token[d].secret : d \in Open'}
    BY <1>1 DEF Kept
  <2>3. ASSUME NEW d \in D, NEW e \in Open' PROVE token[d].secret # token[e].secret
    BY <1>2, <2>3 DEF TableInv, SecretsOK
  <2>4. {token[d].secret : d \in D} \subseteq Secret
    BY DEF TableInv, SecretsOK
  <2> QED
    BY <1>2, <2>1, <2>2, <2>3, <2>4 DEF Spent
<1> QED
  BY <1>3, <1>4, <1>5 DEF Table!Close, Table!Closing, TableOpen

\* An issue opens the device's next session.
LEMMA OpenStep ==
  ASSUME TableInv, NEW w \in Workers, Issue(w)
  PROVE  \E d \in Uuids : Table!Open(d)
<1> DEFINE s == Len(grants) + 1
<1>0. PICK d \in Uuids : d = req[w].dev
  BY IssueKeeps DEF TableInv
<1>1. /\ d \in Open' /\ token'[d].secret = s /\ Len(grants) \in Nat /\ Len(grants') = s
      /\ \A e \in Open' \ {d} : Kept(e)
  BY <1>0, IssueKeeps DEF TableInv
<1>2. Open' = Open \cup {d}
  BY <1>0, <1>1, NoRowAssumption DEF Issue, Open, Kept, TableInv, TypeInv, TypeOK
<1>3. TableOpen' = [TableOpen EXCEPT ![d] = s]
  <2>1. ASSUME NEW e \in Uuids
        PROVE  TableOpen'[e] = IF e = d THEN s ELSE TableOpen[e]
    BY <1>1, <1>2 DEF TableOpen, Kept
  <2> QED
    BY <2>1 DEF TableOpen
<1>4. s \in 1..MaxIssues
  BY <1>1, BoundsAssumption DEF Issue
<1>5. s \notin Spent /\ \A e \in Uuids : TableOpen[e] # s
  BY <1>1, NoneAssumption DEF Spent, Secret, TableOpen, TableInv, SecretsOK
<1>6. Spent' = Spent \cup ({TableOpen[e] : e \in {d}} \ {None})
  <2>1. Secret' = Secret \cup {s}
    BY <1>1 DEF Secret
  <2>2. ASSUME NEW e \in Open' \ {d} PROVE e \in Open /\ token'[e].secret = token[e].secret
    BY <1>1 DEF Kept
  <2>3. {token'[e].secret : e \in Open'} = {s} \cup {token[e].secret : e \in Open \ {d}}
    BY <1>1, <1>2, <2>2
  <2>4. s \notin Secret
    BY <1>1 DEF Secret
  <2>5. CASE d \in Open
    <3>1. {TableOpen[e] : e \in {d}} \ {None} = {token[d].secret}
      BY <2>5, SecretIsNotNone DEF TableOpen
    <3>2. token[d].secret \in Secret
      BY <2>5 DEF TableInv, SecretsOK
    <3>3. \A e \in Open \ {d} : token[e].secret # token[d].secret
      BY <2>5 DEF TableInv, SecretsOK
    <3>4. \A e \in Open : token[e].secret \in Secret
      BY SecretsKnown
    <3> QED
      BY <2>1, <2>3, <2>4, <2>5, <3>1, <3>2, <3>3, <3>4 DEF Spent
  <2>6. CASE d \notin Open
    <3>1. {TableOpen[e] : e \in {d}} \ {None} = {}
      BY <2>6 DEF TableOpen
    <3>2. Open \ {d} = Open
      BY <2>6
    <3> QED
      BY <2>1, <2>3, <2>4, <3>1, <3>2, SecretsKnown DEF Spent
  <2> QED
    BY <2>5, <2>6
<1>7. Table!Open(d)
  BY <1>3, <1>4, <1>5, <1>6 DEF Table!Open, Table!Fresh, Table!Closing, TableOpen
<1> QED
  BY <1>7

LEMMA TableStep == TableInv /\ [Next]_vars => [Table!Next]_(Table!vars)
<1> SUFFICES ASSUME TableInv, [Next]_vars PROVE Table!Next
  OBVIOUS
<1>1. CASE \E w \in Workers : Issue(w)
  BY <1>1, OpenStep DEF Table!Next
<1>2. CASE ~ \E w \in Workers : Issue(w)
  <2>1. PICK D \in SUBSET Uuids : D = Open \ Open'
    BY DEF Open
  <2>2. Table!Close(D)
    BY <1>2, <2>1, CloseStep
  <2> QED
    BY <2>2 DEF Table!Next
<1> QED
  BY <1>1, <1>2

\* A session is opened by one login, under a secret nobody ever held, as the
\* only one of its device; logged out, revoked, replaced, reaped or purged, it
\* never comes back, whatever a request that read it earlier still does.
THEOREM TableImplemented == Spec => ImplementsTable
<1>1. Init => TableInv
  BY AgreementInit DEF Agreement, TableInv
<1>2. TableInv /\ [Next]_vars => TableInv'
  BY NextType, SecretsStep DEF TableInv
<1> QED
  BY <1>1, <1>2, TableInit, TableStep, PTL DEF Spec, ImplementsTable, Table!Spec

=============================================================================

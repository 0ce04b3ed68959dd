--------------------------- MODULE StrategyPolicy ---------------------------
(***************************************************************************)
(* Strategies (StrategyProfile): an administrator assigns them to devices, *)
(* device groups and accounts, and a device learns the options of its      *)
(* effective strategy with a heartbeat.  The device says which version it  *)
(* has, the second of the strategy's last save, and gets the options when  *)
(* that differs.                                                           *)
(*                                                                         *)
(* heartbeat reads the device with its owner, group and strategies in one  *)
(* statement, so each request is one action; answers may be lost.          *)
(***************************************************************************)
EXTENDS Naturals

CONSTANTS
  Devices,
  Groups,      \* DeviceGroup
  Users,
  Strategies,  \* StrategyProfile
  Options,     \* values of config_options
  None,        \* NULL
  MaxTime      \* bound on the clock, in seconds

VARIABLES
  strategy,  \* StrategyProfile
  direct,    \* the strategy assigned to a device
  group,     \* the group of a device
  owner,     \* the owner of a device, None when his account was deleted
  groups,    \* the strategy assigned to a group, "none" when there is no such group
  user,      \* the strategy assigned to an account
  now,       \* the clock
  saved,     \* history: a strategy was saved in this second
  answer,    \* the heartbeat's answer on its way to a device
  client     \* the version and options a device has

table == <<strategy, direct, group, owner, groups, user>>
vars  == <<table, now, saved, answer, client>>

-----------------------------------------------------------------------------

MaybeIn(S) == S \cup {None}

\* updated: updated_at in seconds; alone: history, no other save was in that
\* second.
Profile == [options: Options, enabled: BOOLEAN, updated: 1 .. MaxTime, alone: BOOLEAN]

\* What a client keeps of a heartbeat's answer; 0 is that of a new client.
Version == [at: 0 .. MaxTime, options: MaybeIn(Options)]

\* NULL is no row, nor is what stands for a missing group.
ConstantsOK ==
  /\ None \notin Strategies \cup Groups \cup Profile \cup Version
  /\ "none" \notin Strategies \cup {None}
  /\ MaxTime \in Nat \ {0}

ASSUME ConstantsAssumption == ConstantsOK

Exists(s)       == strategy[s] # None
GroupExists(g)  == groups[g] # "none"
Assignable      == MaybeIn({s \in Strategies : Exists(s)})

TypeOK ==
  /\ strategy \in [Strategies -> MaybeIn(Profile)]
  /\ direct \in [Devices -> Assignable]
  /\ group \in [Devices -> MaybeIn({g \in Groups : GroupExists(g)})]
  /\ owner \in [Devices -> MaybeIn(Users)]
  /\ groups \in [Groups -> Assignable \cup {"none"}]
  /\ user \in [Users -> Assignable]
  /\ now \in 1 .. MaxTime
  /\ saved \in BOOLEAN
  /\ answer \in [Devices -> MaybeIn(Version)]
  /\ client \in [Devices -> Version]

Init ==
  /\ strategy = [s \in Strategies |-> None]
  /\ direct = [d \in Devices |-> None]
  /\ group = [d \in Devices |-> None]
  /\ owner \in [Devices -> MaybeIn(Users)]
  /\ groups = [g \in Groups |-> "none"]
  /\ user = [u \in Users |-> None]
  /\ now = 1
  /\ saved = FALSE
  /\ answer = [d \in Devices |-> None]
  /\ client = [d \in Devices |-> [at |-> 0, options |-> None]]

-----------------------------------------------------------------------------
(* The administrator                                                       *)

\* Mutant: the save does not write updated_at.
Stamped_Kept(s, p) == [p EXCEPT !.updated = IF Exists(s) THEN strategy[s].updated ELSE now]

\* auto_now.
Stamped(s, p) == [p EXCEPT !.updated = now]

Save(s, p) ==
  /\ strategy' = [x \in Strategies |->
                   IF x = s THEN [Stamped(s, p) EXCEPT !.alone = ~saved]
                   ELSE IF Exists(x) THEN [strategy[x] EXCEPT !.alone = @ /\ strategy[x].updated # now]
                   ELSE None]
  /\ saved' = TRUE
  /\ UNCHANGED <<direct, group, owner, groups, user, now, answer, client>>

\* POST strategies and PATCH strategy_detail.
SaveStrategy(s, o, e) ==
  LET p == [options |-> o, enabled |-> e, updated |-> now, alone |-> TRUE] IN
  Save(s, p)

\* strategy_status.
SetStatus(s, e) == Exists(s) /\ Save(s, [strategy[s] EXCEPT !.enabled = e])

\* on_delete=SET_NULL.
Without(f, x) == [k \in DOMAIN f |-> IF f[k] = x THEN None ELSE f[k]]

DeleteStrategy(s) ==
  /\ Exists(s)
  /\ strategy' = [strategy EXCEPT ![s] = None]
  /\ direct' = Without(direct, s)
  /\ groups' = Without(groups, s)
  /\ user' = Without(user, s)
  /\ UNCHANGED <<group, owner, now, saved, answer, client>>

\* strategy_assign, in one transaction.
Assign(D, G, U, s) ==
  /\ D # {} \/ G # {} \/ U # {}
  /\ direct' = [d \in Devices |-> IF d \in D THEN s ELSE direct[d]]
  /\ groups' = [g \in Groups |-> IF g \in G /\ GroupExists(g) THEN s ELSE groups[g]]
  /\ user' = [u \in Users |-> IF u \in U THEN s ELSE user[u]]
  /\ UNCHANGED <<strategy, group, owner, now, saved, answer, client>>

\* device_groups and device_group_detail, PATCH.
SaveGroup(g, s) ==
  /\ groups' = [groups EXCEPT ![g] = s]
  /\ UNCHANGED <<strategy, direct, group, owner, user, now, saved, answer, client>>

DeleteGroup(g) ==
  /\ GroupExists(g)
  /\ groups' = [groups EXCEPT ![g] = "none"]
  /\ group' = Without(group, g)
  /\ UNCHANGED <<strategy, direct, owner, user, now, saved, answer, client>>

\* device_group_detail, POST, and device_assign.
Join(d, g) ==
  /\ GroupExists(g)
  /\ group' = [group EXCEPT ![d] = g]
  /\ UNCHANGED <<strategy, direct, owner, groups, user, now, saved, answer, client>>

\* device_group_remove_devices takes a device out of that group only.
Leave(d, g) ==
  /\ GroupExists(g) /\ group[d] = g
  /\ group' = [group EXCEPT ![d] = None]
  /\ UNCHANGED <<strategy, direct, owner, groups, user, now, saved, answer, client>>

\* device_assign, user_name; the device signs in for its new owner.
SetOwner(d, u) ==
  /\ owner[d] # u
  /\ owner' = [owner EXCEPT ![d] = u]
  /\ UNCHANGED <<strategy, direct, group, groups, user, now, saved, answer, client>>

\* user_delete: his devices have no owner, and an account made later under
\* his name has no strategy.
DeleteUser(u) ==
  /\ owner' = Without(owner, u)
  /\ user' = [user EXCEPT ![u] = None]
  /\ UNCHANGED <<strategy, direct, group, groups, now, saved, answer, client>>

-----------------------------------------------------------------------------
(* The device                                                              *)

\* The strategy of the device, else of its group, else of its owner.
Effective(d) ==
  CASE direct[d] # None                                                -> direct[d]
    [] direct[d] = None /\ group[d] # None /\ groups[group[d]] # None -> groups[group[d]]
    [] OTHER -> IF owner[d] = None THEN None ELSE user[owner[d]]

InForce(d) == Effective(d) # None /\ strategy[Effective(d)].enabled

\* Mutant: only a newer version is sent.
Differs_Newer(d) == strategy[Effective(d)].updated > client[d].at

Differs(d) == strategy[Effective(d)].updated # client[d].at

Heartbeat(d) ==
  /\ owner[d] # None /\ answer[d] = None
  /\ InForce(d) /\ Differs(d)
  /\ answer' = [answer EXCEPT ![d] = [at |-> strategy[Effective(d)].updated,
                                      options |-> strategy[Effective(d)].options]]
  /\ UNCHANGED <<table, now, saved, client>>

Receive(d) ==
  /\ answer[d] # None
  /\ client' = [client EXCEPT ![d] = answer[d]]
  /\ answer' = [answer EXCEPT ![d] = None]
  /\ UNCHANGED <<table, now, saved>>

Lose(d) ==
  /\ answer[d] # None
  /\ answer' = [answer EXCEPT ![d] = None]
  /\ UNCHANGED <<table, now, saved, client>>

Tick ==
  /\ now < MaxTime
  /\ now' = now + 1 /\ saved' = FALSE
  /\ UNCHANGED <<table, answer, client>>

Administer ==
  \/ \E s \in Strategies :
       \/ \E e \in BOOLEAN : SetStatus(s, e) \/ \E o \in Options : SaveStrategy(s, o, e)
       \/ DeleteStrategy(s)
  \/ \E s \in Assignable :
       \/ \E D \in SUBSET Devices : Assign(D, {}, {}, s)
       \/ \E G \in SUBSET Groups : Assign({}, G, {}, s)
       \/ \E U \in SUBSET Users : Assign({}, {}, U, s)
       \/ Assign(Devices, Groups, Users, s)
  \/ \E g \in Groups : DeleteGroup(g) \/ \E s \in Assignable : SaveGroup(g, s)
  \/ \E d \in Devices :
       \/ \E g \in Groups : Join(d, g) \/ Leave(d, g)
       \/ \E u \in Users : SetOwner(d, u)
  \/ \E u \in Users : DeleteUser(u)

Next == Administer \/ Tick \/ \E d \in Devices : Heartbeat(d) \/ Receive(d) \/ Lose(d)

\* Devices keep sending heartbeats, and not every answer is lost.
Fairness == \A d \in Devices : WF_vars(Heartbeat(d)) /\ SF_vars(Receive(d))

Spec == Init /\ [][Next]_vars /\ Fairness

-----------------------------------------------------------------------------
(* Properties                                                              *)

\* A heartbeat brings nothing new only if the device has the options of its
\* effective strategy, through whatever assignments, edits and deletions, but
\* for a version that two saves of one second share.
SilentIfCurrent ==
  \A d \in Devices :
    InForce(d) /\ ~Differs(d) /\ strategy[Effective(d)].alone
      => client[d].options = strategy[Effective(d)].options

\* Once strategies, groups and assignments are left alone, every owned device
\* gets the options in force for it, but for a version that two saves share.
Delivered ==
  <>[][UNCHANGED table]_vars =>
    \A d \in Devices :
      <>[](owner[d] # None /\ InForce(d) /\ strategy[Effective(d)].alone
             => client[d].options = strategy[Effective(d)].options)

=============================================================================

# A TLA+ model of the remote-management server

The repository is a Django application that manages remote-desktop clients: it
signs devices in, keeps their address books, records who connected to what, and
accepts session recordings.  This directory holds TLA+ modules translated from
its source, TLC configurations that check them on small instances, and proofs
checked by TLAPS.  Line numbers refer to the files under `src/`.

## How the program runs

gunicorn runs several worker processes with several threads each
(`run.sh:66-81`); every thread executes one request at a time.  All shared
state is in PostgreSQL (READ COMMITTED) and, for recordings, in a directory.
Requests are **not** wrapped in transactions (`ATOMIC_REQUESTS` is off), so a
handler is a sequence of statements that commit one by one, except inside an
explicit `transaction.atomic()` block, and rows are protected only where the
code says `select_for_update()`.  Between two statements other workers run, and
a worker may be killed (gunicorn's timeout) or lose a deadlock.

The models follow that: one action per committed statement or row-locked
transaction, a per-worker record of what the request read before, and a crash
action that rolls back what is not committed and forgets the rest.

## Inventory

| Component | State | Operations | What is hard | What makes it correct |
|---|---|---|---|---|
| Accounts, devices, device sessions (`views_api.py` 116-349, 1306-1503, 1824-1908, 3439-3854) | `UserProfile`, `RemoteDevice`, `RemoteToken` | login, logout, heartbeat, deploy, user enable/disable/delete, device assign/enable/disable/delete, purge | a session names no user: it speaks for the owner of its device *now*; revocations are separate statements; stale rows are saved and deleted | a session stays with the account, device and identity it was issued to, ends when they do, never comes back |
| OIDC sign-in (`views_api.py` 377-612, 1538-1722) | `OidcPendingAuth`, `OidcIdentity` | start, provider callback, client poll, purge | callback, poll, expiry and purge race; user creation races | one flow yields at most one session, for the account the provider named |
| Recording upload (`views_api.py` 637-746, 1977-2090) | files, lock files | new, part, tail, remove | the lock is a file with a stale-takeover rule | one writer at a time; no torn or resurrected recording |
| Share links (`views_front.py` 1056-1399) | `ShareLink` | create, accept, mark expired, purge | accept twice, expiry boundary, source changed after creation | one acceptance, only of machines the creator still owns, limited open links |
| Address books (`views_api.py` 766-867, 1186-1288, 2142-3017; `views_front.py` 497-995, 1403-2331) | profiles, peers, tags, shares, rules, audits | CRUD, share, transfer, import | authorisation read before the lock, limits, two implementations of the same rule | no access without a live share or ownership; limits hold; audit matches |
| Audit (`views_api.py` 2093-2139, 3020-3402) | `ConnLog`, `FileLog`, `AlarmLog` | new, update, close, guid, note, alarm | reports out of order or repeated; two users of one device | what was answered is recorded, once closed stays closed, guid and notes are one user's |
| Login rate limit (`views_api.py` 1291-1303, `views_front.py` 189-308) | `LoginAttempt` | fail, succeed, purge | counts and inserts interleave | not modelled: a soft limit |
| Strategies and groups (`views_api.py` 3961-4284, 1484-1501; `models_work.py` 224-234) | `StrategyProfile`, `DeviceGroup` | edit, assign, deliver by heartbeat | a cached time stamp decides what is sent | a client eventually runs the effective strategy |
| Releases (`.github/scripts/manage-release.py`, `publish-container-release.sh`, workflows) | pull request, main, tags, GitHub releases, registries | propose, merge, prepare, publish, complete, reconcile | jobs end at any step and run again; main goes on | a tag is the reviewed generated commit; a published release is complete and immutable |
| Registration, admin site, pages, exports, parsing, encryption | - | - | - | not modelled: one guarded insert, generated code, or pure functions |

Components interact through the database only.  Login, OIDC and deployment
create devices and personal address-book entries; every API handler begins with
the session lookup; the purge command deletes from four components at once.

## Modules

| Module | Models |
|---|---|
| `SessionTable` | abstract specification: what the token table promises |
| `Sessions` | accounts, devices and sessions in detail; implements `SessionTable` |
| `SessionsProofs` | its types and all its safety properties, and that it implements `SessionTable`, for all constants |
| `OneTimeOffer` | abstract specification: what is made once, taken at most once and never stands again |
| `ConnectionLog` | abstract specification: the connection log as if each request were handled alone |
| `ReleaseChannel` | abstract specification: what users see of published releases |
| `RecordUpload` | uploads to one recording under its lock file |
| `RecordUploadProofs` | its types and all its safety properties, for all constants |
| `OidcFlow` | signing in through an OpenID Connect provider; implements `OneTimeOffer` |
| `OidcFlowProofs` | its types and all its safety properties, and that it implements `OneTimeOffer`, for all constants |
| `BookAccess` | address books: owners, shares, rules and their audit, and who sees what |
| `BookAccessProofs` | its types and the safety properties that hold, for all constants |
| `BookTags` | the machines and tags of one address book and the locks that guard them |
| `BookTagsProofs` | its types and all its safety properties, for all constants |
| `ShareLinks` | links that hand machines from one user to another; implements `OneTimeOffer` |
| `ShareLinksProofs` | its types and the safety properties that hold, and that it implements `OneTimeOffer`, for all constants |
| `ConnAudit` | the connection log, its guids and notes; implements `ConnectionLog` |
| `StrategyPolicy` | strategies, device groups and their delivery by heartbeat |
| `DeviceProofs` | the types and all safety properties of `ConnAudit` and `StrategyPolicy`, and that `ConnAudit` implements `ConnectionLog`, for all constants |
| `ReleaseManager` | the release state machine up to the draft release and its tag |
| `ReleasePublish` | `ReleaseManager` together with publication; implements `ReleaseChannel` |
| `ReleasePublishProofs` | its types and all its safety properties, and that it implements `ReleaseChannel`, for all constants |
| `MC...` | the TLC instance of the module named after it |

### Sessions

*State.*  `account[u]` is `UserProfile.is_active` (or the row's absence);
`device[d]` is the `RemoteDevice` row with UUID `d` (the UUID of a row never
changes, so it indexes the table), with its primary key, client id, owner,
enabled flag and key; `token[d]` is the `RemoteToken` row of that device
(`OneToOneField`), with its own primary key, which a rotation keeps, and the
number of the secret, which a rotation changes.  `req[w]` holds the local
variables of the request worker `w` executes and the step it will take next.
`grants` and `lost` are history: what each secret was issued for, and which
secrets a crash saved from revocation.

*Actions.*  A login is `Authenticate`, a claim (`ClaimNew`, `ClaimExisting`,
`ClaimRefused`: the locked transaction of `_claim_session_device`) and an issue
(`Issue`, `IssueRefused`: that of `_issue_access_token`).  A request that
presents a secret starts with `Lookup`, the single SELECT of `_get_token_user`,
and goes on with `Reap`, `Logout`, `Heartbeat`, `Deploy`, `Redeploy` or
`Respond`.  An administrator's request starts with `AdminAuth`; handlers that
write twice have two actions with other workers in between (`DisableUser` then
`RevokeUser`, `AssignDevice` or `DisableDevice` then `RevokeDevice`,
`DeleteDeviceRevoke` then `DeleteDevice`).  `user_delete` is one transaction of
several statements: `DeleteUserBegin` takes the locks and the sessions that
exist then, `DeleteUserCommit` takes the devices that exist by then; what is
locked in between blocks the actions that would write it (`Locked`, `Held`,
`Referable`).  `Expire`, `Purge` and `Crash` are the environment.  A database
deadlock is a `Crash` of its victim.

*Abstractions.*  Passwords, rate limits, payload validation and host data are
left out; the administrator's own console session is not one of the modelled
devices, so that an administrator's request is not cut short by revoking it.
OIDC sign-in uses the same claim and issue and adds no behaviour here.

*Properties.*

- `TypeOK`: types and the two foreign keys.
- `OwnerAgreement`: the owner of a session's device is the account it was issued
  to, except in three windows (`Excused`): a revocation is still to be
  executed, its worker died before executing it, or the account is deleted.
- `ActiveAgreement`, `IdentityAgreement`: the same for the device being enabled
  and for its client id and key.
- `KeysAreOwned`: a device with an enrolled key has an owner.
- `ImplementsTable`: the session table refines `SessionTable`; in particular a
  request that still holds a closed session's row cannot reopen it.

*What the model also shows*, and nothing in the repository contradicts: between
the change of a device's owner and the revocation that follows it, the old
session authenticates the new owner (`Excused` names the window); a logout or
a reap that read its row before a new login deletes the session of that login,
because it deletes by primary key, which a rotation keeps; a login that
authenticated before its account is disabled is issued a session, which
authenticates nobody until the account is enabled again.  `heartbeat` reads the
account of the device's owner without locking it; the model reads both in one
action.

*Run and bounds.*  `agreement` checks all but the types.  Two workers: every property
relates one request to one other.  One device; two client ids and keys, because
a deployment changes them; two accounts, of which one is an administrator: an
old and a new owner.  `MaxIssues` = 2 gives a session and its successor,
`MaxRows` = 2 a device row and its re-creation.  Workers, client ids and keys
are symmetric.  No fairness is stated: a session goes because the purge deletes
by age alone.

### Proofs

The proofs hold for every set of accounts, devices, ids, keys and workers and
every bound, under the assumptions of `Sessions` (administrators are accounts;
NULL is not a value).

`SessionsProofs` shows `TypeInv`: `TypeOK` and, because a login creates and
issues with values it read earlier, `RequestsOK`: a request at those steps holds
an account and a device.  `KeysAreOwned` is inductive on top of it: the actions
that take an owner away take the key with it.

The three agreements are shown together, as the inductive
invariant `Agreement`.  None of them is inductive alone: that a session exists
under a secret that was granted needs `SecretsOK`, and `ActiveAgreement` and
`IdentityAgreement` need `OwnerAgreement`, because deleting an account disables
its *devices* and clears their keys, and is an excuse for the *grantee*.  The
argument is split by what a step can do: `StepKeeps` and `IssueKeeps` (sessions
are kept, dropped, or one is issued), `RowStep` (what may happen to the row of a
device whose session is kept), `PendingStays` and `HistoryGrows`, hence
`ExcuseStep` (an open window stays open while the session is kept).

`TableImplemented` shows `Spec => ImplementsTable` from the same step lemmas:
an issue is `Open`, any other step closes the sessions it drops.

Nothing of `Sessions` is only model-checked.

### RecordUpload

*State.*  One recording of one device.  `link` is what its name refers to,
`data[i]` the content of inode `i` (a request that opened an inode writes to it
even if the name is removed or created anew), in units: a chunk is a few units
long and `WriteUnit` is one `os.write`, so a chunk can be cut short.  `lock` is
the lock file: who created it (`Dead` once that request's worker was killed) and
whether it is older than 300 seconds.  The creator stands for the file's
identity, which the code never looks at: it unlinks by path.  `acked`,
`contended` and `robbed` are history: the units whose upload succeeded, the
requests that met a young lock, and whether a live request's lock was unlinked.

*Actions.*  `Arrive` is an authenticated and valid request (the answers 400, 401
and 413 for an oversized body change nothing).  What it asks for is chosen
when it gets the lock, for it matters to nothing before.  `CreateLock`, `LockExists`,
`StatLock`, `TakeOver` and `RefuseBusy` are the system calls of the two
iterations in `_record_file_lock`; `CreateFile`, `RemoveFile`, and `OpenFile`,
`CheckRange`, `WriteUnit`, `WriteDone` the bodies; `StorageError` an `OSError` in
any of them; `Release` the `finally` clause.  `Crash` and `Age` are the
environment.

*Properties.*

- `OneWriter`, `UploadsStay`: exclusion, and that an acknowledged upload stays,
  as long as no live request's lock is unlinked, in spite of crashes, failed
  writes and takeovers of dead locks.
- `FileBounded`, `NoHoles`: the file limit and contiguity, with no such condition:
  requests that lost their lock may damage data, but not these.
- `BusyMeansContended`: a stale lock alone never leads to 423; the second
  iteration is what this needs.

The condition of the first two is needed, and fails without anyone being slow:
two requests that saw the same stale lock take it over one after the other, the
second unlinking the fresh lock of the first.  Such takeovers are in the run,
and the unconditional properties hold through them.

*Run and bounds.*  `upload` checks all of these.  Two workers (every race is
between two), one crash (it leaves the stale lock), one inode (creating a
recording anew adds an inode nobody else writes to), a file of two units and
chunks of one or two: enough for a part that follows another, for a chunk cut
short, for offsets beyond the end, and for a chunk that exceeds the limit by
one.  Two values of data tell who wrote a unit.  No fairness is stated: a stale
lock goes only if another request comes for the same recording, and nothing
makes one come.

*Proofs.*  `TypeInv` adds that a finished upload has an inode.  `HoldersOwn` (a
request inside the `with` block created the current lock) is inductive and
gives `OneWriter`.  `BusyInv` says who must have met a young lock by which
iteration.  `FilesInv` carries what the range check established through the
write (`Fits`): the file never shrinks, so it needs no lock.  `UploadsInv` needs
`HoldersOwn`, because a write only spares what was claimed if nobody else is
between writing and claiming; what is written so far (`Written`) is in the file,
and a part's position is the end of the file.  Nothing of `RecordUpload` is only model-checked.

### OidcFlow

*State.*  `row[f]` is the `OidcPendingAuth` of flow `f` (its state and its poll
code are one: both are random and name the row); `old` says that it was created
more than `OIDC_PENDING_RETENTION_MINUTES` ago, which is its validity and the
purge's limit (`views_api.py:63`).  `user` is the accounts by name, `identity`
the account id each (issuer, subject) is bound to.  `who[f]` and `code[f]` are
the provider's: who signed in there, and whether its code was used.  `started`,
`issued` and `made` are history.

*Names.*  `_oidc_local_username` yields a base name made of the claims, if
nobody has it, or one with a hash of the subject and the attempt: the pair
`<<s, n>>`, which only this subject's sign-ins use.

*Actions.*  `CountPending` and `CreatePending` or `StartFails` are `oidc_auth`.
`Callback`, `Fetch` or `FetchFails`, `Store` and `Fail` are `oidc_callback`, and
between them `Identify`, `ChooseName`, `Clean`, `Insert` or `InsertFails` and
`Recover` are the iterations of `_resolve_oidc_user`; `Denied` and
`CallbackExpired` are its early ends.  `PollRejected`, and `PollDone` followed by
`PollIssue` or `PollRefused` with the row locked from the one to the other, are
`oidc_auth_query`.  Claiming the device and issuing the session is module
`Sessions`; here it is that a session is issued, or refused.  `SignIn` is a
person at the provider, who answers with a code or with an error but not both.
Early returns that change nothing are left out, and so is a provider removed
from the settings while a flow is pending (1677-1681): settings are fixed.

*Properties.*

- `DoneMatchesIdentity`, `OneAccountPerSubject`: the account is the person's own
  whatever insertions were lost to whom, and accounts are not made twice.
- `EarnedOnce`: at most one session, which only the lock of the poll ensures.
- `OutcomeSticks`: late or repeated callbacks do not turn an outcome.
- `ImplementsOffer`: a flow is an offer of a session (`OneTimeOffer`) whose taker
  is decided by the callback that stores an account.  It stands while its row
  is there and not failed; it is taken by the poll that issues; a row that
  fails, is refused, purged, or goes with its account is an offer discarded,
  and a request that still holds it can neither decide nor take it.

`PendingBounded`, the limit per address and by how much concurrent requests
overshoot it, is proved and in no run.

*What the model also shows*: a repeated callback whose provider code is spent
fails the flow under the first, which is then told "already consumed"; a lost
race for a name ends the sign-in at once instead of trying the next of 16
names, because `full_clean` raises a `ValidationError` that the loop does not
catch.

*Run and bounds.*  `signin` checks all of these but the limit.  Two workers; two subjects
whose names collide; two flows; two attempts (the first name, and one after a
lost race); two accounts ever, so that an account can be deleted and its name
taken again; one crash.  Deadlock is not checked: once all flows, accounts and
crashes the bounds allow are used up, no request is left to run.

No liveness is stated: a flow goes because the purge deletes by age alone.

*Proofs.*  `Inv` joins the types, `KeysOK` (primary keys are unique and never used
again), `RequestsOK`, `OneIssuer` and `FlowsOK`.  The heart is `RequestsOK`: a
request works for the subject that signed in for its flow, and the account it
is about to store is that subject's *unless it was deleted meanwhile*, which is
why a stored account, which exists, is the right one.  `OneIssuer` is the row
lock: with it, the row's presence means that nothing was issued yet.
`RequestMoves` and `RowMoves` say once what a step of a request and a change of
one row must respect; each action is an instance.  For the refinement
(`OfferImplemented`), `OfferInv` adds that primary keys do not exceed
`MaxUsers`; most steps change no flow or let rows go (`RowFades`), and what is
left is three actions: a flow is created, an account is stored in a pending
row, and a poll issues.  `Bounded` counts, next to the
live flows, the requests that have counted and not yet created.  Nothing of
`OidcFlow` is only model-checked.

### BookAccess

*State.*  `book` is the shared `AddressBookProfile` rows by primary key, with
owner and name; `personal` the users whose personal book exists.
`grant[<<b, t>>]` is what book `b` grants target `t`: the `AddressBookShare` of a
user, or the `AddressBookRule` of a group or of everyone, with its primary key,
because a save of a row that is gone inserts it again.  `audited` is the newest
`AddressBookRuleAudit` of a target.  `devices`, `taken` (shares a transfer
deleted) and `untraced` are history.

*Actions.*  Requests of several statements are several actions: `AddBook` or
`EditBook`, then `SaveBook`; `UpdateBook` or `TransferBook`, then `CommitBook`;
`DeleteBook`, `DropBook`; `PutGrant`, `WriteGrant` and `RemoveGrant`, then
`Audit` or `AuditFails`.  `CreateBook` is one statement;
`DeleteBooks` selects rows and deletes them by primary key, in one action since
an administrator may delete what a check that is out of date lets pass;
`DeviceBook` and `EnsurePersonal` are what `devices_cli` and the personal book's
handlers do.  API and web have separate handlers for the same operations; they
are one action where they agree, and a disjunct each where they do not.

*Properties.*  `ListsAgree`: the clients' list (`Listed`), the web's list
(`Accessible`) and the access check (`Access`) compute the same from books,
shares and rules, each in its own way.  `PersonalPossible`: only `devices_cli`
gives a book the reserved name, with which a personal book could never be made.
`AuditAgrees`: however requests about a target overlap, once none of them is
halfway, that is between its two statements, the newest audit entry is the rule
in force, or nothing is because a transfer to the target took his share.  No
handler enters that (`views_api.py:2320`, `views_front.py:1744`), also when
nothing else happens.  `untraced` says what the code does not exclude, for share
and entry are not one transaction: a change while another request is halfway; a
request that dies halfway, or whose actor or book is deleted; and the deletion of
a row that has meanwhile been replaced.  Without each of these clauses TLC finds
the property violated (without the last, only with four requests).  That a
request acts by a row it read before others changed it is not excused.

*Where the code parts from what it says.*  `TransferSticks`: `update_book` and
`ab_shared_add` write back a whole row they read before an administrator's
transfer, and the former owner has the book again.

*Runs and bounds.* `books`: an administrator and a user who is in the one
group, one book and its name or the reserved one, two workers and three
requests of several statements: two that overlap and one between or after, or a
death instead of the third.  A new grant gets any primary key that neither its
row nor a request about it has; two keys are enough, for at most one request
holds an old one while another makes a row.  Workers and keys are symmetric.
`transfer` needs two requests and no death.  Deadlock is not checked, for the
requests are used up.

*Proofs.*  `BaseInv` adds to the types what a request holds at each of its
steps.  `ListsAgree` follows from the types alone: each of the three lists is
the highest of the same set of rules (`SameHighest`), and a grant exists only
where its book does.  `PersonalPossible` needs that no request is about to
write the reserved name (`NameInv`).  `AuditAgrees` is about grants at rest, so
`TraceInv` says what is so while a request is halfway (`Accounted`): the rule is
what it will enter, or the entry is made and the row still the one it read.  It
is the only one, or the grant is untraced; so a first statement makes the grant
the request's own (`TraceTurns`) and the second settles it (`TraceEnds`).
`TransferSticks` is false and has no proof.

### BookTags

*State.*  The contents of one address book: `peer` (`RemotePeer`), `tag`
(`RemoteTag`, by primary key) and `link` between them.  `req[w]` is the open
transaction of a worker, with what it read; which rows it has locked, deleted or
inserted is a function of its step (`HasBook`, `LocksPeer`, `LocksTag`,
`Unlinked`, `Inserts`).  `Strip` is `str.strip`: all requests strip the names of
tags but two, the API's deletion and a device that files itself.

*Actions.*  A transaction is one action that locks and reads and one that writes
and commits: `CountTags`, `AddTag`; `CountPeers` or `CheckPeer`, `LockPeer` and
`WritePeer`; `ReadPeer` or `FileDevice` and `WritePeer`; `ReadTags`,
`WriteTags`; `ReadRename`, then `MergeTag` or `RenameTag`; `InsertPeer`,
`EnsurePeer`.  `CountPeers` looks for the machine without locking it, and
`LockPeer` is the `get_or_create` that follows.  A deletion deletes the links and
then the row (`UnlinkTag`, `DeleteTag`; `UnlinkPeers`, `DeletePeers`).  The lock
of the book is not taken by the API's rename and deletion of tags (`web =
FALSE`), by the deletions of machines, nor by the insertion of a user's own
device, which waits for it only as it commits.

*Properties.*  `TagsBounded`: at most `MAX_AB_TAGS` tags, but for one more in a
book with a padded tag: `devices_cli` (1801-1806) inserts the tag as it was sent
after the machine got it stripped, and does not count it.  `PeersBounded`: a
request that found no such machine and counted the others does not exceed
`MAX_AB_PEERS`.  One that found the machine does if the machine is deleted before
it is written, and devices that file themselves are never counted.
`MergeKeeps`: a merge loses no machine's tag.  `NoGhost`: a bulk change, which
reads names and creates what is missing, brings no tag back unless the API
removed it meanwhile.  `CirclesNeedUnlocked`: two transactions wait for each
other only if one is of those without the lock of the book, or the API deletes
the very tag the web renames; PostgreSQL then ends one (`Rollback`).

*Run and bounds.*  `tags`: room for two tags and one counted machine, three tag
rows and two machines, so that both limits are met and exceeded by one; two
workers; requests that name one tag.  Four names: one is another with white
space around it, and with two more a book can be full without either.  Workers,
tags, machines and the two other names are symmetric.

*Abstractions.*  The rows one statement locks, one after the other, are locked
in one action, so circles within a statement are not seen.  The web's deletion
of several tags is one deletion after the other.  Colours, notes and the other
fields of machines are left out, and with them the changes that touch nothing
else.

*Proofs.*  The row locks are the argument.  `BookExclusive` (one transaction has
the lock of the book) makes counts last: what `CountTags` and `CountPeers` found
below the limit still is when they insert (`TagInv`, `CountedInv`; `AskedInv`
says which requests name padded tags).  `RenameInv` is the lock of the tag that
is renamed: every link it has in the end was read under it, hence `MergeKeeps`.
`GhostInv`: the names a bulk change read are still there, but for those the API
removed.  `CirclesNeedUnlocked` follows from `BookExclusive`: of two transactions
that wait for each other one lacks the lock of the book.  Machines, tags and
names are assumed finite, for they are counted; `FillFacts` says how a request's
new tags find free rows.

### ShareLinks

*State.*  `link` is the `ShareLink` rows with their machines; `owner` the owner
of each machine's book; `copies` what links brought into a user's personal book;
`made` (the links ever created: keys are not used again) and `taken` (who
accepted each link) are history.  `req[w].moved` is the machines that changed owner or went
since a transaction read them.

*Actions.*  `Select`, `CountLinks` (which locks the creator's account) and
`CreateLink` are the making of a link; `OpenLink` (which locks the link) and
`Import`, or `Refuse`, its acceptance; `Pass`, `Purge`, `Transfer`,
`DeleteMachine` and `DeleteUser` happen meanwhile.  An account that is disabled
is one that asks for nothing, which the model allows anyway.

*Properties.*  `ActiveBounded`: concurrent requests, an administrator's for the
same creator among them, do not exceed `MAX_ACTIVE_SHARE_LINKS`.
`ImplementsOffer`: a link is an offer (`OneTimeOffer`) that stands until it is
accepted, marked expired, purged, or lost with its creator; it is taken once,
while it stands, and never stands again.  That its fifteen minutes have passed
ends it only when a request or the purge notices; an acceptance that looked in
time finishes.  `OnceTaken` (accepted at most once) follows, and is proved by
itself too.  `OnlyCreators`: what is copied was the creator's when
the link was opened; machines that move after that are excused.

*Where the code parts from what it says.*  `AccountsDeletable`: `used_by` is
declared `SET_NULL`, but a constraint refuses NULL in a used link, so an account
that accepted a link cannot be deleted until the link is purged.

*Runs and bounds.*  `links`: two accounts (creator and recipient, one an
administrator, who makes links for others), two machines, two links where one is
allowed, a book with room for one machine, two workers.  `deletable` is the same
instance.  Deadlock is not checked: when all is deleted nothing is left.

*Proofs.*  `ShareLinksProofs`: the inductive invariant joins `TypeOK`, `LocksOK`
(nobody else has the same lock), `TakenOK` (a link that can be accepted was not)
and `RequestOK`, what was read under the lock is still so: the creator has fewer
links than allowed, and the link is unused with its creator's machines.
`RequestStep` and `LinkStep` say what a step must respect that only reads or
that only takes away; `CreateLink` adds one link to a number below the limit and
`Import` spends a link, each under a lock of its own.  For the refinement
(`OfferImplemented`) the invariant says that a link somebody has locked is not
marked, and that a link that exists, or was accepted, was made; every action
but these two only lets links fade (`LinksFade`).  The set of links is assumed
finite.

### ConnAudit

*State.*  `log` is the `ConnLog` rows by their unique key, the host's device id,
uuid and session id; two rows that share device and session id, and so differ in
the uuid, are left out.
`note` says who wrote the note.  `acked` (what the host was told is recorded)
and `told` (who was given the guid) are history.

*Actions.*  The server keeps nothing of a report but its row, so reports may be
repeated and come in any order: `New`, `Update` and `ReadToClose` are enabled
whenever the row allows.  `ReadToClose` and `Close`, `ReadActive` and `Active`,
`ReadToNote` and `Note` are transactions that read a row with `FOR UPDATE` and
save it; the other writes are single statements, which wait for that lock.
`Rollback` ends a transaction, `DeleteUser` sets what refers to the account to
NULL.

*Properties.*  `Reported`: what the host was told is recorded stays recorded.
`GuidIsActors`: who was told a guid is the row's actor while the account exists,
so two users of one device do not both learn it.  `NoteIsActors`: a controller's
note is the actor's.  `ImplementsLog`: the log refines `ConnectionLog`, in which
a request reads and writes at once; so a second close, a second claim, or the
deletion of an account between a request's reading and its saving come before
or after it.  `ClosedOnce` (the time of closing is the first report's) is part
of that, and is proved by itself too.

*Run and bounds.*  `audit`: three users, two controlling devices, one
connection, two values of what a host could get wrong and of the type, three
workers: one closes, two ask.

*Proofs.*  What a transaction writes follows from the row it read; `Holding`
says that the row is still that one, and `Exclusive` that nobody else has it
locked.  With these, each property is a property of one row (`RecordOK`), and
every action either begins a transaction (`BeginKeeps`) or saves one row
(`SaveKeeps`).  `DeleteUser` changes many rows but waits for those that are
locked.  For the refinement (`LogImplemented`), `LogSaved` says what saving one
row changes of the abstract log and `LogClaimed` what both ways to become an
actor have in common; the save is the abstract step, the reading a stutter.  Nothing of `ConnAudit` is only model-checked.  The proofs are the first
part of `DeviceProofs`.

### StrategyPolicy

*State.*  `strategy`, `groups` and `user` are the strategies and what groups and
accounts are assigned, `direct`, `group` and `owner` the fields of a device.
`answer` is a heartbeat's answer under way, `client` the version and options the
device has; that a client keeps the `modified_at` it is sent and repeats it is
assumed of the client.  `alone` and `saved` are history: whether a strategy was
the only one saved in its second.

*Actions.*  `SaveStrategy`, `SetStatus`, `DeleteStrategy`, `Assign`,
`SaveGroup`, `DeleteGroup`, `Join`, `Leave`, `SetOwner` and `DeleteUser` are the
administrator's; `Heartbeat` reads the device with everything that decides in
one statement, so it is one action; `Receive`, `Lose` and `Tick` are the
environment.

*Properties.*  `SilentIfCurrent`: a heartbeat withholds the options only from a
device that has them, though it compares a time in seconds for equality.
`Delivered`: once the tables are left alone, every owned device gets the options
in force for it.  Both except versions that two saves of one second share, where
the code does leave a device with the wrong options.

*Run and bounds.*  `policy`: one device, group and user, two strategies with two
values of options, and two seconds: two saves in one, or in each, and a strategy
that is older than what the device has.

*Fairness.*  `Heartbeat` is weakly fair, because clients send heartbeats at an
interval for ever; `Receive` is strongly fair: the network may lose answers,
but not all of them.

*Proofs.*  The second part of `DeviceProofs`, under `ConstantsOK`, which
`StrategyPolicy` assumes (an instance does not bring the assumption along).
`SilentIfCurrent` is about a device's effective strategy now; the invariant is
about every strategy, for any may become effective: a version that a device
has, or that is on its way, and that equals the time of a strategy saved alone
in its second, comes with that strategy's options (`Genuine`).  A save keeps
this because versions and strategies are of the past until something was saved
in this second (`StrategiesOK`), whatever was deleted since.  `Delivered` is
liveness and only model-checked.

### ReleaseManager and ReleasePublish

*State.*  `main` is the commits of main, each with the pull request it was, who
merged it, and the releases that the `CHANGELOG.md` of its tree records
(`recorded`, which is not the releases of its history: a release commit may have
been reverted); `pr` the open pull request of `release/next` with the CI and
review of its exact head; `release` and `tag` GitHub's, by version; `alias` and
`latest` what the registries' tags refer to.  `manager`, `merger` and
`publisher` are the jobs that run: each kind has a concurrency group of its own,
so there is one of each, and they interleave.

*Actions.*  One writing call of the GitHub API with the reads before it.
`ReleaseManager` has `Propose`, `Close`, `Create`, `Label`, `Ready`
(`propose`), `CheckMerge` and `PutMerge` (`merge_release`), `Prepare`, `Draft`
and `Tag` (`prepare_merged_release`), the jobs' failures and `Crash`, and, as
`People` and `CI`, what developers, reviewers and CI do meanwhile: pushes,
reverts of a release commit, approvals, changes requested also after the merge,
pushes to `release/next` (which may drop the generated section), merges by hand.
A pull request with its section conflicts with any other change of the changelog
since its base (`Mergeable`).  `ReleasePublish` composes it with a publication: `Authorize`,
`Freeze`, `Verify` or `Reconcile`, `Upload`, `Mark`, `Publish`, `Complete`,
`Unlabel`, `ReconcileLatest`, `MoveLatest`, any of which may be the last.

*Abstractions.*  The evidence of an image (attestations, signatures, checksums,
what the assets contain) is the image's digest; a version is a number.  GitHub's
own "latest" flag is not modelled, nor the workflows that only test.  That the
base of a pull request is main's head when it is opened is GitHub's, and so is
that the base it reports follows main (`CheckMerge`).  `MergedValid` asks that a
release commit follow its base immediately; the code compares diff and tree, and
so would also pass one with a commit and its revert between, which is the same
tree.  Only the newest recorded release is reverted, and nobody deletes drafts or
tags by hand.

*Properties.*  `TagExact`: a tag is the commit the app merged from what it
generated for that version, on the commit before.  `VersionsIncrease`: along
main the versions of release commits rise, whoever merges them: a later one is
above every version of an earlier one that is still recorded below it, or for
which a draft was made, whatever was reverted since.  A release commit that is
reverted before its draft is made is proposed and merged once more, under the
same version, as happened to this repository's own 1.0.0 (`CHANGELOG.md:33`).  `PublishedAgrees`: every
registry's alias and all assets of a published release are of the image it
records, however many candidates were built.  `ImplementsChannel`: to users
(`ReleaseChannel`) a version appears in one step, in every registry and in the
assets as one image, though the steps before it write these one by one and any
of them may be the last; it never becomes another image, and latest is moved
only to the highest version that is complete.  `PublishedFrozen` (nothing of a
published release changes but that it becomes complete) is proved and in no
run.  `LatestRises`: the
registries' latest never goes back, also when an older release is recovered.

*Where the code parts from its documentation.*  `MergedPrepared`: if main goes on
before the CI of a release commit has ended, nothing prepares that release, and
proposals fail until somebody reverts the release commit.  This run assumes weak fairness of CI and of both jobs
(`FairSpec`), that is that what is triggered ends, and no crash.

*Runs and bounds.*  `release`: two versions (one completed or abandoned before
the next), main of four commits (two releases and pushes around them), three
pull requests (one is replaced), two images and two registries (a publication
that ends half way leaves them different), one job cut short; a job that fails
for a condition that does not hold any more is not counted.  `stranded`: one
version and three commits.  Deadlock is not checked: main ends.

*Proofs.*  `BaseInv` gives `TagExact`: a job that prepares has a commit the app
merged from a generated pull request (`ManagerInv`), and no change of main
alters what a release commit is (`MainKept`).  `CandidateInv` is what a
publication has established so far: the registries it has visited carry its
candidate, and so do the assets it uploaded; with the release a draft, nobody
else writes them, hence `PublishedAgrees` and, with `PublishedInv`,
`PublishedFrozen`.  `LatestInv` says that the release about to become latest is
complete, and the highest that is.  The same invariants make publication
`ReleaseChannel`'s single step (`ChannelImplemented`): what is offered of a draft is
nothing (`OfferedStays`), and of a published release it is kept (`OfferedKept`).
`VersionsIncrease` needs most: a proposal is made for a base and merged much
later.  `RisingInv` says that the versions of every changelog fall from newest to
oldest, so that the newest (`Baseline`), which `Propose` compares with, is the
highest; that an open proposal is above all that main's tip records and all that
was ever drafted (`PullInv`); that the job about to make one may rely on what it
read, because drafts are its own, and main gets no release commit while the
proposal that it replaces is there or it is its turn (`ProposeInv`); and that
nothing is proposed while a release is being drafted, so the draft is for the
last release commit (`DraftInv`).  `MergedPrepared` is false and has no proof.

## Proofs and model checking

TLAPS proves, for all constants, the types and every safety property that holds
of every module, invariants and action properties alike, and five refinements:
`Sessions` implements `SessionTable`, `OidcFlow` and `ShareLinks` implement
`OneTimeOffer`, `ConnAudit` implements `ConnectionLog`, and `ReleasePublish`
implements `ReleaseChannel`.  Each follows the same plan: the abstract state is a
function of the rows, the inductive invariant says what a request that has
read them may rely on, and every action is then one abstract step or none.  The bounds of the instances (`MaxIssues`,
`MaxCrashes` and so on) are constants and the theorems hold for all their
values.  Each proof module begins with the argument; in all of them the
invariant says what a request that read something may still rely on, and why: a
lock, a fact that does not change, or a check that is repeated.  Where the types
and foreign keys (`TypeOK`) were proved early, no run repeats them.

What is assumed of the constants is named in the module that declares them, and
TLC evaluates it in every run: NULL is no row and no key, administrators are
accounts, limits are numbers, and what is counted is finite.

Only model-checked: liveness (`Delivered`, and that `MergedPrepared` fails), for
TLAPS does not reason about fairness.  The three properties that runs expect to
fail (`AccountsDeletable`, `TransferSticks`, `MergedPrepared`) are false, so
there is nothing to prove.

Each component has its safety properties in one run, where the instances that
show its hazards can be joined, so that the whole set stays small enough to
repeat after every change.

## Plan

Modelled, checked and proved as planned: sessions, recordings, OIDC sign-in,
address books, share links, connection audit, strategies, releases, and the
abstract specifications of what tokens, flows, links, the connection log and
releases promise.

## Not modelled

- *Login rate limiting*: a count of recent failures followed by an insertion.
  Concurrent attempts exceed the limit, and nothing in the repository bounds by
  how much.
- *File and alarm audit*: one guarded insertion each.
- *Registration, account creation, the admin site*: single rows; a name that is
  taken meanwhile is met in `OidcFlow` (`CreateUser`).
- *Pages, lists, exports, request parsing, encryption at rest, settings*: no
  state transitions of their own.
- *Evidence of a release image*: verification of files and signatures by other
  programs, abstracted to the digest.

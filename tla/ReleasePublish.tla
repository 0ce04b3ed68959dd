--------------------------- MODULE ReleasePublish ---------------------------
(***************************************************************************)
(* Publication of a prepared release (.github/workflows/publish-           *)
(* release.yml), with the jobs of ReleaseManager that go on meanwhile: the *)
(* release is authorized, an image is frozen, the registries' aliases and  *)
(* the release's assets are brought to it, its digest is recorded, the     *)
(* release is published, completed, and the registries' latest moved.      *)
(*                                                                         *)
(* Publications run one at a time.  One may end before any step, and a     *)
(* later one, of any tag, starts from what is there then.                  *)
(***************************************************************************)
EXTENDS ReleaseManager

CONSTANT Registries   \* configured registries, with each an alias of a version

VARIABLES
  alias,     \* the image a registry's alias of a version refers to
  latest,    \* the version whose image a registry's latest refers to
  publisher  \* the publication that runs

vars == <<managerVars, crashes, alias, latest, publisher>>

-----------------------------------------------------------------------------

Published(v) == release[v] # None /\ ~release[v].draft

\* read: the digest frozen, or recorded; todo: registries not visited yet.
Publisher ==
  [step: {"idle", "freeze", "alias", "upload", "mark", "publish", "complete", "unlabel", "latest", "registries"},
   version: Versions, digest: MaybeIn(Digests), todo: SUBSET Registries]

TypeOK ==
  /\ main \in Seq(Commit) /\ Tip <= MaxCommits
  /\ green \subseteq 1 .. Tip
  /\ pr \in MaybeIn(PullRequest) /\ pulls \in 0 .. MaxPulls
  /\ release \in [Versions -> MaybeIn(Release)]
  /\ tag \in [Versions -> MaybeIn(Commits)]
  /\ manager \in [step: {"idle", "close", "create", "label", "ready", "draft", "tag"},
                  base: 1 .. Tip, version: Versions]
  /\ merger \in MaybeIn(Merger)
  /\ crashes \in 0 .. MaxCrashes
  /\ alias \in [Registries -> [Versions -> MaybeIn(Digests)]]
  /\ latest \in [Registries -> MaybeIn(Versions)]
  /\ publisher \in Publisher
  /\ publisher.step \in {"alias", "upload", "mark", "publish"} =>
       release[publisher.version] # None /\ release[publisher.version].draft

Init ==
  /\ ManagerInit
  /\ crashes = 0
  /\ alias = [r \in Registries |-> [v \in Versions |-> None]]
  /\ latest = [r \in Registries |-> None]
  /\ publisher = [step |-> "idle", version |-> 1, digest |-> None, todo |-> {}]

ManagerUnchanged == UNCHANGED <<main, green, pr, pulls, tag, manager, merger, crashes>>

-----------------------------------------------------------------------------

Subject    == publisher.version
PublisherGoto(step) == publisher' = [publisher EXCEPT !.step = step]

\* authorize: the tag is a release commit of main with successful CI, its
\* pull request still as it was approved, and the release is in order.
Authorizable(v) ==
  LET c == tag[v] IN
  /\ c # None /\ release[v] # None
  /\ c \in green
  /\ RecordValid(v, c)
  /\ Published(v) => release[v].digest # None
  /\ MergedValid(c, ~release[v].complete) /\ main[c].from.version = v

\* The tag is pushed, or a recovery of it dispatched.
Authorize(v) ==
  /\ publisher.step = "idle"
  /\ Authorizable(v)
  /\ publisher' = [step |-> "freeze", version |-> v, digest |-> None, todo |-> {}]
  /\ UNCHANGED <<release, alias, latest>> /\ ManagerUnchanged

\* Mutant: a published release is built and published again.
Freeze_Again(d) ==
  /\ publisher.step = "freeze"
  /\ Authorizable(Subject)
  /\ publisher' = [publisher EXCEPT !.step = "alias", !.digest = d, !.todo = Registries]
  /\ UNCHANGED <<release, alias, latest>> /\ ManagerUnchanged

\* The evidence job builds an image, the publish job authorizes again.
Freeze(d) ==
  /\ publisher.step = "freeze"
  /\ Authorizable(Subject) /\ ~Published(Subject)
  /\ publisher' = [publisher EXCEPT !.step = "alias", !.digest = d, !.todo = Registries]
  /\ UNCHANGED <<release, alias, latest>> /\ ManagerUnchanged

Agrees(d) ==
  /\ release[Subject].assets = d
  /\ \A r \in Registries : alias[r][Subject] = d

\* A published release is only verified.
Verify ==
  LET d == release[Subject].digest IN
  /\ publisher.step = "freeze"
  /\ Authorizable(Subject) /\ Published(Subject) /\ Agrees(d)
  /\ publisher' = [publisher EXCEPT !.step = "complete", !.digest = d]
  /\ UNCHANGED <<release, alias, latest>> /\ ManagerUnchanged

\* Mutant: an alias that is there already is taken to be right.
Reconcile_Kept(r) ==
  /\ publisher.step = "alias" /\ r \in publisher.todo
  /\ alias' = [alias EXCEPT ![r][Subject] = IF @ = None THEN publisher.digest ELSE @]
  /\ publisher' = [publisher EXCEPT !.todo = @ \ {r}]
  /\ UNCHANGED <<release, latest>> /\ ManagerUnchanged

\* publish_registry: an alias of a former candidate is moved.
Reconcile(r) ==
  /\ publisher.step = "alias" /\ r \in publisher.todo
  /\ alias' = [alias EXCEPT ![r][Subject] = publisher.digest]
  /\ publisher' = [publisher EXCEPT !.todo = @ \ {r}]
  /\ UNCHANGED <<release, latest>> /\ ManagerUnchanged

\* The first of the assets that differ is replaced, then the others.
Upload ==
  /\ \/ publisher.step = "alias" /\ publisher.todo = {}
        /\ release' = [release EXCEPT ![Subject].assets = None]
        /\ PublisherGoto("upload")
     \/ publisher.step = "upload"
        /\ release' = [release EXCEPT ![Subject].assets = publisher.digest]
        /\ PublisherGoto("mark")
  /\ UNCHANGED <<alias, latest>> /\ ManagerUnchanged

\* The digest goes into the release's notes, the point of no return.
Mark ==
  /\ publisher.step = "mark"
  /\ release[Subject].assets = publisher.digest /\ Authorizable(Subject)
  /\ release' = [release EXCEPT ![Subject].digest = publisher.digest]
  /\ PublisherGoto("publish")
  /\ UNCHANGED <<alias, latest>> /\ ManagerUnchanged

Publish ==
  /\ publisher.step = "publish"
  /\ release' = [release EXCEPT ![Subject].draft = FALSE]
  /\ PublisherGoto("complete")
  /\ UNCHANGED <<alias, latest>> /\ ManagerUnchanged

\* complete_release, once the published release has been read back.
Complete ==
  /\ publisher.step = "complete"
  /\ Agrees(publisher.digest) /\ Authorizable(Subject) /\ Published(Subject)
  /\ release' = [release EXCEPT ![Subject].complete = TRUE]
  /\ PublisherGoto("unlabel")
  /\ UNCHANGED <<alias, latest>> /\ ManagerUnchanged

Unlabel ==
  /\ publisher.step = "unlabel"
  /\ main' = [main EXCEPT ![tag[Subject]].from.pending = FALSE]
  /\ PublisherGoto("latest")
  /\ UNCHANGED <<green, pr, pulls, release, tag, manager, merger, crashes, alias, latest>>

\* Mutant: the release that was published last.
OwnsLatest_Always(v) == release[v].complete

OwnsLatest(v) == release[v].complete /\ \A x \in Completed : x <= v

ReconcileLatest ==
  /\ publisher.step = "latest"
  /\ publisher' = IF OwnsLatest(Subject)
                    THEN [publisher EXCEPT !.step = "registries", !.todo = Registries]
                    ELSE [publisher EXCEPT !.step = "idle"]
  /\ UNCHANGED <<release, alias, latest>> /\ ManagerUnchanged

\* reconcile-container-latest.sh
MoveLatest(r) ==
  /\ publisher.step = "registries" /\ r \in publisher.todo
  /\ latest' = [latest EXCEPT ![r] = Subject]
  /\ publisher' = [publisher EXCEPT !.todo = @ \ {r},
                                    !.step = IF publisher.todo = {r} THEN "idle" ELSE @]
  /\ UNCHANGED <<release, alias>> /\ ManagerUnchanged

\* A condition does not hold any more.
PublisherFails ==
  /\ \/ publisher.step \in {"freeze", "mark", "complete"} /\ ~Authorizable(Subject)
     \/ publisher.step = "freeze" /\ Published(Subject) /\ ~Agrees(release[Subject].digest)
  /\ PublisherGoto("idle")
  /\ UNCHANGED <<release, alias, latest>> /\ ManagerUnchanged

CrashPublisher ==
  /\ publisher.step # "idle"
  /\ crashes < MaxCrashes
  /\ crashes' = crashes + 1
  /\ PublisherGoto("idle")
  /\ UNCHANGED <<managerVars, alias, latest>>

Publication ==
  \/ \E v \in Versions : Authorize(v)
  \/ \E d \in Digests : Freeze(d)
  \/ Verify \/ Upload \/ Mark \/ Publish \/ Complete \/ Unlabel \/ ReconcileLatest
  \/ \E r \in Registries : Reconcile(r) \/ MoveLatest(r)
  \/ PublisherFails

Others == UNCHANGED <<alias, latest, publisher>>

Next ==
  \/ (People \/ CI \/ Manage \/ Merge) /\ Others /\ UNCHANGED crashes
  \/ Crash /\ Others
  \/ Publication
  \/ CrashPublisher

Spec == Init /\ [][Next]_vars

\* CI ends, and the jobs it triggers run and go on, as long as they can.
FairSpec ==
  /\ Spec
  /\ WF_vars(CI /\ Others /\ UNCHANGED crashes)
  /\ WF_vars(Manage /\ Others /\ UNCHANGED crashes)
  /\ WF_vars(Merge /\ Others /\ UNCHANGED crashes)

-----------------------------------------------------------------------------
(* Properties                                                              *)

\* A tag is the commit that the release app merged from the pull request it
\* generated for that version and for the commit before; and its release is
\* there, since publication, which the tag starts, needs it.
TagExact ==
  \A v \in Versions : tag[v] # None =>
    LET c == tag[v]  p == main[c].from IN
    /\ ReleaseAt(c) /\ main[c].by = "app"
    /\ p.version = v /\ p.base = c - 1 /\ p.head = "generated"
    /\ release[v] # None /\ release[v].commit = c

\* Along main the versions of the release commits rise, whoever merges them: a
\* later one is not for a version that CHANGELOG.md still records, nor, however
\* main goes on, for one of which a draft release was made, or a lower one.  A
\* commit that is reverted before that is released once more.
VersionsIncrease ==
  \A i, j \in 1 .. Tip :
    LET v == main[i].from.version IN
    /\ i < j /\ ReleaseAt(i) /\ ReleaseAt(j)
    /\ v \in Recorded(j - 1) \/ (release[v] # None /\ release[v].commit = i)
    => v < main[j].from.version

\* Every alias and all assets of a published release are of the image whose
\* digest it records, however many candidates were built before.
PublishedAgrees ==
  \A v \in Versions : Published(v) =>
    /\ release[v].digest # None /\ release[v].assets = release[v].digest
    /\ \A r \in Registries : alias[r][v] = release[v].digest

\* Nothing of a published release changes but that it becomes complete.
PublishedFrozen ==
  [][\A v \in Versions : Published(v) =>
       /\ Published(v)'
       /\ release'[v] \in {release[v], [release[v] EXCEPT !.complete = TRUE]}
       /\ \A r \in Registries : alias'[r][v] = alias[r][v]]_vars

\* A registry's latest is a completed release and never goes back to a lower
\* version, also when a release is recovered that is not the highest.
LatestRises ==
  [][\A r \in Registries :
       /\ latest'[r] # None => latest'[r] \in Completed'
       /\ latest[r] # None => latest'[r] >= latest[r]]_vars

Offered(v) ==
  IF Published(v)
  THEN {release[v].digest, release[v].assets} \cup {alias[r][v] : r \in Registries}
  ELSE {}

Channel == INSTANCE ReleaseChannel WITH
  offered <- [v \in Versions |-> Offered(v)], completed <- Completed

\* A version is offered from one step to the next, as one image everywhere,
\* and as no other ever after; latest goes to the highest completed version,
\* through crashes, rebuilt candidates and recoveries.
ImplementsChannel == Channel!Spec

\* Expected to fail.  "Release Manager [...] performs a SHA-guarded squash
\* merge, then prepares the draft Release and lightweight tag" (docs/
\* releasing.md): a commit it merged gets its tag, unless its approval goes.
MergedPrepared ==
  \A c \in Commits :
    LET merged == c <= Tip /\ MergedValid(c, TRUE) IN
    merged ~> ~merged \/ \E v \in Versions : tag[v] = c

=============================================================================

--------------------------- MODULE ReleaseManager ---------------------------
(***************************************************************************)
(* The release state machine of .github/scripts/manage-release.py, up to   *)
(* the draft release and its tag: a job proposes the next version with a   *)
(* pull request, a second merges it when its exact head is approved, and   *)
(* the first, run for the merged commit, prepares the draft and the tag.   *)
(*                                                                         *)
(* The jobs of one kind run one at a time (concurrency groups), those of   *)
(* different kinds at once, among developers' and reviewers' actions.  One *)
(* action is one writing call of the GitHub API with the reads before it.  *)
(* A commit is its place on main, a version a natural number.              *)
(***************************************************************************)
EXTENDS Naturals, Sequences, FiniteSets

CONSTANTS
  None,         \* nothing there
  Digests,      \* images that a build of a commit may make
  MaxVersion,   \* bound on versions
  MaxCommits,   \* bound on the length of main
  MaxPulls,     \* bound on the pull requests opened
  MaxCrashes    \* bound on jobs that end before they are done

\* There is a first commit and a first version.
ASSUME BoundsAssumption == /\ {MaxVersion, MaxCommits} \subseteq Nat \ {0}
                           /\ {MaxPulls, MaxCrashes} \subseteq Nat

VARIABLES
  main,     \* the commits of main
  green,    \* the commits of main whose push CI succeeded
  pr,       \* the open pull request of release/next
  pulls,    \* how many have been opened
  release,  \* GitHub's release of a version
  tag,      \* the commit a version's tag refers to
  manager,  \* the job that proposes and prepares
  merger,   \* the job that merges
  crashes

managerVars == <<main, green, pr, pulls, release, tag, manager, merger>>

-----------------------------------------------------------------------------

MaybeIn(S) == S \cup {None}
Versions   == 1 .. MaxVersion
Commits    == 1 .. MaxCommits

\* head: what prepare_candidate_tree made, or what somebody pushed later.
\* ci and review are those of the exact head.
PullRequest == [number: 1 .. MaxPulls, base: Commits, version: Versions,
                head: {"generated", "foreign"}, draft: BOOLEAN, pending: BOOLEAN,
                ci: BOOLEAN, review: {"none", "approved", "blocked"}]

\* A commit keeps the pull request it was and who merged it.  recorded is the
\* releases of the CHANGELOG.md in its tree, the newest first; the version in
\* its metadata is the newest of them.
Commit == [from: MaybeIn(PullRequest), by: {"app", "human"}, recorded: Seq(Versions)]

\* digest: of the marker container-digest; assets: of the image the uploaded
\* assets are about, if all of them are about one.
Release == [commit: Commits, draft: BOOLEAN, digest: MaybeIn(Digests),
            assets: MaybeIn(Digests), complete: BOOLEAN]

\* A merge names the pull request and its exact head.
Merger == [number: 1 .. MaxPulls, head: {"generated", "foreign"}]

ASSUME NoneAssumption ==
  None \notin Versions \cup Commits \cup Digests /\ None \notin PullRequest \cup Release \cup Merger

Tip        == Len(main)
ReleaseAt(c) == main[c].from # None
Completed  == {v \in Versions : release[v] # None /\ release[v].complete}
Incomplete == {v \in Versions : release[v] # None /\ ~release[v].complete}

\* The versions CHANGELOG.md records at a commit, and the newest of them.
Recorded(c) == {main[c].recorded[i] : i \in 1 .. Len(main[c].recorded)}
Baseline(c) == IF main[c].recorded = <<>> THEN {} ELSE {Head(main[c].recorded)}

Goto(step) == manager' = [manager EXCEPT !.step = step]

ManagerInit ==
  /\ main = <<[from |-> None, by |-> "human", recorded |-> <<>>]>>
  /\ green = {1}
  /\ pr = None
  /\ pulls = 0
  /\ release = [v \in Versions |-> None]
  /\ tag = [v \in Versions |-> None]
  /\ manager = [step |-> "idle", base |-> 1, version |-> 1]
  /\ merger = None

-----------------------------------------------------------------------------
(* Developers, reviewers and CI                                            *)

Push ==
  /\ Tip < MaxCommits
  /\ main' = Append(main, [from |-> None, by |-> "human", recorded |-> main[Tip].recorded])
  /\ UNCHANGED <<green, pr, pulls, release, tag, manager, merger>>

\* git revert of the release commit that CHANGELOG.md records last.
Revert ==
  /\ Tip < MaxCommits /\ main[Tip].recorded # <<>>
  /\ main' = Append(main, [from |-> None, by |-> "human", recorded |-> Tail(main[Tip].recorded)])
  /\ UNCHANGED <<green, pr, pulls, release, tag, manager, merger>>

MainCI(c) ==
  /\ c \in 1 .. Tip /\ c \notin green
  /\ green' = green \cup {c}
  /\ UNCHANGED <<main, pr, pulls, release, tag, manager, merger>>

HeadCI ==
  /\ pr # None /\ ~pr.ci
  /\ pr' = [pr EXCEPT !.ci = TRUE]
  /\ UNCHANGED <<main, green, pulls, release, tag, manager, merger>>

Review(review) ==
  /\ pr # None /\ pr.review # review
  /\ pr' = [pr EXCEPT !.review = review]
  /\ UNCHANGED <<main, green, pulls, release, tag, manager, merger>>

\* The review of a pull request that is merged already changes.
LateReview(c, review) ==
  /\ c \in 1 .. Tip /\ ReleaseAt(c) /\ main[c].from.review # review
  /\ main' = [main EXCEPT ![c].from.review = review]
  /\ UNCHANGED <<green, pr, pulls, release, tag, manager, merger>>

\* Somebody pushes to release/next: an approval was of the head before.
Tamper ==
  /\ pr # None /\ pr.head = "generated"
  /\ pr' = [pr EXCEPT !.head = "foreign", !.ci = FALSE,
                      !.review = IF @ = "approved" THEN "none" ELSE @]
  /\ UNCHANGED <<main, green, pulls, release, tag, manager, merger>>

\* The pull request's section conflicts with any other change of the newest.
Mergeable(kept) == Tip < MaxCommits /\ (kept => main[Tip].recorded = main[pr.base].recorded)

\* kept: the head, if somebody changed it, still has the section it was
\* generated with.
Squash(by, kept) ==
  /\ Mergeable(kept)
  /\ main' = Append(main, [from |-> pr, by |-> by,
                           recorded |-> (IF kept THEN <<pr.version>> ELSE <<>>) \o main[Tip].recorded])
  /\ pr' = None

\* Somebody merges the pull request himself.
HumanMerge(kept) ==
  /\ pr # None /\ ~pr.draft
  /\ pr.head = "generated" => kept
  /\ Squash("human", kept)
  /\ UNCHANGED <<green, pulls, release, tag, manager, merger>>

-----------------------------------------------------------------------------
(* manage: proposing                                                       *)

\* At or above the automatic version, and not below the committed one.
Proposable(v) ==
  /\ \A x \in Completed : x < v
  /\ Completed = {} => v = 1
  /\ \A x \in Baseline(Tip) : x <= v

Represents(v) == pr.base = Tip /\ pr.version = v /\ ~pr.draft /\ pr.pending

\* Validated main is current and not a release, and nothing is pending.
Propose(v) ==
  /\ manager.step = "idle"
  /\ Tip \in green /\ ~ReleaseAt(Tip)
  /\ Incomplete = {}
  /\ Proposable(v)
  /\ pr # None => ~Represents(v)
  /\ manager' = [step |-> IF pr = None THEN "create" ELSE "close", base |-> Tip, version |-> v]
  /\ UNCHANGED <<main, green, pr, pulls, release, tag, merger>>

\* close_stale_pr
Close ==
  /\ manager.step = "close" /\ pr # None
  /\ pr' = None
  /\ Goto("create")
  /\ UNCHANGED <<main, green, pulls, release, tag, merger>>

\* Mutant: what the changelog says is not looked at.
Generates_Always == manager.base <= Tip

\* render_changelog: the version is not in the changelog at the base, and
\* the last version that is has a tag to compare with.
Generates ==
  /\ manager.version \notin Recorded(manager.base)
  /\ Baseline(manager.base) \subseteq {v \in Versions : tag[v] # None}

\* Pushes release/next and opens the pull request, a draft without label.
Create ==
  /\ manager.step = "create" /\ pr = None /\ pulls < MaxPulls
  /\ Generates
  /\ pulls' = pulls + 1
  /\ pr' = [number |-> pulls + 1, base |-> manager.base, version |-> manager.version,
            head |-> "generated", draft |-> TRUE, pending |-> FALSE, ci |-> FALSE, review |-> "none"]
  /\ Goto("label")
  /\ UNCHANGED <<main, green, release, tag, merger>>

Label ==
  /\ manager.step = "label" /\ pr # None
  /\ pr' = [pr EXCEPT !.pending = TRUE]
  /\ Goto("ready")
  /\ UNCHANGED <<main, green, pulls, release, tag, merger>>

Ready ==
  /\ manager.step = "ready" /\ pr # None
  /\ pr' = [pr EXCEPT !.draft = FALSE]
  /\ Goto("idle")
  /\ UNCHANGED <<main, green, pulls, release, tag, merger>>

-----------------------------------------------------------------------------
(* merge                                                                   *)

\* validate_open_pr, validate_generated_tree, and all that is read again
\* immediately before the merge.  The base of the pull request is main as
\* GitHub has it there, and must be the one it was generated for.
CheckMerge ==
  /\ merger = None /\ pr # None
  /\ ~pr.draft /\ pr.pending
  /\ pr.head = "generated" /\ pr.base = Tip
  /\ pr.ci /\ pr.review = "approved"
  /\ merger' = [number |-> pr.number, head |-> pr.head]
  /\ UNCHANGED <<main, green, pr, pulls, release, tag, manager>>

\* GitHub merges if the head is still the one named, whatever main is now
\* that does not conflict.
PutMerge ==
  /\ merger # None /\ pr # None
  /\ merger = [number |-> pr.number, head |-> pr.head]
  /\ Squash("app", TRUE)
  /\ merger' = None
  /\ UNCHANGED <<green, pulls, release, tag, manager>>

-----------------------------------------------------------------------------
(* manage: preparing                                                       *)

\* Mutant: what the commit changed is not compared.
MergedValid_AnyBase(c, pending) ==
  LET p == main[c].from IN
  /\ ReleaseAt(c) /\ main[c].by = "app"
  /\ p.ci /\ p.review = "approved"
  /\ pending => p.pending

\* validate_merged_pr: the commit's diff from the base and its tree, which must
\* be the generated one.  So main has not gone on meanwhile; the code would
\* pass a commit and its revert, which leave no trace in the tree.
MergedValid(c, pending) ==
  LET p == main[c].from IN
  /\ ReleaseAt(c) /\ main[c].by = "app"
  /\ p.base = c - 1 /\ p.head = "generated"
  /\ p.ci /\ p.review = "approved"
  /\ pending => p.pending

\* validate_release_record, where only this job and publication write.
RecordValid(v, c) == release[v].commit = c /\ (release[v].draft => release[v].digest = None)

\* Only for the commit that is main's head.
Prepare ==
  LET v == main[Tip].from.version IN
  /\ manager.step = "idle"
  /\ Tip \in green /\ MergedValid(Tip, TRUE)
  /\ tag[v] \in {None, Tip}
  /\ release[v] # None => RecordValid(v, Tip) /\ tag[v] = None
  /\ manager' = [step |-> IF release[v] = None THEN "draft" ELSE "tag", base |-> Tip, version |-> v]
  /\ UNCHANGED <<main, green, pr, pulls, release, tag, merger>>

Draft ==
  /\ manager.step = "draft"
  /\ release' = [release EXCEPT ![manager.version] =
                   [commit |-> manager.base, draft |-> TRUE, digest |-> None, assets |-> None,
                    complete |-> FALSE]]
  /\ Goto(IF tag[manager.version] = None THEN "tag" ELSE "idle")
  /\ UNCHANGED <<main, green, pr, pulls, tag, merger>>

Tag ==
  /\ manager.step = "tag"
  /\ tag' = [tag EXCEPT ![manager.version] = manager.base]
  /\ Goto("idle")
  /\ UNCHANGED <<main, green, pr, pulls, release, merger>>

-----------------------------------------------------------------------------

\* GitHub refuses a call, or nothing can be generated: the job fails.
ManagerFails ==
  /\ \/ manager.step = "close" /\ pr = None
     \/ manager.step = "create" /\ ~Generates
  /\ Goto("idle")
  /\ UNCHANGED <<main, green, pr, pulls, release, tag, merger>>

MergerFails ==
  /\ merger # None
  /\ pr # None => merger # [number |-> pr.number, head |-> pr.head] \/ ~Mergeable(TRUE)
  /\ merger' = None
  /\ UNCHANGED <<main, green, pr, pulls, release, tag, manager>>

\* A job is cancelled, or loses its runner.
Crash ==
  /\ crashes < MaxCrashes
  /\ crashes' = crashes + 1
  /\ \/ manager.step # "idle" /\ Goto("idle") /\ UNCHANGED merger
     \/ merger # None /\ merger' = None /\ UNCHANGED manager
  /\ UNCHANGED <<main, green, pr, pulls, release, tag>>

People ==
  \/ Push \/ Revert \/ Tamper \/ \E kept \in BOOLEAN : HumanMerge(kept)
  \/ \E r \in {"none", "approved", "blocked"} : Review(r) \/ \E c \in Commits : LateReview(c, r)

CI == HeadCI \/ \E c \in Commits : MainCI(c)

Manage ==
  \/ \E v \in Versions : Propose(v)
  \/ Close \/ Create \/ Label \/ Ready
  \/ Prepare \/ Draft \/ Tag
  \/ ManagerFails

Merge == CheckMerge \/ PutMerge \/ MergerFails

=============================================================================

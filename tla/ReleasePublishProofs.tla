------------------------ MODULE ReleasePublishProofs ------------------------
(***************************************************************************)
(* What holds of ReleasePublish for every set of images and registries and *)
(* every bound: types, that a tag is the generated and approved commit,    *)
(* that versions rise along main, and that a published release agrees with *)
(* the registries for good, so that what users see is a ReleaseChannel.    *)
(***************************************************************************)
EXTENDS ReleasePublish, TLAPS

-----------------------------------------------------------------------------
(* The jobs and what they have established                                 *)

VersionAt(i) == main[i].from.version

\* The commit that the release app merged for a version.
ReleaseOf(c, v) ==
  /\ c \in 1 .. Tip /\ ReleaseAt(c) /\ main[c].by = "app"
  /\ VersionAt(c) = v /\ main[c].from.base = c - 1 /\ main[c].from.head = "generated"

\* The job that prepares has a release commit; a draft is new, a tag is for
\* the release that is there.
ManagerInv ==
  /\ manager.step \in {"draft", "tag"} => ReleaseOf(manager.base, manager.version)
  /\ manager.step = "draft" =>
       release[manager.version] = None /\ tag[manager.version] \in {None, manager.base}
  /\ manager.step = "tag" =>
       release[manager.version] # None /\ release[manager.version].commit = manager.base

TagInv ==
  \A v \in Versions : tag[v] # None =>
    ReleaseOf(tag[v], v) /\ release[v] # None /\ release[v].commit = tag[v]

\* A publication has its tag, and until it publishes a draft.
PublisherInv ==
  /\ publisher.step # "idle" => tag[Subject] # None
  /\ publisher.step \in {"alias", "upload", "mark", "publish", "complete"} =>
       publisher.digest \in Digests

BaseInv == TypeOK /\ ManagerInv /\ TagInv /\ PublisherInv

\* The registries visited have the alias of the candidate, and what is about
\* to be published is about it.
CandidateInv ==
  /\ publisher.step = "alias" =>
       \A r \in Registries \ publisher.todo : alias[r][Subject] = publisher.digest
  /\ publisher.step \in {"upload", "mark", "publish"} =>
       \A r \in Registries : alias[r][Subject] = publisher.digest
  /\ publisher.step = "publish" =>
       release[Subject].assets = publisher.digest /\ release[Subject].digest = publisher.digest

\* latest is complete, and so is the release that is about to be latest, the
\* highest of them.
LatestInv ==
  /\ \A r \in Registries : latest[r] # None => latest[r] \in Completed
  /\ publisher.step \in {"unlabel", "latest", "registries"} => Subject \in Completed
  /\ publisher.step = "registries" => \A x \in Completed : x <= Subject

-----------------------------------------------------------------------------
(* main                                                                    *)

LEMMA MainFacts ==
  ASSUME TypeOK
  PROVE  /\ main \in Seq(Commit) /\ Tip \in Nat /\ Tip <= MaxCommits
         /\ \A i \in 1 .. Tip : /\ i \in Commits /\ main[i] \in Commit
                                /\ ReleaseAt(i) => main[i].from \in PullRequest
<1>1. main \in Seq(Commit) /\ Len(main) \in Nat /\ Len(main) <= MaxCommits
  BY DEF TypeOK, Tip
<1>2. \A i \in 1 .. Len(main) : main[i] \in Commit
  BY <1>1
<1>3. \A e \in Commit : e.from # None => e.from \in PullRequest
  BY DEF Commit, MaybeIn
<1>4. 1 .. Len(main) \subseteq Commits
  BY <1>1, BoundsAssumption DEF Commits
<1> QED BY <1>1, <1>2, <1>3, <1>4 DEF Tip, ReleaseAt

\* What a release commit is stays, but for its review and its label.
MainKept ==
  /\ Tip <= Tip'
  /\ \A i \in 1 .. Tip :
       /\ ReleaseAt(i)' <=> ReleaseAt(i)
       /\ main'[i].by = main[i].by /\ main'[i].recorded = main[i].recorded
       /\ ReleaseAt(i) => /\ main'[i].from.version = main[i].from.version
                          /\ main'[i].from.base = main[i].from.base
                          /\ main'[i].from.head = main[i].from.head

LEMMA EditMain ==
  ASSUME TypeOK, NEW c \in 1 .. Tip, ReleaseAt(c), NEW p \in PullRequest,
         p.version = main[c].from.version, p.base = main[c].from.base, p.head = main[c].from.head,
         main' = [main EXCEPT ![c] = [main[c] EXCEPT !.from = p]]
  PROVE  main' \in Seq(Commit) /\ Tip' = Tip /\ MainKept
<1>1. main \in Seq(Commit) /\ main[c] \in Commit /\ Tip \in Nat
  BY MainFacts
<1>2. [main[c] EXCEPT !.from = p] \in Commit
  BY <1>1 DEF Commit, MaybeIn
<1> DEFINE e == [main[c] EXCEPT !.from = p]
<1>3. e \in Commit /\ e.from = p /\ e.by = main[c].by /\ e.recorded = main[c].recorded
  BY <1>1, <1>2 DEF Commit
<1> HIDE DEF e
<1>4. main' = [main EXCEPT ![c] = e]
  BY DEF e
<1>5. /\ main' \in Seq(Commit) /\ Len(main') = Len(main)
      /\ \A i \in 1 .. Len(main) : main'[i] = IF i = c THEN e ELSE main[i]
  BY <1>1, <1>3, <1>4 DEF Tip
<1>6. p # None
  BY NoneAssumption
<1> QED BY <1>1, <1>3, <1>5, <1>6 DEF Tip, MainKept, ReleaseAt

LEMMA LateReviewMain ==
  ASSUME TypeOK, NEW c \in Commits, NEW review \in {"none", "approved", "blocked"},
         LateReview(c, review)
  PROVE  main' \in Seq(Commit) /\ Tip' = Tip /\ MainKept
<1> DEFINE p == [main[c].from EXCEPT !.review = review]
<1>1. c \in 1 .. Tip /\ ReleaseAt(c) /\ main[c].from \in PullRequest
  BY MainFacts DEF LateReview
<1>2. /\ p \in PullRequest /\ p.version = main[c].from.version
      /\ p.base = main[c].from.base /\ p.head = main[c].from.head
  BY <1>1 DEF PullRequest
<1>3. main' = [main EXCEPT ![c] = [main[c] EXCEPT !.from = p]]
  BY DEF LateReview
<1> HIDE DEF p
<1> QED BY <1>1, <1>2, <1>3, EditMain

LEMMA UnlabelMain ==
  ASSUME TypeOK, TagInv, PublisherInv, Unlabel
  PROVE  main' \in Seq(Commit) /\ Tip' = Tip /\ MainKept
<1> DEFINE c == tag[Subject]
           p == [main[c].from EXCEPT !.pending = FALSE]
<1>1. Subject \in Versions /\ c # None
  BY DEF Unlabel, PublisherInv, TypeOK, Publisher, Subject
<1>2. c \in 1 .. Tip /\ ReleaseAt(c) /\ main[c].from \in PullRequest
  BY <1>1, MainFacts DEF TagInv, ReleaseOf
<1>3. /\ p \in PullRequest /\ p.version = main[c].from.version
      /\ p.base = main[c].from.base /\ p.head = main[c].from.head
  BY <1>2 DEF PullRequest
<1>4. main' = [main EXCEPT ![c] = [main[c] EXCEPT !.from = p]]
  BY DEF Unlabel
<1> HIDE DEF p, c
<1> QED BY <1>2, <1>3, <1>4, EditMain

LEMMA AppendMain ==
  ASSUME TypeOK, Tip < MaxCommits, NEW e \in Commit, main' = Append(main, e)
  PROVE  main' \in Seq(Commit) /\ Tip' = Tip + 1 /\ MainKept /\ main'[Tip + 1] = e
<1>1. main \in Seq(Commit) /\ Tip \in Nat
  BY MainFacts
<1>2. /\ main' \in Seq(Commit) /\ Len(main') = Len(main) + 1 /\ main'[Len(main) + 1] = e
      /\ \A i \in 1 .. Len(main) : main'[i] = main[i]
  BY <1>1 DEF Tip
<1> QED BY <1>1, <1>2 DEF Tip, MainKept, ReleaseAt

LEMMA TipFacts ==
  ASSUME TypeOK
  PROVE  Tip \in 1 .. Tip /\ \A i \in 1 .. Tip : main[i].recorded \in Seq(Versions)
<1>1. Tip \in Nat /\ manager.base \in 1 .. Tip
  BY MainFacts DEF TypeOK
<1>2. \A i \in 1 .. Tip : main[i] \in Commit
  BY MainFacts
<1>3. \A e \in Commit : e.recorded \in Seq(Versions)
  BY DEF Commit
<1> QED BY <1>1, <1>2, <1>3

\* What a new commit's changelog records: the same as before, without the
\* newest release, or one more, that of the pull request.
Appended ==
  LET before == main[Tip].recorded  after == main'[Tip + 1].recorded IN
  \/ /\ main'[Tip + 1].from = None /\ pr' = pr
     /\ after = before \/ (before # <<>> /\ after = Tail(before))
  \/ /\ pr # None /\ main'[Tip + 1].from = pr /\ pr' = None
     /\ after \in {before, <<pr.version>> \o before}

\* Every step keeps main, or adds a commit: of the pull request, which is
\* closed by that, or of nobody's release.
LEMMA MainStep ==
  ASSUME BaseInv, [Next]_vars
  PROVE  /\ main' \in Seq(Commit) /\ MainKept
         /\ \/ Tip' = Tip
            \/ /\ Tip < MaxCommits /\ Tip' = Tip + 1 /\ Appended
               /\ UNCHANGED <<manager, release, tag>>
<1>0. TypeOK /\ TagInv /\ PublisherInv
  BY DEF BaseInv
<1>1. CASE UNCHANGED main
  BY <1>0, <1>1, MainFacts DEF MainKept, ReleaseAt, Tip
<1>2. CASE Push \/ Revert
  <2> DEFINE s == IF Push THEN main[Tip].recorded ELSE Tail(main[Tip].recorded)
             e == [from |-> None, by |-> "human", recorded |-> s]
  <2>1. s \in Seq(Versions)
    BY <1>0, <1>2, TipFacts DEF Revert
  <2>2. /\ Tip < MaxCommits /\ main' = Append(main, e) /\ UNCHANGED <<pr, manager, release, tag>>
        /\ s = main[Tip].recorded \/ (main[Tip].recorded # <<>> /\ s = Tail(main[Tip].recorded))
    BY <1>2 DEF Push, Revert
  <2> HIDE DEF s
  <2>3. e \in Commit /\ e.from = None /\ e.recorded = s
    BY <2>1 DEF Commit, MaybeIn
  <2> HIDE DEF e
  <2>4. /\ main' \in Seq(Commit) /\ Tip' = Tip + 1 /\ MainKept
        /\ main'[Tip + 1].from = None /\ main'[Tip + 1].recorded = s
    BY <1>0, <2>2, <2>3, AppendMain
  <2> QED BY <2>2, <2>4 DEF Appended
<1>3. ASSUME NEW c \in Commits, NEW r \in {"none", "approved", "blocked"}, LateReview(c, r)
      PROVE  main' \in Seq(Commit) /\ Tip' = Tip /\ MainKept
  BY <1>0, <1>3, LateReviewMain
<1>4. ASSUME NEW by \in {"app", "human"}, NEW kept \in BOOLEAN, Squash(by, kept), pr # None
      PROVE  /\ main' \in Seq(Commit) /\ MainKept /\ Tip < MaxCommits /\ Tip' = Tip + 1
             /\ main'[Tip + 1].from = pr /\ pr' = None
             /\ main'[Tip + 1].recorded \in {main[Tip].recorded, <<pr.version>> \o main[Tip].recorded}
  <2>0. Tip < MaxCommits
    BY <1>4 DEF Squash, Mergeable
  <2>1. pr \in PullRequest
    BY <1>0, <1>4 DEF TypeOK, MaybeIn
  <2>2. main[Tip].recorded \in Seq(Versions) /\ <<pr.version>> \in Seq(Versions)
    BY <1>0, <2>1, TipFacts DEF PullRequest
  <2> DEFINE s == (IF kept THEN <<pr.version>> ELSE <<>>) \o main[Tip].recorded
             e == [from |-> pr, by |-> by, recorded |-> s]
  <2>3. s \in Seq(Versions) /\ s \in {main[Tip].recorded, <<pr.version>> \o main[Tip].recorded}
    <3>1. \A t \in Seq(Versions) : <<>> \o t = t /\ <<pr.version>> \o t \in Seq(Versions)
      BY <2>2
    <3> QED BY <2>2, <3>1
  <2>4. main' = Append(main, e) /\ pr' = None
    BY <1>4 DEF Squash
  <2> HIDE DEF s
  <2>5. e \in Commit /\ e.from = pr /\ e.recorded = s
    BY <2>1, <2>3 DEF Commit, MaybeIn
  <2> HIDE DEF e
  <2> QED BY <1>0, <1>4, <2>0, <2>3, <2>4, <2>5, AppendMain
<1>5. CASE Unlabel
  BY <1>0, <1>5, UnlabelMain
<1> QED
  BY <1>1, <1>2, <1>3, <1>4, <1>5
  DEF Appended, Next, vars, managerVars, People, CI, Manage, Merge, HumanMerge, Tamper, Review, HeadCI, MainCI,
      Propose, Close, Create, Label, Ready, Prepare, Draft, Tag, ManagerFails,
      CheckMerge, PutMerge, MergerFails, Crash, Publication, CrashPublisher, ManagerUnchanged,
      Authorize, Freeze, Verify, Upload, Mark, Publish, Complete, ReconcileLatest, Reconcile,
      MoveLatest, PublisherFails

-----------------------------------------------------------------------------
(* Types                                                                   *)

\* A release that is there stays where only its publication writes it.
LEMMA ReleaseType ==
  ASSUME TypeOK, NEW v \in Versions, NEW r \in Release, release' = [release EXCEPT ![v] = r]
  PROVE  /\ release' \in [Versions -> MaybeIn(Release)]
         /\ release'[v] = r /\ \A x \in Versions : x # v => release'[x] = release[x]
BY DEF TypeOK, MaybeIn

LEMMA PublisherType ==
  ASSUME TypeOK, NEW step \in {"idle", "freeze", "alias", "upload", "mark", "publish", "complete",
                               "unlabel", "latest", "registries"},
         PublisherGoto(step)
  PROVE  /\ publisher' \in Publisher /\ publisher'.step = step
         /\ publisher'.version = publisher.version /\ publisher'.digest = publisher.digest
         /\ publisher'.todo = publisher.todo
BY DEF TypeOK, PublisherGoto, Publisher

\* The release that a candidate is for.
LEMMA SubjectFacts ==
  ASSUME TypeOK
  PROVE  /\ Subject \in Versions /\ publisher \in Publisher
         /\ publisher.step \in {"alias", "upload", "mark", "publish"} =>
              release[Subject] \in Release /\ release[Subject].draft
         /\ \A v \in Versions : release[v] # None => release[v] \in Release
BY DEF TypeOK, Subject, Publisher, MaybeIn

LEMMA UploadFacts ==
  ASSUME TypeOK, PublisherInv, Upload
  PROVE  \E a \in MaybeIn(Digests) :
           /\ release' = [release EXCEPT ![Subject] = [release[Subject] EXCEPT !.assets = a]]
           /\ [release[Subject] EXCEPT !.assets = a] \in Release
           /\ publisher.step \in {"alias", "upload"}
           /\ release[Subject] \in Release /\ release[Subject].draft
<1>1. publisher.step \in {"alias", "upload"} /\ release[Subject] \in Release /\ release[Subject].draft
  BY SubjectFacts DEF Upload
<1>2. \A a \in MaybeIn(Digests) : [release[Subject] EXCEPT !.assets = a] \in Release
  BY <1>1 DEF Release
<1>3. CASE publisher.step = "alias"
  <2>1. None \in MaybeIn(Digests)
    BY DEF MaybeIn
  <2> QED BY <1>1, <1>2, <1>3, <2>1 DEF Upload
<1>4. CASE publisher.step = "upload"
  <2>1. publisher.digest \in MaybeIn(Digests)
    BY <1>4 DEF PublisherInv, MaybeIn
  <2> QED BY <1>1, <1>2, <1>4, <2>1 DEF Upload
<1> QED BY <1>1, <1>3, <1>4

LEMMA MarkFacts ==
  ASSUME TypeOK, PublisherInv, Mark \/ Publish \/ Complete
  PROVE  \E r \in Release :
           /\ release' = [release EXCEPT ![Subject] = r]
           /\ release[Subject] \in Release /\ r.commit = release[Subject].commit
           /\ Mark => r = [release[Subject] EXCEPT !.digest = publisher.digest] /\ r.draft
           /\ Publish => r = [release[Subject] EXCEPT !.draft = FALSE]
           /\ Complete => r = [release[Subject] EXCEPT !.complete = TRUE]
<1>1. release[Subject] \in Release
  BY SubjectFacts DEF Mark, Publish, Complete, Published
<1>2. CASE Mark
  <2>1. publisher.digest \in MaybeIn(Digests) /\ release[Subject].draft
    BY <1>2, SubjectFacts DEF Mark, PublisherInv, MaybeIn
  <2> DEFINE r == [release[Subject] EXCEPT !.digest = publisher.digest]
  <2>2. r \in Release /\ r.commit = release[Subject].commit /\ r.draft
    BY <1>1, <2>1 DEF Release
  <2>3. release' = [release EXCEPT ![Subject] = r] /\ ~Publish /\ ~Complete
    BY <1>2 DEF Mark, Publish, Complete
  <2> QED BY <1>1, <2>2, <2>3
<1>3. CASE Publish
  <2> DEFINE r == [release[Subject] EXCEPT !.draft = FALSE]
  <2>2. r \in Release /\ r.commit = release[Subject].commit
    BY <1>1 DEF Release
  <2>3. release' = [release EXCEPT ![Subject] = r] /\ ~Mark /\ ~Complete
    BY <1>3 DEF Mark, Publish, Complete
  <2> QED BY <1>1, <2>2, <2>3
<1>4. CASE Complete
  <2> DEFINE r == [release[Subject] EXCEPT !.complete = TRUE]
  <2>2. r \in Release /\ r.commit = release[Subject].commit
    BY <1>1 DEF Release
  <2>3. release' = [release EXCEPT ![Subject] = r] /\ ~Publish /\ ~Mark
    BY <1>4 DEF Mark, Publish, Complete
  <2> QED BY <1>1, <2>2, <2>3
<1> QED BY <1>2, <1>3, <1>4

LEMMA DraftFacts ==
  ASSUME TypeOK, Draft
  PROVE  LET r == [commit |-> manager.base, draft |-> TRUE, digest |-> None, assets |-> None,
                   complete |-> FALSE]
         IN  /\ r \in Release /\ manager.version \in Versions
             /\ release' = [release EXCEPT ![manager.version] = r]
<1>1. manager.base \in Commits /\ manager.version \in Versions
  BY MainFacts DEF TypeOK
<1> QED BY <1>1 DEF Draft, Release, MaybeIn

ManagerStates ==
  [step: {"idle", "close", "create", "label", "ready", "draft", "tag"},
   base: 1 .. Tip, version: Versions]

LEMMA GotoType ==
  ASSUME TypeOK, Tip' = Tip,
         NEW step \in {"idle", "close", "create", "label", "ready", "draft", "tag"}, Goto(step)
  PROVE  /\ manager' \in ManagerStates' /\ manager'.step = step
         /\ manager'.base = manager.base /\ manager'.version = manager.version
BY DEF TypeOK, Goto, ManagerStates

LEMMA TypePull == BaseInv /\ [Next]_vars => pr' \in MaybeIn(PullRequest) /\ pulls' \in 0 .. MaxPulls
<1> SUFFICES ASSUME BaseInv, [Next]_vars PROVE pr' \in MaybeIn(PullRequest) /\ pulls' \in 0 .. MaxPulls
  OBVIOUS
<1>0. pr \in MaybeIn(PullRequest) /\ pulls \in 0 .. MaxPulls /\ TypeOK
  BY DEF BaseInv, TypeOK
<1>1. pr # None => pr \in PullRequest
  BY <1>0 DEF MaybeIn
<1>2. CASE UNCHANGED pulls /\ pr' \in {pr, None}
  BY <1>0, <1>2 DEF MaybeIn
<1>3. CASE HeadCI \/ Label \/ Ready \/ Tamper \/ \E r \in {"none", "approved", "blocked"} : Review(r)
  <2>1. pr \in PullRequest /\ pr' \in PullRequest /\ pulls' = pulls
    BY <1>1, <1>3 DEF HeadCI, Label, Ready, Tamper, Review, PullRequest
  <2> QED BY <1>0, <2>1 DEF MaybeIn
<1>4. CASE Create
  <2>1. manager.base \in Commits /\ manager.version \in Versions
    BY <1>0, MainFacts DEF TypeOK
  <2>2. pulls' = pulls + 1 /\ pulls' \in 1 .. MaxPulls
    BY <1>0, <1>4, BoundsAssumption DEF Create
  <2>3. pr' \in PullRequest
    BY <1>4, <2>1, <2>2 DEF Create, PullRequest
  <2> QED BY <2>2, <2>3 DEF MaybeIn
<1> QED
  BY <1>2, <1>3, <1>4
  DEF Next, vars, managerVars, People, CI, Manage, Merge, HumanMerge, LateReview, MainCI, Push, Revert,
      Propose, Close, Prepare, Draft, Tag, ManagerFails, CheckMerge, PutMerge, MergerFails,
      Crash, Publication, CrashPublisher, ManagerUnchanged, Others, Authorize, Freeze, Verify,
      Upload, Mark, Publish, Complete, Unlabel, ReconcileLatest, Reconcile, MoveLatest,
      PublisherFails, Squash

LEMMA TypeManager ==
  BaseInv /\ [Next]_vars => manager' \in ManagerStates' /\ merger' \in MaybeIn(Merger)
<1> SUFFICES ASSUME BaseInv, [Next]_vars
             PROVE  manager' \in ManagerStates' /\ merger' \in MaybeIn(Merger)
  OBVIOUS
<1>0. TypeOK /\ manager \in ManagerStates /\ merger \in MaybeIn(Merger) /\ Tip \in Nat
  BY MainFacts DEF BaseInv, TypeOK, ManagerStates
<1>1. Tip <= Tip' /\ Tip' \in Nat
  BY <1>0, MainStep DEF MainKept
<1>2. UNCHANGED manager => manager' \in ManagerStates'
  BY <1>0, <1>1 DEF ManagerStates
<1>3. ASSUME NEW step \in {"idle", "close", "create", "label", "ready", "draft", "tag"},
             NEW c \in 1 .. Tip, NEW v \in Versions,
             manager' = [step |-> step, base |-> c, version |-> v]
      PROVE  manager' \in ManagerStates'
  BY <1>0, <1>1, <1>3 DEF ManagerStates
<1>4. ASSUME NEW step \in {"idle", "close", "create", "label", "ready", "draft", "tag"}, Goto(step)
      PROVE  manager' \in ManagerStates'
  <2>1. manager.base \in 1 .. Tip /\ manager.version \in Versions
    BY <1>0 DEF ManagerStates
  <2>2. manager' = [step |-> step, base |-> manager.base, version |-> manager.version]
    BY <1>0, <1>4 DEF Goto, ManagerStates
  <2> QED BY <1>3, <2>1, <2>2
<1>5. ASSUME NEW v \in Versions, Propose(v) PROVE manager' \in ManagerStates'
  <2>1. Tip \in 1 .. Tip
    BY <1>0, <1>5 DEF Propose, TypeOK
  <2> QED BY <1>3, <1>5, <2>1 DEF Propose
<1>6. ASSUME Prepare PROVE manager' \in ManagerStates'
  <2>1. Tip \in 1 .. Tip /\ ReleaseAt(Tip)
    BY <1>0, <1>6 DEF Prepare, TypeOK, MergedValid
  <2>2. main[Tip].from.version \in Versions
    BY <1>0, <2>1, MainFacts DEF PullRequest
  <2> DEFINE v == main[Tip].from.version
             step == IF release[v] = None THEN "draft" ELSE "tag"
  <2>3. manager' = [step |-> step, base |-> Tip, version |-> v]
    BY <1>6 DEF Prepare
  <2>4. step \in {"idle", "close", "create", "label", "ready", "draft", "tag"}
    OBVIOUS
  <2> HIDE DEF v, step
  <2>5. v \in Versions
    BY <2>2 DEF v
  <2> QED BY <1>0, <1>1, <2>1, <2>3, <2>4, <2>5 DEF ManagerStates
<1>7. CASE CheckMerge
  <2>1. pr \in PullRequest
    BY <1>0, <1>7 DEF CheckMerge, TypeOK, MaybeIn
  <2>2. merger' \in Merger
    BY <1>7, <2>1 DEF CheckMerge, PullRequest, Merger
  <2> QED BY <1>2, <1>7, <2>2 DEF CheckMerge, MaybeIn
<1>8. CASE UNCHANGED merger
  <2>1. merger' \in MaybeIn(Merger)
    BY <1>0, <1>8
  <2> QED
    BY <1>2, <1>4, <1>5, <1>6, <1>7, <2>1
  DEF Next, vars, managerVars, People, CI, Manage, Merge, HumanMerge, Tamper, Review, LateReview,
      HeadCI, MainCI, Push, Revert, Close, Create, Label, Ready, Draft, Tag, ManagerFails, PutMerge,
      MergerFails, Crash, Publication, CrashPublisher, ManagerUnchanged, Others, Authorize,
      Freeze, Verify, Upload, Mark, Publish, Complete, Unlabel, ReconcileLatest, Reconcile,
      MoveLatest, PublisherFails, Squash
<1>9. CASE merger' = None
  <2>1. merger' \in MaybeIn(Merger)
    BY <1>9 DEF MaybeIn
  <2> QED
    BY <1>2, <1>4, <1>5, <1>6, <1>7, <2>1
  DEF Next, vars, managerVars, People, CI, Manage, Merge, HumanMerge, Tamper, Review, LateReview,
      HeadCI, MainCI, Push, Revert, Close, Create, Label, Ready, Draft, Tag, ManagerFails, PutMerge,
      MergerFails, Crash, Publication, CrashPublisher, ManagerUnchanged, Others, Authorize,
      Freeze, Verify, Upload, Mark, Publish, Complete, Unlabel, ReconcileLatest, Reconcile,
      MoveLatest, PublisherFails, Squash
<1> QED
  BY <1>7, <1>8, <1>9
  DEF Next, vars, managerVars, People, CI, Manage, Merge, HumanMerge, Tamper, Review, LateReview,
      HeadCI, MainCI, Push, Revert, Propose, Close, Create, Label, Ready, Prepare, Draft, Tag,
      ManagerFails, PutMerge, MergerFails, Crash, Publication, CrashPublisher, ManagerUnchanged,
      Others, Authorize, Freeze, Verify, Upload, Mark, Publish, Complete, Unlabel,
      ReconcileLatest, Reconcile, MoveLatest, PublisherFails, Squash

LEMMA TypeRelease ==
  BaseInv /\ [Next]_vars => release' \in [Versions -> MaybeIn(Release)] /\ tag' \in [Versions -> MaybeIn(Commits)]
<1> SUFFICES ASSUME BaseInv, [Next]_vars
             PROVE  /\ release' \in [Versions -> MaybeIn(Release)]
                    /\ tag' \in [Versions -> MaybeIn(Commits)]
  OBVIOUS
<1>0. TypeOK /\ PublisherInv
  BY DEF BaseInv
<1>1. UNCHANGED release => release' \in [Versions -> MaybeIn(Release)]
  BY <1>0 DEF TypeOK
<1>2. UNCHANGED tag => tag' \in [Versions -> MaybeIn(Commits)]
  BY <1>0 DEF TypeOK
<1>3. CASE Tag
  <2>1. manager.base \in Commits /\ manager.version \in Versions
    BY <1>0, MainFacts DEF TypeOK
  <2>2. tag' \in [Versions -> MaybeIn(Commits)]
    BY <1>0, <1>3, <2>1 DEF Tag, TypeOK, MaybeIn
  <2> QED BY <1>1, <1>3, <2>2 DEF Tag
<1>4. CASE Draft
  BY <1>0, <1>2, <1>4, DraftFacts, ReleaseType DEF Draft
<1>5. CASE Upload
  BY <1>0, <1>2, <1>5, UploadFacts, ReleaseType, SubjectFacts DEF Upload, ManagerUnchanged
<1>6. CASE Mark \/ Publish \/ Complete
  BY <1>0, <1>2, <1>6, MarkFacts, ReleaseType, SubjectFacts
  DEF Mark, Publish, Complete, ManagerUnchanged
<1> QED
  BY <1>1, <1>2, <1>3, <1>4, <1>5, <1>6
  DEF Next, vars, managerVars, People, CI, Manage, Merge, HumanMerge, Tamper, Review, LateReview,
      HeadCI, MainCI, Push, Revert, Propose, Close, Create, Label, Ready, Prepare, ManagerFails,
      CheckMerge, PutMerge, MergerFails, Crash, Publication, CrashPublisher, ManagerUnchanged,
      Others, Authorize, Freeze, Verify, Unlabel, ReconcileLatest, Reconcile, MoveLatest,
      PublisherFails, Squash

LEMMA TypePublisher ==
  BaseInv /\ [Next]_vars =>
    /\ alias' \in [Registries -> [Versions -> MaybeIn(Digests)]]
    /\ latest' \in [Registries -> MaybeIn(Versions)]
    /\ publisher' \in Publisher
    /\ publisher'.step \in {"alias", "upload", "mark", "publish"} =>
         release'[publisher'.version] # None /\ release'[publisher'.version].draft
<1> SUFFICES ASSUME BaseInv, [Next]_vars
             PROVE  /\ alias' \in [Registries -> [Versions -> MaybeIn(Digests)]]
                    /\ latest' \in [Registries -> MaybeIn(Versions)]
                    /\ publisher' \in Publisher
                    /\ publisher'.step \in {"alias", "upload", "mark", "publish"} =>
                         release'[publisher'.version] # None /\ release'[publisher'.version].draft
  OBVIOUS
<1> DEFINE Candidate == publisher'.step \in {"alias", "upload", "mark", "publish"} =>
                          release'[publisher'.version] # None /\ release'[publisher'.version].draft
<1>0. TypeOK /\ PublisherInv /\ ManagerInv
  BY DEF BaseInv
<1>1. /\ Subject \in Versions /\ publisher \in Publisher
      /\ publisher.step \in {"alias", "upload", "mark", "publish"} =>
           release[Subject] \in Release /\ release[Subject].draft
  BY <1>0, SubjectFacts
<1>2. UNCHANGED alias => alias' \in [Registries -> [Versions -> MaybeIn(Digests)]]
  BY <1>0 DEF TypeOK
<1>3. UNCHANGED latest => latest' \in [Registries -> MaybeIn(Versions)]
  BY <1>0 DEF TypeOK
<1>4. CASE UNCHANGED <<alias, latest, publisher, release>>
  BY <1>0, <1>2, <1>3, <1>4 DEF TypeOK
<1>5. CASE Draft /\ Others
  <2>1. manager.version # Subject \/ publisher.step \notin {"alias", "upload", "mark", "publish"}
    BY <1>0, <1>5 DEF Draft, ManagerInv, TypeOK, Subject
  <2>2. /\ manager.version \in Versions
        /\ \A x \in Versions : x # manager.version => release'[x] = release[x]
    BY <1>0, <1>5, DraftFacts, ReleaseType
  <2>3. Candidate
    BY <1>0, <1>1, <1>5, <2>1, <2>2 DEF Others, TypeOK, Subject
  <2> QED BY <1>0, <1>2, <1>3, <1>5, <2>3 DEF Others, TypeOK
<1>6. ASSUME NEW v \in Versions, Authorize(v)
      PROVE  publisher' \in Publisher /\ Candidate /\ UNCHANGED <<alias, latest>>
  <2> DEFINE p == [step |-> "freeze", version |-> v, digest |-> None, todo |-> {}]
  <2>1. p \in Publisher /\ p.step = "freeze"
    BY DEF Publisher, MaybeIn
  <2> QED BY <1>6, <2>1 DEF Authorize
<1>7. ASSUME NEW d \in Digests, Freeze(d)
      PROVE  publisher' \in Publisher /\ Candidate /\ UNCHANGED <<alias, latest>>
  <2> DEFINE p == [publisher EXCEPT !.step = "alias", !.digest = d, !.todo = Registries]
  <2>1. p \in Publisher /\ p.version = Subject
    BY <1>1 DEF Publisher, MaybeIn, Subject
  <2>2. release[Subject] # None /\ release[Subject].draft /\ UNCHANGED <<release, alias, latest>>
        /\ publisher' = p
    BY <1>7 DEF Freeze, Authorizable, Published
  <2> QED BY <2>1, <2>2
<1>8. CASE Verify
  <2>1. release[Subject] \in Release
    BY <1>0, <1>1, <1>8, SubjectFacts DEF Verify, Published
  <2>2. release[Subject].digest \in MaybeIn(Digests)
    BY <2>1 DEF Release
  <2> DEFINE p == [publisher EXCEPT !.step = "complete", !.digest = release[Subject].digest]
  <2>3. p \in Publisher /\ p.step = "complete"
    BY <1>1, <2>2 DEF Publisher
  <2> QED BY <1>2, <1>3, <1>8, <2>3 DEF Verify
<1>9. ASSUME NEW r \in Registries, Reconcile(r)
      PROVE  /\ alias' \in [Registries -> [Versions -> MaybeIn(Digests)]]
             /\ publisher' \in Publisher /\ Candidate /\ UNCHANGED latest
  <2>1. publisher.digest \in MaybeIn(Digests) /\ publisher.step = "alias"
    BY <1>0, <1>9 DEF Reconcile, PublisherInv, MaybeIn
  <2>2. alias' \in [Registries -> [Versions -> MaybeIn(Digests)]]
    BY <1>0, <1>1, <1>9, <2>1 DEF Reconcile, TypeOK
  <2> DEFINE p == [publisher EXCEPT !.todo = publisher.todo \ {r}]
  <2>3. p \in Publisher /\ p.version = Subject
    BY <1>1 DEF Publisher, Subject
  <2>4. publisher' = p /\ release' = release /\ latest' = latest
    BY <1>9 DEF Reconcile
  <2> QED BY <1>1, <2>1, <2>2, <2>3, <2>4, NoneAssumption
<1>10. ASSUME NEW r \in Registries, MoveLatest(r)
       PROVE  /\ latest' \in [Registries -> MaybeIn(Versions)]
              /\ publisher' \in Publisher /\ Candidate /\ UNCHANGED alias
  <2>1. latest' \in [Registries -> MaybeIn(Versions)]
    BY <1>0, <1>1, <1>10 DEF MoveLatest, TypeOK, MaybeIn
  <2> DEFINE step == IF publisher.todo = {r} THEN "idle" ELSE publisher.step
             p == [publisher EXCEPT !.todo = publisher.todo \ {r}, !.step = step]
  <2>2. step \in {"idle", "registries"}
    BY <1>10 DEF MoveLatest
  <2> HIDE DEF step
  <2>3. p \in Publisher /\ p.step = step
    BY <1>1, <2>2 DEF Publisher
  <2>4. publisher' = p /\ alias' = alias
    BY <1>10 DEF MoveLatest, step
  <2> QED BY <2>1, <2>2, <2>3, <2>4
<1>11. CASE Upload
  <2>1. PICK a \in MaybeIn(Digests) :
          /\ release' = [release EXCEPT ![Subject] = [release[Subject] EXCEPT !.assets = a]]
          /\ [release[Subject] EXCEPT !.assets = a] \in Release
          /\ release[Subject] \in Release /\ release[Subject].draft
    BY <1>0, <1>11, UploadFacts
  <2>2. release'[Subject] = [release[Subject] EXCEPT !.assets = a]
    BY <1>0, <1>1, <2>1, ReleaseType
  <2>3. release'[Subject] \in Release /\ release'[Subject].draft
    BY <2>1, <2>2 DEF Release
  <2>4. publisher' \in Publisher /\ publisher'.version = Subject
    BY <1>0, <1>11, PublisherType DEF Upload, Subject
  <2> QED BY <1>2, <1>3, <1>11, <2>3, <2>4, NoneAssumption DEF Upload
<1>12. CASE Mark
  <2>1. PICK r \in Release : release' = [release EXCEPT ![Subject] = r] /\ r.draft
    BY <1>0, <1>12, MarkFacts
  <2>2. release'[Subject] = r
    BY <1>0, <1>1, <2>1, ReleaseType
  <2>3. publisher' \in Publisher /\ publisher'.version = Subject
    BY <1>0, <1>12, PublisherType DEF Mark, Subject
  <2> QED BY <1>2, <1>3, <1>12, <2>1, <2>2, <2>3, NoneAssumption DEF Mark
<1>13. ASSUME NEW step \in {"idle", "complete", "unlabel", "latest"}, PublisherGoto(step),
              UNCHANGED <<alias, latest>>
       PROVE  publisher' \in Publisher /\ Candidate
  BY <1>0, <1>13, PublisherType
<1>14. CASE ReconcileLatest
  <2> DEFINE p == [publisher EXCEPT !.step = "registries", !.todo = Registries]
             q == [publisher EXCEPT !.step = "idle"]
  <2>1. p \in Publisher /\ q \in Publisher /\ p.step = "registries" /\ q.step = "idle"
    BY <1>1 DEF Publisher
  <2>2. publisher' \in {p, q} /\ UNCHANGED <<alias, latest>>
    BY <1>14 DEF ReconcileLatest
  <2> HIDE DEF p, q
  <2> QED BY <1>2, <1>3, <2>1, <2>2
<1> HIDE DEF Candidate
<1>15. CASE Publish \/ Complete \/ Unlabel \/ PublisherFails \/ CrashPublisher
  BY <1>2, <1>3, <1>13, <1>15 DEF Publish, Complete, Unlabel, PublisherFails, CrashPublisher, Candidate
<1>16. CASE Publication
  <2>1. CASE \/ \E v \in Versions : Authorize(v)
             \/ \E d \in Digests : Freeze(d)
             \/ \E r \in Registries : Reconcile(r) \/ MoveLatest(r)
    BY <1>2, <1>3, <1>6, <1>7, <1>9, <1>10, <2>1 DEF Candidate
  <2> QED BY <1>8, <1>11, <1>12, <1>14, <1>15, <1>16, <2>1 DEF Publication
<1> QED
  BY <1>4, <1>5, <1>15, <1>16
  DEF Next, vars, managerVars, People, CI, Manage, Merge, HumanMerge, Tamper, Review, LateReview,
      HeadCI, MainCI, Push, Revert, Propose, Close, Create, Label, Ready, Prepare, Tag, ManagerFails,
      CheckMerge, PutMerge, MergerFails, Crash, Others

LEMMA TypeNext == BaseInv /\ [Next]_vars => TypeOK'
<1> SUFFICES ASSUME BaseInv, [Next]_vars PROVE TypeOK'
  OBVIOUS
<1>0. TypeOK /\ Tip \in Nat
  BY MainFacts DEF BaseInv
<1>1. main' \in Seq(Commit) /\ Tip' <= MaxCommits /\ Tip <= Tip' /\ Tip' \in Nat
  BY <1>0, MainStep, MainFacts, BoundsAssumption DEF MainKept
<1>2. green' \subseteq 1 .. Tip'
  <2>1. CASE UNCHANGED green
    BY <1>0, <1>1, <2>1 DEF TypeOK
  <2>2. ASSUME NEW c \in Commits, MainCI(c) PROVE green' \subseteq 1 .. Tip'
    BY <1>0, <1>1, <2>2 DEF TypeOK, MainCI
  <2> QED
    BY <2>1, <2>2
    DEF Next, vars, managerVars, People, CI, Manage, Merge, HumanMerge, Tamper, Review,
        LateReview, HeadCI, Push, Revert, Propose, Close, Create, Label, Ready, Prepare, Draft, Tag,
        ManagerFails, CheckMerge, PutMerge, MergerFails, Crash, Publication, CrashPublisher,
        ManagerUnchanged, Others, Authorize, Freeze, Verify, Upload, Mark, Publish, Complete,
        Unlabel, ReconcileLatest, Reconcile, MoveLatest, PublisherFails, Squash
<1>3. crashes' \in 0 .. MaxCrashes
  <2>1. CASE UNCHANGED crashes
    BY <1>0, <2>1 DEF TypeOK
  <2>2. CASE crashes < MaxCrashes /\ crashes' = crashes + 1
    BY <1>0, <2>2, BoundsAssumption DEF TypeOK
  <2> QED
    BY <2>1, <2>2
    DEF Next, vars, managerVars, People, CI, Manage, Merge, HumanMerge, Tamper, Review,
        LateReview, HeadCI, MainCI, Push, Revert, Propose, Close, Create, Label, Ready, Prepare, Draft,
        Tag, ManagerFails, CheckMerge, PutMerge, MergerFails, Crash, Publication, CrashPublisher,
        ManagerUnchanged, Others, Authorize, Freeze, Verify, Upload, Mark, Publish, Complete,
        Unlabel, ReconcileLatest, Reconcile, MoveLatest, PublisherFails, Squash
<1> QED
  BY <1>1, <1>2, <1>3, TypePull, TypeManager, TypeRelease, TypePublisher DEF TypeOK, ManagerStates

-----------------------------------------------------------------------------
(* Tags and releases                                                       *)

LEMMA BaseInit == Init => BaseInv
<1> SUFFICES ASSUME Init PROVE BaseInv
  OBVIOUS
<1> DEFINE e == [from |-> None, by |-> "human", recorded |-> <<>>]
<1>1. e \in Commit
  BY DEF Commit, MaybeIn
<1>2. main = <<e>>
  BY DEF Init, ManagerInit
<1> HIDE DEF e
<1>3. main \in Seq(Commit) /\ Tip = 1 /\ 1 \in 1 .. Tip /\ Tip <= MaxCommits
  BY <1>1, <1>2, BoundsAssumption DEF Tip
<1>4. 1 \in Versions
  BY BoundsAssumption DEF Versions
<1>5. publisher \in Publisher
  BY <1>4 DEF Init, Publisher, MaybeIn
<1>6. manager \in ManagerStates
  BY <1>3, <1>4 DEF Init, ManagerInit, ManagerStates
<1>7. /\ release \in [Versions -> MaybeIn(Release)] /\ tag \in [Versions -> MaybeIn(Commits)]
      /\ pr \in MaybeIn(PullRequest) /\ merger \in MaybeIn(Merger)
      /\ \A v \in Versions : tag[v] = None
  BY DEF Init, ManagerInit, MaybeIn
<1>8. /\ alias \in [Registries -> [Versions -> MaybeIn(Digests)]]
      /\ latest \in [Registries -> MaybeIn(Versions)]
  BY DEF Init, MaybeIn
<1>9. green \subseteq 1 .. Tip /\ pulls \in 0 .. MaxPulls /\ crashes \in 0 .. MaxCrashes
  BY <1>3, BoundsAssumption DEF Init, ManagerInit
<1>10. TypeOK
  BY <1>3, <1>5, <1>6, <1>7, <1>8, <1>9 DEF Init, TypeOK, ManagerStates
<1> QED
  BY <1>7, <1>10 DEF Init, ManagerInit, BaseInv, ManagerInv, TagInv, PublisherInv

\* A release that is there keeps its commit and, once, its completion; only
\* the job that prepares makes one.
LEMMA ReleaseStep ==
  ASSUME BaseInv, [Next]_vars, NEW v \in Versions
  PROVE  /\ release[v] # None => /\ release'[v] # None
                                 /\ release'[v].commit = release[v].commit
                                 /\ release[v].complete => release'[v].complete
         /\ release[v] = None /\ ~Draft => release'[v] = None
<1>0. /\ TypeOK /\ PublisherInv /\ ManagerInv /\ Subject \in Versions
      /\ \A x \in Versions : release[x] # None => release[x] \in Release
  BY SubjectFacts DEF BaseInv
<1>1. CASE UNCHANGED release
  BY <1>1
<1>2. ASSUME NEW r \in Release, release' = [release EXCEPT ![Subject] = r],
             release[Subject] \in Release, r.commit = release[Subject].commit,
             release[Subject].complete => r.complete
      PROVE  /\ release[v] # None => /\ release'[v] # None
                                     /\ release'[v].commit = release[v].commit
                                     /\ release[v].complete => release'[v].complete
             /\ release[v] = None => release'[v] = None
  <2>1. release'[Subject] = r /\ \A x \in Versions : x # Subject => release'[x] = release[x]
    BY <1>0, <1>2, ReleaseType
  <2>2. r # None /\ release[Subject] # None
    BY <1>2, NoneAssumption
  <2> QED BY <1>2, <2>1, <2>2
<1>3. CASE Upload
  <2>1. PICK a \in MaybeIn(Digests) :
          /\ release' = [release EXCEPT ![Subject] = [release[Subject] EXCEPT !.assets = a]]
          /\ [release[Subject] EXCEPT !.assets = a] \in Release
          /\ release[Subject] \in Release
    BY <1>0, <1>3, UploadFacts
  <2>2. /\ [release[Subject] EXCEPT !.assets = a].commit = release[Subject].commit
        /\ [release[Subject] EXCEPT !.assets = a].complete = release[Subject].complete
    BY <2>1 DEF Release
  <2> QED BY <1>2, <2>1, <2>2
<1>4. CASE Mark \/ Publish \/ Complete
  <2>1. PICK r \in Release :
          /\ release' = [release EXCEPT ![Subject] = r]
          /\ release[Subject] \in Release /\ r.commit = release[Subject].commit
          /\ Mark => r = [release[Subject] EXCEPT !.digest = publisher.digest]
          /\ Publish => r = [release[Subject] EXCEPT !.draft = FALSE]
          /\ Complete => r = [release[Subject] EXCEPT !.complete = TRUE]
    BY <1>0, <1>4, MarkFacts
  <2>2. release[Subject].complete => r.complete
    BY <1>4, <2>1 DEF Release
  <2> QED BY <1>2, <2>1, <2>2
<1>5. CASE Draft
  <2>1. release[manager.version] = None
    BY <1>0, <1>5 DEF Draft, ManagerInv
  <2>2. \A x \in Versions : x # manager.version => release'[x] = release[x]
    BY <1>0, <1>5, DraftFacts, ReleaseType
  <2> QED BY <1>5, <2>1, <2>2
<1> QED
  BY <1>1, <1>3, <1>4, <1>5
  DEF Next, vars, managerVars, People, CI, Manage, Merge, HumanMerge, Tamper, Review, LateReview,
      HeadCI, MainCI, Push, Revert, Propose, Close, Create, Label, Ready, Prepare, Tag, ManagerFails,
      CheckMerge, PutMerge, MergerFails, Crash, Publication, CrashPublisher, ManagerUnchanged,
      Others, Authorize, Freeze, Verify, Unlabel, ReconcileLatest, Reconcile, MoveLatest,
      PublisherFails, Squash

\* The release commit of a version stays it.
LEMMA ReleaseOfKept ==
  ASSUME BaseInv, [Next]_vars, NEW c, NEW v, ReleaseOf(c, v)
  PROVE  ReleaseOf(c, v)'
<1>1. MainKept /\ Tip \in Nat /\ Tip' \in Nat
  BY MainStep, MainFacts, TypeNext DEF BaseInv, TypeOK, Tip
<1> QED BY <1>1 DEF MainKept, ReleaseOf, VersionAt, ReleaseAt

\* A tag is made once: no step but Tag changes it.
LEMMA TagStep ==
  ASSUME BaseInv, [Next]_vars
  PROVE  \/ tag' = tag
         \/ /\ manager.step = "tag" /\ manager'.step = "idle" /\ release' = release
            /\ manager.version \in Versions /\ manager.base \in Commits
            /\ tag'[manager.version] = manager.base
            /\ \A v \in Versions : v # manager.version => tag'[v] = tag[v]
<1>1. TypeOK /\ manager.base \in Commits /\ manager.version \in Versions
  BY MainFacts DEF BaseInv, TypeOK
<1>2. CASE Tag
  <2>1. tag' = [tag EXCEPT ![manager.version] = manager.base] /\ release' = release
        /\ manager.step = "tag" /\ manager' = [manager EXCEPT !.step = "idle"]
    BY <1>2 DEF Tag, Goto
  <2>2. /\ tag'[manager.version] = manager.base
        /\ \A v \in Versions : v # manager.version => tag'[v] = tag[v]
    BY <1>1, <2>1 DEF TypeOK
  <2>3. manager'.step = "idle"
    BY <1>1, <2>1 DEF TypeOK
  <2> QED BY <1>1, <2>1, <2>2, <2>3
<1> QED
  BY <1>2
  DEF Next, vars, managerVars, People, CI, Manage, Merge, HumanMerge, Tamper, Review, LateReview,
      HeadCI, MainCI, Push, Revert, Propose, Close, Create, Label, Ready, Prepare, Draft, ManagerFails,
      CheckMerge, PutMerge, MergerFails, Crash, Publication, CrashPublisher, ManagerUnchanged,
      Others, Authorize, Freeze, Verify, Upload, Mark, Publish, Complete, Unlabel,
      ReconcileLatest, Reconcile, MoveLatest, PublisherFails, Squash

LEMMA TagNext == BaseInv /\ [Next]_vars => TagInv'
<1> SUFFICES ASSUME BaseInv, [Next]_vars, NEW v \in Versions, tag'[v] # None
             PROVE  /\ ReleaseOf(tag[v], v)'
                    /\ release'[v] # None /\ release'[v].commit = tag'[v]
  BY DEF TagInv
<1>1. CASE tag'[v] = tag[v]
  <2>1. ReleaseOf(tag[v], v) /\ release[v] # None /\ release[v].commit = tag[v]
    BY <1>1 DEF BaseInv, TagInv
  <2> DEFINE c == tag[v]
  <2>2. ReleaseOf(c, v)
    BY <2>1
  <2> HIDE DEF c
  <2>4. PICK d : d = c
    OBVIOUS
  <2>3. ReleaseOf(d, v)'
    BY <2>2, <2>4, ReleaseOfKept
  <2>5. tag'[v] = d
    BY <1>1, <2>4 DEF c
  <2> QED BY <1>1, <2>1, <2>3, <2>5, ReleaseStep DEF ReleaseOf, VersionAt, ReleaseAt
<1>2. CASE tag'[v] # tag[v]
  <2>1. /\ manager.step = "tag" /\ release' = release /\ v = manager.version
        /\ tag'[v] = manager.base
    BY <1>2, TagStep
  <2>2. /\ ReleaseOf(manager.base, v) /\ release[v] # None /\ release[v].commit = manager.base
    BY <2>1 DEF BaseInv, ManagerInv
  <2>4. PICK d : d = manager.base
    OBVIOUS
  <2>3. ReleaseOf(d, v)'
    BY <2>2, <2>4, ReleaseOfKept
  <2> QED BY <2>1, <2>2, <2>3, <2>4 DEF ReleaseOf, VersionAt, ReleaseAt
<1> QED BY <1>1, <1>2

LEMMA PrepareFacts ==
  ASSUME BaseInv, Prepare
  PROVE  /\ manager'.base = Tip /\ manager'.version = main[Tip].from.version
         /\ manager'.step = IF release[manager'.version] = None THEN "draft" ELSE "tag"
         /\ ReleaseOf(Tip, main[Tip].from.version) /\ main[Tip].from.version \in Versions
         /\ tag[manager'.version] \in {None, Tip}
         /\ release[manager'.version] # None => release[manager'.version].commit = Tip
         /\ UNCHANGED <<main, release, tag>>
<1>1. TypeOK /\ Tip \in 1 .. Tip /\ ReleaseAt(Tip)
  BY DEF BaseInv, TypeOK, Prepare, MergedValid
<1>2. main[Tip].from \in PullRequest
  BY <1>1, MainFacts
<1>3. main[Tip].from.version \in Versions
  BY <1>2 DEF PullRequest
<1>4. ReleaseOf(Tip, main[Tip].from.version)
  BY <1>1 DEF Prepare, MergedValid, ReleaseOf, VersionAt
<1> QED BY <1>3, <1>4 DEF Prepare, RecordValid

LEMMA ManagerNext == BaseInv /\ [Next]_vars => ManagerInv'
<1> SUFFICES ASSUME BaseInv, [Next]_vars, manager'.step \in {"draft", "tag"}
             PROVE  /\ ReleaseOf(manager.base, manager.version)'
                    /\ manager'.step = "draft" =>
                         /\ release'[manager'.version] = None
                         /\ tag'[manager'.version] \in {None, manager'.base}
                    /\ manager'.step = "tag" =>
                         /\ release'[manager'.version] # None
                         /\ release'[manager'.version].commit = manager'.base
  BY DEF ManagerInv
<1>0. TypeOK /\ ManagerInv /\ manager.version \in Versions
  BY DEF BaseInv, TypeOK
<1>k. ASSUME NEW c, NEW v, ReleaseOf(c, v), manager'.base = c, manager'.version = v
      PROVE  ReleaseOf(manager.base, manager.version)'
  <2>1. ReleaseOf(c, v)'
    BY <1>k, ReleaseOfKept
  <2> QED BY <1>k, <2>1 DEF ReleaseOf, VersionAt, ReleaseAt
<1>1. CASE UNCHANGED manager
  <2>1. ReleaseOf(manager.base, manager.version)
    BY <1>0, <1>1 DEF ManagerInv
  <2>2. ReleaseOf(manager.base, manager.version)'
    BY <1>k, <1>1, <2>1
  <2>3. CASE manager.step = "draft"
    <3>1. release[manager.version] = None /\ tag[manager.version] \in {None, manager.base}
      BY <1>0, <2>3 DEF ManagerInv
    <3>2. ~Draft
      BY <1>0, <1>1, <2>3, GotoType DEF Draft, Tip
    <3>3. release'[manager.version] = None
      BY <1>0, <3>1, <3>2, ReleaseStep
    <3>4. tag' = tag
      BY <2>3, TagStep
    <3> QED BY <1>1, <2>2, <2>3, <3>1, <3>3, <3>4
  <2>4. CASE manager.step = "tag"
    <3>1. release[manager.version] # None /\ release[manager.version].commit = manager.base
      BY <1>0, <2>4 DEF ManagerInv
    <3> QED BY <1>0, <1>1, <2>2, <2>4, <3>1, ReleaseStep
  <2> QED BY <1>1, <2>3, <2>4
<1>2. CASE Prepare
  <2>1. /\ manager'.base = Tip /\ manager'.version = main[Tip].from.version
        /\ manager'.step = IF release[manager'.version] = None THEN "draft" ELSE "tag"
        /\ ReleaseOf(Tip, main[Tip].from.version)
        /\ tag[manager'.version] \in {None, Tip}
        /\ release[manager'.version] # None => release[manager'.version].commit = Tip
        /\ UNCHANGED <<release, tag>>
    BY <1>2, PrepareFacts
  <2>2. ReleaseOf(manager.base, manager.version)'
    BY <1>k, <2>1
  <2> QED BY <2>1, <2>2
<1>3. CASE Draft
  <2>1. /\ manager.step = "draft" /\ tag' = tag /\ Tip' = Tip
        /\ Goto(IF tag[manager.version] = None THEN "tag" ELSE "idle")
    BY <1>3 DEF Draft, Tip
  <2>2. /\ manager'.base = manager.base /\ manager'.version = manager.version
        /\ manager'.step # "draft"
    BY <1>0, <2>1, GotoType
  <2>3. ReleaseOf(manager.base, manager.version)
    BY <1>0, <2>1 DEF ManagerInv
  <2>4. ReleaseOf(manager.base, manager.version)'
    BY <1>k, <2>2, <2>3
  <2> DEFINE r == [commit |-> manager.base, draft |-> TRUE, digest |-> None, assets |-> None,
                   complete |-> FALSE]
  <2>5. r \in Release /\ release' = [release EXCEPT ![manager.version] = r] /\ r.commit = manager.base
    BY <1>0, <1>3, DraftFacts
  <2> HIDE DEF r
  <2>6. release'[manager.version] = r
    BY <1>0, <2>5, ReleaseType
  <2> QED BY <2>2, <2>4, <2>5, <2>6, NoneAssumption
<1>4. ASSUME NEW step \in {"idle", "create", "label", "ready"}, Goto(step)
      PROVE  FALSE
  BY <1>0, <1>4 DEF Goto, TypeOK
<1>5. ASSUME NEW v \in Versions, Propose(v) PROVE FALSE
  BY <1>5 DEF Propose
<1> QED
  BY <1>1, <1>2, <1>3, <1>4, <1>5
  DEF Next, vars, managerVars, People, CI, Manage, Merge, HumanMerge, Tamper, Review, LateReview,
      HeadCI, MainCI, Push, Revert, Close, Create, Label, Ready, Tag, ManagerFails, CheckMerge, PutMerge,
      MergerFails, Crash, Publication, CrashPublisher, ManagerUnchanged, Others, Authorize,
      Freeze, Verify, Upload, Mark, Publish, Complete, Unlabel, ReconcileLatest, Reconcile,
      MoveLatest, PublisherFails, Squash

LEMMA PublisherNext == BaseInv /\ [Next]_vars => PublisherInv'
<1> SUFFICES ASSUME BaseInv, [Next]_vars
             PROVE  /\ publisher'.step # "idle" => tag'[publisher'.version] # None
                    /\ publisher'.step \in {"alias", "upload", "mark", "publish", "complete"} =>
                         publisher'.digest \in Digests
  BY DEF PublisherInv, Subject
<1>0. /\ TypeOK /\ PublisherInv /\ Subject \in Versions /\ publisher \in Publisher
      /\ Subject = publisher.version
  BY SubjectFacts DEF BaseInv, Subject
<1>1. \A v \in Versions : tag[v] # None => tag'[v] # None
  BY TagStep, NoneAssumption
<1>2. CASE UNCHANGED publisher
  BY <1>0, <1>1, <1>2 DEF PublisherInv
<1>3. ASSUME NEW v \in Versions, Authorize(v)
      PROVE  publisher'.step = "freeze" /\ publisher'.version = v /\ tag[v] # None
  BY <1>3 DEF Authorize, Authorizable
<1>4. ASSUME NEW d \in Digests, Freeze(d)
      PROVE  publisher'.step # "idle" /\ publisher'.version = Subject /\ publisher'.digest \in Digests
             /\ publisher.step # "idle"
  BY <1>0, <1>4 DEF Freeze, Publisher
<1>5. CASE Verify
  <2>1. release[Subject] \in Release /\ release[Subject].digest # None
    BY <1>0, <1>5, SubjectFacts DEF Verify, Authorizable, Published
  <2>2. release[Subject].digest \in Digests
    BY <2>1 DEF Release, MaybeIn
  <2>3. publisher.step # "idle" /\ publisher' = [publisher EXCEPT !.step = "complete", !.digest = release[Subject].digest]
    BY <1>5 DEF Verify
  <2>4. publisher'.version = Subject /\ publisher'.digest = release[Subject].digest
    BY <1>0, <2>3 DEF Publisher
  <2> QED BY <1>0, <1>1, <2>2, <2>3, <2>4 DEF PublisherInv
<1>6. ASSUME NEW r \in Registries, Reconcile(r) \/ MoveLatest(r)
      PROVE  /\ publisher.step # "idle" /\ publisher'.version = Subject
             /\ publisher'.digest = publisher.digest
             /\ publisher'.step \in {"idle", publisher.step}
  BY <1>0, <1>6 DEF Reconcile, MoveLatest, Publisher
<1>7. CASE ReconcileLatest
  <2>1. /\ publisher.step # "idle" /\ publisher'.version = Subject
        /\ publisher'.step \in {"idle", "registries"}
    BY <1>0, <1>7 DEF ReconcileLatest, Publisher
  <2> QED BY <1>0, <1>1, <2>1 DEF PublisherInv
<1>8. ASSUME NEW step \in {"idle", "alias", "upload", "mark", "publish", "complete",
                           "unlabel", "latest"}, PublisherGoto(step), publisher.step # "idle",
             step \in {"upload", "mark", "publish", "complete"} =>
               publisher.step \in {"alias", "upload", "mark", "publish"},
             step # "alias"
      PROVE  /\ publisher'.step # "idle" => tag'[publisher'.version] # None
             /\ publisher'.step \in {"alias", "upload", "mark", "publish", "complete"} =>
                  publisher'.digest \in Digests
  <2>1. /\ publisher'.step = step /\ publisher'.version = publisher.version
        /\ publisher'.digest = publisher.digest
    BY <1>0, <1>8, PublisherType
  <2> QED BY <1>0, <1>1, <1>8, <2>1 DEF PublisherInv
<1>9. CASE Upload \/ Mark \/ Publish \/ Complete \/ Unlabel \/ PublisherFails \/ CrashPublisher
  BY <1>8, <1>9 DEF Upload, Mark, Publish, Complete, Unlabel, PublisherFails, CrashPublisher
<1>10. CASE Publication
  <2>1. ASSUME NEW v \in Versions, Authorize(v)
        PROVE  /\ publisher'.step # "idle" => tag'[publisher'.version] # None
               /\ publisher'.step \in {"alias", "upload", "mark", "publish", "complete"} =>
                    publisher'.digest \in Digests
    BY <1>1, <1>3, <2>1
  <2>2. ASSUME NEW d \in Digests, Freeze(d)
        PROVE  /\ publisher'.step # "idle" => tag'[publisher'.version] # None
               /\ publisher'.digest \in Digests
    BY <1>0, <1>1, <1>4, <2>2 DEF PublisherInv
  <2>3. ASSUME NEW r \in Registries, Reconcile(r) \/ MoveLatest(r)
        PROVE  /\ publisher'.step # "idle" => tag'[publisher'.version] # None
               /\ publisher'.step \in {"alias", "upload", "mark", "publish", "complete"} =>
                    publisher'.digest \in Digests
    BY <1>0, <1>1, <1>6, <2>3 DEF PublisherInv
  <2> QED BY <1>5, <1>7, <1>9, <1>10, <2>1, <2>2, <2>3 DEF Publication
<1> QED
  BY <1>2, <1>9, <1>10
  DEF Next, vars, managerVars, People, CI, Manage, Merge, HumanMerge, Tamper, Review, LateReview,
      HeadCI, MainCI, Push, Revert, Propose, Close, Create, Label, Ready, Prepare, Draft, Tag,
      ManagerFails, CheckMerge, PutMerge, MergerFails, Crash, ManagerUnchanged, Others, Squash

LEMMA BaseNext == BaseInv /\ [Next]_vars => BaseInv'
BY TypeNext, ManagerNext, TagNext, PublisherNext DEF BaseInv

THEOREM BaseHolds == Spec => []BaseInv
BY BaseInit, BaseNext, PTL DEF Spec

\* Types: the jobs refer to what exists, and a candidate is for a draft.
THEOREM TypeCorrect == Spec => []TypeOK
<1>1. BaseInv => TypeOK
  BY DEF BaseInv
<1> QED BY <1>1, BaseHolds, PTL

\* A tag is the commit that the release app merged from the pull request it
\* generated for that version and for the commit before; and its release is
\* there.
THEOREM TagCorrect == Spec => []TagExact
<1>1. BaseInv => TagExact
  BY DEF BaseInv, TagInv, TagExact, ReleaseOf, VersionAt
<1> QED BY <1>1, BaseHolds, PTL

-----------------------------------------------------------------------------
(* Published releases                                                      *)

\* Outside the publication of v, what it has published stays.
LEMMA FrozenStep ==
  ASSUME BaseInv, [Next]_vars, NEW v \in Versions, Published(v)
  PROVE  /\ release'[v] \in {release[v], [release[v] EXCEPT !.complete = TRUE]}
         /\ \A r \in Registries : alias'[r][v] = alias[r][v]
<1>0. /\ TypeOK /\ PublisherInv /\ ManagerInv /\ Subject \in Versions
      /\ publisher.step \in {"alias", "upload", "mark", "publish"} => v # Subject
      /\ \A x \in Versions : release[x] # None => release[x] \in Release
  BY SubjectFacts DEF BaseInv, Published
<1>1. CASE UNCHANGED <<release, alias>>
  BY <1>1
<1>2. CASE Draft /\ Others
  <2>1. manager.version # v /\ alias' = alias
    BY <1>0, <1>2 DEF Draft, ManagerInv, Published, Others
  <2>2. release'[v] = release[v]
    BY <1>0, <1>2, <2>1, DraftFacts, ReleaseType
  <2> QED BY <2>1, <2>2
<1>3. ASSUME NEW r \in Registries, Reconcile(r)
      PROVE  release' = release /\ \A q \in Registries : alias'[q][v] = alias[q][v]
  BY <1>0, <1>3 DEF Reconcile, TypeOK
<1>4. CASE Upload
  <2>1. v # Subject /\ alias' = alias
    BY <1>0, <1>4 DEF Upload
  <2>2. release'[v] = release[v]
    BY <1>0, <1>4, <2>1, UploadFacts, ReleaseType
  <2> QED BY <2>1, <2>2
<1>5. CASE Mark \/ Publish
  <2>1. v # Subject /\ alias' = alias
    BY <1>0, <1>5 DEF Mark, Publish
  <2>2. release'[v] = release[v]
    BY <1>0, <1>5, <2>1, MarkFacts, ReleaseType
  <2> QED BY <2>1, <2>2
<1>6. CASE Complete
  <2>1. release' = [release EXCEPT ![Subject] = [release[Subject] EXCEPT !.complete = TRUE]]
        /\ alias' = alias
    BY <1>6 DEF Complete
  <2>2. release'[v] \in {release[v], [release[v] EXCEPT !.complete = TRUE]}
    BY <1>0, <2>1 DEF TypeOK
  <2> QED BY <2>1, <2>2
<1> QED
  BY <1>1, <1>2, <1>3, <1>4, <1>5, <1>6
  DEF Next, vars, managerVars, People, CI, Manage, Merge, HumanMerge, Tamper, Review, LateReview,
      HeadCI, MainCI, Push, Revert, Propose, Close, Create, Label, Ready, Prepare, Tag, ManagerFails,
      CheckMerge, PutMerge, MergerFails, Crash, Publication, CrashPublisher, ManagerUnchanged,
      Others, Authorize, Freeze, Verify, Unlabel, ReconcileLatest, MoveLatest, PublisherFails,
      Squash

\* A release becomes published by Publish alone.
LEMMA PublishStep ==
  ASSUME BaseInv, [Next]_vars, NEW v \in Versions, Published(v)', ~Published(v)
  PROVE  Publish /\ v = Subject
<1>0. /\ TypeOK /\ PublisherInv /\ ManagerInv /\ Subject \in Versions
      /\ \A x \in Versions : release[x] # None => release[x] \in Release
  BY SubjectFacts DEF BaseInv
<1>1. release'[v] # release[v] /\ release'[v] # None /\ ~release'[v].draft
  BY DEF Published
<1>2. ASSUME Draft PROVE FALSE
  <2> DEFINE r == [commit |-> manager.base, draft |-> TRUE, digest |-> None, assets |-> None,
                   complete |-> FALSE]
  <2>1. r \in Release /\ release' = [release EXCEPT ![manager.version] = r] /\ r.draft
        /\ manager.version \in Versions
    BY <1>0, <1>2, DraftFacts
  <2> HIDE DEF r
  <2> QED BY <1>0, <1>1, <2>1, ReleaseType
<1>3. ASSUME Upload PROVE FALSE
  <2>1. PICK a \in MaybeIn(Digests) :
          /\ release' = [release EXCEPT ![Subject] = [release[Subject] EXCEPT !.assets = a]]
          /\ [release[Subject] EXCEPT !.assets = a] \in Release
          /\ release[Subject] \in Release /\ release[Subject].draft
    BY <1>0, <1>3, UploadFacts
  <2>2. [release[Subject] EXCEPT !.assets = a].draft
    BY <2>1 DEF Release
  <2> QED BY <1>0, <1>1, <2>1, <2>2, ReleaseType
<1>4. ASSUME Mark PROVE FALSE
  <2>1. PICK r \in Release : release' = [release EXCEPT ![Subject] = r] /\ r.draft
    BY <1>0, <1>4, MarkFacts
  <2> QED BY <1>0, <1>1, <2>1, ReleaseType
<1>5. ASSUME Complete PROVE FALSE
  <2>1. release' = [release EXCEPT ![Subject] = [release[Subject] EXCEPT !.complete = TRUE]]
        /\ Published(Subject) /\ release[Subject] \in Release
    BY <1>0, <1>5 DEF Complete, Published
  <2>2. [release[Subject] EXCEPT !.complete = TRUE].draft = release[Subject].draft
    BY <2>1 DEF Release
  <2> QED BY <1>0, <1>1, <2>1, <2>2 DEF TypeOK, Published
<1>6. ASSUME Publish PROVE v = Subject
  <2>1. release' = [release EXCEPT ![Subject] = [release[Subject] EXCEPT !.draft = FALSE]]
    BY <1>6 DEF Publish
  <2> QED BY <1>0, <1>1, <2>1 DEF TypeOK
<1> QED
  BY <1>1, <1>2, <1>3, <1>4, <1>5, <1>6
  DEF Next, vars, managerVars, People, CI, Manage, Merge, HumanMerge, Tamper, Review, LateReview,
      HeadCI, MainCI, Push, Revert, Propose, Close, Create, Label, Ready, Prepare, Tag, ManagerFails,
      CheckMerge, PutMerge, MergerFails, Crash, Publication, CrashPublisher, ManagerUnchanged,
      Others, Authorize, Freeze, Verify, Unlabel, ReconcileLatest, Reconcile, MoveLatest,
      PublisherFails, Squash

LEMMA CandidateNext == BaseInv /\ CandidateInv /\ [Next]_vars => CandidateInv'
<1> SUFFICES ASSUME BaseInv, CandidateInv, [Next]_vars
             PROVE  /\ publisher'.step = "alias" =>
                         \A r \in Registries \ publisher'.todo :
                           alias'[r][publisher'.version] = publisher'.digest
                    /\ publisher'.step \in {"upload", "mark", "publish"} =>
                         \A r \in Registries : alias'[r][publisher'.version] = publisher'.digest
                    /\ publisher'.step = "publish" =>
                         /\ release'[publisher'.version].assets = publisher'.digest
                         /\ release'[publisher'.version].digest = publisher'.digest
  BY DEF CandidateInv, Subject
<1>0. /\ TypeOK /\ PublisherInv /\ ManagerInv /\ Subject \in Versions /\ publisher \in Publisher
      /\ Subject = publisher.version
      /\ publisher.step \in {"alias", "upload", "mark", "publish"} => release[Subject] \in Release
  BY SubjectFacts DEF BaseInv, Subject
<1>1. CASE UNCHANGED <<alias, publisher, release>>
  BY <1>1 DEF CandidateInv, Subject
<1>2. CASE Draft /\ Others
  <2>1. manager.version # Subject \/ publisher.step \notin {"alias", "upload", "mark", "publish"}
    BY <1>0, <1>2, NoneAssumption DEF Draft, ManagerInv
  <2>2. \A x \in Versions : x # manager.version => release'[x] = release[x]
    BY <1>0, <1>2, DraftFacts, ReleaseType
  <2> QED BY <1>0, <1>2, <2>1, <2>2 DEF Others, CandidateInv
<1>3. ASSUME NEW v \in Versions, Authorize(v) PROVE publisher'.step = "freeze"
  BY <1>3 DEF Authorize
<1>4. ASSUME NEW d \in Digests, Freeze(d)
      PROVE  publisher'.step = "alias" /\ publisher'.todo = Registries
  BY <1>0, <1>4 DEF Freeze, Publisher
<1>5. CASE Verify
  BY <1>0, <1>5 DEF Verify, Publisher
<1>6. ASSUME NEW r \in Registries, Reconcile(r)
      PROVE  /\ publisher'.step = "alias"
             /\ \A q \in Registries \ publisher'.todo :
                  alias'[q][publisher'.version] = publisher'.digest
  <2>1. /\ publisher'.step = "alias" /\ publisher'.todo = publisher.todo \ {r}
        /\ publisher'.version = Subject /\ publisher'.digest = publisher.digest
    BY <1>0, <1>6 DEF Reconcile, Publisher
  <2>2. /\ alias'[r][Subject] = publisher.digest
        /\ \A q \in Registries : q # r => alias'[q] = alias[q]
    BY <1>0, <1>6 DEF Reconcile, TypeOK
  <2>3. \A q \in Registries \ publisher.todo : alias[q][Subject] = publisher.digest
    BY <1>6 DEF Reconcile, CandidateInv
  <2> QED BY <2>1, <2>2, <2>3
<1>7. ASSUME NEW r \in Registries, MoveLatest(r)
      PROVE  publisher'.step \in {"idle", "registries"}
  BY <1>0, <1>7 DEF MoveLatest, Publisher
<1>8. CASE Upload
  <2>1. /\ publisher'.version = Subject /\ publisher'.digest = publisher.digest
        /\ publisher'.step \in {"upload", "mark"} /\ alias' = alias
    BY <1>0, <1>8, PublisherType DEF Upload
  <2>2. \A r \in Registries : alias[r][Subject] = publisher.digest
    BY <1>8 DEF Upload, CandidateInv
  <2> QED BY <2>1, <2>2
<1>9. CASE Mark
  <2>1. /\ publisher'.version = Subject /\ publisher'.digest = publisher.digest
        /\ publisher'.step = "publish" /\ alias' = alias
    BY <1>0, <1>9, PublisherType DEF Mark
  <2>2. \A r \in Registries : alias[r][Subject] = publisher.digest
    BY <1>9 DEF Mark, CandidateInv
  <2>3. /\ release' = [release EXCEPT ![Subject] = [release[Subject] EXCEPT !.digest = publisher.digest]]
        /\ release[Subject].assets = publisher.digest /\ release[Subject] \in Release
    BY <1>0, <1>9 DEF Mark
  <2>4. release'[Subject].assets = publisher.digest /\ release'[Subject].digest = publisher.digest
    BY <1>0, <2>3 DEF TypeOK, Release
  <2> QED BY <2>1, <2>2, <2>4
<1>10. CASE ReconcileLatest
  BY <1>0, <1>10 DEF ReconcileLatest, Publisher
<1>11. ASSUME NEW step \in {"idle", "complete", "unlabel", "latest"}, PublisherGoto(step)
       PROVE  publisher'.step \in {"idle", "complete", "unlabel", "latest"}
  BY <1>0, <1>11, PublisherType
<1>12. CASE Publish \/ Complete \/ Unlabel \/ PublisherFails \/ CrashPublisher
  BY <1>11, <1>12 DEF Publish, Complete, Unlabel, PublisherFails, CrashPublisher
<1>13. CASE Publication
  <2>1. ASSUME NEW v \in Versions, Authorize(v)
        PROVE  publisher'.step \notin {"alias", "upload", "mark", "publish"}
    BY <1>3, <2>1
  <2>2. ASSUME NEW d \in Digests, Freeze(d)
        PROVE  /\ publisher'.step = "alias"
               /\ \A r \in Registries \ publisher'.todo :
                    alias'[r][publisher'.version] = publisher'.digest
    BY <1>4, <2>2
  <2>3. ASSUME NEW r \in Registries, MoveLatest(r)
        PROVE  publisher'.step \notin {"alias", "upload", "mark", "publish"}
    BY <1>7, <2>3
  <2> QED BY <1>5, <1>6, <1>8, <1>9, <1>10, <1>12, <1>13, <2>1, <2>2, <2>3 DEF Publication
<1> QED
  BY <1>1, <1>2, <1>12, <1>13
  DEF Next, vars, managerVars, People, CI, Manage, Merge, HumanMerge, Tamper, Review, LateReview,
      HeadCI, MainCI, Push, Revert, Propose, Close, Create, Label, Ready, Prepare, Tag, ManagerFails,
      CheckMerge, PutMerge, MergerFails, Crash, ManagerUnchanged, Others, Squash

PublishedInv == CandidateInv /\ PublishedAgrees

LEMMA PublishedNext == BaseInv /\ PublishedInv /\ [Next]_vars => PublishedInv'
<1> SUFFICES ASSUME BaseInv, CandidateInv, PublishedAgrees, [Next]_vars,
                    NEW v \in Versions, Published(v)'
             PROVE  /\ release'[v].digest # None /\ release'[v].assets = release'[v].digest
                    /\ \A r \in Registries : alias'[r][v] = release'[v].digest
  BY CandidateNext DEF PublishedInv, PublishedAgrees
<1>0. /\ TypeOK /\ PublisherInv /\ Subject \in Versions
      /\ \A x \in Versions : release[x] # None => release[x] \in Release
  BY SubjectFacts DEF BaseInv
<1>1. CASE Published(v)
  <2>1. /\ release[v].digest # None /\ release[v].assets = release[v].digest
        /\ \A r \in Registries : alias[r][v] = release[v].digest
    BY <1>1 DEF PublishedAgrees
  <2>2. /\ release'[v] \in {release[v], [release[v] EXCEPT !.complete = TRUE]}
        /\ \A r \in Registries : alias'[r][v] = alias[r][v]
    BY <1>1, FrozenStep
  <2>3. release'[v].digest = release[v].digest /\ release'[v].assets = release[v].assets
    BY <1>0, <1>1, <2>2 DEF Published, Release
  <2> QED BY <2>1, <2>2, <2>3
<1>2. CASE ~Published(v)
  <2>1. Publish /\ v = Subject
    BY <1>2, PublishStep
  <2>2. /\ publisher.digest \in Digests
        /\ \A r \in Registries : alias[r][Subject] = publisher.digest
        /\ release[Subject].assets = publisher.digest /\ release[Subject].digest = publisher.digest
    BY <1>0, <2>1 DEF Publish, CandidateInv, PublisherInv
  <2>3. /\ release' = [release EXCEPT ![Subject] = [release[Subject] EXCEPT !.draft = FALSE]]
        /\ alias' = alias /\ release[Subject] \in Release
    BY <1>0, <2>1, SubjectFacts DEF Publish
  <2>4. release'[v].digest = publisher.digest /\ release'[v].assets = publisher.digest
    BY <1>0, <2>1, <2>2, <2>3 DEF TypeOK, Release
  <2> QED BY <2>1, <2>2, <2>3, <2>4, NoneAssumption
<1> QED BY <1>1, <1>2

\* Every alias and all assets of a published release are of the image whose
\* digest it records, however many candidates were built before.
THEOREM PublishedCorrect == Spec => []PublishedAgrees
<1>1. Init => PublishedInv
  BY DEF Init, ManagerInit, PublishedInv, CandidateInv, PublishedAgrees, Published
<1>2. PublishedInv => PublishedAgrees
  BY DEF PublishedInv
<1> QED BY <1>1, <1>2, BaseHolds, PublishedNext, PTL DEF Spec

\* Nothing of a published release changes but that it becomes complete.
THEOREM FrozenCorrect == Spec => PublishedFrozen
<1>1. BaseInv /\ [Next]_vars =>
        \A v \in Versions : Published(v) =>
          /\ Published(v)'
          /\ release'[v] \in {release[v], [release[v] EXCEPT !.complete = TRUE]}
          /\ \A r \in Registries : alias'[r][v] = alias[r][v]
  <2> SUFFICES ASSUME BaseInv, [Next]_vars, NEW v \in Versions, Published(v)
               PROVE  /\ Published(v)'
                      /\ release'[v] \in {release[v], [release[v] EXCEPT !.complete = TRUE]}
                      /\ \A r \in Registries : alias'[r][v] = alias[r][v]
    OBVIOUS
  <2>1. /\ release'[v] \in {release[v], [release[v] EXCEPT !.complete = TRUE]}
        /\ \A r \in Registries : alias'[r][v] = alias[r][v]
    BY FrozenStep
  <2>2. release[v] \in Release
    BY SubjectFacts DEF BaseInv, Published
  <2>3. release'[v] \in Release /\ release'[v].draft = release[v].draft
    BY <2>1, <2>2 DEF Release
  <2> QED BY <2>1, <2>3, NoneAssumption DEF Published
<1> QED BY <1>1, BaseHolds, PTL DEF Spec, PublishedFrozen

-----------------------------------------------------------------------------
(* The registries' latest                                                  *)

\* Completed releases stay so, and Complete alone makes one.
LEMMA CompletedStep ==
  ASSUME BaseInv, [Next]_vars
  PROVE  /\ Completed \subseteq Completed'
         /\ \A v \in Completed' : v \in Completed \/ (Complete /\ v = Subject)
<1>0. /\ TypeOK /\ PublisherInv /\ ManagerInv /\ Subject \in Versions
      /\ \A x \in Versions : release[x] # None => release[x] \in Release
  BY SubjectFacts DEF BaseInv
<1>1. Completed \subseteq Completed'
  BY ReleaseStep DEF Completed
<1> SUFFICES ASSUME NEW v \in Completed', v \notin Completed PROVE Complete /\ v = Subject
  BY <1>1
<1>2. v \in Versions /\ release'[v] # None /\ release'[v].complete
  BY DEF Completed
<1>3. release'[v] # release[v]
  BY <1>2 DEF Completed
<1>4. ASSUME Draft PROVE FALSE
  <2> DEFINE r == [commit |-> manager.base, draft |-> TRUE, digest |-> None, assets |-> None,
                   complete |-> FALSE]
  <2>1. r \in Release /\ release' = [release EXCEPT ![manager.version] = r] /\ ~r.complete
        /\ manager.version \in Versions
    BY <1>0, <1>4, DraftFacts
  <2> HIDE DEF r
  <2> QED BY <1>0, <1>2, <1>3, <2>1, ReleaseType
<1>5. ASSUME NEW r \in Release, release' = [release EXCEPT ![Subject] = r],
             release[Subject] \in Release, r.complete = release[Subject].complete
      PROVE  FALSE
  BY <1>0, <1>2, <1>3, <1>5, ReleaseType, NoneAssumption DEF Completed
<1>6. ASSUME Upload PROVE FALSE
  <2>1. PICK a \in MaybeIn(Digests) :
          /\ release' = [release EXCEPT ![Subject] = [release[Subject] EXCEPT !.assets = a]]
          /\ [release[Subject] EXCEPT !.assets = a] \in Release /\ release[Subject] \in Release
    BY <1>0, <1>6, UploadFacts
  <2>2. [release[Subject] EXCEPT !.assets = a].complete = release[Subject].complete
    BY <2>1 DEF Release
  <2> QED BY <1>5, <2>1, <2>2
<1>7. ASSUME Mark \/ Publish PROVE FALSE
  <2>1. PICK r \in Release :
          /\ release' = [release EXCEPT ![Subject] = r] /\ release[Subject] \in Release
          /\ Mark => r = [release[Subject] EXCEPT !.digest = publisher.digest]
          /\ Publish => r = [release[Subject] EXCEPT !.draft = FALSE]
    BY <1>0, <1>7, MarkFacts
  <2>2. r.complete = release[Subject].complete
    BY <1>7, <2>1 DEF Release
  <2> QED BY <1>5, <2>1, <2>2
<1>8. ASSUME Complete PROVE v = Subject
  <2>1. release' = [release EXCEPT ![Subject] = [release[Subject] EXCEPT !.complete = TRUE]]
    BY <1>8 DEF Complete
  <2> QED BY <1>0, <1>3, <2>1 DEF TypeOK
<1> QED
  BY <1>3, <1>4, <1>6, <1>7, <1>8
  DEF Next, vars, managerVars, People, CI, Manage, Merge, HumanMerge, Tamper, Review, LateReview,
      HeadCI, MainCI, Push, Revert, Propose, Close, Create, Label, Ready, Prepare, Tag, ManagerFails,
      CheckMerge, PutMerge, MergerFails, Crash, Publication, CrashPublisher, ManagerUnchanged,
      Others, Authorize, Freeze, Verify, Unlabel, ReconcileLatest, Reconcile, MoveLatest,
      PublisherFails, Squash

\* What a step does to latest, and to the publication that moves it.
LEMMA LatestStep ==
  ASSUME BaseInv, LatestInv, [Next]_vars
  PROVE  /\ \/ latest' = latest
            \/ \E r \in Registries :
                 /\ MoveLatest(r) /\ Completed' = Completed
                 /\ latest' = [latest EXCEPT ![r] = Subject]
         /\ publisher'.step \in {"unlabel", "latest", "registries"} => publisher'.version \in Completed'
         /\ publisher'.step = "registries" => \A x \in Completed' : x <= publisher'.version
<1>0. /\ TypeOK /\ PublisherInv /\ Subject \in Versions /\ publisher \in Publisher
      /\ Subject = publisher.version
  BY SubjectFacts DEF BaseInv, Subject
<1> DEFINE Kept == publisher'.step \in {"unlabel", "latest", "registries"} => publisher'.version \in Completed'
           High == publisher'.step = "registries" => \A x \in Completed' : x <= publisher'.version
<1>1. Completed \subseteq Completed' /\ (~Complete => Completed' = Completed)
  BY CompletedStep
<1>2. ASSUME UNCHANGED publisher, ~Complete PROVE Kept /\ High
  BY <1>0, <1>1, <1>2 DEF LatestInv
<1>3. ASSUME publisher'.step \notin {"unlabel", "latest", "registries"} PROVE Kept /\ High
  BY <1>3
<1>4. ASSUME NEW v \in Versions, Authorize(v) PROVE publisher'.step = "freeze"
  BY <1>4 DEF Authorize
<1>5. ASSUME NEW d \in Digests, Freeze(d) PROVE publisher'.step = "alias"
  BY <1>0, <1>5 DEF Freeze, Publisher
<1>6. ASSUME Verify PROVE publisher'.step = "complete"
  BY <1>0, <1>6 DEF Verify, Publisher
<1>7. ASSUME NEW r \in Registries, Reconcile(r) PROVE publisher'.step = "alias"
  BY <1>0, <1>7 DEF Reconcile, Publisher
<1>8. ASSUME NEW step \in {"idle", "upload", "mark", "publish", "complete"},
             PublisherGoto(step)
      PROVE  publisher'.step \notin {"unlabel", "latest", "registries"}
  BY <1>0, <1>8, PublisherType
<1>9. CASE Upload \/ Mark \/ Publish \/ PublisherFails \/ CrashPublisher
  <2>1. publisher'.step \notin {"unlabel", "latest", "registries"}
    BY <1>8, <1>9 DEF Upload, Mark, Publish, PublisherFails, CrashPublisher
  <2>2. latest' = latest
    BY <1>9 DEF Upload, Mark, Publish, PublisherFails, CrashPublisher
  <2> QED BY <2>1, <2>2
<1>16. CASE Complete
  <2>1. publisher'.step = "unlabel" /\ publisher'.version = Subject
    BY <1>0, <1>16, PublisherType DEF Complete
  <2>2. release' = [release EXCEPT ![Subject] = [release[Subject] EXCEPT !.complete = TRUE]]
        /\ release[Subject] \in Release /\ latest' = latest
    BY <1>0, <1>16, SubjectFacts DEF Complete, Published
  <2>3. release'[Subject] \in Release /\ release'[Subject].complete
    BY <1>0, <2>2 DEF TypeOK, Release
  <2>4. Subject \in Completed'
    BY <1>0, <2>3, NoneAssumption DEF Completed
  <2> QED BY <2>1, <2>2, <2>4
<1>10. CASE Unlabel
  <2>1. publisher'.step = "latest" /\ publisher'.version = Subject
    BY <1>0, <1>10, PublisherType DEF Unlabel
  <2>2. Subject \in Completed' /\ latest' = latest
    BY <1>1, <1>10 DEF Unlabel, LatestInv
  <2> QED BY <2>1, <2>2
<1>11. CASE ReconcileLatest
  <2>1. latest' = latest /\ release' = release /\ Completed' = Completed /\ publisher.step = "latest"
    BY <1>11 DEF ReconcileLatest, Completed
  <2>2. CASE OwnsLatest(Subject)
    <3>1. publisher'.step = "registries" /\ publisher'.version = Subject
      BY <1>0, <1>11, <2>2 DEF ReconcileLatest, Publisher
    <3>2. Subject \in Completed /\ \A x \in Completed : x <= Subject
      BY <2>1, <2>2 DEF OwnsLatest, LatestInv
    <3> QED BY <2>1, <3>1, <3>2
  <2>3. CASE ~OwnsLatest(Subject)
    BY <1>0, <1>11, <2>1, <2>3 DEF ReconcileLatest, Publisher
  <2> QED BY <2>2, <2>3
<1>12. ASSUME NEW r \in Registries, MoveLatest(r)
       PROVE  /\ latest' = [latest EXCEPT ![r] = Subject] /\ Completed' = Completed
              /\ Kept /\ High
  <2>1. /\ latest' = [latest EXCEPT ![r] = Subject] /\ Completed' = Completed
        /\ publisher.step = "registries"
    BY <1>12 DEF MoveLatest, Completed
  <2>2. publisher'.version = Subject
    BY <1>0, <1>12 DEF MoveLatest, Publisher
  <2>3. Subject \in Completed /\ \A x \in Completed : x <= Subject
    BY <2>1 DEF LatestInv
  <2> QED BY <2>1, <2>2, <2>3
<1>13. CASE Publication
  <2>1. ASSUME NEW v \in Versions, Authorize(v) PROVE Kept /\ High /\ latest' = latest
    BY <1>3, <1>4, <2>1 DEF Authorize
  <2>2. ASSUME NEW d \in Digests, Freeze(d) PROVE Kept /\ High /\ latest' = latest
    BY <1>3, <1>5, <2>2 DEF Freeze
  <2>3. ASSUME Verify PROVE Kept /\ High /\ latest' = latest
    BY <1>3, <1>6, <2>3 DEF Verify
  <2>4. ASSUME NEW r \in Registries, Reconcile(r) PROVE Kept /\ High /\ latest' = latest
    BY <1>3, <1>7, <2>4 DEF Reconcile
  <2> HIDE DEF Kept, High
  <2>5. ASSUME NEW r \in Registries, MoveLatest(r)
        PROVE  /\ \E q \in Registries : /\ MoveLatest(q) /\ Completed' = Completed
                                        /\ latest' = [latest EXCEPT ![q] = Subject]
               /\ Kept /\ High
    BY <1>12, <2>5
  <2> QED BY <1>9, <1>10, <1>11, <1>13, <1>16, <2>1, <2>2, <2>3, <2>4, <2>5 DEF Publication, Kept, High
<1>14. CASE UNCHANGED <<publisher, latest>> /\ ~Complete
  BY <1>2, <1>14
<1>15. Complete => publisher' # publisher
  <2>1. ASSUME Complete PROVE publisher'.step = "unlabel" /\ publisher.step = "complete"
    BY <1>0, <2>1, PublisherType DEF Complete
  <2> QED BY <2>1
<1> HIDE DEF Kept, High
<1> QED
  BY <1>9, <1>13, <1>14, <1>15, <1>16 DEF Next, vars, Crash, Others, Kept, High

LEMMA LatestNext == BaseInv /\ LatestInv /\ [Next]_vars => LatestInv'
<1> SUFFICES ASSUME BaseInv, LatestInv, [Next]_vars PROVE LatestInv'
  OBVIOUS
<1>1. /\ publisher'.step \in {"unlabel", "latest", "registries"} => publisher'.version \in Completed'
      /\ publisher'.step = "registries" => \A x \in Completed' : x <= publisher'.version
  BY LatestStep
<1>2. ASSUME NEW r \in Registries, latest'[r] # None PROVE latest'[r] \in Completed'
  <2>1. CASE latest' = latest
    BY <1>2, <2>1, CompletedStep DEF LatestInv
  <2>2. ASSUME NEW q \in Registries, MoveLatest(q), Completed' = Completed,
               latest' = [latest EXCEPT ![q] = Subject]
        PROVE  latest'[r] \in Completed'
    BY <1>2, <2>2 DEF BaseInv, TypeOK, LatestInv, MoveLatest
  <2> QED BY <2>1, <2>2, LatestStep
<1> QED BY <1>1, <1>2 DEF LatestInv, Subject

\* A registry's latest is a completed release and never goes back to a lower
\* version, also when a release is recovered that is not the highest.
THEOREM LatestCorrect == Spec => LatestRises
<1>1. Init => LatestInv
  BY DEF Init, ManagerInit, LatestInv
<1>2. BaseInv /\ LatestInv /\ [Next]_vars =>
        \A r \in Registries :
          /\ latest'[r] # None => latest'[r] \in Completed'
          /\ latest[r] # None => latest'[r] >= latest[r]
  <2> SUFFICES ASSUME BaseInv, LatestInv, [Next]_vars, NEW r \in Registries
               PROVE  /\ latest'[r] # None => latest'[r] \in Completed'
                      /\ latest[r] # None => latest'[r] >= latest[r]
    OBVIOUS
  <2>1. latest'[r] # None => latest'[r] \in Completed'
    BY LatestNext DEF LatestInv
  <2>2. ASSUME latest[r] # None PROVE latest'[r] >= latest[r]
    <3>1. latest[r] \in Completed /\ latest[r] \in Nat /\ Subject \in Nat
      BY <2>2, SubjectFacts DEF LatestInv, Completed, Versions, BaseInv
    <3>2. CASE latest' = latest
      BY <3>1, <3>2
    <3>3. ASSUME NEW q \in Registries, MoveLatest(q), latest' = [latest EXCEPT ![q] = Subject]
          PROVE  latest'[r] >= latest[r]
      <4>1. latest[r] <= Subject
        BY <3>1, <3>3 DEF MoveLatest, LatestInv
      <4> QED BY <3>1, <3>3, <4>1 DEF BaseInv, TypeOK
    <3> QED BY <3>2, <3>3, LatestStep
  <2> QED BY <2>1, <2>2
<1> QED BY <1>1, <1>2, BaseHolds, LatestNext, PTL DEF Spec, LatestRises

-----------------------------------------------------------------------------
(* The refinement of ReleaseChannel                                        *)

ChannelInv == BaseInv /\ PublishedInv /\ LatestInv

LEMMA ChannelInvHolds == Spec => []ChannelInv
<1>1. Init => PublishedInv /\ LatestInv
  BY DEF Init, ManagerInit, PublishedInv, CandidateInv, PublishedAgrees, Published, LatestInv
<1> QED BY <1>1, BaseHolds, PublishedNext, LatestNext, PTL DEF Spec, ChannelInv

LEMMA ChannelInit == Init => Channel!Init
BY DEF Init, ManagerInit, Channel!Init, Offered, Published, Completed

\* What is published is one image, and stays it.
LEMMA OfferedKept ==
  ASSUME ChannelInv, [Next]_vars, NEW v \in Versions, Published(v)
  PROVE  /\ Offered(v) = {release[v].digest} /\ Offered(v)' = Offered(v)
         /\ release[v].digest \in Digests /\ Published(v)'
<1>1. /\ release[v].digest # None /\ release[v].assets = release[v].digest
      /\ \A r \in Registries : alias[r][v] = release[v].digest
  BY DEF ChannelInv, PublishedInv, PublishedAgrees
<1>2. release[v] \in Release
  BY SubjectFacts DEF ChannelInv, BaseInv, Published
<1>3. /\ release'[v] \in {release[v], [release[v] EXCEPT !.complete = TRUE]}
      /\ \A r \in Registries : alias'[r][v] = alias[r][v]
  BY FrozenStep DEF ChannelInv
<1>4. /\ release'[v].digest = release[v].digest /\ release'[v].assets = release[v].assets
      /\ release'[v].draft = release[v].draft /\ release'[v] \in Release
  BY <1>2, <1>3 DEF Release
<1>5. Published(v)'
  BY <1>4, NoneAssumption DEF Published
<1>6. Offered(v) = {release[v].digest}
  BY <1>1 DEF Offered
<1>7. Offered(v)' = {release[v].digest}
  BY <1>1, <1>3, <1>4, <1>5 DEF Offered
<1> QED BY <1>1, <1>2, <1>5, <1>6, <1>7, NoneAssumption DEF Release, MaybeIn

\* Only the step Publish offers a version, and only what it publishes.
LEMMA OfferedStays ==
  ASSUME ChannelInv, [Next]_vars, NEW v \in Versions, ~(Publish /\ v = Subject /\ ~Published(v))
  PROVE  Offered(v)' = Offered(v)
<1>1. CASE Published(v)
  BY <1>1, OfferedKept
<1>2. CASE ~Published(v)
  <2>1. ~Published(v)'
    BY <1>2, PublishStep DEF ChannelInv
  <2> QED BY <1>2, <2>1 DEF Offered
<1> QED BY <1>1, <1>2

\* The publisher's draft becomes public with all that its version offers.
LEMMA ChannelPublish ==
  ASSUME ChannelInv, [Next]_vars, Publish, ~Published(Subject)
  PROVE  \E v \in Versions, d \in Digests : Channel!Publish(v, d)
<1>1. Subject \in Versions /\ ChannelInv' /\ TypeOK
  BY SubjectFacts, BaseNext, PublishedNext, LatestNext DEF ChannelInv, BaseInv
<1>2. PICK v \in Versions : v = Subject
  BY <1>1
<1>3. publisher.digest \in Digests
  BY DEF Publish, ChannelInv, BaseInv, PublisherInv
<1>4. PICK d \in Digests : d = publisher.digest
  BY <1>3
<1>5. /\ release' = [release EXCEPT ![v] = [release[v] EXCEPT !.draft = FALSE]]
      /\ alias' = alias /\ latest' = latest
      /\ release[v] \in Release
      /\ release[v].digest = d /\ release[v].assets = d
      /\ \A r \in Registries : alias[r][v] = d
  BY <1>1, <1>2, <1>4, SubjectFacts DEF Publish, ChannelInv, BaseInv, PublishedInv, CandidateInv
<1>6. release'[v] \in Release /\ ~release'[v].draft /\ release'[v].digest = d /\ release'[v].assets = d
  BY <1>1, <1>5 DEF TypeOK, Release
<1>7. Offered(v) = {} /\ Offered(v)' = {d}
  <2>1. Published(v)'
    BY <1>6, NoneAssumption DEF Published
  <2>2. ~Published(v)
    BY <1>2
  <2> QED BY <1>5, <1>6, <2>1, <2>2 DEF Offered
<1>8. \A w \in Versions \ {v} : Offered(w)' = Offered(w)
  BY <1>2, OfferedStays
<1>9. Completed' = Completed
  <2>1. ~Complete
    BY DEF Publish, Complete
  <2> QED BY <2>1, CompletedStep DEF ChannelInv
<1>10. Channel!Publish(v, d)
  BY <1>5, <1>7, <1>8, <1>9 DEF Channel!Publish
<1> QED BY <1>10

LEMMA ChannelStep == ChannelInv /\ [Next]_vars => [Channel!Next]_Channel!vars
<1> SUFFICES ASSUME ChannelInv, [Next]_vars PROVE Channel!Next \/ UNCHANGED Channel!vars
  OBVIOUS
<1>0. Subject \in Versions /\ TypeOK
  BY SubjectFacts DEF ChannelInv, BaseInv
<1>1. CASE Publish /\ ~Published(Subject)
  BY <1>1, ChannelPublish DEF Channel!Next
<1>2. CASE ~(Publish /\ ~Published(Subject))
  <2>1. \A v \in Versions : Offered(v)' = Offered(v)
    BY <1>2, OfferedStays
  <2>2. [v \in Versions |-> Offered(v)]' = [v \in Versions |-> Offered(v)]
    BY <2>1
  <2>3. CASE Complete
    <3>1. latest' = latest /\ Published(Subject)
      BY <2>3 DEF Complete
    <3>2. Offered(Subject) # {}
      BY <1>0, <3>1, OfferedKept
    <3>3. Completed' \in {Completed, Completed \cup {Subject}}
      BY CompletedStep DEF ChannelInv
    <3>4. CASE Completed' = Completed
      BY <2>2, <3>1, <3>4 DEF Channel!vars
    <3>5. CASE Completed' = Completed \cup {Subject}
      <4>1. PICK v \in Versions : v = Subject
        BY <1>0
      <4>2. Channel!Complete(v)
        BY <2>2, <3>1, <3>2, <3>5, <4>1 DEF Channel!Complete
      <4> QED BY <4>2 DEF Channel!Next
    <3> QED BY <3>3, <3>4, <3>5
  <2>4. CASE ~Complete
    <3>1. Completed' = Completed
      BY <2>4, CompletedStep DEF ChannelInv
    <3>2. CASE latest' = latest
      BY <2>2, <3>1, <3>2 DEF Channel!vars
    <3>3. ASSUME NEW r \in Registries, MoveLatest(r), latest' = [latest EXCEPT ![r] = Subject]
          PROVE  Channel!Next
      <4>1. PICK v \in Versions : v = Subject
        BY <1>0
      <4>2. v \in Completed /\ \A x \in Completed : x <= v
        BY <3>3, <4>1 DEF MoveLatest, ChannelInv, LatestInv
      <4>3. Channel!Point(r, v)
        BY <2>2, <3>1, <3>3, <4>1, <4>2 DEF Channel!Point
      <4> QED BY <4>3 DEF Channel!Next
    <3> QED BY <3>2, <3>3, LatestStep DEF ChannelInv
  <2> QED BY <2>3, <2>4
<1> QED BY <1>1, <1>2

\* Whatever is built, interrupted or recovered, users see each version appear
\* at once, as one image, for good, and latest at the highest completed one.
THEOREM ChannelImplemented == Spec => ImplementsChannel
<1>1. Init => Channel!Init
  BY ChannelInit
<1>2. ChannelInv /\ [Next]_vars => [Channel!Next]_Channel!vars
  BY ChannelStep
<1> QED BY <1>1, <1>2, ChannelInvHolds, PTL DEF Spec, ImplementsChannel, Channel!Spec

-----------------------------------------------------------------------------
(* The versions along main                                                 *)

\* Of a changelog, newest first: its versions fall.
Falls(s)    == \A i, j \in 1 .. Len(s) : i < j => s[j] < s[i]
Elements(s) == {s[i] : i \in 1 .. Len(s)}

\* Above what main records now and above every release that was drafted.
Above(v) ==
  /\ \A x \in Recorded(Tip) : x < v
  /\ \A u \in Versions : release[u] # None => u < v

\* No release commit at or above a place on main.
NoneFrom(b) == \A i \in 1 .. Tip : ReleaseAt(i) => i < b

PullInv == pr # None => Above(pr.version) /\ NoneFrom(pr.base) /\ pr.base <= Tip

\* What the job that proposes read is still so: drafts are its own, and main
\* gets no release commit while the pull request it made it for is there, or
\* it is its turn to make one.
ProposeInv ==
  /\ manager.step = "create" => pr = None
  /\ manager.step \in {"close", "create"} =>
       /\ \A x \in Baseline(manager.base) : x <= manager.version
       /\ \A u \in Versions : release[u] # None => u < manager.version
       /\ pr # None \/ manager.step = "create" =>
            NoneFrom(manager.base) /\ Recorded(Tip) \subseteq Recorded(manager.base)

\* Nothing is proposed while a release is being drafted.
DraftInv == manager.step = "draft" => pr = None /\ NoneFrom(manager.base + 1)

RisingInv ==
  /\ \A c \in 1 .. Tip : Falls(main[c].recorded)
  /\ PullInv /\ ProposeInv /\ DraftInv
  /\ VersionsIncrease

LEMMA FallingTail ==
  ASSUME NEW s \in Seq(Versions), s # <<>>, Falls(s)
  PROVE  Falls(Tail(s)) /\ Elements(Tail(s)) \subseteq Elements(s)
<1>1. Len(Tail(s)) = Len(s) - 1 /\ Len(s) \in Nat \ {0}
  OBVIOUS
<1>2. \A i \in 1 .. Len(Tail(s)) : Tail(s)[i] = s[i + 1] /\ i + 1 \in 1 .. Len(s)
  BY <1>1
<1>3. Falls(Tail(s))
  <2> SUFFICES ASSUME NEW i \in 1 .. Len(Tail(s)), NEW j \in 1 .. Len(Tail(s)), i < j
               PROVE  Tail(s)[j] < Tail(s)[i]
    BY DEF Falls
  <2>1. i + 1 < j + 1
    BY <1>1
  <2> QED BY <1>2, <2>1 DEF Falls
<1>4. Elements(Tail(s)) \subseteq Elements(s)
  BY <1>2 DEF Elements
<1> QED BY <1>3, <1>4

LEMMA FallingCons ==
  ASSUME NEW s \in Seq(Versions), NEW v \in Versions, Falls(s), \A x \in Elements(s) : x < v
  PROVE  Falls(<<v>> \o s)
<1> DEFINE t == <<v>> \o s
<1>1. Len(t) = Len(s) + 1 /\ Len(s) \in Nat /\ t[1] = v
  OBVIOUS
<1>2. \A i \in 2 .. Len(t) : t[i] = s[i - 1] /\ i - 1 \in 1 .. Len(s)
  BY <1>1
<1> HIDE DEF t
<1>3. ASSUME NEW i \in 1 .. Len(t), NEW j \in 1 .. Len(t), i < j
      PROVE  t[j] < t[i]
  <2>1. t[j] = s[j - 1] /\ j - 1 \in 1 .. Len(s)
    BY <1>1, <1>2, <1>3
  <2>2. CASE i = 1
    BY <1>1, <2>1, <2>2 DEF Elements
  <2>3. CASE i # 1
    <3>1. i \in 2 .. Len(t)
      BY <1>1, <2>3
    <3>2. t[i] = s[i - 1] /\ i - 1 \in 1 .. Len(s) /\ i - 1 < j - 1
      BY <1>1, <1>2, <1>3, <3>1
    <3> QED BY <2>1, <3>2 DEF Falls
  <2> QED BY <2>2, <2>3
<1> QED BY <1>3 DEF Falls, t

\* The newest of a changelog's releases is the highest.
LEMMA BaselineHighest ==
  ASSUME TypeOK, NEW c \in 1 .. Tip, Falls(main[c].recorded), NEW x \in Recorded(c)
  PROVE  x \in Nat /\ \E y \in Baseline(c) : y \in Nat /\ x <= y
<1> DEFINE s == main[c].recorded
<1>1. s \in Seq(Versions)
  BY TipFacts
<1>2. PICK i \in 1 .. Len(s) : x = s[i]
  BY DEF Recorded
<1>3. s # <<>> /\ Baseline(c) = {s[1]} /\ 1 \in 1 .. Len(s)
  BY <1>1, <1>2 DEF Baseline
<1>4. s[i] \in Nat /\ s[1] \in Nat
  <2>1. \A k \in 1 .. Len(s) : s[k] \in Versions
    BY <1>1
  <2> QED BY <1>2, <1>3, <2>1 DEF Versions
<1>5. i = 1 \/ s[i] < s[1]
  BY <1>1, <1>2, <1>3 DEF Falls
<1> QED BY <1>2, <1>3, <1>4, <1>5

\* main is kept, and main's tip records no more than before, unless a pull
\* request is merged, which closes it.
LEMMA NewRelease ==
  ASSUME BaseInv, RisingInv, [Next]_vars
  PROVE  /\ Tip \in Nat \ {0} /\ Tip' \in {Tip, Tip + 1} /\ MainKept
         /\ \A c \in 1 .. Tip' : Falls(main[c].recorded)'
         /\ \/ /\ \A i \in 1 .. Tip' : ReleaseAt(i)' => i \in 1 .. Tip
               /\ Recorded(Tip)' \subseteq Recorded(Tip)
            \/ /\ pr # None /\ pr' = None /\ Tip' = Tip + 1 /\ UNCHANGED <<manager, release>>
               /\ main'[Tip + 1].from = pr
<1>0. /\ TypeOK /\ Tip \in Nat \ {0} /\ Tip \in 1 .. Tip
      /\ main[Tip].recorded \in Seq(Versions) /\ Falls(main[Tip].recorded)
  BY MainFacts, TipFacts DEF BaseInv, RisingInv
<1>1. MainKept /\ Tip' \in {Tip, Tip + 1}
  BY MainStep
<1>2. \A c \in 1 .. Tip : Falls(main'[c].recorded) /\ (ReleaseAt(c)' <=> ReleaseAt(c))
  BY <1>1 DEF RisingInv, MainKept
<1>3. CASE Tip' = Tip
  BY <1>0, <1>1, <1>2, <1>3 DEF Recorded, MainKept
<1>4. CASE Tip' = Tip + 1 /\ Appended /\ UNCHANGED <<manager, release>>
  <2> DEFINE before == main[Tip].recorded
             after  == main'[Tip + 1].recorded
  <2>1. Recorded(Tip)' = Elements(after) /\ Recorded(Tip) = Elements(before)
    BY <1>4 DEF Recorded, Elements
  <2>2. \A c \in 1 .. Tip' : c \in 1 .. Tip \/ c = Tip + 1
    BY <1>0, <1>4
  <2>3. CASE main'[Tip + 1].from = None /\ after = before
    BY <1>0, <1>1, <1>2, <1>4, <2>1, <2>2, <2>3 DEF ReleaseAt
  <2>4. CASE main'[Tip + 1].from = None /\ before # <<>> /\ after = Tail(before)
    BY <1>0, <1>1, <1>2, <1>4, <2>1, <2>2, <2>4, FallingTail DEF ReleaseAt
  <2>5. CASE /\ pr # None /\ main'[Tip + 1].from = pr /\ pr' = None
             /\ after \in {before, <<pr.version>> \o before}
    <3>1. pr.version \in Versions /\ \A x \in Elements(before) : x < pr.version
      BY <1>0, <2>1, <2>5 DEF TypeOK, MaybeIn, PullRequest, RisingInv, PullInv, Above
    <3>2. Falls(after)
      BY <1>0, <2>5, <3>1, FallingCons
    <3> QED BY <1>0, <1>1, <1>2, <1>4, <2>2, <2>5, <3>2
  <2> QED BY <1>4, <2>3, <2>4, <2>5 DEF Appended
<1> QED BY <1>3, <1>4, MainStep

\* The open pull request keeps its version and its base; Create alone opens one.
LEMMA PullStep ==
  ASSUME BaseInv, [Next]_vars, pr' # None
  PROVE  \/ pr # None /\ pr'.version = pr.version /\ pr'.base = pr.base
         \/ Create
<1>0. pr # None => pr \in PullRequest
  BY DEF BaseInv, TypeOK, MaybeIn
<1>1. CASE UNCHANGED pr
  BY <1>1
<1>2. CASE HeadCI \/ Label \/ Ready \/ Tamper \/ \E r \in {"none", "approved", "blocked"} : Review(r)
  BY <1>0, <1>2 DEF HeadCI, Label, Ready, Tamper, Review, PullRequest
<1> QED
  BY <1>1, <1>2
  DEF Next, vars, managerVars, People, CI, Manage, Merge, HumanMerge, LateReview, MainCI, Push, Revert,
      Propose, Close, Prepare, Draft, Tag, ManagerFails, CheckMerge, PutMerge, MergerFails, Crash,
      Publication, CrashPublisher, ManagerUnchanged, Authorize, Freeze, Verify, Upload, Mark,
      Publish, Complete, Unlabel, ReconcileLatest, Reconcile, MoveLatest, PublisherFails, Squash

\* The job that proposes begins at main's tip, and goes on from there; the job
\* that prepares goes to its draft from there too.
LEMMA JobStep ==
  ASSUME BaseInv, [Next]_vars, manager'.step \in {"close", "create", "draft"}
  PROVE  \/ manager' = manager /\ ~Create
         \/ \E v \in Versions : Propose(v)
         \/ Close
         \/ Prepare /\ manager'.step = "draft"
<1>0. TypeOK
  BY DEF BaseInv
<1>1. ASSUME NEW step \in {"idle", "label", "ready", "tag"}, UNCHANGED main, Goto(step)
      PROVE  FALSE
  BY <1>0, <1>1, GotoType DEF Tip
<1>2. ~Create /\ ~Label /\ ~Ready /\ ~Draft /\ ~Tag /\ ~ManagerFails
  BY <1>1 DEF Create, Label, Ready, Draft, Tag, ManagerFails
<1>3. CASE UNCHANGED manager
  BY <1>2, <1>3
<1>4. CASE Prepare
  BY <1>4, PrepareFacts
<1>5. CASE Crash
  BY <1>1, <1>3, <1>5 DEF Crash
<1> QED
  BY <1>2, <1>3, <1>4, <1>5
  DEF Next, vars, managerVars, People, CI, Manage, Merge, HumanMerge, LateReview, MainCI, Push, Revert,
      HeadCI, Tamper, Review, CheckMerge, PutMerge, MergerFails, Publication, CrashPublisher,
      ManagerUnchanged, Authorize, Freeze, Verify, Upload, Mark, Publish, Complete, Unlabel,
      ReconcileLatest, Reconcile, MoveLatest, PublisherFails, Squash

\* A pull request is made for a version above all that are recorded or drafted.
LEMMA CreateAbove ==
  ASSUME BaseInv, RisingInv, Create
  PROVE  /\ pr'.version = manager.version /\ pr'.base = manager.base
         /\ UNCHANGED <<main, release>>
         /\ Above(manager.version) /\ NoneFrom(manager.base) /\ manager.base \in 1 .. Tip
<1>0. /\ TypeOK /\ manager.base \in 1 .. Tip /\ manager.version \in Nat
      /\ manager.step = "create" /\ UNCHANGED <<main, release>>
      /\ pr'.version = manager.version /\ pr'.base = manager.base
      /\ manager.version \notin Recorded(manager.base)
  BY DEF BaseInv, TypeOK, Create, Generates, Versions
<1>1. /\ NoneFrom(manager.base) /\ Recorded(Tip) \subseteq Recorded(manager.base)
      /\ \A x \in Baseline(manager.base) : x <= manager.version
      /\ \A u \in Versions : release[u] # None => u < manager.version
  BY <1>0 DEF RisingInv, ProposeInv
<1>2. ASSUME NEW x \in Recorded(Tip) PROVE x < manager.version
  <2>1. x \in Recorded(manager.base) /\ Falls(main[manager.base].recorded)
    BY <1>0, <1>1, <1>2 DEF RisingInv
  <2>2. PICK y \in Baseline(manager.base) : x \in Nat /\ y \in Nat /\ x <= y
    BY <1>0, <2>1, BaselineHighest
  <2> QED BY <1>0, <1>1, <2>1, <2>2
<1> QED BY <1>0, <1>1, <1>2 DEF Above

LEMMA PullNext == BaseInv /\ RisingInv /\ [Next]_vars => PullInv'
<1> SUFFICES ASSUME BaseInv, RisingInv, [Next]_vars, pr' # None
             PROVE  Above(pr.version)' /\ NoneFrom(pr.base)' /\ pr'.base <= Tip'
  BY DEF PullInv
<1>1. CASE pr # None /\ pr'.version = pr.version /\ pr'.base = pr.base
  <2>1. /\ Above(pr.version) /\ NoneFrom(pr.base) /\ pr.base <= Tip /\ pr.base \in Nat /\ ~Draft
    BY <1>1 DEF RisingInv, PullInv, DraftInv, Draft, BaseInv, TypeOK, MaybeIn, PullRequest, Commits
  <2>2. /\ Tip \in Nat /\ Tip' \in {Tip, Tip + 1} /\ MainKept /\ Recorded(Tip)' \subseteq Recorded(Tip)
        /\ \A i \in 1 .. Tip' : ReleaseAt(i)' => i \in 1 .. Tip
    BY NewRelease
  <2>3. \A u \in Versions : release'[u] # None => release[u] # None
    BY <2>1, ReleaseStep
  <2>4. Above(pr.version)'
    BY <1>1, <2>1, <2>2, <2>3 DEF Above
  <2>5. NoneFrom(pr.base)'
    BY <1>1, <2>1, <2>2 DEF NoneFrom, MainKept
  <2> QED BY <1>1, <2>1, <2>2, <2>4, <2>5
<1>2. CASE Create
  BY <1>2, CreateAbove DEF Above, NoneFrom, Recorded, ReleaseAt, Tip
<1> QED BY <1>1, <1>2, PullStep

LEMMA ProposeNext == BaseInv /\ RisingInv /\ [Next]_vars => ProposeInv'
<1> SUFFICES ASSUME BaseInv, RisingInv, [Next]_vars, manager'.step \in {"close", "create"}
             PROVE  /\ manager'.step = "create" => pr' = None
                    /\ \A x \in Baseline(manager.base)' : x <= manager'.version
                    /\ \A u \in Versions : release'[u] # None => u < manager'.version
                    /\ pr' # None \/ manager'.step = "create" =>
                         NoneFrom(manager.base)' /\ Recorded(Tip)' \subseteq Recorded(manager.base)'
  BY DEF ProposeInv
<1>0. /\ TypeOK /\ ProposeInv /\ manager.base \in 1 .. Tip /\ Tip \in Nat \ {0} /\ MainKept
  BY NewRelease DEF BaseInv, TypeOK, RisingInv
<1>1. CASE manager' = manager /\ ~Create
  <2>1. /\ manager.step \in {"close", "create"} /\ ~Draft
        /\ \A x \in Baseline(manager.base) : x <= manager.version
        /\ \A u \in Versions : release[u] # None => u < manager.version
    BY <1>0, <1>1 DEF ProposeInv, Draft
  <2>2. manager.step = "create" => pr = None /\ pr' = None
    BY <1>0, <1>1, PullStep DEF ProposeInv
  <2>3. PICK b \in 1 .. Tip : b = manager.base
    BY <1>0
  <2>4. Baseline(b)' = Baseline(b) /\ Recorded(b)' = Recorded(b)
    <3>1. main'[b].recorded = main[b].recorded
      BY <1>0 DEF MainKept
    <3> QED BY <3>1 DEF Baseline, Recorded
  <2>5. \A u \in Versions : release'[u] # None => release[u] # None
    BY <2>1, ReleaseStep
  <2>6. ASSUME pr' # None \/ manager.step = "create"
        PROVE  NoneFrom(b)' /\ Recorded(Tip)' \subseteq Recorded(b)'
    <3>1. NoneFrom(b) /\ Recorded(Tip) \subseteq Recorded(b)
      BY <1>0, <1>1, <2>1, <2>3, <2>6, PullStep DEF ProposeInv
    <3>2. /\ \A i \in 1 .. Tip' : ReleaseAt(i)' => i \in 1 .. Tip
          /\ Recorded(Tip)' \subseteq Recorded(Tip)
      BY <2>2, <2>6, NewRelease
    <3> QED BY <1>0, <2>4, <3>1, <3>2 DEF NoneFrom, MainKept
  <2>7. manager'.base = b
    BY <1>1, <2>3
  <2> QED BY <1>1, <2>1, <2>2, <2>3, <2>4, <2>5, <2>6, <2>7
<1>2. ASSUME NEW v \in Versions, Propose(v)
      PROVE  /\ manager'.step = "create" => pr' = None
             /\ \A x \in Baseline(manager.base)' : x <= manager'.version
             /\ \A u \in Versions : release'[u] # None => u < manager'.version
             /\ NoneFrom(manager.base)' /\ Recorded(Tip)' \subseteq Recorded(manager.base)'
  <2>1. /\ manager'.base = Tip /\ manager'.version = v /\ UNCHANGED <<main, pr, release>>
        /\ manager'.step = IF pr = None THEN "create" ELSE "close"
        /\ ~ReleaseAt(Tip) /\ Incomplete = {} /\ Proposable(v)
    BY <1>2 DEF Propose
  <2>2. \A u \in Versions : release[u] # None => u < v
    BY <2>1 DEF Incomplete, Completed, Proposable
  <2>3. NoneFrom(Tip)
    BY <1>0, <2>1 DEF NoneFrom
  <2>4. \A x \in Baseline(Tip) : x <= v
    BY <2>1 DEF Proposable
  <2> QED BY <2>1, <2>2, <2>3, <2>4 DEF NoneFrom, Recorded, Baseline, ReleaseAt, Tip
<1>3. CASE Close
  <2>1. /\ manager.step = "close" /\ pr # None /\ pr' = None /\ UNCHANGED <<main, release>>
        /\ manager'.base = manager.base /\ manager'.version = manager.version
    BY <1>0, <1>3, GotoType DEF Close, Tip
  <2>2. /\ NoneFrom(manager.base) /\ Recorded(Tip) \subseteq Recorded(manager.base)
        /\ \A x \in Baseline(manager.base) : x <= manager.version
        /\ \A u \in Versions : release[u] # None => u < manager.version
    BY <1>0, <2>1 DEF ProposeInv
  <2>3. PICK b : b = manager.base
    OBVIOUS
  <2>4. Baseline(b)' = Baseline(b) /\ Recorded(b)' = Recorded(b) /\ Recorded(Tip)' = Recorded(Tip)
    BY <2>1 DEF Recorded, Baseline, Tip
  <2>5. NoneFrom(b)'
    BY <2>1, <2>2, <2>3 DEF NoneFrom, ReleaseAt, Tip
  <2>6. manager'.base = b
    BY <2>1, <2>3
  <2> QED BY <2>1, <2>2, <2>3, <2>4, <2>5, <2>6
<1> QED BY <1>1, <1>2, <1>3, JobStep

\* A release commit at main's tip is prepared when nothing is proposed: the
\* pull request would have its base above all release commits.
LEMMA DraftNext == BaseInv /\ RisingInv /\ [Next]_vars => DraftInv'
<1> SUFFICES ASSUME BaseInv, RisingInv, [Next]_vars, manager'.step = "draft"
             PROVE  pr' = None /\ NoneFrom(manager.base + 1)'
  BY DEF DraftInv
<1>0. TypeOK /\ Tip \in Nat \ {0} /\ MainKept
  BY NewRelease DEF BaseInv
<1>1. CASE manager' = manager /\ ~Create
  <2>1. pr = None /\ pr' = None /\ NoneFrom(manager.base + 1)
    BY <1>1, PullStep DEF RisingInv, DraftInv
  <2>2. \A i \in 1 .. Tip' : ReleaseAt(i)' => i \in 1 .. Tip
    BY <2>1, NewRelease
  <2>3. PICK b : b = manager.base + 1
    OBVIOUS
  <2>4. NoneFrom(b)'
    BY <1>0, <2>1, <2>2, <2>3 DEF NoneFrom, MainKept
  <2> QED BY <1>1, <2>1, <2>3, <2>4 DEF NoneFrom
<1>2. CASE Prepare
  <2>1. manager'.base = Tip /\ UNCHANGED <<main, pr>> /\ ReleaseAt(Tip)
    BY <1>2, PrepareFacts DEF Prepare, ReleaseOf
  <2>2. pr = None
    <3>1. SUFFICES ASSUME pr # None PROVE FALSE
      OBVIOUS
    <3>2. NoneFrom(pr.base) /\ pr.base <= Tip /\ pr.base \in Nat
      BY <3>1 DEF RisingInv, PullInv, BaseInv, TypeOK, MaybeIn, PullRequest, Commits
    <3> QED BY <1>0, <2>1, <3>2 DEF NoneFrom
  <2> QED BY <1>0, <2>1, <2>2 DEF NoneFrom, ReleaseAt, Tip
<1>3. ~Close /\ \A v \in Versions : ~Propose(v)
  BY <1>0, GotoType DEF Close, Propose, Tip
<1> QED BY <1>1, <1>2, <1>3, JobStep

\* A release commit is above what main recorded and what was drafted when it
\* was proposed, and a draft is for the last release commit.
LEMMA VersionsNext == BaseInv /\ RisingInv /\ [Next]_vars => VersionsIncrease'
<1> SUFFICES ASSUME BaseInv, RisingInv, [Next]_vars,
                    NEW i \in 1 .. Tip', NEW j \in 1 .. Tip', i < j, ReleaseAt(i)', ReleaseAt(j)',
                    NEW v, v = main'[i].from.version,
                    v \in Recorded(j - 1)' \/ (release'[v] # None /\ release'[v].commit = i)
             PROVE  v < main'[j].from.version
  BY DEF VersionsIncrease
<1>0. /\ TypeOK /\ MainKept /\ Tip \in Nat \ {0} /\ Tip' \in {Tip, Tip + 1}
  BY NewRelease DEF BaseInv
<1>1. i \in 1 .. Tip /\ ReleaseAt(i) /\ v = VersionAt(i) /\ v \in Versions /\ j - 1 \in 1 .. Tip
  <2>1. i \in 1 .. Tip /\ j - 1 \in 1 .. Tip
    BY <1>0
  <2>2. ReleaseAt(i) /\ v = VersionAt(i)
    BY <1>0, <2>1 DEF MainKept, VersionAt
  <2> QED BY <1>0, <2>1, <2>2, MainFacts DEF PullRequest, VersionAt
<1>2. v \in Recorded(j - 1) \/ (release'[v] # None /\ release'[v].commit = i)
  <2>1. PICK c \in 1 .. Tip : c = j - 1
    BY <1>1
  <2>2. Recorded(c)' = Recorded(c)
    BY <1>0 DEF MainKept, Recorded
  <2> QED BY <2>1, <2>2
<1>3. CASE j \in 1 .. Tip
  <2>1. ReleaseAt(j) /\ main'[j].from.version = VersionAt(j)
    BY <1>0, <1>3 DEF MainKept, VersionAt
  <2>2. CASE release[v] # None \/ ~Draft
    <3>1. v \in Recorded(j - 1) \/ (release[v] # None /\ release[v].commit = i)
      BY <1>1, <1>2, <2>2, ReleaseStep
    <3>2. VersionsIncrease
      BY DEF RisingInv
    <3> QED BY <1>1, <1>3, <2>1, <3>1, <3>2 DEF VersionsIncrease, VersionAt
  <2>3. CASE v \in Recorded(j - 1)
    <3>1. VersionsIncrease
      BY DEF RisingInv
    <3> QED BY <1>1, <1>3, <2>1, <2>3, <3>1 DEF VersionsIncrease, VersionAt
  <2>4. CASE Draft /\ release[v] = None /\ release'[v] # None /\ release'[v].commit = i
    <3>1. i = manager.base
      BY <1>0, <1>1, <2>4, DraftFacts, ReleaseType
    <3>2. NoneFrom(manager.base + 1)
      BY <2>4 DEF RisingInv, DraftInv, Draft
    <3> QED BY <1>0, <1>1, <1>3, <2>1, <3>1, <3>2 DEF NoneFrom
  <2> QED BY <1>2, <2>2, <2>3, <2>4
<1>4. CASE j \notin 1 .. Tip
  <2>1. /\ j = Tip + 1 /\ pr # None /\ main'[j].from = pr /\ release' = release
    BY <1>0, <1>4, NewRelease
  <2>2. Above(pr.version)
    BY <2>1 DEF RisingInv, PullInv
  <2>3. j - 1 = Tip
    BY <1>0, <2>1
  <2> QED BY <1>1, <1>2, <2>1, <2>2, <2>3 DEF Above
<1> QED BY <1>3, <1>4

LEMMA RisingNext == BaseInv /\ RisingInv /\ [Next]_vars => RisingInv'
<1> SUFFICES ASSUME BaseInv, RisingInv, [Next]_vars PROVE RisingInv'
  OBVIOUS
<1>1. \A c \in 1 .. Tip' : Falls(main[c].recorded)'
  BY NewRelease
<1> QED BY <1>1, PullNext, ProposeNext, DraftNext, VersionsNext DEF RisingInv

\* Along main the versions of the release commits rise, also when people
\* merge a proposal themselves, when a release commit is reverted and when a
\* release is abandoned half way: a later one is above every version that
\* CHANGELOG.md still records, and above every one that was ever drafted.
THEOREM VersionsCorrect == Spec => []VersionsIncrease
<1>1. Init => RisingInv
  <2> SUFFICES ASSUME Init PROVE RisingInv
    OBVIOUS
  <2>1. /\ main = <<[from |-> None, by |-> "human", recorded |-> <<>>]>>
        /\ pr = None /\ manager.step = "idle"
    BY DEF Init, ManagerInit
  <2>2. Tip = 1 /\ main[1].from = None /\ main[1].recorded = <<>>
    BY <2>1 DEF Tip
  <2>3. (\A c \in 1 .. Tip : Falls(main[c].recorded)) /\ VersionsIncrease
    BY <2>2 DEF Falls, VersionsIncrease
  <2> QED BY <2>1, <2>3 DEF RisingInv, PullInv, ProposeInv, DraftInv
<1>2. RisingInv => VersionsIncrease
  BY DEF RisingInv
<1> QED BY <1>1, <1>2, BaseHolds, RisingNext, PTL DEF Spec

=============================================================================

--------------------------- MODULE OidcFlowProofs ---------------------------
(***************************************************************************)
(* What OidcFlow guarantees for any number of flows, subjects, names and   *)
(* workers.  The inductive invariant adds to the types who a request acts  *)
(* for: the subject it works on is the one that signed in for its flow,    *)
(* the account it is about to store is that subject's unless it has been   *)
(* deleted, and a request that issues holds the flow's only lock.  With it *)
(* a flow is an offer in the sense of OneTimeOffer.                        *)
(***************************************************************************)
EXTENDS OidcFlow, FiniteSetTheorems, TLAPS

\* Primary keys are unique and never used again.
KeysOK ==
  /\ \A n \in AllNames : user[n] # None => user[n].id < users
  /\ \A m, n \in AllNames : user[m] # None /\ user[n] # None /\ user[m].id = user[n].id => m = n
  /\ \A id \in made : id < users

\* What the steps of a request rely on.
Resolving == {"identify", "name", "clean", "clash", "insert", "recover", "store", "consumed"}
Named     == {"clean", "clash", "insert", "recover"}

RequestOK(r) ==
  /\ r.step \notin {"idle", "create"} => r.flow \in started
  /\ r.try < Attempts
  /\ r.step \in Resolving => r.sub \in Subjects /\ r.sub = who[r.flow]
  /\ r.step = "fetch" => who[r.flow] # None
  /\ r.step \in Named => r.name \in AllNames
  /\ r.step \in {"store", "issue"} => r.uid \in Nat /\ r.uid < users
  /\ r.step = "store" /\ Exists(r.uid) => identity[r.sub] = r.uid
  /\ r.step = "issue" => /\ row[r.flow] # None
                         /\ row[r.flow].status = "done"
                         /\ row[r.flow].user = r.uid

RequestsOK == \A w \in Workers : RequestOK(req[w])

OneIssuer == \A v, w \in Workers : At(v, "issue") /\ At(w, "issue") /\ Flow(v) = Flow(w) => v = w

FlowsOK == \A f \in Flows :
  /\ f \notin started => who[f] = None /\ issued[f] = << >>
  /\ row[f] # None => issued[f] = << >>
  /\ row[f] # None /\ row[f].status = "done" =>
       /\ who[f] # None
       /\ row[f].user # None
       /\ row[f].user = identity[who[f]]

Inv == TypeOK /\ KeysOK /\ RequestsOK /\ OneIssuer /\ FlowsOK /\ OneAccountPerSubject

LEMMA InitInv == Init => Inv
<1> SUFFICES ASSUME Init PROVE Inv
    OBVIOUS
<1> USE DEF Init
<1>1. TypeOK
      BY BoundsAssumption, NoneAssumption DEF TypeOK, MaybeIn, Request, Idle, Steps
<1>2. KeysOK
      BY DEF KeysOK
<1>3. RequestsOK
      BY BoundsAssumption DEF RequestsOK, RequestOK, Idle, Resolving, Named
<1>4. OneIssuer
      BY DEF OneIssuer, At, Idle
<1>5. FlowsOK
      BY DEF FlowsOK
<1>6. OneAccountPerSubject
      BY DEF OneAccountPerSubject
<1> QED
    BY <1>1, <1>2, <1>3, <1>4, <1>5, <1>6 DEF Inv

-----------------------------------------------------------------------------
(* Steps that change no table                                              *)

\* A request moves on, and the tables stay.
LEMMA RequestMoves ==
  ASSUME Inv, NEW w \in Workers, NEW r \in Request, Goto(w, r), RequestOK(r),
         r.step = "issue" => r = req[w] \/ ~Locked(r.flow),
         UNCHANGED <<user, identity, row, who, users, started, issued, made>>,
         code' \in [Flows -> {"none", "ready", "used"}], crashes' \in Nat
  PROVE  Inv'
<1>1. /\ req \in [Workers -> Request]
      /\ req' = [req EXCEPT ![w] = r]
      BY DEF Inv, TypeOK, Goto
<1>2. TypeOK'
      BY <1>1 DEF Inv, TypeOK, Exists
<1>3. KeysOK'
      BY DEF Inv, KeysOK
<1>4. RequestsOK'
      BY <1>1 DEF Inv, RequestsOK, RequestOK, Exists
<1>5. OneIssuer'
      BY <1>1 DEF Inv, OneIssuer, Locked, At, Flow
<1>6. FlowsOK'
      BY DEF Inv, FlowsOK
<1>7. OneAccountPerSubject'
      BY DEF Inv, OneAccountPerSubject, Exists
<1> QED
    BY <1>2, <1>3, <1>4, <1>5, <1>6, <1>7 DEF Inv

LEMMA IdleOK == Idle \in Request /\ RequestOK(Idle) /\ Idle.step # "issue"
BY BoundsAssumption DEF Idle, Request, Steps, MaybeIn, RequestOK, Resolving, Named

\* The account that a sign-in resolved to is the subject's.
LEMMA ResolvedMoves ==
  ASSUME Inv, NEW w \in Workers, NEW id, Resolved(w, id), At(w, "identify") \/ At(w, "recover"),
         id # None, identity[req[w].sub] = id,
         UNCHANGED <<user, identity, row, code, who, users, crashes, started, issued, made>>
  PROVE  Inv'
<1>1. /\ req[w] \in Request /\ RequestOK(req[w])
      /\ id \in Nat /\ Exists(id) /\ KeysOK
      BY DEF Inv, TypeOK, RequestsOK, RequestOK, Resolving, At, MaybeIn
<1>2. id < users
      BY <1>1 DEF KeysOK, Exists
<1>3. PICK r : r = [req[w] EXCEPT !.uid = id, !.step = IF Active(id) THEN "store" ELSE "fail"]
      OBVIOUS
<1>4. Goto(w, r)
      BY <1>3 DEF Resolved
<1>5. r \in Request
      BY <1>1, <1>3 DEF Request, Steps, MaybeIn
<1>6. RequestOK(r) /\ r.step # "issue"
      BY <1>1, <1>2, <1>3 DEF Request, RequestOK, Resolving, Named, At
<1> QED
    BY <1>4, <1>5, <1>6, RequestMoves DEF Inv, TypeOK

LEMMA TableFree ==
  ASSUME Inv, NEW w \in Workers,
         \/ CountPending(w) \/ StartFails(w) \/ Callback(w) \/ Fetch(w) \/ FetchFails(w)
         \/ Identify(w) \/ ChooseName(w) \/ Clean(w) \/ InsertFails(w) \/ Recover(w)
         \/ AnswerConsumed(w) \/ PollDone(w) \/ Crash(w)
  PROVE  Inv'
<1>1. /\ req[w] \in Request /\ RequestOK(req[w])
      /\ code \in [Flows -> {"none", "ready", "used"}] /\ crashes \in Nat
      BY DEF Inv, TypeOK, RequestsOK
<1>2. CASE StartFails(w) \/ AnswerConsumed(w)
      BY <1>1, <1>2, IdleOK, RequestMoves DEF StartFails, AnswerConsumed
<1>3. CASE Crash(w)
      <2>1. crashes' \in Nat
            BY <1>1, <1>3 DEF Crash
      <2> QED
          BY <1>1, <1>3, <2>1, IdleOK, RequestMoves DEF Crash
<1>4. CASE CountPending(w)
      <2>1. PICK r : r = [req[w] EXCEPT !.step = "create"]
            OBVIOUS
      <2>2. r \in Request /\ RequestOK(r) /\ r.step # "issue"
            BY <1>1, <2>1 DEF Request, Steps, RequestOK, Resolving, Named
      <2> QED
          BY <1>1, <1>4, <2>1, <2>2, RequestMoves DEF CountPending, Step
<1>5. CASE Callback(w)
      <2>1. PICK f \in Flows : /\ row[f] # None /\ who[f] # None
                               /\ Goto(w, [Idle EXCEPT !.step = "fetch", !.flow = f])
            BY <1>5 DEF Callback
      <2>2. PICK r : r = [Idle EXCEPT !.step = "fetch", !.flow = f]
            OBVIOUS
      <2>3. f \in started
            BY <2>1 DEF Inv, TypeOK
      <2>4. r = [step |-> "fetch", flow |-> f, sub |-> None, name |-> None, try |-> 0, uid |-> None]
            BY <2>2 DEF Idle
      <2>5. r \in Request
            BY <2>4 DEF Request, Steps, MaybeIn
      <2>6. RequestOK(r) /\ r.step # "issue"
            BY <2>1, <2>3, <2>4, BoundsAssumption DEF RequestOK, Resolving, Named
      <2> QED
          BY <1>1, <1>5, <2>1, <2>2, <2>5, <2>6, RequestMoves DEF Callback
<1>6. CASE Fetch(w)
      <2>1. PICK r : r = [req[w] EXCEPT !.step = "identify", !.sub = who[Flow(w)]]
            OBVIOUS
      <2>2. Flow(w) \in Flows /\ Flow(w) \in started /\ who[Flow(w)] \in Subjects
            BY <1>1, <1>6 DEF Fetch, At, Flow, RequestOK, Inv, TypeOK, MaybeIn
      <2>3. r \in Request
            BY <1>1, <2>1, <2>2 DEF Request, Steps, MaybeIn
      <2>5. RequestOK(r) /\ r.step # "issue"
            BY <1>1, <2>1, <2>2, BoundsAssumption DEF Request, RequestOK, Resolving, Named, Flow
      <2>4. code' \in [Flows -> {"none", "ready", "used"}] /\ crashes' \in Nat
            BY <1>1, <1>6 DEF Fetch
      <2> QED
          BY <1>6, <2>1, <2>3, <2>4, <2>5, RequestMoves DEF Fetch
<1>7. CASE FetchFails(w)
      <2>1. PICK r : r = [req[w] EXCEPT !.step = "fail"]
            OBVIOUS
      <2>2. r \in Request /\ RequestOK(r) /\ r.step # "issue"
            BY <1>1, <1>7, <2>1 DEF Request, Steps, RequestOK, Resolving, Named, FetchFails, At
      <2> QED
          BY <1>1, <1>7, <2>1, <2>2, RequestMoves DEF FetchFails, Step
<1>8. CASE Identify(w)
      <2>1. CASE identity[req[w].sub] # None
            BY <1>8, <2>1, ResolvedMoves DEF Identify
      <2>2. CASE identity[req[w].sub] = None
            <3>1. PICK r : r = [req[w] EXCEPT !.step = "name"]
                  OBVIOUS
            <3>2. r \in Request /\ RequestOK(r) /\ r.step # "issue"
                  BY <1>1, <1>8, <3>1 DEF Request, Steps, RequestOK, Resolving, Named, Identify, At
            <3> QED
                BY <1>1, <1>8, <2>2, <3>1, <3>2, RequestMoves DEF Identify, Step
      <2> QED
          BY <2>1, <2>2
<1>9. CASE ChooseName(w)
      <2>1. PICK r : r = [req[w] EXCEPT !.step = "clean", !.name = LocalUsername(req[w].sub, req[w].try)]
            OBVIOUS
      <2>2. req[w].sub \in Subjects /\ req[w].try \in 0 .. Attempts - 1
            BY <1>1, <1>9, BoundsAssumption DEF Request, RequestOK, Resolving, ChooseName, At
      <2>3. LocalUsername(req[w].sub, req[w].try) \in AllNames
            BY <2>2, BaseAssumption DEF LocalUsername, AllNames, Suffixed
      <2>4. r \in Request /\ RequestOK(r) /\ r.step # "issue"
            BY <1>1, <1>9, <2>1, <2>3
            DEF Request, Steps, MaybeIn, RequestOK, Resolving, Named, ChooseName, At
      <2> QED
          BY <1>1, <1>9, <2>1, <2>4, RequestMoves DEF ChooseName
<1>10. CASE Clean(w)
      <2>1. PICK r : r = [req[w] EXCEPT !.step = IF user[req[w].name] = None THEN "insert" ELSE "clash"]
            OBVIOUS
      <2>2. r \in Request /\ RequestOK(r) /\ r.step # "issue"
            BY <1>1, <1>10, <2>1 DEF Request, Steps, RequestOK, Resolving, Named, Clean, At
      <2> QED
          BY <1>1, <1>10, <2>1, <2>2, RequestMoves DEF Clean, Step
<1>11. CASE InsertFails(w)
      <2>1. PICK r : r = [req[w] EXCEPT !.step = "recover"]
            OBVIOUS
      <2>2. r \in Request /\ RequestOK(r) /\ r.step # "issue"
            BY <1>1, <1>11, <2>1 DEF Request, Steps, RequestOK, Resolving, Named, InsertFails, At
      <2> QED
          BY <1>1, <1>11, <2>1, <2>2, RequestMoves DEF InsertFails, Step
<1>12. CASE Recover(w)
      <2>1. CASE Winner(req[w]) # None /\ Resolved(w, Winner(req[w]))
            BY <1>12, <2>1, ResolvedMoves DEF Recover, Winner
      <2>2. CASE req[w].try + 1 < Attempts /\ Goto(w, [req[w] EXCEPT !.step = "identify", !.try = req[w].try + 1])
            <3>1. PICK r : r = [req[w] EXCEPT !.step = "identify", !.try = req[w].try + 1]
                  OBVIOUS
            <3>2. req[w].try + 1 \in Nat /\ req[w].step = "recover"
                  BY <1>1, <1>12 DEF Request, Recover, At
            <3>3. r \in Request
                  BY <1>1, <3>1, <3>2 DEF Request, Steps
            <3>4. RequestOK(r) /\ r.step # "issue"
                  BY <1>1, <2>2, <3>1, <3>2 DEF Request, RequestOK, Resolving, Named
            <3> QED
                BY <1>1, <1>12, <2>2, <3>1, <3>3, <3>4, RequestMoves DEF Recover
      <2>3. CASE Step(w, "fail")
            <3>1. PICK r : r = [req[w] EXCEPT !.step = "fail"]
                  OBVIOUS
            <3>2. r \in Request /\ RequestOK(r) /\ r.step # "issue"
                  BY <1>1, <1>12, <3>1 DEF Request, Steps, RequestOK, Resolving, Named, Recover, At
            <3> QED
                BY <1>1, <1>12, <2>3, <3>1, <3>2, RequestMoves DEF Recover, Step
      <2> QED
          BY <1>12, <2>1, <2>2, <2>3 DEF Recover
<1>13. CASE PollDone(w)
      <2>1. PICK f \in Flows :
              /\ row[f] # None /\ ~Locked(f) /\ row[f].status = "done"
              /\ Goto(w, [Idle EXCEPT !.step = "issue", !.flow = f, !.uid = row[f].user])
            BY <1>13 DEF PollDone, Pollable
      <2>2. PICK r : r = [Idle EXCEPT !.step = "issue", !.flow = f, !.uid = row[f].user]
            OBVIOUS
      <2>3. /\ row[f] \in Pending /\ f \in started
            /\ row[f].user \in Nat /\ Exists(row[f].user) /\ KeysOK
            BY <2>1 DEF Inv, TypeOK, FlowsOK, MaybeIn, Pending
      <2>4. row[f].user < users
            BY <2>3 DEF KeysOK, Exists
      <2>5. r = [step |-> "issue", flow |-> f, sub |-> None, name |-> None, try |-> 0, uid |-> row[f].user]
            BY <2>2 DEF Idle
      <2>6. r \in Request
            BY <2>3, <2>5 DEF Request, Steps, MaybeIn
      <2>7. RequestOK(r) /\ r.flow = f
            BY <2>1, <2>3, <2>4, <2>5, BoundsAssumption DEF RequestOK, Resolving, Named
      <2> QED
          BY <1>1, <1>13, <2>1, <2>2, <2>6, <2>7, RequestMoves DEF PollDone
<1> QED
    BY <1>2, <1>3, <1>4, <1>5, <1>6, <1>7, <1>8, <1>9, <1>10, <1>11, <1>12, <1>13

-----------------------------------------------------------------------------
(* Steps that change one flow's row                                        *)

LEMMA RowMoves ==
  ASSUME Inv, NEW w \in Workers, NEW r \in Request, NEW f \in Flows, NEW x \in MaybeIn(Pending),
         Goto(w, r), RequestOK(r), r.step = "issue" => r = req[w],
         SetRow(f, x),
         \A v \in Workers : req'[v].step = "issue" /\ req'[v].flow = f =>
           x # None /\ x.status = row[f].status /\ x.user = row[f].user,
         x # None =>
           /\ issued'[f] = << >>
           /\ x.user # None => Exists(x.user)
           /\ x.status = "done" => who[f] # None /\ x.user # None /\ x.user = identity[who[f]],
         started' = started \cup {f},
         issued' \in [Flows -> Seq(Nat)], \A g \in Flows \ {f} : issued'[g] = issued[g],
         UNCHANGED <<user, identity, code, who, users, crashes, made>>
  PROVE  Inv'
<1>1. /\ req \in [Workers -> Request]
      /\ req' = [req EXCEPT ![w] = r]
      /\ row \in [Flows -> MaybeIn(Pending)]
      /\ row' = [row EXCEPT ![f] = x]
      BY DEF Inv, TypeOK, Goto, SetRow
<1>2. TypeOK'
      BY <1>1 DEF Inv, TypeOK, Exists
<1>3. KeysOK'
      BY DEF Inv, KeysOK
<1>4. RequestsOK'
      <2> SUFFICES ASSUME NEW v \in Workers PROVE RequestOK(req[v])'
          BY DEF RequestsOK
      <2>1. RequestOK(req'[v])
            BY <1>1 DEF Inv, RequestsOK
      <2> QED
          BY <1>1, <2>1 DEF RequestOK, Exists
<1>5. OneIssuer'
      BY <1>1 DEF Inv, OneIssuer, At, Flow
<1>6. FlowsOK'
      BY <1>1 DEF Inv, FlowsOK
<1>7. OneAccountPerSubject'
      BY DEF Inv, OneAccountPerSubject, Exists
<1> QED
    BY <1>2, <1>3, <1>4, <1>5, <1>6, <1>7 DEF Inv

\* Nobody but w works on the row.
LEMMA RowEnds ==
  ASSUME Inv, NEW w \in Workers, NEW r \in Request, NEW f \in started,
         Goto(w, r), RequestOK(r), r.step = "issue" => r = req[w] /\ r.flow # f,
         \A v \in Workers \ {w} : ~(At(v, "issue") /\ Flow(v) = f),
         Delete(f), UNCHANGED started,
         issued' \in [Flows -> Seq(Nat)], \A g \in Flows \ {f} : issued'[g] = issued[g],
         UNCHANGED <<user, identity, code, who, users, crashes, made>>
  PROVE  Inv'
<1>1. PICK x : x = None
      OBVIOUS
<1>2. /\ f \in Flows /\ x \in MaybeIn(Pending)
      /\ started' = started \cup {f}
      /\ req \in [Workers -> Request]
      BY <1>1 DEF Inv, TypeOK, MaybeIn
<1>3. SetRow(f, x)
      BY <1>1 DEF Delete
<1>4. ASSUME NEW v \in Workers PROVE ~(req'[v].step = "issue" /\ req'[v].flow = f)
      BY <1>2 DEF Goto, At, Flow
<1> QED
    BY <1>1, <1>2, <1>3, <1>4, RowMoves

\* A pending flow fails: nobody has its row locked.
LEMMA RowFails ==
  ASSUME Inv, NEW w \in Workers, NEW r \in Request, NEW f \in Flows,
         Goto(w, r), RequestOK(r), r.step = "issue" => r = req[w],
         SetError(f), UNCHANGED <<started, issued>>,
         UNCHANGED <<user, identity, code, who, users, crashes, made>>
  PROVE  Inv'
<1>1. CASE ~(row[f] # None /\ row[f].status = "pending")
      <2>1. row' = row
            BY <1>1 DEF SetError
      <2> QED
          BY <2>1, RequestMoves DEF Inv, TypeOK
<1>2. CASE row[f] # None /\ row[f].status = "pending"
      <2>1. PICK x : x = [row[f] EXCEPT !.status = "error"]
            OBVIOUS
      <2>2. /\ row[f] \in Pending /\ f \in started
            /\ issued \in [Flows -> Seq(Nat)] /\ issued[f] = << >>
            /\ row[f].user # None => Exists(row[f].user)
            /\ started' = started \cup {f}
            /\ req \in [Workers -> Request]
            BY <1>2 DEF Inv, TypeOK, FlowsOK, MaybeIn
      <2>3. /\ x \in Pending /\ x # None
            /\ x.status = "error" /\ x.user = row[f].user
            BY <2>1, <2>2, NoRowAssumption DEF Pending
      <2>4. SetRow(f, x)
            BY <1>2, <2>1 DEF SetError
      <2>5. ASSUME NEW v \in Workers PROVE ~(req'[v].step = "issue" /\ req'[v].flow = f)
            <3>1. RequestOK(req'[v])
                  BY <2>2 DEF Inv, RequestsOK, Goto
            <3> QED
                BY <1>2, <3>1 DEF RequestOK
      <2> QED
          BY <2>2, <2>3, <2>4, <2>5, RowMoves DEF MaybeIn
<1> QED
    BY <1>1, <1>2

\* A step of the environment leaves every request where it is.
LEMMA Idling ==
  ASSUME Inv, UNCHANGED req
  PROVE  \E w \in Workers, r \in Request : r = req[w] /\ Goto(w, r) /\ RequestOK(r)
<1>1. PICK w \in Workers : TRUE
      BY FiniteAssumption
<1>2. req \in [Workers -> Request] /\ RequestOK(req[w])
      BY DEF Inv, TypeOK, RequestsOK
<1>3. req' = [req EXCEPT ![w] = req[w]]
      BY <1>2
<1> QED
    BY <1>2, <1>3 DEF Goto

LEMMA OneRow ==
  ASSUME Inv, NEW w \in Workers,
         \/ CreatePending(w) \/ Store(w) \/ Fail(w) \/ PollIssue(w) \/ PollRefused(w)
  PROVE  Inv'
<1>1. /\ req \in [Workers -> Request] /\ RequestOK(req[w])
      /\ row \in [Flows -> MaybeIn(Pending)] /\ issued \in [Flows -> Seq(Nat)]
      /\ started \subseteq Flows
      /\ OneIssuer /\ FlowsOK
      BY DEF Inv, TypeOK, RequestsOK
<1>2. CASE CreatePending(w)
      <2>1. PICK f \in Flows \ started : row' = [row EXCEPT ![f] = Fresh] /\ started' = started \cup {f}
            BY <1>2 DEF CreatePending
      <2>2. PICK x : x = Fresh
            OBVIOUS
      <2>3. x \in Pending /\ x # None /\ x.status # "done" /\ x.user = None
            <3>1. x = [status |-> "pending", user |-> None, old |-> FALSE]
                  BY <2>2 DEF Fresh
            <3>2. x \in Pending
                  BY <3>1 DEF Pending, MaybeIn
            <3> QED
                BY <3>1, <3>2, NoRowAssumption
      <2>4. ASSUME NEW v \in Workers PROVE ~(req'[v].step = "issue" /\ req'[v].flow = f)
            BY <1>1, <1>2, <2>1, IdleOK DEF CreatePending, Goto, Inv, RequestsOK, RequestOK
      <2>5. issued[f] = << >>
            BY <1>1, <2>1 DEF FlowsOK
      <2>6. f \in Flows /\ x \in MaybeIn(Pending) /\ SetRow(f, x)
            BY <1>1, <1>2, <2>1, <2>2, <2>3 DEF CreatePending, SetRow, MaybeIn
      <2>7. /\ issued' \in [Flows -> Seq(Nat)] /\ issued'[f] = << >>
            /\ \A g \in Flows \ {f} : issued'[g] = issued[g]
            /\ UNCHANGED <<user, identity, code, who, users, crashes, made>> /\ Goto(w, Idle)
            BY <1>1, <1>2, <2>5 DEF CreatePending
      <2> QED
          BY <2>1, <2>3, <2>4, <2>6, <2>7, IdleOK, RowMoves
<1>3. CASE Store(w)
      <2>1. /\ At(w, "store") /\ ~Locked(Flow(w))
            /\ Flow(w) \in started /\ Flow(w) \in Flows
            /\ req[w].sub = who[Flow(w)] /\ req[w].sub \in Subjects
            /\ req[w].uid \in Nat
            /\ Exists(req[w].uid) => identity[req[w].sub] = req[w].uid
            BY <1>1, <1>3 DEF Store, RequestOK, Resolving, At, Flow
      <2>2. CASE /\ Storable(Flow(w)) /\ Exists(req[w].uid)
                 /\ SetRow(Flow(w), [row[Flow(w)] EXCEPT !.status = "done", !.user = req[w].uid])
                 /\ Goto(w, Idle)
            <3>1. PICK f \in started : f = Flow(w)
                  BY <2>1
            <3>2. PICK x : x = [row[f] EXCEPT !.status = "done", !.user = req[w].uid]
                  OBVIOUS
            <3>3. row[f] \in Pending /\ f \in Flows /\ issued[f] = << >>
                  BY <1>1, <2>2, <3>1 DEF Storable, MaybeIn, FlowsOK
            <3>4. x \in Pending /\ x # None /\ x.status = "done" /\ x.user = req[w].uid
                  BY <2>1, <3>2, <3>3, NoRowAssumption DEF Pending, MaybeIn
            <3>5. ASSUME NEW v \in Workers PROVE ~(req'[v].step = "issue" /\ req'[v].flow = f)
                  BY <1>1, <2>1, <2>2, <3>1, IdleOK DEF Goto, Locked, At, Flow
            <3>6. /\ started' = started \cup {f}
                  /\ issued' = issued
                  BY <1>1, <1>3, <2>2, <3>1 DEF Store
            <3>7. who[f] # None /\ x.user # None /\ x.user = identity[who[f]] /\ Exists(x.user)
                  BY <2>1, <2>2, <3>1, <3>4, NoneAssumption
            <3>8. x \in MaybeIn(Pending) /\ SetRow(f, x)
                  BY <2>2, <3>1, <3>2, <3>4 DEF MaybeIn
            <3>9. UNCHANGED <<user, identity, code, who, users, crashes, made>> /\ Goto(w, Idle)
                  BY <1>3, <2>2 DEF Store
            <3> QED
                BY <1>1, <3>3, <3>4, <3>5, <3>6, <3>7, <3>8, <3>9, IdleOK, RowMoves
      <2>3. ASSUME NEW s \in {"fail", "consumed"}, Step(w, s), UNCHANGED row PROVE Inv'
            <3>1. PICK r : r = [req[w] EXCEPT !.step = s]
                  OBVIOUS
            <3>2. r \in Request /\ RequestOK(r) /\ r.step # "issue"
                  BY <1>1, <2>1, <2>3, <3>1 DEF Request, Steps, RequestOK, Resolving, Named, At
            <3> QED
                BY <1>3, <2>3, <3>1, <3>2, RequestMoves DEF Store, Step, Inv, TypeOK
      <2> QED
          BY <1>3, <2>2, <2>3 DEF Store
<1>4. CASE Fail(w)
      <2>1. Flow(w) \in Flows
            BY <1>1, <1>4 DEF Fail, RequestOK, Flow
      <2> QED
          BY <1>4, <2>1, IdleOK, RowFails DEF Fail
<1>5. CASE PollIssue(w) \/ PollRefused(w)
      <2>1. PICK f \in started : f = Flow(w)
            BY <1>1, <1>5 DEF PollIssue, PollRefused, At, RequestOK, Flow
      <2>2. f \in Flows /\ At(w, "issue") /\ req[w].uid \in Nat
            BY <1>1, <1>5, <2>1 DEF PollIssue, PollRefused, At, RequestOK
      <2>3. \A v \in Workers \ {w} : ~(At(v, "issue") /\ Flow(v) = f)
            BY <1>1, <2>1, <2>2 DEF OneIssuer
      <2>4. issued' \in [Flows -> Seq(Nat)] /\ \A g \in Flows \ {f} : issued'[g] = issued[g]
            <3>1. CASE PollRefused(w)
                  BY <1>1, <3>1 DEF PollRefused
            <3>2. CASE PollIssue(w)
                  <4>1. issued' = [issued EXCEPT ![f] = Append(issued[f], req[w].uid)]
                        BY <2>1, <3>2 DEF PollIssue
                  <4>2. Append(issued[f], req[w].uid) \in Seq(Nat)
                        BY <1>1, <2>2
                  <4> QED
                      BY <1>1, <4>1, <4>2
            <3> QED
                BY <1>5, <3>1, <3>2
      <2> QED
          BY <1>5, <2>1, <2>3, <2>4, IdleOK, RowEnds DEF PollIssue, PollRefused
<1> QED
    BY <1>2, <1>3, <1>4, <1>5

LEMMA RowOfEnvironment ==
  ASSUME Inv, Denied \/ CallbackExpired \/ PollRejected \/ \E f \in Flows : Age(f)
  PROVE  Inv'
<1>1. PICK w \in Workers, r \in Request : r = req[w] /\ Goto(w, r) /\ RequestOK(r)
      BY Idling DEF Denied, CallbackExpired, PollRejected, Age
<1>2. /\ req \in [Workers -> Request] /\ RequestsOK
      /\ row \in [Flows -> MaybeIn(Pending)] /\ issued \in [Flows -> Seq(Nat)]
      /\ started \subseteq Flows
      /\ \A f \in Flows : row[f] # None => f \in started /\ (row[f].user # None => Exists(row[f].user))
      /\ FlowsOK
      BY DEF Inv, TypeOK
<1>3. CASE Denied
      BY <1>1, <1>3, RowFails DEF Denied
<1>4. CASE CallbackExpired \/ PollRejected
      <2>1. PICK f \in Flows : row[f] # None /\ ~Locked(f) /\ Delete(f)
            BY <1>4 DEF CallbackExpired, PollRejected
      <2>2. /\ f \in started
            /\ \A v \in Workers : ~(At(v, "issue") /\ Flow(v) = f)
            /\ UNCHANGED <<user, identity, code, who, users, crashes, started, issued, made>>
            BY <1>2, <1>4, <2>1 DEF Locked, CallbackExpired, PollRejected
      <2> QED
          BY <1>1, <1>2, <2>1, <2>2, RowEnds DEF At, Flow
<1>5. CASE \E f \in Flows : Age(f)
      <2>1. PICK f \in Flows : Age(f)
            BY <1>5
      <2>2. PICK x : x = [row[f] EXCEPT !.old = TRUE]
            OBVIOUS
      <2>3. row[f] # None /\ row[f] \in Pending /\ f \in started
            BY <1>2, <2>1 DEF Age, MaybeIn
      <2>4. x \in Pending /\ x # None /\ x.status = row[f].status /\ x.user = row[f].user
            BY <2>2, <2>3, NoRowAssumption DEF Pending
      <2>5. SetRow(f, x)
            BY <1>2, <2>1, <2>2 DEF Age, SetRow
      <2>6. /\ issued[f] = << >>
            /\ x.user # None => Exists(x.user)
            /\ x.status = "done" => who[f] # None /\ x.user # None /\ x.user = identity[who[f]]
            BY <1>2, <2>3, <2>4 DEF FlowsOK
      <2>7. /\ x \in MaybeIn(Pending)
            /\ started' = started \cup {f} /\ issued' = issued
            /\ UNCHANGED <<user, identity, code, who, users, crashes, made>>
            BY <1>2, <2>1, <2>3, <2>4 DEF Age, MaybeIn
      <2>8. /\ issued' \in [Flows -> Seq(Nat)] /\ issued'[f] = << >>
            /\ \A g \in Flows \ {f} : issued'[g] = issued[g]
            BY <1>2, <2>6, <2>7
      <2>9. r.step = "issue" => r = req[w]
            BY <1>1
      <2> QED
          BY <1>1, <2>4, <2>5, <2>6, <2>7, <2>8, <2>9, RowMoves
<1> QED
    BY <1>3, <1>4, <1>5

-----------------------------------------------------------------------------
(* Steps that change accounts, subjects or several rows                    *)

\* The new account has a key no other account, identity or request has.
LEMMA AccountCreated ==
  ASSUME Inv, NEW n \in AllNames, user[n] = None,
         user' = [user EXCEPT ![n] = [id |-> users, active |-> TRUE]], users' = users + 1
  PROVE  /\ user' \in [AllNames -> MaybeIn(Account)] /\ users' \in Nat
         /\ \A id : Exists(id)' <=> Exists(id) \/ id = users
         /\ ~Exists(users)
<1>1. /\ user \in [AllNames -> MaybeIn(Account)] /\ users \in Nat /\ KeysOK
      BY DEF Inv, TypeOK
<1>2. user'[n] # None /\ user'[n].id = users
      <2>1. user'[n] = [id |-> users, active |-> TRUE]
            BY <1>1
      <2>2. user'[n] \in Account
            BY <1>1, <2>1 DEF Account
      <2>3. user'[n].id = users
            BY <2>1
      <2>4. user'[n] # None
            BY <2>2, NoRowAssumption
      <2> QED
          BY <2>3, <2>4
<1>3. \A m \in AllNames \ {n} : user'[m] = user[m]
      BY <1>1
<1>4. ~Exists(users)
      BY <1>1 DEF KeysOK, Exists
<1>5. ASSUME NEW id PROVE Exists(id)' <=> Exists(id) \/ id = users
      BY <1>2, <1>3 DEF Exists
<1>6. [id |-> users, active |-> TRUE] \in Account
      BY <1>1 DEF Account
<1> QED
    BY <1>1, <1>4, <1>5, <1>6 DEF MaybeIn

LEMMA KeysCreated ==
  ASSUME Inv, NEW n \in AllNames, user[n] = None,
         user' = [user EXCEPT ![n] = [id |-> users, active |-> TRUE]], users' = users + 1,
         made' \subseteq made \cup {users}
  PROVE  KeysOK'
<1>1. /\ user \in [AllNames -> MaybeIn(Account)] /\ users \in Nat /\ KeysOK
      /\ made \subseteq Nat
      BY DEF Inv, TypeOK
<1>2. user'[n] # None /\ user'[n].id = users
      <2>1. user'[n] = [id |-> users, active |-> TRUE]
            BY <1>1
      <2>2. user'[n] \in Account
            BY <1>1, <2>1 DEF Account
      <2>3. user'[n].id = users
            BY <2>1
      <2>4. user'[n] # None
            BY <2>2, NoRowAssumption
      <2> QED
          BY <2>3, <2>4
<1>3. \A m \in AllNames \ {n} : user'[m] = user[m]
      BY <1>1
<1>4. \A m \in AllNames : user[m] # None => user[m].id \in Nat /\ user[m].id < users
      BY <1>1 DEF KeysOK, MaybeIn, Account
<1>5. \A m \in AllNames : user'[m] # None => user'[m].id < users'
      BY <1>1, <1>2, <1>3, <1>4
<1>6. \A m, k \in AllNames :
        user'[m] # None /\ user'[k] # None /\ user'[m].id = user'[k].id => m = k
      BY <1>1, <1>2, <1>3, <1>4 DEF KeysOK
<1>7. \A id \in made' : id < users'
      BY <1>1 DEF KeysOK
<1> QED
    BY <1>5, <1>6, <1>7 DEF KeysOK

LEMMA SignInKeeps ==
  ASSUME Inv, NEW f \in Flows, SignIn(f)
  PROVE  Inv'
<1>1. PICK s \in Subjects : who' = [who EXCEPT ![f] = s]
      BY DEF SignIn
<1>2. /\ f \in started /\ who[f] = None
      /\ code' = [code EXCEPT ![f] = "ready"]
      /\ UNCHANGED <<user, identity, row, req, users, crashes, started, issued, made>>
      BY DEF SignIn
<1>3. TypeOK'
      BY <1>1, <1>2 DEF Inv, TypeOK, MaybeIn, Exists
<1>4. KeysOK' /\ OneIssuer' /\ OneAccountPerSubject'
      BY <1>2 DEF Inv, KeysOK, OneIssuer, OneAccountPerSubject, Exists, At, Flow
<1>5. \A g \in Flows : who[g] # None => who'[g] = who[g]
      BY <1>1, <1>2 DEF Inv, TypeOK
<1>6. RequestsOK'
      <2> SUFFICES ASSUME NEW w \in Workers PROVE RequestOK(req[w])'
          BY DEF RequestsOK
      <2>1. RequestOK(req[w])
            BY DEF Inv, RequestsOK
      <2>2. req[w].step \in Resolving => who'[req[w].flow] = who[req[w].flow]
            BY <1>5, <2>1, NoneAssumption DEF RequestOK, Resolving, Inv, TypeOK
      <2>3. req[w].step = "fetch" => who'[req[w].flow] # None
            BY <1>5, <2>1 DEF RequestOK, Inv, TypeOK
      <2> QED
          BY <1>2, <2>1, <2>2, <2>3 DEF RequestOK, Exists
<1>7. FlowsOK'
      BY <1>1, <1>2, <1>5 DEF Inv, FlowsOK, TypeOK
<1> QED
    BY <1>3, <1>4, <1>6, <1>7 DEF Inv

LEMMA CreateUserKeeps ==
  ASSUME Inv, NEW n \in Names, CreateUser(n)
  PROVE  Inv'
<1>1. /\ n \in AllNames /\ user[n] = None
      /\ user' = [user EXCEPT ![n] = [id |-> users, active |-> TRUE]] /\ users' = users + 1
      /\ UNCHANGED <<identity, row, code, who, req, crashes, started, issued, made>>
      /\ made' \subseteq made \cup {users}
      BY DEF CreateUser, AllNames
<1>2. /\ user' \in [AllNames -> MaybeIn(Account)] /\ users' \in Nat
      /\ \A id : Exists(id)' <=> Exists(id) \/ id = users
      BY <1>1, AccountCreated
<1>3. KeysOK'
      BY <1>1, KeysCreated
<1>4. TypeOK'
      BY <1>1, <1>2 DEF Inv, TypeOK
<1>5. RequestsOK'
      <2> SUFFICES ASSUME NEW w \in Workers PROVE RequestOK(req[w])'
          BY DEF RequestsOK
      <2>1. RequestOK(req[w]) /\ users \in Nat
            BY DEF Inv, RequestsOK, TypeOK
      <2> QED
          BY <1>1, <1>2, <2>1 DEF RequestOK
<1>6. OneIssuer' /\ FlowsOK'
      BY <1>1 DEF Inv, OneIssuer, FlowsOK, At, Flow
<1>7. OneAccountPerSubject'
      BY <1>1, <1>2 DEF Inv, OneAccountPerSubject, KeysOK, TypeOK
<1> QED
    BY <1>3, <1>4, <1>5, <1>6, <1>7 DEF Inv

LEMMA InsertKeeps ==
  ASSUME Inv, NEW w \in Workers, Insert(w)
  PROVE  Inv'
<1>1. /\ req[w] \in Request /\ RequestOK(req[w]) /\ At(w, "insert")
      /\ req \in [Workers -> Request] /\ users \in Nat
      BY DEF Inv, TypeOK, RequestsOK, Insert
<1>2. PICK n \in AllNames, s \in Subjects, f \in started :
        n = req[w].name /\ s = req[w].sub /\ f = req[w].flow /\ s = who[f]
      BY <1>1 DEF RequestOK, At, Resolving, Named
<1>3. PICK r : r = [req[w] EXCEPT !.step = "store", !.uid = users]
      OBVIOUS
<1>4. /\ user[n] = None /\ identity[s] = None
      /\ user' = [user EXCEPT ![n] = [id |-> users, active |-> TRUE]] /\ users' = users + 1
      /\ identity' = [identity EXCEPT ![s] = users]
      /\ made' = made \cup {users}
      /\ req' = [req EXCEPT ![w] = r]
      /\ UNCHANGED <<row, code, who, crashes, started, issued>>
      BY <1>2, <1>3 DEF Insert, Insertable, Goto
<1>5. /\ user' \in [AllNames -> MaybeIn(Account)] /\ users' \in Nat
      /\ \A id : Exists(id)' <=> Exists(id) \/ id = users
      /\ ~Exists(users)
      BY <1>4, AccountCreated
<1>6. KeysOK'
      BY <1>4, KeysCreated
<1>7. r \in Request
      BY <1>1, <1>3 DEF Request, Steps, MaybeIn
<1>8. identity \in [Subjects -> MaybeIn(Nat)] /\ identity'[s] = users
      BY <1>4 DEF Inv, TypeOK
<1>9. TypeOK'
      BY <1>1, <1>4, <1>5, <1>7, <1>8 DEF Inv, TypeOK, MaybeIn
<1>10. RequestsOK'
      <2> SUFFICES ASSUME NEW v \in Workers PROVE RequestOK(req[v])'
          BY DEF RequestsOK
      <2>1. CASE v = w
            <3>1. req'[v] = r
                  BY <1>1, <1>4, <2>1
            <3>2. /\ r.step = "store" /\ r.flow = f /\ r.sub = s /\ r.try = req[w].try
                  /\ r.uid = users
                  BY <1>1, <1>2, <1>3 DEF Request
            <3> QED
                BY <1>1, <1>2, <1>4, <1>8, <3>1, <3>2 DEF RequestOK, Resolving, Named
      <2>2. CASE v # w
            <3>1. req'[v] = req[v] /\ RequestOK(req[v])
                  BY <1>1, <1>4, <2>2 DEF Inv, RequestsOK
            <3>2. req[v].step = "store" /\ Exists(req[v].uid)' => identity'[req[v].sub] = req[v].uid
                  BY <1>1, <1>4, <1>5, <1>8, <3>1, NoneAssumption DEF RequestOK, Resolving
            <3> QED
                BY <1>1, <1>4, <3>1, <3>2 DEF RequestOK
      <2> QED
          BY <2>1, <2>2
<1>11. OneIssuer'
      BY <1>1, <1>3, <1>4 DEF Inv, OneIssuer, At, Flow, Request
<1>12. FlowsOK'
      <2> SUFFICES ASSUME NEW g \in Flows, row[g] # None, row[g].status = "done", who[g] # None,
                          row[g].user # None, row[g].user = identity[who[g]]
                   PROVE  row[g].user = identity'[who[g]]
          BY <1>4 DEF FlowsOK, Inv
      <2>1. who[g] # s
            BY <1>4
      <2> QED
          BY <1>4, <1>8, <2>1 DEF Inv, TypeOK, MaybeIn
<1>13. OneAccountPerSubject'
      <2> SUFFICES ASSUME NEW id \in made', Exists(id)'
                   PROVE  \E t \in Subjects : \A u \in Subjects : identity'[u] = id <=> u = t
          BY DEF OneAccountPerSubject
      <2>1. \A u \in Subjects : identity[u] # users
            BY <1>5, NoneAssumption, <1>1 DEF Inv, TypeOK
      <2>2. CASE id = users
            BY <1>4, <1>8, <2>1, <2>2
      <2>3. CASE id # users
            <3>1. PICK t \in Subjects : \A u \in Subjects : identity[u] = id <=> u = t
                  BY <1>4, <1>5, <2>3 DEF Inv, OneAccountPerSubject
            <3>2. t # s
                  BY <1>4, <2>3, <3>1, NoneAssumption DEF Inv, TypeOK
            <3> QED
                BY <1>4, <1>8, <2>3, <3>1, <3>2
      <2> QED
          BY <2>2, <2>3
<1> QED
    BY <1>6, <1>9, <1>10, <1>11, <1>12, <1>13 DEF Inv

LEMMA SetActiveKeeps ==
  ASSUME Inv, NEW n \in AllNames, SetActive(n)
  PROVE  Inv'
<1>1. /\ user \in [AllNames -> MaybeIn(Account)] /\ user[n] # None
      /\ user' = [user EXCEPT ![n].active = ~@]
      /\ UNCHANGED <<identity, row, code, who, req, users, crashes, started, issued, made>>
      BY DEF SetActive, Inv, TypeOK
<1>2. PICK a : a = [user[n] EXCEPT !.active = ~@]
      OBVIOUS
<1>3. user[n] \in Account
      BY <1>1 DEF MaybeIn
<1>4. a \in Account /\ a # None /\ a.id = user[n].id
      <2>1. a \in Account /\ a.id = user[n].id
            BY <1>2, <1>3 DEF Account
      <2> QED
          BY <2>1, NoRowAssumption
<1>5. user' = [user EXCEPT ![n] = a]
      BY <1>1, <1>2
<1>6. \A m \in AllNames : /\ user'[m] = None <=> user[m] = None
                          /\ user[m] # None => user'[m].id = user[m].id
      BY <1>1, <1>4, <1>5
<1>7. \A id : Exists(id)' <=> Exists(id)
      BY <1>6 DEF Exists
<1>8. TypeOK'
      BY <1>1, <1>4, <1>5, <1>7 DEF Inv, TypeOK, MaybeIn
<1>9. KeysOK'
      BY <1>1, <1>6 DEF Inv, KeysOK
<1>10. RequestsOK'
      <2> SUFFICES ASSUME NEW v \in Workers PROVE RequestOK(req[v])'
          BY DEF RequestsOK
      <2> QED
          BY <1>1, <1>7 DEF Inv, RequestsOK, RequestOK
<1>11. OneIssuer' /\ FlowsOK'
      BY <1>1 DEF Inv, OneIssuer, FlowsOK, At, Flow
<1>12. OneAccountPerSubject'
      BY <1>1, <1>7 DEF Inv, OneAccountPerSubject
<1> QED
    BY <1>8, <1>9, <1>10, <1>11, <1>12 DEF Inv

\* The account's identities and finished flows go with it, and nothing else.
LEMMA DeleteUserKeeps ==
  ASSUME Inv, NEW n \in AllNames, DeleteUser(n)
  PROVE  Inv'
<1>1. /\ user \in [AllNames -> MaybeIn(Account)] /\ user[n] # None
      /\ identity \in [Subjects -> MaybeIn(Nat)]
      /\ row \in [Flows -> MaybeIn(Pending)]
      /\ KeysOK /\ FlowsOK
      BY DEF DeleteUser, Inv, TypeOK
<1>2. PICK id : id = user[n].id
      OBVIOUS
<1>3. /\ \A f \in Flows : row[f] # None /\ row[f].user = id => ~Locked(f)
      /\ user' = [user EXCEPT ![n] = None]
      /\ identity' = [s \in Subjects |-> IF identity[s] = id THEN None ELSE identity[s]]
      /\ row' = [f \in Flows |-> IF row[f] # None /\ row[f].user = id THEN None ELSE row[f]]
      /\ UNCHANGED <<code, who, req, users, crashes, started, issued, made>>
      BY <1>2 DEF DeleteUser, RowsWithout
<1>4. ASSUME NEW k PROVE Exists(k)' <=> Exists(k) /\ k # id
      BY <1>1, <1>2, <1>3 DEF Exists, KeysOK
<1>5. id \in Nat
      BY <1>1, <1>2 DEF MaybeIn, Account
<1>6. \A f \in Flows : /\ row'[f] # None => row'[f] = row[f] /\ row[f].user # id
                       /\ row[f] # None /\ row'[f] = None => row[f].user = id
      BY <1>3
<1>7. TypeOK'
      <2>1. /\ user' \in [AllNames -> MaybeIn(Account)]
            /\ identity' \in [Subjects -> MaybeIn(Nat)]
            /\ row' \in [Flows -> MaybeIn(Pending)]
            BY <1>1, <1>3 DEF MaybeIn
      <2>2. (\A s \in Subjects : identity[s] # None => Exists(identity[s]))'
            <3> SUFFICES ASSUME NEW s \in Subjects, identity'[s] # None PROVE Exists(identity[s])'
                OBVIOUS
            <3>1. PICK k : k = identity'[s]
                  OBVIOUS
            <3>2. k = identity[s] /\ k # id /\ identity[s] # None
                  BY <1>3, <3>1
            <3>3. Exists(k)
                  BY <3>2 DEF Inv, TypeOK
            <3>4. Exists(k)'
                  BY <1>4, <3>2, <3>3
            <3> QED
                BY <3>1, <3>4 DEF Exists
      <2>3. (\A f \in Flows : row[f] # None => /\ f \in started
                                               /\ row[f].user # None => Exists(row[f].user))'
            <3> SUFFICES ASSUME NEW f \in Flows, row'[f] # None
                         PROVE  f \in started /\ (row'[f].user # None => Exists(row[f].user)')
                BY <1>3
            <3>1. PICK k : k = row'[f].user
                  OBVIOUS
            <3>2. row[f] # None /\ k = row[f].user /\ k # id
                  BY <1>6, <3>1
            <3>3. f \in started /\ (k # None => Exists(k))
                  BY <3>2 DEF Inv, TypeOK
            <3>4. k # None => Exists(k)'
                  BY <1>4, <3>2, <3>3
            <3> QED
                BY <3>1, <3>3, <3>4 DEF Exists
      <2>4. /\ code \in [Flows -> {"none", "ready", "used"}] /\ who \in [Flows -> MaybeIn(Subjects)]
            /\ req \in [Workers -> Request] /\ users \in Nat /\ crashes \in Nat
            /\ started \subseteq Flows
            /\ issued \in [Flows -> Seq(Nat)] /\ made \subseteq Nat
            BY DEF Inv, TypeOK
      <2> QED
          BY <1>3, <2>1, <2>2, <2>3, <2>4 DEF TypeOK
<1>8. KeysOK'
      BY <1>1, <1>3 DEF KeysOK
<1>9. RequestsOK'
      <2> SUFFICES ASSUME NEW w \in Workers PROVE RequestOK(req[w])'
          BY DEF RequestsOK
      <2>1. RequestOK(req[w])
            BY DEF Inv, RequestsOK
      <2>2. req[w].step = "store" /\ Exists(req[w].uid)' => identity'[req[w].sub] = req[w].uid
            BY <1>3, <1>4, <2>1 DEF RequestOK, Resolving
      <2>3. req[w].step = "issue" => row'[req[w].flow] = row[req[w].flow]
            BY <1>3, <2>1 DEF RequestOK, Locked, At, Flow, Inv, TypeOK
      <2> QED
          BY <1>3, <2>1, <2>2, <2>3 DEF RequestOK
<1>10. OneIssuer'
      BY <1>3 DEF Inv, OneIssuer, At, Flow
<1>11. FlowsOK'
      BY <1>1, <1>3, <1>6 DEF FlowsOK, Inv, TypeOK, MaybeIn
<1>12. OneAccountPerSubject'
      <2> SUFFICES ASSUME NEW k \in made, Exists(k), k # id
                   PROVE  \E s \in Subjects : \A t \in Subjects : identity'[t] = k <=> t = s
          BY <1>3, <1>4 DEF OneAccountPerSubject
      <2>1. k \in Nat
            BY DEF Inv, TypeOK
      <2> QED
          BY <1>3, <2>1, NoneAssumption DEF Inv, OneAccountPerSubject
<1> QED
    BY <1>7, <1>8, <1>9, <1>10, <1>11, <1>12 DEF Inv

LEMMA PurgeKeeps ==
  ASSUME Inv, Purge
  PROVE  Inv'
<1>1. /\ \A f \in Flows : Purgeable(f) => ~Locked(f)
      /\ row' = [f \in Flows |-> IF Purgeable(f) THEN None ELSE row[f]]
      /\ UNCHANGED <<user, identity, code, who, req, users, crashes, started, issued, made>>
      BY DEF Purge
<1>2. TypeOK'
      BY <1>1 DEF Inv, TypeOK, MaybeIn, Exists
<1>3. KeysOK' /\ OneIssuer' /\ OneAccountPerSubject'
      BY <1>1 DEF Inv, KeysOK, OneIssuer, OneAccountPerSubject, Exists, At, Flow
<1>4. RequestsOK'
      <2> SUFFICES ASSUME NEW w \in Workers PROVE RequestOK(req[w])'
          BY DEF RequestsOK
      <2>1. RequestOK(req[w])
            BY DEF Inv, RequestsOK
      <2>2. req[w].step = "issue" => row'[req[w].flow] = row[req[w].flow]
            BY <1>1, <2>1 DEF RequestOK, Locked, At, Flow, Inv, TypeOK
      <2> QED
          BY <1>1, <2>1, <2>2 DEF RequestOK, Exists
<1>5. FlowsOK'
      BY <1>1 DEF Inv, FlowsOK
<1> QED
    BY <1>2, <1>3, <1>4, <1>5 DEF Inv

-----------------------------------------------------------------------------
(* Theorems                                                                *)

LEMMA NextInv == Inv /\ [Next]_vars => Inv'
<1> SUFFICES ASSUME Inv, [Next]_vars PROVE Inv'
    OBVIOUS
<1>1. CASE \E w \in Workers : CountPending(w) \/ Callback(w) \/ PollDone(w) \/ Proceed(w) \/ Crash(w)
      <2>1. PICK w \in Workers : CountPending(w) \/ Callback(w) \/ PollDone(w) \/ Proceed(w) \/ Crash(w)
            BY <1>1
      <2> QED
          BY <2>1, TableFree, OneRow, InsertKeeps DEF Proceed
<1>2. CASE \E f \in Flows : SignIn(f) \/ Age(f)
      BY <1>2, SignInKeeps, RowOfEnvironment
<1>3. CASE \E n \in Names : CreateUser(n)
      BY <1>3, CreateUserKeeps
<1>4. CASE \E n \in AllNames : SetActive(n) \/ DeleteUser(n)
      BY <1>4, SetActiveKeeps, DeleteUserKeeps
<1>5. CASE Denied \/ CallbackExpired \/ PollRejected \/ Purge
      BY <1>5, RowOfEnvironment, PurgeKeeps
<1>6. CASE UNCHANGED vars
      BY <1>6 DEF vars, Inv, TypeOK, KeysOK, RequestsOK, RequestOK, OneIssuer, FlowsOK,
                  OneAccountPerSubject, Exists, At, Flow
<1> QED
    BY <1>1, <1>2, <1>3, <1>4, <1>5, <1>6 DEF Next

\* The tables and the requests have their types, and no identity and no flow
\* refers to an account that does not exist.
THEOREM TypeCorrect == Spec => []TypeOK
<1>1. Inv => TypeOK
      BY DEF Inv
<1> QED
    BY <1>1, InitInv, NextInv, PTL DEF Spec

\* A done flow carries the account of the subject that signed in: whatever
\* callback, lost insertion or deletion of accounts led there.
THEOREM RightAccount == Spec => []DoneMatchesIdentity
<1>1. Inv => DoneMatchesIdentity
      BY DEF Inv, FlowsOK, DoneMatchesIdentity
<1> QED
    BY <1>1, InitInv, NextInv, PTL DEF Spec

\* Concurrent first sign-ins of a subject leave it one account.
THEOREM NoSharedAccount == Spec => []OneAccountPerSubject
<1>1. Inv => OneAccountPerSubject
      BY DEF Inv
<1> QED
    BY <1>1, InitInv, NextInv, PTL DEF Spec

\* Only the poll that holds the row's lock issues, while the row is there.
LEMMA IssueEarned ==
  ASSUME Inv, [Next]_vars, NEW f \in Flows, issued'[f] # issued[f]
  PROVE  issued[f] = << >> /\ who[f] # None /\ issued'[f] = <<identity[who[f]]>>
<1>1. PICK w \in Workers : PollIssue(w)
      BY DEF Next, vars, Proceed, CountPending, Callback, PollDone, Crash, SignIn, Age, CreateUser,
             SetActive, DeleteUser, Denied, CallbackExpired, PollRejected, Purge, CreatePending,
             StartFails, Fetch, FetchFails, Identify, ChooseName, Clean, Insert, InsertFails,
             Recover, Store, AnswerConsumed, Fail, PollRefused
<1>2. /\ At(w, "issue") /\ RequestOK(req[w])
      /\ issued' = [issued EXCEPT ![Flow(w)] = Append(@, req[w].uid)]
      /\ issued \in [Flows -> Seq(Nat)]
      BY <1>1 DEF PollIssue, Inv, RequestsOK, TypeOK
<1>3. f = Flow(w)
      BY <1>2
<1>4. /\ row[f] # None /\ row[f].status = "done" /\ row[f].user = req[w].uid
      BY <1>2, <1>3 DEF RequestOK, At, Flow
<1>5. issued[f] = << >> /\ who[f] # None /\ req[w].uid = identity[who[f]]
      BY <1>4 DEF Inv, FlowsOK
<1>6. issued'[f] = Append(<< >>, req[w].uid)
      BY <1>2, <1>3, <1>5
<1> QED
    BY <1>5, <1>6

\* A flow yields at most one session, of the account of who signed in.
THEOREM OneSession == Spec => EarnedOnce
<1>1. Inv /\ [Next]_vars =>
        [\A f \in Flows : issued'[f] # issued[f] =>
           /\ issued[f] = << >>
           /\ who[f] # None
           /\ issued'[f] = <<identity[who[f]]>>]_vars
      BY IssueEarned
<1> QED
    BY <1>1, InitInv, NextInv, PTL DEF Spec, EarnedOnce

\* What a step may do to a flow.
RowKept(f) ==
  /\ row[f] = None => row'[f] = None
  /\ row[f] # None /\ row'[f] # None /\ row[f].status # "pending" =>
       row'[f].status = row[f].status /\ row'[f].user = row[f].user

LEMMA RowStep ==
  ASSUME Inv, [Next]_vars, NEW f \in started
  PROVE  RowKept(f)
<1>1. row \in [Flows -> MaybeIn(Pending)] /\ f \in Flows
      BY DEF Inv, TypeOK
<1>2. CASE UNCHANGED row
      BY <1>2 DEF RowKept
<1>3. ASSUME NEW g \in Flows, SetError(g) PROVE RowKept(f)
      <2>1. CASE UNCHANGED row
            BY <1>2, <2>1
      <2>2. CASE row[g].status = "pending" /\ row[g] # None /\ SetRow(g, [row[g] EXCEPT !.status = "error"])
            BY <1>1, <2>2 DEF RowKept, SetRow
      <2> QED
          BY <1>3, <2>1, <2>2 DEF SetError
<1>4. ASSUME NEW g, Delete(g) PROVE RowKept(f)
      BY <1>1, <1>4 DEF RowKept, Delete, SetRow
<1>5. ASSUME NEW w \in Workers, CreatePending(w) PROVE RowKept(f)
      BY <1>1, <1>5 DEF RowKept, CreatePending
<1>6. ASSUME NEW w \in Workers, Store(w) PROVE RowKept(f)
      <2>1. CASE UNCHANGED row
            BY <1>2, <2>1
      <2>2. CASE /\ Storable(Flow(w))
                 /\ SetRow(Flow(w), [row[Flow(w)] EXCEPT !.status = "done", !.user = req[w].uid])
            BY <1>1, <2>2 DEF RowKept, SetRow, Storable
      <2> QED
          BY <1>6, <2>1, <2>2 DEF Store
<1>7. ASSUME NEW w \in Workers, Fail(w) PROVE RowKept(f)
      <2>1. Flow(w) \in Flows
            BY <1>7 DEF Fail, Inv, RequestsOK, RequestOK, TypeOK, Flow
      <2> QED
          BY <1>3, <1>7, <2>1 DEF Fail
<1>8. ASSUME Denied PROVE RowKept(f)
      BY <1>3, <1>8 DEF Denied
<1>9. ASSUME NEW w \in Workers, PollIssue(w) \/ PollRefused(w) PROVE RowKept(f)
      BY <1>4, <1>9 DEF PollIssue, PollRefused
<1>10. ASSUME CallbackExpired \/ PollRejected PROVE RowKept(f)
      BY <1>4, <1>10 DEF CallbackExpired, PollRejected
<1>11. ASSUME NEW g \in Flows, Age(g) PROVE RowKept(f)
      <2>1. CASE g = f
            <3>1. row'[f] = [row[f] EXCEPT !.old = TRUE] /\ row[f] # None
                  BY <1>1, <1>11, <2>1 DEF Age
            <3>2. row[f] \in Pending
                  BY <1>1, <3>1 DEF MaybeIn
            <3> QED
                BY <3>1, <3>2 DEF RowKept, Pending
      <2>2. CASE g # f
            BY <1>1, <1>11, <2>2 DEF RowKept, Age
      <2> QED
          BY <2>1, <2>2
<1>12. ASSUME NEW n \in AllNames, DeleteUser(n) PROVE RowKept(f)
      BY <1>1, <1>12 DEF RowKept, DeleteUser, RowsWithout
<1>13. ASSUME Purge PROVE RowKept(f)
      BY <1>1, <1>13 DEF RowKept, Purge
<1> QED
    BY <1>2, <1>5, <1>6, <1>7, <1>8, <1>9, <1>10, <1>11, <1>12, <1>13
    DEF Next, vars, Proceed, CountPending, Callback, PollDone, Crash, SignIn, CreateUser, SetActive,
        StartFails, Fetch, FetchFails, Identify, ChooseName, Clean, Insert, InsertFails, Recover,
        AnswerConsumed

\* The outcome of a flow is final, and a flow that is gone stays gone.
THEOREM FinalOutcome == Spec => OutcomeSticks
<1>1. Inv /\ [Next]_vars => [\A f \in started : RowKept(f)]_vars
      BY RowStep
<1>2. [\A f \in started : RowKept(f)]_vars =>
        [\A f \in started :
           /\ row[f] = None => row'[f] = None
           /\ row[f] # None /\ row'[f] # None /\ row[f].status # "pending" =>
                /\ row'[f].status = row[f].status
                /\ row'[f].user = row[f].user]_vars
      BY DEF RowKept
<1> QED
    BY <1>1, <1>2, InitInv, NextInv, PTL DEF Spec, OutcomeSticks

-----------------------------------------------------------------------------
(* The refinement of OneTimeOffer                                          *)

\* The accounts a flow can be decided for are those ever created.
OfferInv == Inv /\ users <= MaxUsers

LEMMA OfferInvHolds == Spec => []OfferInv
<1>1. Init => users <= MaxUsers
      BY BoundsAssumption DEF Init
<1>2. ASSUME OfferInv, [Next]_vars PROVE OfferInv'
      <2>1. Inv'
            BY <1>2, NextInv DEF OfferInv
      <2>2. users \in Nat
            BY <1>2 DEF OfferInv, Inv, TypeOK
      <2>3. CASE users' = users
            BY <1>2, <2>1, <2>3 DEF OfferInv
      <2>4. CASE users < MaxUsers /\ users' = users + 1
            BY <2>1, <2>2, <2>4, BoundsAssumption DEF OfferInv
      <2>5. users' = users \/ (users < MaxUsers /\ users' = users + 1)
            BY <1>2 DEF Next, vars, Proceed, CountPending, Callback, PollDone, Crash, SignIn, Age,
               CreateUser, SetActive, DeleteUser, Denied, CallbackExpired, PollRejected, Purge,
               CreatePending, StartFails, Fetch, FetchFails, Identify, ChooseName, Clean, Insert,
               InsertFails, Recover, Store, AnswerConsumed, Fail, PollIssue, PollRefused
      <2> QED
          BY <2>3, <2>4, <2>5
<1> QED
    BY <1>1, <1>2, InitInv, PTL DEF Spec, OfferInv

LEMMA OfferInit == Init => Offer!Init
BY DEF Init, Offer!Init, OfferStage, OfferWinner

\* A step that touches no flow.
LEMMA OfferStutter ==
  ASSUME UNCHANGED <<row, started, issued>>
  PROVE  UNCHANGED Offer!vars
BY DEF Offer!vars, OfferStage, OfferWinner

\* A flow ends, fails or only grows older.
RowFades(f) ==
  \/ row'[f] = row[f]
  \/ row'[f] = None
  \/ /\ row[f] # None /\ row'[f] # None
     /\ \/ row'[f].status = "error"
        \/ row'[f].status = row[f].status /\ row'[f].user = row[f].user

\* Such steps discard offers, if anything.
LEMMA OfferFades ==
  ASSUME Inv, UNCHANGED <<started, issued>>, \A f \in Flows : RowFades(f)
  PROVE  \E S \in SUBSET Flows : Offer!Discard(S)
<1>1. PICK S \in SUBSET Flows :
        S = {f \in Flows : OfferStage(f) = "open" /\ OfferStage(f)' # "open"}
      OBVIOUS
<1>2. ASSUME NEW f \in Flows
      PROVE  /\ OfferStage(f)' = IF f \in S THEN "closed" ELSE OfferStage(f)
             /\ OfferWinner(f)' = IF f \in S THEN None ELSE OfferWinner(f)
      <2>1. f \notin started => row[f] = None
            BY DEF Inv, TypeOK
      <2>2. RowFades(f)
            OBVIOUS
      <2>3. CASE row'[f] = row[f]
            BY <1>1, <2>3 DEF OfferStage, OfferWinner
      <2>4. CASE row'[f] = None
            BY <1>1, <2>1, <2>4 DEF OfferStage, OfferWinner
      <2>5. CASE row[f] # None /\ row'[f] # None /\ row'[f].status = "error"
            BY <1>1, <2>1, <2>5 DEF OfferStage, OfferWinner
      <2>6. CASE /\ row[f] # None /\ row'[f] # None
                 /\ row'[f].status = row[f].status /\ row'[f].user = row[f].user
            BY <1>1, <2>6 DEF OfferStage, OfferWinner
      <2> QED
          BY <2>2, <2>3, <2>4, <2>5, <2>6 DEF RowFades
<1> QED
    BY <1>1, <1>2 DEF Offer!Discard

\* oidc_auth makes the offer.
LEMMA OfferMade ==
  ASSUME Inv, NEW w \in Workers, CreatePending(w)
  PROVE  \E f \in Flows : Offer!Make(f)
<1>1. PICK f \in Flows \ started : row' = [row EXCEPT ![f] = Fresh] /\ started' = started \cup {f}
      BY DEF CreatePending
<1>2. /\ row'[f] = Fresh /\ Fresh # None /\ row[f] = None
      /\ \A g \in Flows \ {f} : row'[g] = row[g]
      <2>1. Fresh \in Pending /\ row \in [Flows -> MaybeIn(Pending)]
            BY DEF Fresh, Pending, MaybeIn, Inv, TypeOK
      <2> QED
          BY <1>1, <2>1, NoRowAssumption DEF Inv, TypeOK
<1>3. /\ OfferStage(f) = "unmade" /\ OfferStage(f)' = "open"
      /\ OfferWinner(f) = None /\ OfferWinner(f)' = None
      BY <1>1, <1>2 DEF OfferStage, OfferWinner, Fresh
<1>4. \A g \in Flows \ {f} : OfferStage(g)' = OfferStage(g) /\ OfferWinner(g)' = OfferWinner(g)
      BY <1>1, <1>2 DEF OfferStage, OfferWinner
<1>5. issued' = issued
      BY DEF CreatePending
<1>6. Offer!Make(f)
      BY <1>3, <1>4, <1>5 DEF Offer!Make
<1> QED
    BY <1>6

\* The callback that finds the flow pending decides whose it is.
LEMMA OfferDecided ==
  ASSUME OfferInv, NEW w \in Workers, Store(w), Storable(Flow(w)), Exists(req[w].uid)
  PROVE  \E f \in Flows, id \in 0 .. MaxUsers : Offer!Decide(f, id)
<1>1. PICK f, id : f = Flow(w) /\ id = req[w].uid
      OBVIOUS
<1>2. f \in started /\ f \in Flows /\ id \in Nat /\ id < users /\ users \in Nat /\ users <= MaxUsers
      BY <1>1 DEF OfferInv, Inv, TypeOK, RequestsOK, RequestOK, Store, At, Flow
<1>3. id \in 0 .. MaxUsers
      BY <1>2, BoundsAssumption
<1>4. /\ row[f] # None /\ row[f].status = "pending"
      /\ row' = [row EXCEPT ![f] = [row[f] EXCEPT !.status = "done", !.user = id]]
      /\ UNCHANGED <<started, issued>>
      BY <1>1 DEF Store, Storable, SetRow, Flow
<1>5. row \in [Flows -> MaybeIn(Pending)] /\ row[f] \in Pending
      BY <1>2, <1>4 DEF OfferInv, Inv, TypeOK, MaybeIn
<1>6. PICK r : r = [row[f] EXCEPT !.status = "done", !.user = id]
      OBVIOUS
<1>7. r \in Pending /\ r.status = "done" /\ r.user = id /\ r # None
      BY <1>2, <1>5, <1>6, NoRowAssumption DEF Pending, MaybeIn
<1>8. row'[f] = r /\ \A g \in Flows \ {f} : row'[g] = row[g]
      BY <1>2, <1>4, <1>5, <1>6
<1>9. /\ OfferStage(f) = "open" /\ OfferStage(f)' = "open"
      /\ OfferWinner(f) = None /\ OfferWinner(f)' = id
      BY <1>2, <1>4, <1>7, <1>8 DEF OfferStage, OfferWinner
<1>10. \A g \in Flows \ {f} : OfferStage(g)' = OfferStage(g) /\ OfferWinner(g)' = OfferWinner(g)
      BY <1>4, <1>8 DEF OfferStage, OfferWinner
<1>11. Offer!Decide(f, id)
      BY <1>2, <1>4, <1>9, <1>10 DEF Offer!Decide
<1> QED
    BY <1>2, <1>3, <1>11

\* The poll that has the row locked takes it, for the account it was decided for.
LEMMA OfferTaken ==
  ASSUME OfferInv, NEW w \in Workers, PollIssue(w)
  PROVE  \E f \in Flows, id \in 0 .. MaxUsers : Offer!Take(f, id)
<1>1. PICK f, id : f = Flow(w) /\ id = req[w].uid
      OBVIOUS
<1>2. /\ f \in started /\ f \in Flows /\ id \in Nat /\ id < users /\ users \in Nat
      /\ users <= MaxUsers
      /\ row[f] # None /\ row[f].status = "done" /\ row[f].user = id
      BY <1>1 DEF OfferInv, Inv, TypeOK, RequestsOK, RequestOK, PollIssue, At, Flow
<1>3. id \in 0 .. MaxUsers
      BY <1>2, BoundsAssumption
<1>4. /\ row' = [row EXCEPT ![f] = None] /\ started' = started
      /\ issued' = [issued EXCEPT ![f] = Append(issued[f], id)]
      BY <1>1 DEF PollIssue, Delete, SetRow, Flow
<1>5. row'[f] = None /\ \A g \in Flows \ {f} : row'[g] = row[g]
      BY <1>2, <1>4 DEF OfferInv, Inv, TypeOK
<1>6. /\ OfferStage(f) = "open" /\ OfferStage(f)' = "closed"
      /\ OfferWinner(f) = id /\ OfferWinner(f)' = None
      BY <1>2, <1>4, <1>5 DEF OfferStage, OfferWinner
<1>7. \A g \in Flows \ {f} : OfferStage(g)' = OfferStage(g) /\ OfferWinner(g)' = OfferWinner(g)
      BY <1>4, <1>5 DEF OfferStage, OfferWinner
<1>8. Offer!Take(f, id)
      BY <1>2, <1>4, <1>6, <1>7 DEF Offer!Take
<1> QED
    BY <1>2, <1>3, <1>8

\* The other steps that write flows end them or make them older.
LEMMA FadingSteps ==
  ASSUME Inv,
         \/ \E w \in Workers : Fail(w) \/ PollRefused(w)
         \/ \E f \in Flows : Age(f)
         \/ \E n \in AllNames : DeleteUser(n)
         \/ Denied \/ CallbackExpired \/ PollRejected \/ Purge
  PROVE  UNCHANGED <<started, issued>> /\ \A f \in Flows : RowFades(f)
<1>1. UNCHANGED <<started, issued>>
      BY DEF Fail, PollRefused, Age, DeleteUser, Denied, CallbackExpired, PollRejected, Purge
<1> SUFFICES ASSUME NEW f \in Flows PROVE RowFades(f)
      BY <1>1
<1>2. row \in [Flows -> MaybeIn(Pending)]
      BY DEF Inv, TypeOK
<1>3. ASSUME NEW g, SetError(g) PROVE RowFades(f)
      <2>1. CASE UNCHANGED row
            BY <2>1 DEF RowFades
      <2>2. CASE row[g] # None /\ SetRow(g, [row[g] EXCEPT !.status = "error"])
            <3>1. CASE f = g
                  <4>1. PICK r : r = [row[f] EXCEPT !.status = "error"]
                        OBVIOUS
                  <4>2. row'[f] = r /\ r \in Pending /\ r.status = "error"
                        BY <1>2, <2>2, <3>1, <4>1 DEF SetRow, Pending, MaybeIn
                  <4> QED
                      BY <2>2, <3>1, <4>2 DEF RowFades
            <3>2. CASE f # g
                  BY <1>2, <2>2, <3>2 DEF SetRow, RowFades
            <3> QED
                BY <3>1, <3>2
      <2> QED
          BY <1>3, <2>1, <2>2 DEF SetError
<1>4. ASSUME NEW g, Delete(g) PROVE RowFades(f)
      BY <1>2, <1>4 DEF Delete, SetRow, RowFades
<1>5. ASSUME NEW g \in Flows, Age(g) PROVE RowFades(f)
      <2>1. CASE f = g
            <3>1. PICK r : r = [row[f] EXCEPT !.old = TRUE]
                  OBVIOUS
            <3>2. row[f] # None /\ row[f] \in Pending /\ row'[f] = r
                  BY <1>2, <1>5, <2>1, <3>1 DEF Age, MaybeIn
            <3>3. r \in Pending /\ r.status = row[f].status /\ r.user = row[f].user
                  BY <3>1, <3>2 DEF Pending
            <3> QED
                BY <3>2, <3>3, NoRowAssumption DEF RowFades
      <2>2. CASE f # g
            BY <1>2, <1>5, <2>2 DEF Age, RowFades
      <2> QED
          BY <2>1, <2>2
<1>6. ASSUME NEW n \in AllNames, DeleteUser(n) PROVE RowFades(f)
      BY <1>2, <1>6 DEF DeleteUser, RowsWithout, RowFades
<1>7. ASSUME Purge PROVE RowFades(f)
      BY <1>2, <1>7 DEF Purge, RowFades
<1> QED
    BY <1>3, <1>4, <1>5, <1>6, <1>7 DEF Fail, PollRefused, Denied, CallbackExpired, PollRejected

LEMMA OfferStep == OfferInv /\ [Next]_vars => [Offer!Next]_Offer!vars
<1> SUFFICES ASSUME OfferInv, [Next]_vars PROVE Offer!Next \/ UNCHANGED Offer!vars
    OBVIOUS
<1>1. CASE UNCHANGED <<row, started, issued>>
      BY <1>1, OfferStutter
<1>2. ASSUME NEW w \in Workers, CreatePending(w) PROVE Offer!Next
      BY <1>2, OfferMade DEF Offer!Next, OfferInv
<1>3. ASSUME NEW w \in Workers, Store(w) PROVE Offer!Next \/ UNCHANGED Offer!vars
      <2>1. CASE Storable(Flow(w)) /\ Exists(req[w].uid)
            BY <1>3, <2>1, OfferDecided DEF Offer!Next
      <2>2. CASE ~(Storable(Flow(w)) /\ Exists(req[w].uid))
            BY <1>3, <1>1, <2>2 DEF Store
      <2> QED
          BY <2>1, <2>2
<1>4. ASSUME NEW w \in Workers, PollIssue(w) PROVE Offer!Next
      BY <1>4, OfferTaken DEF Offer!Next
<1>5. ASSUME \/ \E w \in Workers : Fail(w) \/ PollRefused(w)
             \/ \E f \in Flows : Age(f)
             \/ \E n \in AllNames : DeleteUser(n)
             \/ Denied \/ CallbackExpired \/ PollRejected \/ Purge
      PROVE  Offer!Next
      BY <1>5, FadingSteps, OfferFades DEF Offer!Next, OfferInv
<1>6. ASSUME NEW w \in Workers,
             \/ CountPending(w) \/ Callback(w) \/ PollDone(w) \/ Crash(w)
             \/ StartFails(w) \/ Fetch(w) \/ FetchFails(w) \/ Identify(w) \/ ChooseName(w)
             \/ Clean(w) \/ Insert(w) \/ InsertFails(w) \/ Recover(w) \/ AnswerConsumed(w)
      PROVE  UNCHANGED <<row, started, issued>>
      BY <1>6 DEF CountPending, Callback, PollDone, Crash, StartFails, Fetch, FetchFails, Identify,
                  ChooseName, Clean, Insert, InsertFails, Recover, AnswerConsumed
<1>7. ASSUME \/ \E f \in Flows : SignIn(f)
             \/ \E n \in Names : CreateUser(n)
             \/ \E n \in AllNames : SetActive(n)
             \/ UNCHANGED vars
      PROVE  UNCHANGED <<row, started, issued>>
      BY <1>7 DEF SignIn, CreateUser, SetActive, vars
<1> QED
    BY <1>1, <1>2, <1>3, <1>4, <1>5, <1>6, <1>7 DEF Next, Proceed

\* A flow is one offer of a session: decided once, taken once, by a poll and
\* for that account, and over when it has failed, expired or been deleted.
THEOREM OfferImplemented == Spec => ImplementsOffer
<1>1. Init => Offer!Init
      BY OfferInit
<1>2. OfferInv /\ [Next]_vars => [Offer!Next]_Offer!vars
      BY OfferStep
<1> QED
    BY <1>1, <1>2, OfferInvHolds, PTL DEF Spec, ImplementsOffer, Offer!Spec

-----------------------------------------------------------------------------
(* The limit on pending flows                                              *)

\* The requests that have counted and will create.
Creating == {w \in Workers : At(w, "create")}

\* Each of them adds at most one flow, and at most the one that counted last
\* counted fewer than MaxPending.
Bounded == Cardinality(Live) + Cardinality(Creating) <= MaxPending + Cardinality(Workers) - 1

LEMMA WorkersCount == Cardinality(Workers) \in Nat \ {0}
BY FiniteAssumption, FS_CardinalityType, FS_EmptySet

LEMMA InitBounded == Init => Bounded
<1> SUFFICES ASSUME Init PROVE Bounded
    OBVIOUS
<1>1. Live = {} /\ Creating = {}
      BY DEF Init, Live, Creating, At, Idle
<1>2. Cardinality({}) = 0
      BY FS_EmptySet
<1> QED
    BY <1>1, <1>2, WorkersCount, BoundsAssumption DEF Bounded

\* Every other step leaves these sets or shrinks them.
LEMMA Shrinking ==
  ASSUME Inv, [Next]_vars, \A w \in Workers : ~CountPending(w) /\ ~CreatePending(w)
  PROVE  /\ \A f \in Flows : row'[f] # None /\ ~row'[f].old => row[f] # None /\ ~row[f].old
         /\ \A w \in Workers : At(w, "create")' => At(w, "create")
<1>1. /\ row \in [Flows -> MaybeIn(Pending)] /\ req \in [Workers -> Request]
      /\ started \subseteq Flows
      BY DEF Inv, TypeOK
<1> DEFINE Shrunk == \A f \in Flows : row'[f] # None /\ ~row'[f].old => row[f] # None /\ ~row[f].old
           Stayed == \A w \in Workers : At(w, "create")' => At(w, "create")
<1>2. ASSUME UNCHANGED row PROVE Shrunk
      BY <1>2
<1>3. ASSUME UNCHANGED req PROVE Stayed
      BY <1>3 DEF At
<1>4. ASSUME NEW w \in Workers, NEW r, Goto(w, r), r.step # "create" PROVE Stayed
      BY <1>1, <1>4 DEF Goto, At
<1>5. ASSUME NEW g \in Flows, SetError(g) PROVE Shrunk
      <2>1. CASE UNCHANGED row
            BY <1>2, <2>1
      <2>2. CASE row[g] # None /\ SetRow(g, [row[g] EXCEPT !.status = "error"])
            <3>1. row[g] \in Pending /\ row' = [row EXCEPT ![g] = [row[g] EXCEPT !.status = "error"]]
                  BY <1>1, <2>2 DEF SetRow, MaybeIn
            <3>2. [row[g] EXCEPT !.status = "error"].old = row[g].old
                  BY <3>1 DEF Pending
            <3> QED
                BY <1>1, <2>2, <3>1, <3>2
      <2> QED
          BY <1>5, <2>1, <2>2 DEF SetError
<1>6. ASSUME NEW g, Delete(g) PROVE Shrunk
      BY <1>1, <1>6 DEF Delete, SetRow
<1>7. ASSUME NEW w \in Workers, NEW t, Step(w, t), t # "create" PROVE Stayed
      <2>1. [req[w] EXCEPT !.step = t].step = t
            BY <1>1 DEF Request
      <2> QED
          BY <1>4, <1>7, <2>1 DEF Step
<1>8. ASSUME NEW w \in Workers, Goto(w, Idle) PROVE Stayed
      BY <1>4, <1>8 DEF Idle
<1>9. ASSUME NEW w \in Workers, Store(w) PROVE Shrunk /\ Stayed
      <2>1. CASE UNCHANGED row /\ (Step(w, "fail") \/ Step(w, "consumed"))
            BY <1>2, <1>7, <2>1
      <2>2. CASE /\ Storable(Flow(w)) /\ Goto(w, Idle)
                 /\ SetRow(Flow(w), [row[Flow(w)] EXCEPT !.status = "done", !.user = req[w].uid])
            <3>1. Flow(w) \in Flows
                  BY <1>9 DEF Store, Inv, TypeOK, RequestsOK, RequestOK, At, Flow
            <3>2. PICK g \in Flows : g = Flow(w)
                  BY <3>1
            <3>3. PICK x : x = [row[g] EXCEPT !.status = "done", !.user = req[w].uid]
                  OBVIOUS
            <3>4. row[g] \in Pending /\ row[g] # None /\ row' = [row EXCEPT ![g] = x]
                  BY <1>1, <2>2, <3>2, <3>3 DEF SetRow, Storable, MaybeIn
            <3>5. x.old = row[g].old
                  BY <3>3, <3>4 DEF Pending
            <3> QED
                BY <1>1, <1>8, <2>2, <3>4, <3>5
      <2> QED
          BY <1>9, <2>1, <2>2 DEF Store
<1>10. ASSUME NEW g \in Flows, Age(g) PROVE Shrunk /\ Stayed
      <2>1. row[g] \in Pending /\ row'[g] = [row[g] EXCEPT !.old = TRUE]
            BY <1>1, <1>10 DEF Age, MaybeIn
      <2>2. row'[g].old
            BY <2>1 DEF Pending
      <2> QED
          BY <1>1, <1>3, <1>10, <2>2 DEF Age
<1>11. ASSUME NEW w \in Workers, Fail(w) PROVE Shrunk /\ Stayed
      <2>1. Flow(w) \in Flows
            BY <1>11 DEF Fail, Inv, RequestsOK, RequestOK, TypeOK, Flow
      <2> QED
          BY <1>5, <1>8, <1>11, <2>1 DEF Fail
<1>12. ASSUME NEW w \in Workers, PollIssue(w) \/ PollRefused(w) PROVE Shrunk /\ Stayed
      BY <1>6, <1>8, <1>12 DEF PollIssue, PollRefused
<1>13. ASSUME Denied \/ CallbackExpired \/ PollRejected PROVE Shrunk /\ Stayed
      BY <1>3, <1>5, <1>6, <1>13 DEF Denied, CallbackExpired, PollRejected
<1>14. ASSUME NEW n \in AllNames, DeleteUser(n) PROVE Shrunk /\ Stayed
      BY <1>1, <1>3, <1>14 DEF DeleteUser, RowsWithout
<1>15. ASSUME Purge PROVE Shrunk /\ Stayed
      BY <1>1, <1>3, <1>15 DEF Purge
<1>16. ASSUME NEW w \in Workers,
              \/ StartFails(w) \/ Fetch(w) \/ FetchFails(w) \/ Identify(w) \/ ChooseName(w)
              \/ Clean(w) \/ Insert(w) \/ InsertFails(w) \/ Recover(w) \/ AnswerConsumed(w)
              \/ Callback(w) \/ PollDone(w) \/ Crash(w)
       PROVE  Stayed
      <2>1. req[w] \in Request
            BY <1>1
      <2>2. ASSUME NEW id, Resolved(w, id) PROVE Stayed
            <3>1. [req[w] EXCEPT !.uid = id, !.step = IF Active(id) THEN "store" ELSE "fail"].step # "create"
                  BY <2>1 DEF Request
            <3> QED
                BY <1>4, <2>2, <3>1 DEF Resolved
      <2>3. CASE StartFails(w) \/ AnswerConsumed(w) \/ Crash(w)
            BY <1>8, <2>3 DEF StartFails, AnswerConsumed, Crash
      <2>4. CASE FetchFails(w) \/ Clean(w) \/ InsertFails(w)
            BY <1>7, <2>4 DEF FetchFails, Clean, InsertFails
      <2>5. CASE Identify(w)
            BY <1>7, <2>2, <2>5 DEF Identify
      <2>6. CASE Recover(w)
            <3>1. [req[w] EXCEPT !.step = "identify", !.try = req[w].try + 1].step # "create"
                  BY <2>1 DEF Request
            <3> QED
                BY <1>4, <1>7, <2>2, <2>6, <3>1 DEF Recover
      <2>7. CASE Fetch(w)
            <3>1. [req[w] EXCEPT !.step = "identify", !.sub = who[Flow(w)]].step # "create"
                  BY <2>1 DEF Request
            <3> QED
                BY <1>4, <2>7, <3>1 DEF Fetch
      <2>8. CASE ChooseName(w)
            <3>1. [req[w] EXCEPT !.step = "clean", !.name = LocalUsername(req[w].sub, req[w].try)].step
                    # "create"
                  BY <2>1 DEF Request
            <3> QED
                BY <1>4, <2>8, <3>1 DEF ChooseName
      <2>9. CASE Insert(w)
            <3>1. [req[w] EXCEPT !.step = "store", !.uid = users].step # "create"
                  BY <2>1 DEF Request
            <3> QED
                BY <1>4, <2>9, <3>1 DEF Insert
      <2>10. CASE Callback(w)
            <3>1. \A f : [Idle EXCEPT !.step = "fetch", !.flow = f].step # "create"
                  BY DEF Idle
            <3> QED
                BY <1>4, <2>10, <3>1 DEF Callback
      <2>11. CASE PollDone(w)
            <3>1. \A f, id : [Idle EXCEPT !.step = "issue", !.flow = f, !.uid = id].step # "create"
                  BY DEF Idle
            <3> QED
                BY <1>4, <2>11, <3>1 DEF PollDone
      <2> QED
          BY <1>16, <2>3, <2>4, <2>5, <2>6, <2>7, <2>8, <2>9, <2>10, <2>11
<1>17. ASSUME NEW w \in Workers,
              \/ StartFails(w) \/ Fetch(w) \/ FetchFails(w) \/ Identify(w) \/ ChooseName(w)
              \/ Clean(w) \/ Insert(w) \/ InsertFails(w) \/ Recover(w) \/ AnswerConsumed(w)
              \/ Callback(w) \/ PollDone(w) \/ Crash(w)
       PROVE  UNCHANGED row
      BY <1>17 DEF StartFails, Fetch, FetchFails, Identify, ChooseName, Clean, Insert, InsertFails,
                   Recover, AnswerConsumed, Callback, PollDone, Crash
<1>18. ASSUME \/ \E f \in Flows : SignIn(f)
              \/ \E n \in AllNames : SetActive(n)
              \/ \E n \in Names : CreateUser(n)
              \/ UNCHANGED vars
       PROVE  UNCHANGED <<row, req>>
      BY <1>18 DEF SignIn, CreateUser, SetActive, vars
<1> HIDE DEF Shrunk, Stayed
<1>19. Shrunk /\ Stayed
      BY <1>2, <1>3, <1>9, <1>10, <1>11, <1>12, <1>13, <1>14, <1>15, <1>16, <1>17, <1>18
      DEF Next, Proceed
<1> QED
    BY <1>19 DEF Shrunk, Stayed

LEMMA NextBounded ==
  ASSUME Inv, Bounded, [Next]_vars
  PROVE  Bounded'
<1>1. PICK L, C, L2, C2 : L = Live /\ C = Creating /\ L2 = Live' /\ C2 = Creating'
      OBVIOUS
<1>2. /\ IsFiniteSet(L) /\ IsFiniteSet(C) /\ IsFiniteSet(L2) /\ IsFiniteSet(C2)
      /\ C2 \subseteq Workers
      BY <1>1, FiniteAssumption, FS_Subset DEF Live, Creating
<1>3. /\ Cardinality(L) \in Nat /\ Cardinality(C) \in Nat
      /\ Cardinality(L2) \in Nat /\ Cardinality(C2) \in Nat
      /\ Cardinality(C2) <= Cardinality(Workers)
      BY <1>2, FiniteAssumption, FS_CardinalityType, FS_Subset
<1>4. Cardinality(L) + Cardinality(C) <= MaxPending + Cardinality(Workers) - 1
      BY <1>1 DEF Bounded
<1>5. CASE \E w \in Workers : CountPending(w)
      <2>1. L2 = L /\ Cardinality(L) < MaxPending
            BY <1>1, <1>5 DEF CountPending, Live
      <2> QED
          BY <1>1, <1>3, <2>1, BoundsAssumption, WorkersCount DEF Bounded
<1>6. CASE \E w \in Workers : CreatePending(w)
      <2>1. PICK w \in Workers, f \in Flows : /\ At(w, "create") /\ Goto(w, Idle)
                                              /\ row' = [row EXCEPT ![f] = Fresh]
            BY <1>6 DEF CreatePending
      <2>2. L2 \subseteq L \cup {f}
            BY <1>1, <2>1 DEF Live, Inv, TypeOK
      <2>3. C2 \subseteq C \ {w} /\ w \in C
            BY <1>1, <2>1 DEF Creating, At, Goto, Idle, Inv, TypeOK
      <2>4. Cardinality(L2) <= Cardinality(L) + 1
            <3>1. IsFiniteSet(L \cup {f}) /\ Cardinality(L \cup {f}) <= Cardinality(L) + 1
                  <4>1. /\ IsFiniteSet(L \cup {f})
                        /\ Cardinality(L \cup {f}) = IF f \in L THEN Cardinality(L) ELSE Cardinality(L) + 1
                        BY <1>2, FS_AddElement
                  <4> QED
                      BY <1>3, <4>1
            <3>2. Cardinality(L2) <= Cardinality(L \cup {f}) /\ Cardinality(L \cup {f}) \in Nat
                  BY <2>2, <3>1, FS_Subset, FS_CardinalityType
            <3> QED
                BY <1>3, <3>1, <3>2
      <2>5. Cardinality(C2) <= Cardinality(C) - 1
            <3>1. IsFiniteSet(C \ {w}) /\ Cardinality(C \ {w}) = Cardinality(C) - 1
                  BY <1>2, <2>3, FS_RemoveElement
            <3> QED
                BY <2>3, <3>1, FS_Subset
      <2> QED
          BY <1>1, <1>3, <1>4, <2>4, <2>5, BoundsAssumption, WorkersCount DEF Bounded
<1>7. CASE \A w \in Workers : ~CountPending(w) /\ ~CreatePending(w)
      <2>1. Cardinality(L2) <= Cardinality(L) /\ Cardinality(C2) <= Cardinality(C)
            <3>1. L2 \subseteq L /\ C2 \subseteq C
                  BY <1>1, <1>7, Shrinking DEF Live, Creating, At
            <3> QED
                BY <1>2, <3>1, FS_Subset
      <2> QED
          BY <1>1, <1>3, <1>4, <2>1, BoundsAssumption, WorkersCount DEF Bounded
<1> QED
    BY <1>5, <1>6, <1>7

\* Requests that start flows concurrently overshoot the limit by less than
\* their number.
THEOREM LimitOvershoot == Spec => []PendingBounded
<1>1. Inv /\ Bounded => PendingBounded
      <2> SUFFICES ASSUME Bounded PROVE PendingBounded
          OBVIOUS
      <2>1. IsFiniteSet(Creating)
            BY FiniteAssumption, FS_Subset DEF Creating
      <2>2. Cardinality(Creating) \in Nat
            BY <2>1, FS_CardinalityType
      <2>3. IsFiniteSet(Live)
            BY FiniteAssumption, FS_Subset DEF Live
      <2>4. Cardinality(Live) \in Nat
            BY <2>3, FS_CardinalityType
      <2>5. Cardinality(Live) <= MaxPending + Cardinality(Workers) - 1
            BY <2>2, <2>4, BoundsAssumption, WorkersCount DEF Bounded
      <2> QED
          BY <2>5 DEF PendingBounded, Live
<1> QED
    BY <1>1, InitInv, NextInv, InitBounded, NextBounded, PTL DEF Spec

=============================================================================

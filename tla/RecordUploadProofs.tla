------------------------- MODULE RecordUploadProofs -------------------------
(***************************************************************************)
(* What holds of RecordUpload for every set of workers, every data and     *)
(* every size and bound: types, mutual exclusion, honest 423 answers, the  *)
(* file size limit, and that successful uploads stay.                      *)
(***************************************************************************)
EXTENDS RecordUpload, TLAPS

-----------------------------------------------------------------------------
(* Types                                                                   *)

\* What Release records under acked is data written to an inode.
UploadTyped ==
  \A w \in Workers :
    At(w, "release") /\ req[w].ok /\ Ask(w).len > 0 => req[w].fd \in Inodes

TypeInv == TypeOK /\ UploadTyped

\* os.write at an offset leaves a file, at least as long and longer if it ends
\* beyond the end; it leaves what is elsewhere alone.
LEMMA WriteAtFacts ==
  ASSUME NEW s \in Seq(Bytes \cup {Hole}), NEW p \in Nat, NEW b \in Bytes \cup {Hole}
  PROVE  /\ WriteAt(s, p, b) \in Seq(Bytes \cup {Hole})
         /\ Len(WriteAt(s, p, b)) = IF p < Len(s) THEN Len(s) ELSE p + 1
         /\ WriteAt(s, p, b)[p + 1] = b
         /\ \A i \in 1..Len(s) : i # p + 1 => WriteAt(s, p, b)[i] = s[i]
<1> DEFINE n == IF p < Len(s) THEN Len(s) ELSE p + 1
           f == [i \in 1..n |-> IF i = p + 1 THEN b ELSE IF i <= Len(s) THEN s[i] ELSE Hole]
<1>1. n \in Nat /\ p + 1 \in 1..n /\ 1..Len(s) \subseteq 1..n
  OBVIOUS
<1>2. ASSUME NEW i \in 1..n PROVE f[i] \in Bytes \cup {Hole}
  OBVIOUS
<1>3. f \in [1..n -> Bytes \cup {Hole}]
  BY <1>2
<1>4. f \in Seq(Bytes \cup {Hole}) /\ Len(f) = n
  BY <1>1, <1>3
<1>5. WriteAt(s, p, b) = f
  BY DEF WriteAt
<1>6. f[p + 1] = b
  BY <1>1
<1>7. \A i \in 1..Len(s) : i # p + 1 => f[i] = s[i]
  BY <1>1
<1> QED BY <1>4, <1>5, <1>6, <1>7

LEMMA IdleType == Idle \in Request /\ Idle.step = "idle"
<1>1. [op |-> "remove", off |-> 0, len |-> 0, byte |-> Hole] \in Asked
  BY SizesAssumption DEF Asked, Ops
<1> QED BY <1>1 DEF Idle, Request, Steps

LEMMA ArriveType ==
  [Idle EXCEPT !.step = "create"] \in Request /\ [Idle EXCEPT !.step = "create"].step = "create"
                                              /\ [Idle EXCEPT !.step = "create"].tries = 1
BY IdleType DEF Request, Steps, Idle

LEMMA OpenType ==
  ASSUME NEW a \in Asked
  PROVE  LET r == [Idle EXCEPT !.step = "open", !.ask = a]
         IN  r \in Request /\ r.step = "open"
BY IdleType DEF Request, Steps

LEMMA TypeInit == Init => TypeInv
<1> SUFFICES ASSUME Init PROVE TypeInv
  OBVIOUS
<1>1. robbed \in BOOLEAN
  BY DEF Init
<1>2. lock \in LockFile \cup {None} /\ link \in Inodes \cup {None}
  BY DEF Init
<1>3. data \in Seq(Seq(Bytes \cup {Hole}))
  BY DEF Init
<1> QED
  BY <1>1, <1>2, <1>3, IdleType DEF Init, TypeInv, TypeOK, UploadTyped, At

\* An action of w that leaves the files alone or adds to them.
LEMMA StepType ==
  ASSUME TypeInv, NEW w \in Workers, NEW r \in Request, Goto(w, r),
         Inodes \subseteq Inodes',
         r.step \in {"check", "write"} => r.fd \in Inodes,
         r.step = "release" /\ r.ok /\ r.ask.len > 0 => r.fd \in Inodes
  PROVE  /\ req' \in [Workers -> Request]
         /\ \A v \in Workers : req'[v].step \in {"check", "write"} => req'[v].fd \in Inodes'
         /\ UploadTyped'
BY DEF Goto, TypeInv, TypeOK, UploadTyped, At, Ask

LEMMA SetStep ==
  ASSUME NEW r \in Request, NEW s \in Steps
  PROVE  [r EXCEPT !.step = s] \in Request /\ [r EXCEPT !.step = s].step = s
BY DEF Request

LEMMA TypeNext == TypeInv /\ [Next]_vars => TypeInv'
<1> SUFFICES ASSUME TypeInv, [Next]_vars PROVE TypeInv'
  OBVIOUS
<1> USE DEF TypeInv
<1>u. ASSUME UNCHANGED data PROVE Inodes' = Inodes
  BY <1>u DEF Inodes
<1>k. ASSUME UNCHANGED <<lock, link, data, crashes, acked, robbed>>, contended' \subseteq Workers,
             NEW w \in Workers, NEW r \in Request, Goto(w, r),
             r.step \in {"check", "write"} => r.fd \in Inodes,
             r.step = "release" => ~r.ok
      PROVE  TypeInv'
  BY <1>k, <1>u, StepType DEF TypeOK
<1>r. \A w \in Workers : req[w] \in Request /\ req[w].tries \in 1..2
  BY DEF TypeOK, Request
<1>1. CASE UNCHANGED vars
  BY <1>1, <1>u DEF vars, TypeOK, UploadTyped, At, Ask
<1>2. ASSUME Age PROVE TypeInv'
  BY <1>2, <1>u DEF Age, TypeOK, UploadTyped, At, Ask, LockFile, Locked
<1>3. ASSUME NEW w \in Workers, Arrive(w) PROVE TypeInv'
  <2>1. contended' \subseteq Workers
    BY <1>3 DEF Arrive, TypeOK
  <2> QED BY <1>3, <1>k, <2>1, ArriveType DEF Arrive
<1>4. ASSUME NEW w \in Workers, CreateLock(w) PROVE TypeInv'
  <2>1. PICK a \in Asked : Goto(w, [Idle EXCEPT !.step = "open", !.ask = a])
    BY <1>4 DEF CreateLock
  <2> DEFINE r == [Idle EXCEPT !.step = "open", !.ask = a]
  <2>2. r \in Request /\ r.step = "open"
    BY OpenType
  <2>3. [by |-> w, stale |-> FALSE] \in LockFile
    BY DEF LockFile
  <2>4. UNCHANGED <<data, link, crashes, acked, robbed>> /\ contended' \subseteq Workers
    BY <1>4 DEF CreateLock, TypeOK
  <2> HIDE DEF r
  <2> QED BY <1>4, <1>u, <2>1, <2>2, <2>3, <2>4, StepType DEF CreateLock, TypeOK, r
<1>5. ASSUME NEW w \in Workers, LockExists(w) PROVE TypeInv'
  <2>1. [req[w] EXCEPT !.step = "stat"] \in Request /\ [req[w] EXCEPT !.step = "stat"].step = "stat"
    BY <1>r, SetStep DEF Steps
  <2>2. contended' \subseteq Workers
    BY <1>5 DEF LockExists, TypeOK
  <2> QED BY <1>5, <1>k, <2>1, <2>2 DEF LockExists
<1>n. ASSUME NEW r \in Request
      PROVE  NextTry(r) \in Request /\ NextTry(r).step \in {"create", "busy"}
  <2>1. CASE r.tries < 2
    <3>1. \A n \in 1..2 : /\ [r EXCEPT !.step = "create", !.tries = n] \in Request
                          /\ [r EXCEPT !.step = "create", !.tries = n].step = "create"
      BY DEF Request, Steps
    <3> QED BY <2>1, <3>1 DEF NextTry
  <2>2. CASE ~(r.tries < 2)
    BY <2>2 DEF NextTry, Request, Steps
  <2> QED BY <2>1, <2>2
<1>6. ASSUME NEW w \in Workers, StatLock(w) PROVE TypeInv'
  <2> DEFINE r == IF lock = None THEN NextTry(req[w])
                  ELSE [req[w] EXCEPT !.step = IF MayTake THEN "unlink" ELSE "busy"]
  <2>1. r \in Request /\ r.step \in {"create", "busy", "unlink"}
    <3>1. CASE lock = None
      BY <1>r, <1>n, <3>1
    <3>2. CASE lock # None
      BY <1>r, <3>2 DEF Request, Steps
    <3> QED BY <3>1, <3>2
  <2>2. contended' \subseteq Workers
    BY <1>6 DEF StatLock, TypeOK
  <2>3. Goto(w, r)
    BY <1>6 DEF StatLock
  <2> QED BY <1>6, <1>k, <2>1, <2>2, <2>3 DEF StatLock
<1>7. ASSUME NEW w \in Workers, TakeOver(w) PROVE TypeInv'
  <2>1. NextTry(req[w]) \in Request /\ NextTry(req[w]).step \in {"create", "busy"}
    BY <1>r, <1>n
  <2>2. robbed' \in BOOLEAN
    BY <1>7 DEF TakeOver, Rob, TypeOK
  <2> QED BY <1>7, <1>u, <2>1, <2>2, StepType DEF TakeOver, TypeOK
<1>8. ASSUME NEW w \in Workers, RefuseBusy(w) PROVE TypeInv'
  <2>1. contended' \subseteq Workers
    BY <1>8 DEF RefuseBusy, TypeOK
  <2> QED BY <1>8, <1>k, <2>1, IdleType DEF RefuseBusy
<1>9. ASSUME NEW w \in Workers, Release(w) PROVE TypeInv'
  <2>1. robbed' \in BOOLEAN
    BY <1>9 DEF Release, Rob, TypeOK
  <2>2. ASSUME req[w].ok PROVE Uploaded(req[w]) \subseteq [ino: Inodes, pos: Nat, byte: Bytes]
    <3> SUFFICES ASSUME NEW i \in req[w].ask.off + 1 .. req[w].ask.off + req[w].ask.len
                 PROVE  [ino |-> req[w].fd, pos |-> i, byte |-> req[w].ask.byte]
                          \in [ino: Inodes, pos: Nat, byte: Bytes]
      BY DEF Uploaded
    <3>1. req[w].ask \in Asked
      BY <1>r DEF Request
    <3>2. req[w].ask.off \in Nat /\ req[w].ask.len \in Nat
      BY <3>1 DEF Asked
    <3>3. i \in Nat /\ req[w].ask.len > 0
      BY <3>2
    <3>4. req[w].ask.byte \in Bytes
      BY <3>1, <3>3 DEF Asked
    <3>5. req[w].fd \in Inodes
      BY <1>9, <2>2, <3>3 DEF Release, UploadTyped, Ask
    <3> QED BY <3>3, <3>4, <3>5
  <2>3. acked' \subseteq [ino: Inodes, pos: Nat, byte: Bytes]
    BY <1>9, <2>2 DEF Release, TypeOK
  <2> QED BY <1>9, <1>u, <2>1, <2>3, IdleType, StepType DEF Release, TypeOK
<1>f. ASSUME NEW w \in Workers, NEW b \in BOOLEAN, Finish(w, b),
             b /\ req[w].ask.len > 0 => req[w].fd \in Inodes,
             Inodes \subseteq Inodes'
      PROVE  /\ req' \in [Workers -> Request]
             /\ \A v \in Workers : req'[v].step \in {"check", "write"} => req'[v].fd \in Inodes'
             /\ UploadTyped'
  <2> DEFINE x == [req[w] EXCEPT !.step = "release", !.ok = b, !.pos = 0]
  <2>1. x \in Request /\ x.step = "release" /\ x.ok = b /\ x.fd = req[w].fd /\ x.ask = req[w].ask
    BY <1>r DEF Request, Steps
  <2>2. Goto(w, x)
    BY <1>f DEF Finish
  <2> HIDE DEF x
  <2> QED BY <1>f, <2>1, <2>2, StepType
<1>10. ASSUME NEW w \in Workers, CreateFile(w) PROVE TypeInv'
  <2>1. CASE link # None /\ Finish(w, FALSE) /\ UNCHANGED <<link, data>>
    BY <1>10, <1>f, <1>u, <2>1 DEF CreateFile, TypeOK
  <2>2. CASE /\ data' = Append(data, << >>)
             /\ link' = Len(data) + 1
             /\ Finish(w, TRUE)
    <3>1. data' \in Seq(Seq(Bytes \cup {Hole})) /\ Len(data') = Len(data) + 1
      BY <2>2 DEF TypeOK
    <3>2. Inodes \subseteq Inodes' /\ link' \in Inodes'
      BY <2>2, <3>1 DEF Inodes, TypeOK
    <3>3. ~(req[w].ask.len > 0)
      BY <1>r, <1>10 DEF CreateFile, Request, Asked, At, Ask
    <3> QED BY <1>10, <1>f, <2>2, <3>1, <3>2, <3>3 DEF CreateFile, TypeOK
  <2> QED BY <1>10, <2>1, <2>2 DEF CreateFile
<1>11. ASSUME NEW w \in Workers, RemoveFile(w) PROVE TypeInv'
  <2>1. ~(req[w].ask.len > 0)
    BY <1>r, <1>11 DEF RemoveFile, Request, Asked, At, Ask
  <2> QED BY <1>11, <1>f, <1>u, <2>1 DEF RemoveFile, TypeOK
<1>12. ASSUME NEW w \in Workers, OpenFile(w) PROVE TypeInv'
  <2>1. CASE link = None
    BY <1>12, <1>f, <1>u, <2>1 DEF OpenFile, TypeOK
  <2>2. CASE link # None
    <3> DEFINE r == [req[w] EXCEPT !.step = "check", !.fd = link]
    <3>1. link \in Inodes /\ link \in Nat
      BY <2>2 DEF TypeOK, Inodes
    <3>2. r \in Request /\ r.step = "check" /\ r.fd = link
      BY <1>r, <3>1 DEF Request, Steps
    <3>3. Goto(w, r)
      BY <1>12, <2>2 DEF OpenFile
    <3>4. UNCHANGED <<lock, link, data, crashes, acked, robbed>> /\ contended' \subseteq Workers
      BY <1>12 DEF OpenFile, TypeOK
    <3> HIDE DEF r
    <3> QED BY <1>k, <3>1, <3>2, <3>3, <3>4
  <2> QED BY <2>1, <2>2
<1>13. ASSUME NEW w \in Workers, CheckRange(w) PROVE TypeInv'
  <2> DEFINE r == [req[w] EXCEPT !.step = "write", !.pos = Ask(w).off]
  <2>1. req[w].fd \in Inodes /\ Ask(w).off \in Nat
    BY <1>r, <1>13 DEF CheckRange, At, TypeOK, Request, Asked, Ask
  <2>2. r \in Request /\ r.step = "write" /\ r.fd = req[w].fd
    BY <1>r, <2>1 DEF Request, Steps
  <2>3. UNCHANGED <<lock, link, data, crashes, acked, robbed>> /\ contended' \subseteq Workers
    BY <1>13 DEF CheckRange, TypeOK
  <2>4. Goto(w, r) \/ Finish(w, FALSE)
    BY <1>13 DEF CheckRange
  <2> HIDE DEF r
  <2>5. CASE Goto(w, r)
    BY <1>k, <2>1, <2>2, <2>3, <2>5
  <2>6. CASE Finish(w, FALSE)
    BY <1>f, <1>u, <2>3, <2>6 DEF TypeOK
  <2> QED BY <2>4, <2>5, <2>6
<1>14. ASSUME NEW w \in Workers, WriteUnit(w) PROVE TypeInv'
  <2> DEFINE i == req[w].fd
             r == [req[w] EXCEPT !.pos = req[w].pos + 1]
             d == WriteAt(data[i], req[w].pos, req[w].ask.byte)
  <2>1. i \in Inodes /\ req[w].pos \in Nat /\ req[w].ask.byte \in Bytes \cup {Hole}
    BY <1>r, <1>14 DEF WriteUnit, At, TypeOK, Request, Asked
  <2>2. r \in Request /\ r.step = "write" /\ r.fd = i
    BY <1>r, <1>14, <2>1 DEF WriteUnit, At, Request
  <2>3. data[i] \in Seq(Bytes \cup {Hole})
    BY <2>1 DEF TypeOK, Inodes
  <2>4. d \in Seq(Bytes \cup {Hole})
    BY <2>1, <2>3, WriteAtFacts
  <2>5. data' = [data EXCEPT ![i] = d] /\ Goto(w, r)
    BY <1>14 DEF WriteUnit
  <2> HIDE DEF i, r, d
  <2>6. data' \in Seq(Seq(Bytes \cup {Hole})) /\ Inodes' = Inodes
    BY <2>1, <2>4, <2>5 DEF TypeOK, Inodes
  <2>7. acked' \subseteq acked /\ UNCHANGED <<lock, link, crashes, contended, robbed>>
    BY <1>14 DEF WriteUnit
  <2> QED BY <2>1, <2>2, <2>5, <2>6, <2>7, StepType DEF TypeOK
<1>15. ASSUME NEW w \in Workers, WriteDone(w) PROVE TypeInv'
  <2>1. req[w].fd \in Inodes
    BY <1>15 DEF WriteDone, At, TypeOK
  <2> QED BY <1>15, <1>f, <1>u, <2>1 DEF WriteDone, TypeOK
<1>16. ASSUME NEW w \in Workers, StorageError(w) PROVE TypeInv'
  BY <1>16, <1>f, <1>u DEF StorageError, TypeOK
<1>17. ASSUME NEW w \in Workers, Crash(w) PROVE TypeInv'
  <2>1. lock' \in LockFile \cup {None}
    BY <1>17 DEF Crash, TypeOK, LockFile
  <2> QED BY <1>17, <1>u, <2>1, IdleType, StepType DEF Crash, TypeOK
<1> QED
  BY <1>1, <1>2, <1>3, <1>4, <1>5, <1>6, <1>7, <1>8, <1>9, <1>10, <1>11, <1>12, <1>13, <1>14,
     <1>15, <1>16, <1>17 DEF Next, Proceed

\* Types: a request that checks or writes has opened a recording that exists.
THEOREM TypeCorrect == Spec => []TypeOK
<1>1. TypeInv => TypeOK
  BY DEF TypeInv
<1> QED BY <1>1, TypeInit, TypeNext, PTL DEF Spec

-----------------------------------------------------------------------------
(* Mutual exclusion                                                        *)

\* A request inside the with block still has its lock.
HoldersOwn ==
  ~robbed => \A w \in Workers : Holding(w) => lock # None /\ lock.by = w

\* A step of w that leaves the lock alone and does not acquire it.
LEMMA KeepOwn ==
  ASSUME TypeInv, HoldersOwn, NEW w \in Workers, NEW r, Goto(w, r), UNCHANGED <<lock, robbed>>,
         r.step \in {"open", "check", "write", "release"} => Holding(w)
  PROVE  HoldersOwn'
BY DEF HoldersOwn, Holding, Goto, TypeInv, TypeOK

\* A step of w that removes the lock, and leaves the with block if w was in it.
LEMMA DropOwn ==
  ASSUME TypeInv, HoldersOwn, NEW w \in Workers, NEW r, Goto(w, r), robbed' = Rob(w),
         r.step \notin {"open", "check", "write", "release"}
  PROVE  HoldersOwn'
BY DEF HoldersOwn, Holding, Goto, Rob, TypeInv, TypeOK

LEMMA OwnNext == TypeInv /\ HoldersOwn /\ [Next]_vars => HoldersOwn'
<1> SUFFICES ASSUME TypeInv, HoldersOwn, [Next]_vars PROVE HoldersOwn'
  OBVIOUS
<1>r. \A w \in Workers : req[w] \in Request
  BY DEF TypeInv, TypeOK
<1>f. ASSUME NEW w \in Workers, NEW b \in BOOLEAN, Finish(w, b), UNCHANGED <<lock, robbed>>, Holding(w)
      PROVE  HoldersOwn'
  BY <1>f, KeepOwn DEF Finish
<1>n. \A w \in Workers : NextTry(req[w]).step \in {"create", "busy"}
  BY <1>r DEF NextTry, Request
<1>1. CASE UNCHANGED vars
  BY <1>1 DEF vars, HoldersOwn, Holding
<1>2. CASE Age
  <2>1. lock' \in LockFile /\ lock'.by = lock.by
    BY <1>2 DEF Age, Locked, LockFile, TypeInv, TypeOK
  <2> QED BY <1>2, <2>1, NoLockAssumption DEF Age, HoldersOwn, Holding
<1>3. ASSUME NEW w \in Workers, Arrive(w) PROVE HoldersOwn'
  BY <1>3, ArriveType, KeepOwn DEF Arrive
<1>4. ASSUME NEW w \in Workers, CreateLock(w) PROVE HoldersOwn'
  <2>1. lock' \in LockFile /\ lock'.by = w
    BY <1>4 DEF CreateLock, LockFile
  <2>2. PICK r : req' = [req EXCEPT ![w] = r]
    BY <1>4 DEF CreateLock, Goto
  <2> QED BY <1>4, <2>1, <2>2, NoLockAssumption
          DEF CreateLock, Free, HoldersOwn, Holding, TypeInv, TypeOK
<1>5. ASSUME NEW w \in Workers, LockExists(w) PROVE HoldersOwn'
  BY <1>5, <1>r, SetStep, KeepOwn DEF LockExists, Steps
<1>6. ASSUME NEW w \in Workers, StatLock(w) PROVE HoldersOwn'
  <2> DEFINE r == IF lock = None THEN NextTry(req[w])
                  ELSE [req[w] EXCEPT !.step = IF MayTake THEN "unlink" ELSE "busy"]
  <2>1. r.step \in {"create", "busy", "unlink"}
    BY <1>r, <1>n, SetStep DEF Steps
  <2>2. Goto(w, r) /\ UNCHANGED <<lock, robbed>>
    BY <1>6 DEF StatLock
  <2> HIDE DEF r
  <2> QED BY <2>1, <2>2, KeepOwn
<1>7. ASSUME NEW w \in Workers, TakeOver(w) PROVE HoldersOwn'
  BY <1>7, <1>n, DropOwn DEF TakeOver
<1>8. ASSUME NEW w \in Workers, RefuseBusy(w) PROVE HoldersOwn'
  BY <1>8, IdleType, KeepOwn DEF RefuseBusy
<1>9. ASSUME NEW w \in Workers, Release(w) PROVE HoldersOwn'
  BY <1>9, IdleType, DropOwn DEF Release
<1>10. ASSUME NEW w \in Workers,
              CreateFile(w) \/ RemoveFile(w) \/ WriteDone(w) \/ StorageError(w)
       PROVE  HoldersOwn'
  BY <1>10, <1>f DEF CreateFile, RemoveFile, WriteDone, StorageError, At, Holding
<1>11. ASSUME NEW w \in Workers, OpenFile(w) \/ CheckRange(w) \/ WriteUnit(w) PROVE HoldersOwn'
  <2>1. Holding(w) /\ UNCHANGED <<lock, robbed>>
    BY <1>11 DEF OpenFile, CheckRange, WriteUnit, At, Holding
  <2>2. PICK r : Goto(w, r)
    BY <1>11 DEF OpenFile, CheckRange, WriteUnit, Finish
  <2> QED BY <2>1, <2>2, KeepOwn
<1>12. ASSUME NEW w \in Workers, Crash(w) PROVE HoldersOwn'
  BY <1>12, IdleType DEF Crash, HoldersOwn, Holding, Goto, TypeInv, TypeOK, LockFile
<1> QED
  BY <1>1, <1>2, <1>3, <1>4, <1>5, <1>6, <1>7, <1>8, <1>9, <1>10, <1>11, <1>12 DEF Next, Proceed

\* Two requests are inside the with block only if a live request's lock was
\* unlinked by another.
THEOREM Exclusive == Spec => []OneWriter
<1>1. Init => HoldersOwn
  BY IdleType DEF Init, HoldersOwn, Holding
<1>2. HoldersOwn => OneWriter
  BY DEF HoldersOwn, OneWriter
<1> QED BY <1>1, <1>2, TypeInit, TypeNext, OwnNext, PTL DEF Spec

-----------------------------------------------------------------------------
(* Answering 423                                                           *)

\* A request without the lock has met a young lock if there is one, or if it
\* failed to create the lock a second time.
BusyInv ==
  \A w \in Workers :
    /\ At(w, "busy") => w \in contended
    /\ Pending(w) /\ Locked => w \in contended
    /\ Pending(w) /\ req[w].tries = 2 /\ (lock # None \/ ~At(w, "create")) => w \in contended

\* A step of w that leaves the lock or removes it.
LEMMA BusyStep ==
  ASSUME TypeInv, BusyInv, NEW w \in Workers, NEW r, Goto(w, r), lock' \in {lock, None},
         contended \ {w} \subseteq contended',
         \/ r.step \notin {"create", "stat", "unlink", "busy"}
         \/ w \in contended'
         \/ r.step = "create" /\ lock' = None
         \/ r.step \in {"create", "stat", "unlink"} /\ ~Locked' /\ r.tries # 2
  PROVE  BusyInv'
BY DEF BusyInv, Goto, At, Pending, Locked, TypeInv, TypeOK

LEMMA BusyNext == TypeInv /\ BusyInv /\ [Next]_vars => BusyInv'
<1> SUFFICES ASSUME TypeInv, BusyInv, [Next]_vars PROVE BusyInv'
  OBVIOUS
<1>r. \A w \in Workers : req[w] \in Request
  BY DEF TypeInv, TypeOK
<1>f. ASSUME NEW w \in Workers, NEW b, Finish(w, b), UNCHANGED <<lock, contended>>
      PROVE  BusyInv'
  <2>1. [req[w] EXCEPT !.step = "release", !.ok = b, !.pos = 0].step = "release"
    BY <1>r DEF Request
  <2> QED BY <1>f, <2>1, BusyStep DEF Finish
<1>1. CASE UNCHANGED vars
  BY <1>1 DEF vars, BusyInv, At, Pending, Locked
<1>2. CASE Age
  BY <1>2 DEF Age, BusyInv, At, Pending, Locked, LockFile, TypeInv, TypeOK
<1>3. ASSUME NEW w \in Workers, Arrive(w) PROVE BusyInv'
  <2> DEFINE r == [Idle EXCEPT !.step = "create"]
  <2>1. r.step = "create" /\ r.tries = 1
    BY ArriveType
  <2>2. Goto(w, r) /\ lock' = lock /\ contended' = IF Locked THEN contended \cup {w} ELSE contended
    BY <1>3 DEF Arrive
  <2>3. Locked' = Locked
    BY <2>2 DEF Locked
  <2> HIDE DEF r
  <2> QED BY <2>1, <2>2, <2>3, BusyStep
<1>4. ASSUME NEW w \in Workers, CreateLock(w) PROVE BusyInv'
  <2>1. PICK r : Goto(w, r) /\ r.step = "open"
    BY <1>4, OpenType DEF CreateLock
  <2> QED BY <1>4, <2>1 DEF CreateLock, BusyInv, Goto, At, Pending, Locked, TypeInv, TypeOK
<1>5. ASSUME NEW w \in Workers, LockExists(w) PROVE BusyInv'
  <2>1. /\ [req[w] EXCEPT !.step = "stat"].step = "stat"
        /\ [req[w] EXCEPT !.step = "stat"].tries = req[w].tries
    BY <1>r DEF Request
  <2> QED BY <1>5, <2>1, BusyStep DEF LockExists, Free, BusyInv, At, Pending, Locked
<1>n. ASSUME NEW w \in Workers, Goto(w, NextTry(req[w])), lock' = None, contended' = contended,
             At(w, "stat") \/ At(w, "unlink")
      PROVE  BusyInv'
  <2>1. CASE req[w].tries < 2
    <3>1. NextTry(req[w]).step = "create"
      BY <1>r, <2>1 DEF NextTry, Request
    <3> QED BY <1>n, <3>1, BusyStep
  <2>2. CASE ~(req[w].tries < 2)
    <3>1. req[w].tries = 2
      BY <1>r, <2>2 DEF Request
    <3>2. w \in contended
      BY <1>n, <3>1 DEF BusyInv, At, Pending
    <3> QED BY <1>n, <3>2, BusyStep
  <2> QED BY <2>1, <2>2
<1>6. ASSUME NEW w \in Workers, StatLock(w) PROVE BusyInv'
  <2>1. CASE lock = None
    BY <1>6, <1>n, <2>1 DEF StatLock
  <2>2. CASE lock # None /\ MayTake
    <3>1. /\ [req[w] EXCEPT !.step = "unlink"].step = "unlink"
          /\ [req[w] EXCEPT !.step = "unlink"].tries = req[w].tries
      BY <1>r DEF Request
    <3>2. Goto(w, [req[w] EXCEPT !.step = "unlink"])
      BY <1>6, <2>2 DEF StatLock
    <3>3. req[w].tries = 2 => w \in contended
      BY <1>6 DEF BusyInv, StatLock, At, Pending
    <3> QED BY <1>6, <2>2, <3>1, <3>2, <3>3, BusyStep DEF StatLock, MayTake, Locked
  <2>3. CASE lock # None /\ ~MayTake
    <3>1. w \in contended
      BY <1>6, <2>3 DEF BusyInv, StatLock, At, Pending, Locked, MayTake
    <3> QED BY <1>6, <2>3, <3>1, BusyStep DEF StatLock
  <2> QED BY <2>1, <2>2, <2>3
<1>7. ASSUME NEW w \in Workers, TakeOver(w) PROVE BusyInv'
  BY <1>7, <1>n DEF TakeOver
<1>8. ASSUME NEW w \in Workers, RefuseBusy(w) PROVE BusyInv'
  BY <1>8, IdleType, BusyStep DEF RefuseBusy
<1>9. ASSUME NEW w \in Workers, Release(w) PROVE BusyInv'
  BY <1>9, IdleType, BusyStep DEF Release
<1>10. ASSUME NEW w \in Workers,
              CreateFile(w) \/ RemoveFile(w) \/ WriteDone(w) \/ StorageError(w)
       PROVE  BusyInv'
  BY <1>10, <1>f DEF CreateFile, RemoveFile, WriteDone, StorageError
<1>11. ASSUME NEW w \in Workers, OpenFile(w) PROVE BusyInv'
  <2>1. [req[w] EXCEPT !.step = "check", !.fd = link].step = "check"
    BY <1>r DEF Request
  <2> QED BY <1>11, <1>f, <2>1, BusyStep DEF OpenFile
<1>12. ASSUME NEW w \in Workers, CheckRange(w) PROVE BusyInv'
  <2>1. [req[w] EXCEPT !.step = "write", !.pos = Ask(w).off].step = "write"
    BY <1>r DEF Request
  <2> QED BY <1>12, <1>f, <2>1, BusyStep DEF CheckRange
<1>13. ASSUME NEW w \in Workers, WriteUnit(w) PROVE BusyInv'
  <2>1. [req[w] EXCEPT !.pos = req[w].pos + 1].step = "write"
    BY <1>13, <1>r DEF Request, WriteUnit, At
  <2> QED BY <1>13, <2>1, BusyStep DEF WriteUnit
<1>14. ASSUME NEW w \in Workers, Crash(w) PROVE BusyInv'
  BY <1>14, IdleType DEF Crash, BusyInv, Goto, At, Pending, Locked, TypeInv, TypeOK, LockFile
<1> QED
  BY <1>1, <1>2, <1>3, <1>4, <1>5, <1>6, <1>7, <1>8, <1>9, <1>10, <1>11, <1>12, <1>13, <1>14
  DEF Next, Proceed

\* 423 is answered only to a request that met a lock younger than 300 seconds.
THEOREM BusyIsHonest == Spec => []BusyMeansContended
<1>1. Init => BusyInv
  BY IdleType DEF Init, BusyInv, At, Pending
<1>2. BusyInv => BusyMeansContended
  BY DEF BusyInv, BusyMeansContended
<1> QED BY <1>1, <1>2, TypeInit, TypeNext, BusyNext, PTL DEF Spec

-----------------------------------------------------------------------------
(* The files                                                               *)

\* What a write in progress may rely on: CheckRange found the offset inside
\* the file, which never shrinks, and the range below the limit.
Fits(r) == /\ r.pos <= Len(data[r.fd])
           /\ r.ask.off <= r.pos /\ r.pos <= r.ask.off + r.ask.len
           /\ r.ask.off + r.ask.len <= MaxFile

FilesInv ==
  /\ FileBounded
  /\ NoHoles
  /\ \A w \in Workers : At(w, "write") => Fits(req[w])

\* What a successful upload in progress has written is there, and a part ends
\* the file.
Written(r, n) == \A i \in r.ask.off + 1 .. n : /\ i <= Len(data[r.fd])
                                               /\ data[r.fd][i] = r.ask.byte

Intact(w) ==
  /\ At(w, "write") => /\ Written(req[w], req[w].pos)
                       /\ Ask(w).op = "part" => req[w].pos = Len(data[req[w].fd])
  /\ At(w, "release") /\ req[w].ok => Written(req[w], Ask(w).off + Ask(w).len)

UploadsInv ==
  ~robbed => UploadsStay /\ \A w \in Workers : Intact(w)

\* A request's range is made of numbers, and what it writes is not a hole.
LEMMA AskType ==
  ASSUME TypeInv, NEW w \in Workers
  PROVE  /\ Ask(w).off \in Nat /\ Ask(w).len \in Nat /\ Ask(w).len <= MaxFile
         /\ Ask(w).len > 0 => Ask(w).byte \in Bytes /\ Ask(w).byte # Hole
         /\ Ask(w).op # "part" => Ask(w).off = 0
         /\ Ask(w).op \in {"new", "remove"} => Ask(w).len = 0
         /\ req[w].pos \in Nat /\ req[w].ask = Ask(w)
<1>1. Ask(w) \in Asked /\ req[w].pos \in Nat
  BY DEF TypeInv, TypeOK, Request, Ask
<1> QED BY <1>1, SizesAssumption, NamesAssumption DEF Asked, Ask

\* Steps of w that leave the files alone.
LEMMA FilesKeep ==
  ASSUME TypeInv, FilesInv, NEW w \in Workers, NEW r, Goto(w, r), UNCHANGED data,
         r.step = "write" => Fits(r)
  PROVE  FilesInv'
BY DEF FilesInv, FileBounded, NoHoles, Inodes, Fits, Goto, At, TypeInv, TypeOK

LEMMA UploadsKeep ==
  ASSUME TypeInv, UploadsInv, NEW w \in Workers, NEW r, Goto(w, r), UNCHANGED data,
         acked' \subseteq acked, robbed => robbed',
         r.step = "write" => /\ Written(r, r.pos)
                             /\ r.ask.op = "part" => r.pos = Len(data[r.fd]),
         r.step = "release" /\ r.ok => Written(r, r.ask.off + r.ask.len)
  PROVE  UploadsInv'
<1> SUFFICES ASSUME ~robbed' PROVE UploadsInv'
  BY DEF UploadsInv
<1>1. UploadsStay'
  BY DEF UploadsInv, UploadsStay
<1>2. ASSUME NEW v \in Workers PROVE Intact(v)'
  <2>1. CASE v = w
    <3>1. req'[v] = r
      BY <2>1 DEF Goto, TypeInv, TypeOK
    <3> QED BY <3>1 DEF Intact, At, Ask, Written
  <2>2. CASE v # w
    <3>1. req'[v] = req[v]
      BY <2>2 DEF Goto, TypeInv, TypeOK
    <3> QED BY <3>1 DEF Intact, At, Ask, Written, UploadsInv
  <2> QED BY <2>1, <2>2
<1> QED BY <1>1, <1>2 DEF UploadsInv

\* The request at the end of Finish.
LEMMA FinishFacts ==
  ASSUME TypeInv, NEW w \in Workers, NEW b \in BOOLEAN, Finish(w, b)
  PROVE  \E r : /\ Goto(w, r)
                /\ r.step = "release" /\ r.ok = b /\ r.fd = req[w].fd /\ r.ask = Ask(w)
<1> DEFINE r == [req[w] EXCEPT !.step = "release", !.ok = b, !.pos = 0]
<1>1. req[w] \in Request
  BY DEF TypeInv, TypeOK
<1>2. r.step = "release" /\ r.ok = b /\ r.fd = req[w].fd /\ r.ask = Ask(w)
  BY <1>1 DEF Request, Ask
<1>3. Goto(w, r)
  BY DEF Finish
<1> QED BY <1>2, <1>3

\* A write in progress: the file before and after it.
LEMMA WriteFacts ==
  ASSUME TypeInv, FilesInv, NEW w \in Workers, WriteUnit(w)
  PROVE  LET i == req[w].fd
             p == req[w].pos
             r == [req[w] EXCEPT !.pos = p + 1]
         IN  /\ i \in Inodes /\ p \in Nat /\ p <= Len(data[i]) /\ p < MaxFile
             /\ Len(data') = Len(data) /\ \A j \in Inodes : j # i => data'[j] = data[j]
             /\ Len(data'[i]) = IF p < Len(data[i]) THEN Len(data[i]) ELSE p + 1
             /\ data'[i][p + 1] = Ask(w).byte /\ Ask(w).byte \in Bytes /\ Ask(w).byte # Hole
             /\ \A k \in 1..Len(data[i]) : k # p + 1 => data'[i][k] = data[i][k]
             /\ Goto(w, r) /\ r.step = "write" /\ r.fd = i /\ r.ask = Ask(w) /\ r.pos = p + 1
             /\ p + 1 <= Ask(w).off + Ask(w).len /\ Ask(w).off + Ask(w).len <= MaxFile
<1> DEFINE i == req[w].fd
           p == req[w].pos
           r == [req[w] EXCEPT !.pos = p + 1]
           d == WriteAt(data[i], p, req[w].ask.byte)
<1>1. /\ At(w, "write") /\ p < Ask(w).off + Ask(w).len
      /\ data' = [data EXCEPT ![i] = d] /\ Goto(w, r)
  BY DEF WriteUnit, Ask
<1>2. i \in Inodes /\ data \in Seq(Seq(Bytes \cup {Hole})) /\ req[w] \in Request
  BY <1>1 DEF TypeInv, TypeOK, At
<1>3. p \in Nat /\ p <= Len(data[i]) /\ Ask(w).off + Ask(w).len <= MaxFile
  BY <1>1, AskType DEF FilesInv, Fits, Ask
<1>4. Ask(w).off \in Nat /\ Ask(w).len \in Nat /\ req[w].ask = Ask(w)
  BY AskType
<1>5. Ask(w).len > 0
  <2>1. Ask(w).off <= p
    BY <1>1, <1>4 DEF FilesInv, Fits
  <2> QED BY <1>1, <1>3, <1>4, <2>1
<1>6. req[w].ask.byte = Ask(w).byte /\ Ask(w).byte \in Bytes /\ Ask(w).byte # Hole
  BY <1>4, <1>5, AskType
<1>7. data[i] \in Seq(Bytes \cup {Hole}) /\ Len(data[i]) \in Nat
  BY <1>2 DEF Inodes
<1>8. /\ Len(d) = IF p < Len(data[i]) THEN Len(data[i]) ELSE p + 1
      /\ d[p + 1] = Ask(w).byte
      /\ \A k \in 1..Len(data[i]) : k # p + 1 => d[k] = data[i][k]
  <2> DEFINE b == req[w].ask.byte
  <2>1. b \in Bytes \cup {Hole} /\ b = Ask(w).byte
    BY <1>6
  <2> HIDE DEF b, i, p
  <2> DEFINE s == data[i]
  <2>3. s \in Seq(Bytes \cup {Hole}) /\ p \in Nat /\ p <= Len(s)
    BY <1>3, <1>7
  <2> HIDE DEF s
  <2>4. /\ Len(WriteAt(s, p, b)) = IF p < Len(s) THEN Len(s) ELSE p + 1
        /\ WriteAt(s, p, b)[p + 1] = b
        /\ \A k \in 1..Len(s) : k # p + 1 => WriteAt(s, p, b)[k] = s[k]
    BY <2>1, <2>3, WriteAtFacts
  <2>2. /\ Len(WriteAt(data[i], p, b)) = IF p < Len(data[i]) THEN Len(data[i]) ELSE p + 1
        /\ WriteAt(data[i], p, b)[p + 1] = b
        /\ \A k \in 1..Len(data[i]) : k # p + 1 => WriteAt(data[i], p, b)[k] = data[i][k]
    BY <2>4 DEF s
  <2> QED BY <2>1, <2>2 DEF b
<1>9. Len(data') = Len(data) /\ data'[i] = d /\ \A j \in Inodes : j # i => data'[j] = data[j]
  <2> HIDE DEF d
  <2> QED BY <1>1, <1>2 DEF Inodes
<1>10. r.step = "write" /\ r.fd = i /\ r.ask = Ask(w) /\ r.pos = p + 1
  BY <1>1, <1>2, <1>3, <1>4 DEF Request, At
<1>11. p < MaxFile /\ p + 1 <= Ask(w).off + Ask(w).len
  BY <1>1, <1>3, <1>4, SizesAssumption
<1> HIDE DEF d, r, i, p
<1> QED BY <1>1, <1>2, <1>3, <1>6, <1>8, <1>9, <1>10, <1>11 DEF d, r, i, p

LEMMA FilesNext == TypeInv /\ FilesInv /\ [Next]_vars => FilesInv'
<1> SUFFICES ASSUME TypeInv, FilesInv, [Next]_vars PROVE FilesInv'
  OBVIOUS
<1>r. \A w \in Workers : req[w] \in Request
  BY DEF TypeInv, TypeOK
<1>f. ASSUME NEW w \in Workers, NEW b \in BOOLEAN, Finish(w, b), UNCHANGED data PROVE FilesInv'
  <2>1. PICK r : Goto(w, r) /\ r.step = "release"
    BY <1>f, FinishFacts
  <2> QED BY <1>f, <2>1, FilesKeep
<1>1. CASE UNCHANGED vars \/ Age
  BY <1>1 DEF vars, Age, FilesInv, FileBounded, NoHoles, Inodes, Fits, At
<1>2. ASSUME NEW w \in Workers, Arrive(w) PROVE FilesInv'
  BY <1>2, ArriveType, FilesKeep DEF Arrive
<1>3. ASSUME NEW w \in Workers, CreateLock(w) PROVE FilesInv'
  <2>1. PICK r : Goto(w, r) /\ r.step = "open"
    BY <1>3, OpenType DEF CreateLock
  <2> QED BY <1>3, <2>1, FilesKeep DEF CreateLock
<1>4. ASSUME NEW w \in Workers, LockExists(w) \/ StatLock(w) \/ TakeOver(w) PROVE FilesInv'
  <2>1. NextTry(req[w]).step \in {"create", "busy"}
    BY <1>r DEF NextTry, Request
  <2>2. \A s \in Steps : [req[w] EXCEPT !.step = s].step = s
    BY <1>r, SetStep
  <2>3. PICK r : Goto(w, r) /\ r.step # "write"
    BY <1>4, <2>1, <2>2 DEF LockExists, StatLock, TakeOver, Steps
  <2> QED BY <1>4, <2>3, FilesKeep DEF LockExists, StatLock, TakeOver
<1>5. ASSUME NEW w \in Workers, RefuseBusy(w) \/ Release(w) \/ Crash(w) PROVE FilesInv'
  BY <1>5, IdleType, FilesKeep DEF RefuseBusy, Release, Crash
<1>6. ASSUME NEW w \in Workers, RemoveFile(w) \/ WriteDone(w) \/ StorageError(w) PROVE FilesInv'
  BY <1>6, <1>f DEF RemoveFile, WriteDone, StorageError
<1>7. ASSUME NEW w \in Workers, CreateFile(w) PROVE FilesInv'
  <2>1. CASE UNCHANGED data
    BY <1>7, <1>f, <2>1 DEF CreateFile
  <2>2. CASE data' = Append(data, << >>) /\ Finish(w, TRUE)
    <3>1. data \in Seq(Seq(Bytes \cup {Hole})) /\ << >> \in Seq(Bytes \cup {Hole})
      BY DEF TypeInv, TypeOK
    <3>2. /\ Len(data') = Len(data) + 1 /\ data'[Len(data) + 1] = << >>
          /\ \A i \in 1..Len(data) : data'[i] = data[i]
      BY <2>2, <3>1
    <3>3. \A i \in Inodes' : i \in Inodes \/ data'[i] = << >>
      BY <3>1, <3>2 DEF Inodes
    <3>4. FileBounded' /\ NoHoles'
      BY <3>2, <3>3, SizesAssumption DEF FilesInv, FileBounded, NoHoles, Inodes
    <3>5. PICK r : Goto(w, r) /\ r.step = "release"
      BY <2>2, FinishFacts
    <3>6. ASSUME NEW v \in Workers, At(v, "write")' PROVE Fits(req[v])'
      <4>1. req'[v] = req[v] /\ At(v, "write")
        BY <3>5, <3>6 DEF Goto, At, TypeInv, TypeOK
      <4>2. req[v].fd \in Inodes
        BY <4>1 DEF At, TypeInv, TypeOK
      <4>3. data'[req[v].fd] = data[req[v].fd]
        BY <3>2, <4>2 DEF Inodes
      <4> QED BY <4>1, <4>3 DEF Fits, FilesInv
    <3> QED BY <3>4, <3>6 DEF FilesInv
  <2> QED BY <1>7, <2>1, <2>2 DEF CreateFile
<1>8. ASSUME NEW w \in Workers, OpenFile(w) PROVE FilesInv'
  <2>1. [req[w] EXCEPT !.step = "check", !.fd = link].step = "check"
    BY <1>r DEF Request
  <2> QED BY <1>8, <1>f, <2>1, FilesKeep DEF OpenFile
<1>9. ASSUME NEW w \in Workers, CheckRange(w) PROVE FilesInv'
  <2> DEFINE r == [req[w] EXCEPT !.step = "write", !.pos = Ask(w).off]
  <2>1. CASE Accepted(Ask(w), Len(data[req[w].fd]))
    <3>1. r.step = "write" /\ r.pos = Ask(w).off /\ r.fd = req[w].fd /\ r.ask = Ask(w)
      BY <1>r DEF Request, Ask
    <3>2. Goto(w, r) /\ UNCHANGED data /\ At(w, "check")
      BY <1>9, <2>1 DEF CheckRange
    <3>3. data[req[w].fd] \in Seq(Bytes \cup {Hole})
      BY <3>2 DEF TypeInv, TypeOK, Inodes, At
    <3>4. Len(data[req[w].fd]) \in Nat
      BY <3>3
    <3>5. Fits(r)
      <4> HIDE DEF r
      <4> QED BY <2>1, <3>1, <3>4, AskType DEF Fits, Accepted
    <3> HIDE DEF r
    <3> QED BY <3>2, <3>5, FilesKeep
  <2>2. CASE ~Accepted(Ask(w), Len(data[req[w].fd]))
    BY <1>9, <1>f, <2>2 DEF CheckRange
  <2> QED BY <2>1, <2>2
<1>10. ASSUME NEW w \in Workers, WriteUnit(w) PROVE FilesInv'
  <2> DEFINE i == req[w].fd
             p == req[w].pos
             r == [req[w] EXCEPT !.pos = p + 1]
  <2>1. /\ i \in Inodes /\ p \in Nat /\ p <= Len(data[i]) /\ p < MaxFile
        /\ Len(data') = Len(data) /\ \A j \in Inodes : j # i => data'[j] = data[j]
        /\ Len(data'[i]) = IF p < Len(data[i]) THEN Len(data[i]) ELSE p + 1
        /\ data'[i][p + 1] = Ask(w).byte /\ Ask(w).byte \in Bytes /\ Ask(w).byte # Hole
        /\ \A k \in 1..Len(data[i]) : k # p + 1 => data'[i][k] = data[i][k]
        /\ Goto(w, r) /\ r.step = "write" /\ r.fd = i /\ r.ask = Ask(w) /\ r.pos = p + 1
        /\ p + 1 <= Ask(w).off + Ask(w).len /\ Ask(w).off + Ask(w).len <= MaxFile
    BY <1>10, WriteFacts
  <2>2. At(w, "write") /\ Fits(req[w])
    BY <1>10 DEF WriteUnit, FilesInv
  <2> HIDE DEF i, p, r
  <2>3. Inodes' = Inodes
    BY <2>1 DEF Inodes
  <2>4. \A j \in Inodes : Len(data[j]) \in Nat
    BY DEF TypeInv, TypeOK, Inodes
  <2>5. FileBounded'
    BY <2>1, <2>3, SizesAssumption DEF FilesInv, FileBounded
  <2>6. NoHoles'
    <3>1. \A k \in 1..Len(data'[i]) : k = p + 1 \/ k \in 1..Len(data[i])
      BY <2>1, <2>4
    <3>3. data'[i][p + 1] # Hole
      BY <2>1
    <3>4. \A k \in 1..Len(data[i]) : data[i][k] # Hole
      BY <2>1 DEF FilesInv, NoHoles
    <3>5. \A k \in 1..Len(data[i]) : k # p + 1 => data'[i][k] # Hole
      BY <2>1, <3>4
    <3>2. \A k \in 1..Len(data'[i]) : data'[i][k] # Hole
      BY <3>1, <3>3, <3>5
    <3> QED BY <2>1, <2>3, <3>2 DEF FilesInv, NoHoles
  <2>7. \A j \in Inodes : Len(data[j]) <= Len(data'[j])
    BY <2>1, <2>4
  <2>8. ASSUME NEW v \in Workers, At(v, "write")' PROVE Fits(req[v])'
    <3>1. CASE v = w
      <4>1. req'[v] = r
        BY <2>1, <3>1 DEF Goto, TypeInv, TypeOK
      <4>2. Ask(w).off <= p
        BY <2>2 DEF Fits, Ask, p
      <4>3. Ask(w).off \in Nat /\ Len(data'[i]) >= p + 1
        BY <2>1, <2>4, AskType
      <4> QED BY <2>1, <4>1, <4>2, <4>3 DEF Fits
    <3>2. CASE v # w
      <4>1. req'[v] = req[v] /\ At(v, "write")
        BY <2>1, <2>8, <3>2 DEF Goto, At, TypeInv, TypeOK
      <4>2. req[v].fd \in Inodes /\ Fits(req[v]) /\ req[v].pos \in Nat
        BY <4>1, AskType DEF At, TypeInv, TypeOK, FilesInv
      <4>3. Len(data'[req[v].fd]) \in Nat
        BY <2>1, <2>4, <4>2
      <4> QED BY <2>4, <2>7, <4>1, <4>2, <4>3 DEF Fits
    <3> QED BY <3>1, <3>2
  <2> QED BY <2>5, <2>6, <2>8 DEF FilesInv
<1> QED
  BY <1>1, <1>2, <1>3, <1>4, <1>5, <1>6, <1>7, <1>8, <1>9, <1>10 DEF Next, Proceed

LEMMA FilesInit == Init => FilesInv
BY IdleType DEF Init, FilesInv, FileBounded, NoHoles, Inodes, At

\* No recording outgrows RECORD_UPLOAD_MAX_FILE_BYTES, even when uploads that
\* lost their lock overlap.
THEOREM SizesBounded == Spec => []FileBounded
<1>1. FilesInv => FileBounded
  BY DEF FilesInv
<1> QED BY <1>1, TypeInit, TypeNext, FilesInit, FilesNext, PTL DEF Spec

\* No upload writes past the end of a recording, even then.
THEOREM Contiguous == Spec => []NoHoles
<1>1. FilesInv => NoHoles
  BY DEF FilesInv
<1> QED BY <1>1, TypeInit, TypeNext, FilesInit, FilesNext, PTL DEF Spec

\* Under the lock no other request is writing or about to claim its upload, so
\* a write only has to spare what was claimed before.
LEMMA UploadsNext ==
  TypeInv /\ HoldersOwn /\ FilesInv /\ UploadsInv /\ [Next]_vars => UploadsInv'
<1> SUFFICES ASSUME TypeInv, HoldersOwn, FilesInv, UploadsInv, [Next]_vars PROVE UploadsInv'
  OBVIOUS
<1>r. \A w \in Workers : req[w] \in Request
  BY DEF TypeInv, TypeOK
<1>f. ASSUME NEW w \in Workers, NEW b \in BOOLEAN, Finish(w, b), UNCHANGED <<data, acked, robbed>>,
             ~robbed /\ b => Written(req[w], Ask(w).off + Ask(w).len)
      PROVE  UploadsInv'
  <2>1. PICK r : Goto(w, r) /\ r.step = "release" /\ r.ok = b /\ r.fd = req[w].fd /\ r.ask = Ask(w)
    BY <1>f, FinishFacts
  <2>2. SUFFICES ASSUME ~robbed PROVE UploadsInv'
    BY <1>f DEF UploadsInv
  <2>3. r.ok => Written(r, r.ask.off + r.ask.len)
    BY <1>f, <2>1, <2>2, AskType DEF Written
  <2> QED BY <1>f, <2>1, <2>3, UploadsKeep
<1>1. CASE UNCHANGED vars
  BY <1>1 DEF vars, UploadsInv, UploadsStay, Intact, Written, At, Ask
<1>2. CASE Age
  BY <1>2 DEF Age, UploadsInv, UploadsStay, Intact, Written, At, Ask
<1>3. ASSUME NEW w \in Workers, Arrive(w) PROVE UploadsInv'
  BY <1>3, ArriveType, UploadsKeep DEF Arrive
<1>4. ASSUME NEW w \in Workers, CreateLock(w) PROVE UploadsInv'
  <2>1. PICK r : Goto(w, r) /\ r.step = "open"
    BY <1>4, OpenType DEF CreateLock
  <2> QED BY <1>4, <2>1, UploadsKeep DEF CreateLock
<1>5. ASSUME NEW w \in Workers, LockExists(w) \/ StatLock(w) \/ TakeOver(w) PROVE UploadsInv'
  <2>1. NextTry(req[w]).step \in {"create", "busy"}
    BY <1>r DEF NextTry, Request
  <2>2. \A s \in Steps : [req[w] EXCEPT !.step = s].step = s
    BY <1>r, SetStep
  <2>3. PICK r : Goto(w, r) /\ r.step \notin {"write", "release"}
    BY <1>5, <2>1, <2>2 DEF LockExists, StatLock, TakeOver, Steps
  <2>4. UNCHANGED <<data, acked>>
    BY <1>5 DEF LockExists, StatLock, TakeOver
  <2>5. robbed' = robbed \/ robbed' = Rob(w)
    BY <1>5 DEF LockExists, StatLock, TakeOver
  <2>6. robbed => robbed'
    BY <2>5 DEF Rob
  <2> QED BY <2>3, <2>4, <2>6, UploadsKeep
<1>6. ASSUME NEW w \in Workers, RefuseBusy(w) \/ Crash(w) PROVE UploadsInv'
  BY <1>6, IdleType, UploadsKeep DEF RefuseBusy, Crash
<1>7. ASSUME NEW w \in Workers, Release(w) PROVE UploadsInv'
  <2>1. SUFFICES ASSUME ~robbed' PROVE UploadsStay' /\ \A v \in Workers : Intact(v)'
    BY DEF UploadsInv
  <2>2. ~robbed /\ At(w, "release") /\ UNCHANGED data
    BY <1>7, <2>1 DEF Release, Rob
  <2>3. ASSUME req[w].ok, NEW i \in Ask(w).off + 1 .. Ask(w).off + Ask(w).len
        PROVE  i \in 1..Len(data[req[w].fd]) /\ data[req[w].fd][i] = Ask(w).byte
    <3>1. Ask(w).len > 0 /\ i \in Nat /\ i > 0
      BY AskType, <2>3
    <3>2. req[w].fd \in Inodes
      BY <2>2, <2>3, <3>1 DEF TypeInv, UploadTyped
    <3>3. Len(data[req[w].fd]) \in Nat
      BY <3>2 DEF TypeInv, TypeOK, Inodes
    <3>4. Written(req[w], Ask(w).off + Ask(w).len)
      BY <2>2, <2>3 DEF UploadsInv, Intact
    <3> QED BY <2>3, <3>1, <3>3, <3>4, AskType DEF Written
  <2>4. UploadsStay'
    <3>1. ASSUME NEW c \in acked' PROVE c.pos \in 1..Len(data[c.ino]) /\ data[c.ino][c.pos] = c.byte
      <4>1. CASE c \in acked
        BY <2>2, <4>1 DEF UploadsInv, UploadsStay
      <4>2. CASE c \notin acked
        <5>1. req[w].ok /\ c \in Uploaded(req[w])
          BY <1>7, <4>2 DEF Release
        <5>2. PICK i \in Ask(w).off + 1 .. Ask(w).off + Ask(w).len :
                c = [ino |-> req[w].fd, pos |-> i, byte |-> Ask(w).byte]
          BY <5>1 DEF Uploaded, Ask
        <5> QED BY <2>3, <5>1, <5>2
      <4> QED BY <4>1, <4>2
    <3> QED BY <2>2, <3>1 DEF UploadsStay
  <2>5. ASSUME NEW v \in Workers PROVE Intact(v)'
    <3>1. CASE v = w
      <4>1. req'[v].step = "idle"
        BY <1>7, <3>1, IdleType DEF Release, Goto, TypeInv, TypeOK
      <4> QED BY <4>1 DEF Intact, At
    <3>2. CASE v # w
      <4>1. req'[v] = req[v]
        BY <1>7, <3>2 DEF Release, Goto, TypeInv, TypeOK
      <4> QED BY <2>2, <4>1 DEF UploadsInv, Intact, Written, At, Ask
    <3> QED BY <3>1, <3>2
  <2> QED BY <2>4, <2>5
<1>8. ASSUME NEW w \in Workers, StorageError(w) PROVE UploadsInv'
  BY <1>8, <1>f DEF StorageError
<1>9. ASSUME NEW w \in Workers, RemoveFile(w) PROVE UploadsInv'
  <2>1. Ask(w).off = 0 /\ Ask(w).len = 0
    BY <1>9, AskType DEF RemoveFile
  <2>2. Written(req[w], Ask(w).off + Ask(w).len)
    BY <2>1, AskType DEF Written
  <2> QED BY <1>9, <1>f, <2>2 DEF RemoveFile
<1>10. ASSUME NEW w \in Workers, WriteDone(w) PROVE UploadsInv'
  BY <1>10, <1>f DEF WriteDone, UploadsInv, Intact
<1>11. ASSUME NEW w \in Workers, CreateFile(w) PROVE UploadsInv'
  <2>1. CASE Finish(w, FALSE) /\ UNCHANGED data
    BY <1>11, <1>f, <2>1 DEF CreateFile
  <2>2. CASE data' = Append(data, << >>) /\ Finish(w, TRUE)
    <3>0. SUFFICES ASSUME ~robbed PROVE UploadsStay' /\ \A v \in Workers : Intact(v)'
      BY <1>11 DEF CreateFile, UploadsInv
    <3>1. \A i \in Inodes : data'[i] = data[i]
      BY <2>2 DEF Inodes, TypeInv, TypeOK
    <3>2. UploadsStay'
      <4>1. acked' = acked /\ \A c \in acked : c.ino \in Inodes
        BY <1>11 DEF CreateFile, TypeInv, TypeOK
      <4> QED BY <3>0, <3>1, <4>1 DEF UploadsInv, UploadsStay
    <3>3. PICK r : Goto(w, r) /\ r.step = "release" /\ r.ask = Ask(w)
      BY <2>2, FinishFacts
    <3>4. ASSUME NEW v \in Workers PROVE Intact(v)'
      <4>1. CASE v = w
        <5>1. req'[v] = r
          BY <3>3, <4>1 DEF Goto, TypeInv, TypeOK
        <5>2. r.ask.len = 0 /\ r.ask.off = 0
          BY <1>11, <3>3, AskType DEF CreateFile
        <5> QED BY <3>3, <5>1, <5>2 DEF Intact, Written, At, Ask
      <4>2. CASE v # w
        <5>1. req'[v] = req[v]
          BY <3>3, <4>2 DEF Goto, TypeInv, TypeOK
        <5>2. Intact(v)
          BY <3>0 DEF UploadsInv
        <5>3. ASSUME At(v, "write") \/ (At(v, "release") /\ req[v].ok /\ Ask(v).len > 0)
              PROVE  data'[req[v].fd] = data[req[v].fd]
          BY <3>1, <5>3 DEF TypeInv, TypeOK, UploadTyped, At, Ask
        <5>4. Ask(v).off \in Nat /\ Ask(v).len \in Nat
          BY AskType
        <5>5. CASE At(v, "release") /\ Ask(v).len = 0
          BY <5>1, <5>4, <5>5 DEF Intact, Written, At, Ask
        <5>6. CASE ~(At(v, "release") /\ Ask(v).len = 0)
          BY <5>1, <5>2, <5>3, <5>4, <5>6 DEF Intact, Written, At, Ask
        <5> QED BY <5>5, <5>6
      <4> QED BY <4>1, <4>2
    <3> QED BY <3>2, <3>4
  <2> QED BY <1>11, <2>1, <2>2 DEF CreateFile
<1>12. ASSUME NEW w \in Workers, OpenFile(w) PROVE UploadsInv'
  <2>1. [req[w] EXCEPT !.step = "check", !.fd = link].step = "check"
    BY <1>r DEF Request
  <2>2. UNCHANGED <<data, acked, robbed>>
    BY <1>12 DEF OpenFile
  <2>3. Finish(w, FALSE) \/ Goto(w, [req[w] EXCEPT !.step = "check", !.fd = link])
    BY <1>12 DEF OpenFile
  <2> QED BY <1>f, <2>1, <2>2, <2>3, UploadsKeep
<1>13. ASSUME NEW w \in Workers, CheckRange(w) PROVE UploadsInv'
  <2> DEFINE r == [req[w] EXCEPT !.step = "write", !.pos = Ask(w).off]
  <2>1. UNCHANGED <<data, acked, robbed>>
    BY <1>13 DEF CheckRange
  <2>2. CASE Accepted(Ask(w), Len(data[req[w].fd]))
    <3>1. r.step = "write" /\ r.pos = Ask(w).off /\ r.fd = req[w].fd /\ r.ask = Ask(w)
      BY <1>r DEF Request, Ask
    <3>2. Goto(w, r)
      BY <1>13, <2>2 DEF CheckRange
    <3> HIDE DEF r
    <3>3. Written(r, r.pos)
      BY <3>1, AskType DEF Written
    <3>4. r.ask.op = "part" => r.pos = Len(data[r.fd])
      BY <2>2, <3>1 DEF Accepted
    <3> QED BY <2>1, <3>1, <3>2, <3>3, <3>4, UploadsKeep
  <2>3. CASE ~Accepted(Ask(w), Len(data[req[w].fd]))
    BY <1>13, <1>f, <2>1, <2>3 DEF CheckRange
  <2> QED BY <2>2, <2>3
<1>14. ASSUME NEW w \in Workers, WriteUnit(w) PROVE UploadsInv'
  <2> DEFINE i == req[w].fd
             p == req[w].pos
             r == [req[w] EXCEPT !.pos = p + 1]
  <2>1. /\ i \in Inodes /\ p \in Nat /\ p <= Len(data[i])
        /\ Len(data') = Len(data) /\ \A j \in Inodes : j # i => data'[j] = data[j]
        /\ Len(data'[i]) = IF p < Len(data[i]) THEN Len(data[i]) ELSE p + 1
        /\ data'[i][p + 1] = Ask(w).byte
        /\ \A k \in 1..Len(data[i]) : k # p + 1 => data'[i][k] = data[i][k]
        /\ Goto(w, r) /\ r.step = "write" /\ r.fd = i /\ r.ask = Ask(w) /\ r.pos = p + 1
    BY <1>14, WriteFacts
  <2>2. /\ At(w, "write") /\ robbed' = robbed
        /\ acked' = IF Ask(w).op = "tail" THEN {c \in acked : c.ino # i \/ c.pos # p + 1} ELSE acked
    BY <1>14 DEF WriteUnit, Ask
  <2>3. SUFFICES ASSUME ~robbed PROVE UploadsStay' /\ \A v \in Workers : Intact(v)'
    BY <2>2 DEF UploadsInv
  <2>4. Written(req[w], p) /\ (Ask(w).op = "part" => p = Len(data[i])) /\ UploadsStay
    BY <2>2, <2>3 DEF UploadsInv, Intact
  <2>5. ASSUME NEW v \in Workers, v # w PROVE ~Holding(v) /\ req'[v] = req[v]
    BY <2>1, <2>2, <2>3, <2>5 DEF HoldersOwn, Holding, At, Goto, TypeInv, TypeOK
  <2>6. Ask(w).op \in {"part", "tail"}
    BY <1>r, <1>14, WriteFacts DEF Request, Asked, Ops, Ask
  <2>7. Written(req[w], p) <=> \A k \in Ask(w).off + 1 .. p : k <= Len(data[i]) /\ data[i][k] = Ask(w).byte
    BY AskType DEF Written
  <2> HIDE DEF r, i, p
  <2>8. req'[w] = r /\ Len(data[i]) \in Nat /\ Len(data'[i]) \in Nat /\ Ask(w).off \in Nat
    BY <2>1, AskType DEF Goto, TypeInv, TypeOK, Inodes
  <2>9. UploadsStay'
    <3> SUFFICES ASSUME NEW c \in acked' PROVE c.pos \in 1..Len(data'[c.ino]) /\ data'[c.ino][c.pos] = c.byte
      BY DEF UploadsStay
    <3>1. c \in acked /\ c.ino \in Inodes
      BY <2>2 DEF TypeInv, TypeOK
    <3>2. c.pos \in 1..Len(data[c.ino]) /\ data[c.ino][c.pos] = c.byte
      BY <2>3, <2>4, <3>1 DEF UploadsStay
    <3>3. CASE c.ino # i
      BY <2>1, <3>1, <3>2, <3>3
    <3>4. CASE c.ino = i
      <4>1. c.pos # p + 1
        BY <2>1, <2>2, <2>4, <2>6, <3>2, <3>4
      <4> QED BY <2>1, <2>8, <3>2, <3>4, <4>1
    <3> QED BY <3>3, <3>4
  <2>10. Intact(w)'
    <3>1. ASSUME NEW k \in Ask(w).off + 1 .. p + 1 PROVE k <= Len(data'[i]) /\ data'[i][k] = Ask(w).byte
      <4>1. CASE k = p + 1
        BY <2>1, <2>8, <4>1
      <4>2. CASE k # p + 1
        <5>1. k \in Ask(w).off + 1 .. p /\ k \in 1..p
          BY <2>1, <2>8, <4>2
        <5>2. k <= Len(data[i]) /\ data[i][k] = Ask(w).byte
          BY <2>4, <2>7, <5>1
        <5> QED BY <2>1, <2>8, <4>2, <5>1, <5>2
      <4> QED BY <4>1, <4>2
    <3>2. Ask(w).op = "part" => p + 1 = Len(data'[i])
      BY <2>1, <2>4, <2>8
    <3> QED BY <2>1, <2>8, <3>1, <3>2 DEF Intact, Written, At, Ask
  <2>11. ASSUME NEW v \in Workers, v # w PROVE Intact(v)'
    BY <2>5, <2>11 DEF Intact, Holding, At
  <2> QED BY <2>9, <2>10, <2>11
<1> QED
  BY <1>1, <1>2, <1>3, <1>4, <1>5, <1>6, <1>7, <1>8, <1>9, <1>10, <1>11, <1>12, <1>13, <1>14
  DEF Next, Proceed

\* Under the lock a successful upload stays: no other upload, failed write or
\* crash damages it.
THEOREM UploadsKept == Spec => []UploadsStay
<1>1. Init => UploadsInv /\ HoldersOwn
  BY IdleType DEF Init, UploadsInv, UploadsStay, Intact, At, HoldersOwn, Holding
<1>2. UploadsInv => UploadsStay
  BY DEF UploadsInv, UploadsStay
<1> QED BY <1>1, <1>2, TypeInit, TypeNext, OwnNext, FilesInit, FilesNext, UploadsNext, PTL DEF Spec

=============================================================================

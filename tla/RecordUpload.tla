---------------------------- MODULE RecordUpload ----------------------------
(***************************************************************************)
(* Uploads to one recording of one device (POST /api/record).  Worker      *)
(* threads and processes share a directory: the recording is a link to an  *)
(* inode, and its lock is a file created with O_EXCL.  A lock older than   *)
(* 300 seconds is taken over by unlinking it.  One action is one system    *)
(* call that another worker can observe.                                   *)
(***************************************************************************)
EXTENDS Naturals, Sequences

CONSTANTS
  Workers,     \* threads executing record(), in any process
  Bytes,       \* the data a unit of the file can hold
  Hole,        \* what lseek past the end would leave in the file
  Dead,        \* the creator of a lock whose request died
  None,        \* no lock file, no recording
  MaxChunk,    \* RECORD_UPLOAD_MAX_CHUNK_BYTES, in units
  MaxFile,     \* RECORD_UPLOAD_MAX_FILE_BYTES, in units
  MaxInodes,   \* bound on the recordings ever created under this name
  MaxCrashes   \* bound on the requests that die

\* settings.py gives MAX_CHUNK as the least value of MAX_FILE.
ASSUME SizesAssumption  == MaxChunk \in Nat /\ MaxFile \in Nat /\ MaxChunk <= MaxFile
ASSUME BoundsAssumption == MaxInodes \in Nat /\ MaxCrashes \in Nat
ASSUME NamesAssumption  == /\ None \notin Workers \cup {Dead} \cup Nat
                           /\ Dead \notin Workers
                           /\ Hole \notin Bytes

VARIABLES
  lock,       \* the lock file, or None
  link,       \* the inode the recording's name is linked to, or None
  data,       \* data[i] is the content of inode i
  req,        \* the request each worker is executing
  crashes,    \* requests that died so far
  acked,      \* history: the data whose upload succeeded, and where it is
  contended,  \* history: requests without the lock that met one under 300 s
  robbed      \* history: the lock of a request at work was unlinked

vars == <<lock, link, data, req, crashes, acked, contended, robbed>>

-----------------------------------------------------------------------------

LockFile == [by: Workers \cup {Dead}, stale: BOOLEAN]

ASSUME NoLockAssumption == None \notin LockFile

Inodes == 1..Len(data)

Ops == {"new", "part", "tail", "remove"}

\* What a request may ask: record() refuses a body over MaxChunk, a body with
\* new or remove, and a tail that is not at offset 0.
Asked == {r \in [op: Ops, off: 0..MaxFile, len: 0..MaxChunk, byte: Bytes \cup {Hole}] :
            /\ r.op \in {"new", "remove"} => r.len = 0
            /\ r.op # "part" => r.off = 0
            /\ r.len = 0 <=> r.byte = Hole}

Steps == {"idle", "create", "stat", "unlink", "busy", "open", "check", "write", "release"}

\* tries counts os.open of the lock; fd and pos are those of the recording;
\* ok tells whether the body of the with block completed.
Request == [step: Steps, ask: Asked, tries: 1..2, fd: Nat \cup {None}, pos: Nat, ok: BOOLEAN]

Idle == [step |-> "idle", ask |-> [op |-> "remove", off |-> 0, len |-> 0, byte |-> Hole],
         tries |-> 1, fd |-> None, pos |-> 0, ok |-> FALSE]

At(w, step) == req[w].step = step
Goto(w, r)  == req' = [req EXCEPT ![w] = r]
Ask(w)      == req[w].ask

Locked == lock # None /\ ~lock.stale
\* Requests inside the with block, between the creation of the lock and the
\* end of the finally clause.
Holding(w) == req[w].step \in {"open", "check", "write", "release"}
Pending(w) == req[w].step \in {"create", "stat", "unlink"}

TypeOK ==
  /\ lock \in LockFile \cup {None}
  /\ link \in Inodes \cup {None}
  /\ data \in Seq(Seq(Bytes \cup {Hole}))
  /\ req \in [Workers -> Request]
  /\ \A w \in Workers : req[w].step \in {"check", "write"} => req[w].fd \in Inodes
  /\ crashes \in Nat
  /\ acked \subseteq [ino: Inodes, pos: Nat, byte: Bytes]
  /\ contended \subseteq Workers
  /\ robbed \in BOOLEAN

\* No recording and no lock.
Init ==
  /\ lock = None
  /\ link = None
  /\ data = << >>
  /\ req = [w \in Workers |-> Idle]
  /\ crashes = 0
  /\ acked = {}
  /\ contended = {}
  /\ robbed = FALSE

-----------------------------------------------------------------------------
(* _record_file_lock                                                       *)

\* An authenticated, well-formed request reaches the lock.  What it asks for
\* has no bearing before it has the lock, and is chosen there.
Arrive(w) ==
  /\ At(w, "idle")
  /\ Goto(w, [Idle EXCEPT !.step = "create"])
  /\ contended' = IF Locked THEN contended \cup {w} ELSE contended
  /\ UNCHANGED <<lock, link, data, crashes, acked, robbed>>

\* O_CREAT | O_EXCL succeeds for one request only.
Free_NoExcl == TRUE
Free == lock = None

CreateLock(w) ==
  /\ At(w, "create")
  /\ Free
  /\ lock' = [by |-> w, stale |-> FALSE]
  /\ \E a \in Asked : Goto(w, [Idle EXCEPT !.step = "open", !.ask = a])
  /\ contended' = {x \in Workers \ {w} : Pending(x)} \cup (contended \ {w})
  /\ UNCHANGED <<link, data, crashes, acked, robbed>>

LockExists(w) ==
  /\ At(w, "create")
  /\ ~Free
  /\ Goto(w, [req[w] EXCEPT !.step = "stat"])
  /\ UNCHANGED <<lock, link, data, crashes, acked, contended, robbed>>

\* The end of an iteration of "for _attempt in range(2)" without a lock.
NextTry_Once(r) == [r EXCEPT !.step = "busy"]
NextTry(r) == IF r.tries < 2 THEN [r EXCEPT !.step = "create", !.tries = 2]
                             ELSE [r EXCEPT !.step = "busy"]

\* os.lstat: the lock is gone, too young to take over, or stale.
MayTake == lock.stale

StatLock(w) ==
  /\ At(w, "stat")
  /\ Goto(w, IF lock = None THEN NextTry(req[w])
             ELSE [req[w] EXCEPT !.step = IF MayTake THEN "unlink" ELSE "busy"])
  /\ UNCHANGED <<lock, link, data, crashes, acked, contended, robbed>>

\* Unlinking a lock whose creator is at work lets another request in.
Rob(w) == robbed \/ (lock # None /\ lock.by \in Workers \ {w})

\* os.unlink(lock_path): of whatever lock is there by now.
TakeOver(w) ==
  /\ At(w, "unlink")
  /\ lock' = None
  /\ robbed' = Rob(w)
  /\ Goto(w, NextTry(req[w]))
  /\ UNCHANGED <<link, data, crashes, acked, contended>>

\* 423 Recording is busy.
RefuseBusy(w) ==
  /\ At(w, "busy")
  /\ Goto(w, Idle)
  /\ contended' = contended \ {w}
  /\ UNCHANGED <<lock, link, data, crashes, acked, robbed>>

\* What a successful part or tail has put where.
Uploaded(r) == {[ino |-> r.fd, pos |-> i, byte |-> r.ask.byte] :
                  i \in r.ask.off + 1 .. r.ask.off + r.ask.len}

\* The finally clause unlinks the lock by its path, whoever created it; the
\* request then answers 200 or the error its body met.
Release(w) ==
  /\ At(w, "release")
  /\ lock' = None
  /\ robbed' = Rob(w)
  /\ acked' = IF req[w].ok THEN acked \cup Uploaded(req[w]) ELSE acked
  /\ Goto(w, Idle)
  /\ UNCHANGED <<link, data, crashes, contended>>

-----------------------------------------------------------------------------
(* The bodies of record(), under the lock                                  *)

Finish(w, ok) == Goto(w, [req[w] EXCEPT !.step = "release", !.ok = ok, !.pos = 0])

\* type=new: O_CREAT | O_EXCL; 409 if the recording exists.
CreateFile(w) ==
  /\ At(w, "open") /\ Ask(w).op = "new"
  /\ \/ /\ link # None
        /\ Finish(w, FALSE)
        /\ UNCHANGED <<link, data>>
     \/ /\ link = None
        /\ Len(data) < MaxInodes
        /\ data' = Append(data, << >>)
        /\ link' = Len(data) + 1
        /\ Finish(w, TRUE)
  /\ UNCHANGED <<lock, crashes, acked, contended, robbed>>

\* type=remove: a recording that does not exist is removed successfully.
RemoveFile(w) ==
  /\ At(w, "open") /\ Ask(w).op = "remove"
  /\ link' = None
  /\ Finish(w, TRUE)
  /\ UNCHANGED <<lock, data, crashes, acked, contended, robbed>>

\* type=part and type=tail open the recording without O_CREAT; else 404.
OpenFile(w) ==
  /\ At(w, "open") /\ Ask(w).op \in {"part", "tail"}
  /\ IF link = None THEN Finish(w, FALSE)
     ELSE Goto(w, [req[w] EXCEPT !.step = "check", !.fd = link])
  /\ UNCHANGED <<lock, link, data, crashes, acked, contended, robbed>>

\* A part is at the end of the file (else 409) and fits (else 413).
Accepted_Overlap(a, size)   == a.op = "part" => a.off <= size /\ a.off + a.len <= MaxFile
Accepted_NoLimit(a, size)   == a.op = "part" => a.off = size
Accepted_Beyond(a, size)    == a.op = "part" => a.off >= size /\ a.off + a.len <= MaxFile
Accepted(a, size) ==
  a.op = "part" => /\ a.off = size
                   /\ size + a.len <= MaxFile

CheckRange(w) ==
  /\ At(w, "check")
  /\ IF Accepted(Ask(w), Len(data[req[w].fd]))
     THEN Goto(w, [req[w] EXCEPT !.step = "write", !.pos = Ask(w).off])
     ELSE Finish(w, FALSE)
  /\ UNCHANGED <<lock, link, data, crashes, acked, contended, robbed>>

\* A write of b at offset p of a file of content s.
WriteAt(s, p, b) == [i \in 1 .. (IF p < Len(s) THEN Len(s) ELSE p + 1) |->
                       IF i = p + 1 THEN b ELSE IF i <= Len(s) THEN s[i] ELSE Hole]

\* One os.write of _write_all.  A tail replaces what was uploaded before.
WriteUnit(w) == LET r == req[w] IN
  /\ At(w, "write")
  /\ r.pos < r.ask.off + r.ask.len
  /\ data' = [data EXCEPT ![r.fd] = WriteAt(@, r.pos, r.ask.byte)]
  /\ Goto(w, [r EXCEPT !.pos = r.pos + 1])
  /\ acked' = IF r.ask.op = "tail" THEN {c \in acked : c.ino # r.fd \/ c.pos # r.pos + 1} ELSE acked
  /\ UNCHANGED <<lock, link, crashes, contended, robbed>>

WriteDone(w) ==
  /\ At(w, "write")
  /\ req[w].pos = Ask(w).off + Ask(w).len
  /\ Finish(w, TRUE)
  /\ UNCHANGED <<lock, link, data, crashes, acked, contended, robbed>>

\* OSError (a full disk, a failed fsync): 500, and what was written stays.
StorageError(w) ==
  /\ Holding(w)
  /\ Finish(w, FALSE)
  /\ UNCHANGED <<lock, link, data, crashes, acked, contended, robbed>>

-----------------------------------------------------------------------------
(* The environment                                                         *)

\* The worker is killed: the lock file and what was written stay.  Of a request
\* without the lock this is also an OSError of the lock's system calls.
Crash(w) ==
  /\ ~At(w, "idle")
  /\ crashes < MaxCrashes
  /\ crashes' = crashes + 1
  /\ lock' = IF lock # None /\ lock.by = w THEN [lock EXCEPT !.by = Dead] ELSE lock
  /\ Goto(w, Idle)
  /\ contended' = contended \ {w}
  /\ UNCHANGED <<link, data, acked, robbed>>

\* 300 seconds pass since the lock was created.
Age ==
  /\ Locked
  /\ lock' = [lock EXCEPT !.stale = TRUE]
  /\ UNCHANGED <<link, data, req, crashes, acked, contended, robbed>>

\* What a request does once it has arrived.
Proceed(w) ==
  \/ CreateLock(w) \/ LockExists(w) \/ StatLock(w) \/ TakeOver(w) \/ RefuseBusy(w)
  \/ CreateFile(w) \/ RemoveFile(w) \/ OpenFile(w) \/ CheckRange(w) \/ WriteUnit(w)
  \/ WriteDone(w) \/ StorageError(w) \/ Release(w)

Next == Age \/ \E w \in Workers : Arrive(w) \/ Proceed(w) \/ Crash(w)

Spec == Init /\ [][Next]_vars

-----------------------------------------------------------------------------
(* Properties                                                              *)

\* Two requests are inside the with block of _record_file_lock only if the
\* lock of a request at work was unlinked: creation, release, crashes and the
\* takeover of a dead request's lock keep uploads exclusive.
OneWriter ==
  ~robbed => \A v, w \in Workers : Holding(v) /\ Holding(w) => v = w

\* What a part or tail uploaded successfully stays where it was put until a
\* tail replaces it: no other request, failed write or crash damages it.
UploadsStay ==
  ~robbed => \A c \in acked : /\ c.pos \in 1..Len(data[c.ino])
                                           /\ data[c.ino][c.pos] = c.byte

\* RECORD_UPLOAD_MAX_FILE_BYTES holds of every recording, even when two
\* requests that lost the lock write to it at once.
FileBounded == \A i \in Inodes : Len(data[i]) <= MaxFile

\* lseek never goes past the end, even then: no recording has a hole.
NoHoles == \A i \in Inodes : \A p \in 1..Len(data[i]) : data[i][p] # Hole

\* 423 is only answered if, at some time during the request, there was a lock
\* younger than 300 seconds: the lock of a dead request alone blocks no one,
\* for the second iteration of the loop creates the lock.
BusyMeansContended == \A w \in Workers : At(w, "busy") => w \in contended
=============================================================================

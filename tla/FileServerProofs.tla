--------------------------- MODULE FileServerProofs ---------------------------
(***************************************************************************)
(* Theorems about FileServer, for every set of sessions, inodes, commands  *)
(* and payloads.  The invariant has two halves: what a session's own       *)
(* variables and the locks satisfy (SessionInv), which does not depend on  *)
(* the files, and the typing of the files.                                 *)
(***************************************************************************)
EXTENDS FileServer, SequenceTheorems, TLAPS

\* The commands that can be at each step, and the descriptors open there.
Control ==
  \A s \in Sessions :
    /\ pc[s] = "idle" <=> req[s] = NoRequest
    /\ pc[s] = "lock" => req[s].op # "create"
    /\ pc[s] \in {"recv", "excl", "reopen", "trunc", "write"}
         => req[s].op \in Writers
    /\ pc[s] = "stat" => req[s].op = "read"
    /\ pc[s] \in {"fsopen", "read", "reply", "send"}
         => req[s].op \in {"read", "download"}
    /\ pc[s] = "apply" => req[s].op \in {"chmod", "delete", "move"}
    /\ pc[s] \in {"lockfile", "unlock", "unlink"} => req[s].op = "move"
    /\ pc[s] \in {"look", "remove", "opendir", "rmdir"} => req[s].op = "delete"
    /\ pc[s] \in {"idle", "check", "create", "open", "lockfile", "send"}
         => fd[s] = NoInode
    /\ pc[s] \in {"lock", "recv", "excl", "reopen", "stat", "fsopen", "reply"}
         => fd[s] \in Inodes
    /\ pc[s] \in {"read", "trunc", "write", "unlock"}
         => fd[s] \in Inodes
    /\ pc[s] \in {"read", "trunc", "write"} => ifd[s] \in Inodes

\* A lock a session holds is the one its command asks for, on its descriptor.
LockShape ==
  \A s \in Sessions, i \in Inodes :
    lock[i][s] # "none" =>
      /\ fd[s] = i
      /\ pc[s] \in Guarded \cup {"reply"}
      /\ lock[i][s] = Needed(req[s].op)

\* What F_SETLKW guarantees: an exclusive lock excludes every other one.
Compatible ==
  \A s, t \in Sessions, i \in Inodes :
    s # t /\ lock[i][s] = "excl" => lock[i][t] = "none"

SessionInv ==
  SessionsTyped /\ Control /\ LockShape /\ LockedThroughout /\ Compatible

-----------------------------------------------------------------------------

LEMMA RequestTyped ==
  ASSUME NEW r \in Requests
  PROVE  /\ r.op \in Op /\ r.path \in Name /\ r.dst \in Name
         /\ r.off \in Nat /\ r.mode \in Mode /\ r.kind \in Kind
         /\ r # NoRequest /\ r.op # "none"
BY ConstantsOK DEF Request, NoRequest, Op

\* A session that finishes leaves nothing behind.
LEMMA FinishKeeps ==
  ASSUME SessionInv, NEW s \in Sessions, NEW st \in {"none", "ok", "error"},
         Finish(s, st)
  PROVE  SessionInv'
<1> USE DEF SessionInv, Finish, Goto
<1>1. SessionsTyped'
  BY DEF SessionsTyped, Closed, LockMode, PC
<1>2. Control'
  BY DEF SessionsTyped, Control, Guarded
<1>3. LockShape'
  BY DEF SessionsTyped, LockShape, Closed
<1>4. LockedThroughout'
  BY DEF SessionsTyped, LockedThroughout, Closed, Guarded, LockShape
<1>5. Compatible'
  BY DEF SessionsTyped, Compatible, Closed
<1> QED BY <1>1, <1>2, <1>3, <1>4, <1>5

\* A step that neither locks, unlocks nor opens keeps the locks in order if
\* it leaves the critical section alone or was not in one.
LEMMA QuietKeepsLocks ==
  ASSUME SessionInv, NEW s \in Sessions, NEW l \in PC, Goto(s, l),
         lock' = lock, req' = req, fd' = fd,
         pc[s] \in Guarded \cup {"reply"} => l \in Guarded \cup {"reply"},
         l \in Guarded => \/ pc[s] \in Guarded
                          \/ fd[s] = NoInode
                          \/ req[s].op = "move"
  PROVE  LockShape' /\ LockedThroughout' /\ Compatible'
<1> USE DEF SessionInv, Goto
<1>1. LockShape'
  BY DEF SessionsTyped, LockShape
<1>2. LockedThroughout'
  BY DEF SessionsTyped, LockedThroughout
<1>3. Compatible'
  BY DEF Compatible
<1> QED BY <1>1, <1>2, <1>3

\* Opening the descriptor a command is about to lock.
LEMMA OpeningKeepsLocks ==
  ASSUME SessionInv, NEW s \in Sessions, NEW i \in Inodes,
         pc[s] \in {"open", "lockfile"}, Goto(s, "lock"),
         fd' = [fd EXCEPT ![s] = i], lock' = lock, req' = req
  PROVE  LockShape' /\ LockedThroughout' /\ Compatible'
<1> USE DEF SessionInv, Goto
<1>1. LockShape'
  BY DEF SessionsTyped, LockShape, Guarded
<1>2. LockedThroughout'
  BY DEF SessionsTyped, LockedThroughout, Guarded
<1>3. Compatible'
  BY DEF Compatible
<1> QED BY <1>1, <1>2, <1>3

-----------------------------------------------------------------------------
(* One lemma per group of steps.  Each assumes the invariant and proves    *)
(* that the step keeps it.                                                 *)

LEMMA BeginKeeps ==
  ASSUME SessionInv, NEW s \in Sessions, Begin(s)
  PROVE  SessionInv'
<1>1. PICK r \in Requests : req' = [req EXCEPT ![s] = r] /\ Goto(s, FirstStep(r.op))
  BY DEF Begin
<1>2. FirstStep(r.op) \in {"open", "check", "create"}
  BY RequestTyped DEF FirstStep, Op
<1> USE <1>1, <1>2 DEF SessionInv, Begin, Goto
<1>3. SessionsTyped'
  BY DEF SessionsTyped, PC
<1>4. Control'
  BY RequestTyped DEF SessionsTyped, Control, Guarded
<1>5. LockShape'
  BY DEF SessionsTyped, LockShape, Guarded
<1>6. LockedThroughout'
  BY DEF SessionsTyped, LockedThroughout, Guarded
<1>7. Compatible'
  BY DEF Compatible
<1> QED BY <1>3, <1>4, <1>5, <1>6, <1>7

LEMMA GetLockKeeps ==
  ASSUME SessionInv, NEW s \in Sessions, GetLock(s)
  PROVE  SessionInv'
<1> USE DEF SessionInv, GetLock, Goto
<1>1. /\ req[s] \in Requests /\ req[s].op \in Op \ {"create"}
      /\ fd[s] \in Inodes
  BY RequestTyped DEF SessionsTyped, Control
<1>2. /\ AfterLock(req[s].op) \in {"stat", "fsopen", "recv", "apply"}
      /\ AfterLock(req[s].op) = "stat" <=> req[s].op = "read"
      /\ AfterLock(req[s].op) = "fsopen" <=> req[s].op = "download"
      /\ AfterLock(req[s].op) = "recv" <=> req[s].op \in Writers
      /\ AfterLock(req[s].op) = "apply" <=> req[s].op \in {"chmod", "delete", "move"}
  BY <1>1 DEF AfterLock, Op, Writers
<1>3. Needed(req[s].op) \in {"shared", "excl"}
  BY DEF Needed
<1>4. SessionsTyped'
  BY <1>1, <1>2, <1>3 DEF SessionsTyped, PC, LockMode, procVars
<1>5. Control'
  BY <1>1, <1>2 DEF SessionsTyped, Control, Guarded, procVars
<1>6. LockShape'
  BY <1>1, <1>2, <1>3 DEF SessionsTyped, LockShape, Guarded, procVars
<1>7. LockedThroughout'
  BY <1>1, <1>2, <1>3 DEF SessionsTyped, LockedThroughout, Guarded, procVars
<1>8. Compatible'
  BY <1>1, <1>3 DEF SessionsTyped, Compatible, Conflict, LockMode
<1> QED BY <1>4, <1>5, <1>6, <1>7, <1>8

LEMMA LockInterruptedKeeps ==
  ASSUME SessionInv, NEW s \in Sessions, LockInterrupted(s)
  PROVE  SessionInv'
<1>1. CASE req[s].op = "move"
  <2> USE <1>1 DEF LockInterrupted, Goto, procVars
  <2>1. SessionsTyped'
    BY DEF SessionInv, SessionsTyped, PC
  <2>2. Control'
    BY DEF SessionInv, SessionsTyped, Control, Guarded
  <2>3. LockShape' /\ LockedThroughout' /\ Compatible'
    BY QuietKeepsLocks DEF PC, Guarded
  <2> QED BY <2>1, <2>2, <2>3 DEF SessionInv
<1>2. CASE req[s].op # "move"
  BY <1>2, FinishKeeps DEF LockInterrupted, Fail
<1> QED BY <1>1, <1>2

\* What a path that exists leads to.
LEMMA NodeTyped ==
  ASSUME FilesTyped, NEW n, Exists(n)
  PROVE  /\ dir[n] \in Inodes
         /\ node[dir[n]].kind \in Kind
         /\ node[dir[n]].content \in Seq(Byte)
         /\ Len(node[dir[n]].content) \in Nat
BY DEF FilesTyped, Exists

LEMMA DownloadStatKeeps ==
  ASSUME FilesTyped, SessionInv, NEW s \in Sessions, DownloadStat(s)
  PROVE  SessionInv'
<1>1. CASE IsFile(req[s].path)
  <2>0. /\ pc[s] = "check" /\ Goto(s, "open")
        /\ \E k \in Nat : size' = [size EXCEPT ![s] = k]
        /\ UNCHANGED <<lock, req, fd, ifd, data, status>>
    BY <1>1, NodeTyped DEF IsFile, DownloadStat, At
  <2> USE <2>0 DEF Goto
  <2>1. SessionsTyped'
    BY DEF SessionInv, SessionsTyped, PC
  <2>2. Control'
    BY DEF SessionInv, SessionsTyped, Control, Guarded
  <2>3. LockShape' /\ LockedThroughout' /\ Compatible'
    BY QuietKeepsLocks DEF PC, Guarded
  <2> QED BY <2>1, <2>2, <2>3 DEF SessionInv
<1>2. CASE ~IsFile(req[s].path)
  BY <1>2, FinishKeeps DEF DownloadStat, Fail
<1> QED BY <1>1, <1>2

LEMMA OpenToReadKeeps ==
  ASSUME FilesTyped, SessionInv, NEW s \in Sessions, OpenToRead(s)
  PROVE  SessionInv'
<1>1. CASE CanOpen(req[s].path, {"r"})
  <2>0. dir[req[s].path] \in Inodes
    BY <1>1, NodeTyped DEF CanOpen
  <2> USE <1>1 DEF OpenToRead, At, Goto
  <2>1. SessionsTyped'
    BY <2>0 DEF SessionInv, SessionsTyped, PC
  <2>2. Control'
    BY <2>0 DEF SessionInv, SessionsTyped, Control, Guarded
  <2>3. LockShape' /\ LockedThroughout' /\ Compatible'
    BY <2>0, OpeningKeepsLocks
  <2> QED BY <2>1, <2>2, <2>3 DEF SessionInv
<1>2. CASE ~CanOpen(req[s].path, {"r"})
  BY <1>2, FinishKeeps DEF OpenToRead, Fail
<1> QED BY <1>1, <1>2

LEMMA ReadStatKeeps ==
  ASSUME FilesTyped, SessionInv, NEW s \in Sessions, ReadStat(s)
  PROVE  SessionInv'
<1> DEFINE len == Len(node[dir[req[s].path]].content)
<1>1. CASE IsFile(req[s].path) /\ req[s].off < len
  <2>0. /\ req[s] \in Requests
        /\ len - req[s].off \in Nat
    BY <1>1, NodeTyped, RequestTyped
       DEF IsFile, ReadStat, At, SessionInv, SessionsTyped, Control
  <2> HIDE DEF len
  <2>a. /\ pc[s] = "stat" /\ Goto(s, "fsopen")
        /\ size' = [size EXCEPT ![s] = len - req[s].off]
        /\ UNCHANGED <<fsVars, lock, req, fd, ifd, data, status>>
    BY <1>1 DEF ReadStat, At, len
  <2> USE <2>a DEF Goto
  <2>1. SessionsTyped'
    BY <2>0 DEF SessionInv, SessionsTyped, PC
  <2>2. Control'
    BY <2>0 DEF SessionInv, SessionsTyped, Control, Guarded
  <2>3. LockShape' /\ LockedThroughout' /\ Compatible'
    BY QuietKeepsLocks DEF PC, Guarded
  <2> QED BY <2>1, <2>2, <2>3 DEF SessionInv
<1>2. CASE ~(IsFile(req[s].path) /\ req[s].off < len)
  BY <1>2, FinishKeeps DEF ReadStat, Fail
<1> QED BY <1>1, <1>2

LEMMA FsReadOpenKeeps ==
  ASSUME FilesTyped, SessionInv, NEW s \in Sessions, FsReadOpen(s)
  PROVE  SessionInv'
<1>1. CASE CanOpen(req[s].path, {"r"})
  <2>0. dir[req[s].path] \in Inodes
    BY <1>1, NodeTyped DEF CanOpen
  <2> USE <1>1 DEF FsReadOpen, Goto
  <2>1. SessionsTyped'
    BY <2>0 DEF SessionInv, SessionsTyped, PC
  <2>2. Control'
    BY <2>0 DEF SessionInv, SessionsTyped, Control, Guarded
  <2>3. LockShape' /\ LockedThroughout' /\ Compatible'
    BY QuietKeepsLocks DEF PC, Guarded
  <2> QED BY <2>1, <2>2, <2>3 DEF SessionInv
<1>2. CASE ~CanOpen(req[s].path, {"r"})
  BY <1>2, FinishKeeps DEF FsReadOpen, Fail
<1> QED BY <1>1, <1>2

\* pread returns bytes of the file.
LEMMA ReadBytesTyped ==
  ASSUME NEW c \in Seq(Byte), NEW off \in Nat, NEW n \in Nat
  PROVE  ReadBytes(c, off, n) \in Seq(Byte)
<1> DEFINE last == IF off + n < Len(c) THEN off + n ELSE Len(c)
<1>1. last \in Nat /\ last <= Len(c)
  BY LenProperties
<1> HIDE DEF last
<1>2. \A k \in off + 1 .. last : c[k] \in Byte
  BY <1>1, ElementOfSeq
<1>3. SubSeq(c, off + 1, last) \in Seq(Byte)
  BY <1>1, <1>2, SubSeqProperties
<1> QED BY <1>3 DEF ReadBytes, last

LEMMA FsReadKeeps ==
  ASSUME FilesTyped, SessionInv, NEW s \in Sessions, FsRead(s)
  PROVE  SessionInv'
<1>1. CASE node[ifd[s]].kind = "file"
  <2> DEFINE d == ReadBytes(node[ifd[s]].content, Offset(s), size[s])
  <2>0. /\ req[s] \in Requests
        /\ ifd[s] \in Inodes
        /\ node[ifd[s]].content \in Seq(Byte)
        /\ size[s] \in Nat
    BY DEF FsRead, FilesTyped, SessionInv, SessionsTyped, Control
  <2>1. d \in Seq(Byte)
    BY <2>0, RequestTyped, ReadBytesTyped DEF Offset
  <2> HIDE DEF d
  <2>2. /\ pc[s] = "read" /\ Goto(s, "reply")
        /\ data' = [data EXCEPT ![s] = d]
        /\ lock' = Closed(s, {ifd[s]})
        /\ ifd'  = [ifd EXCEPT ![s] = NoInode]
        /\ UNCHANGED <<fsVars, req, fd, size, status>>
    BY <1>1 DEF FsRead, d
  <2> USE <2>0, <2>1, <2>2 DEF SessionInv, Goto
  <2>3. SessionsTyped'
    BY DEF SessionsTyped, Closed, PC, LockMode
  <2>4. Control'
    BY DEF SessionsTyped, Control, Guarded
  <2>5. LockShape'
    BY DEF SessionsTyped, LockShape, Closed, Guarded
  <2>6. LockedThroughout'
    BY DEF SessionsTyped, LockedThroughout, Closed, Guarded
  <2>7. Compatible'
    BY DEF SessionsTyped, Compatible, Closed
  <2> QED BY <2>3, <2>4, <2>5, <2>6, <2>7
<1>2. CASE node[ifd[s]].kind # "file"
  BY <1>2, FinishKeeps DEF FsRead, Fail
<1> QED BY <1>1, <1>2

LEMMA ReadUnlockKeeps ==
  ASSUME SessionInv, NEW s \in Sessions, ReadUnlock(s)
  PROVE  SessionInv'
<1> USE DEF SessionInv, ReadUnlock, Goto
<1>1. SessionsTyped'
  BY DEF SessionsTyped, Closed, PC, LockMode
<1>2. Control'
  BY DEF SessionsTyped, Control
<1>3. LockShape'
  BY DEF SessionsTyped, LockShape, Closed
<1>4. LockedThroughout'
  BY DEF SessionsTyped, LockedThroughout, Closed, Guarded, LockShape
<1>5. Compatible'
  BY DEF SessionsTyped, Compatible, Closed
<1> QED BY <1>1, <1>2, <1>3, <1>4, <1>5

LEMMA SendAnswerKeeps ==
  ASSUME SessionInv, NEW s \in Sessions, SendAnswer(s)
  PROVE  SessionInv'
BY FinishKeeps DEF SendAnswer

-----------------------------------------------------------------------------
(* WRITE and UPLOAD                                                        *)

LEMMA OpenToWriteKeeps ==
  ASSUME FilesTyped, SessionInv, NEW s \in Sessions, OpenToWrite(s)
  PROVE  SessionInv'
<1>1. CASE Fail(s)
  BY <1>1, FinishKeeps DEF Fail
<1>2. CASE ~Fail(s)
  <2>0. PICK i \in Inodes :
          /\ pc[s] = "open" /\ Goto(s, "lock")
          /\ req[s].op # "create"
          /\ fd' = [fd EXCEPT ![s] = i]
          /\ UNCHANGED <<lock, req, ifd, size, data, status>>
    BY <1>2, NodeTyped DEF OpenToWrite, At, CanOpen, Writers
  <2> USE <2>0 DEF Goto
  <2>1. SessionsTyped'
    BY DEF SessionInv, SessionsTyped, PC
  <2>2. Control'
    BY DEF SessionInv, SessionsTyped, Control, Guarded
  <2>3. LockShape' /\ LockedThroughout' /\ Compatible'
    BY OpeningKeepsLocks
  <2> QED BY <2>1, <2>2, <2>3 DEF SessionInv
<1> QED BY <1>1, <1>2

LEMMA ReceiveKeeps ==
  ASSUME SessionInv, NEW s \in Sessions, Receive(s)
  PROVE  SessionInv'
<1>1. PICK d \in Payloads : data' = [data EXCEPT ![s] = d]
  BY DEF Receive
<1>2. d \in Seq(Byte)
  BY ConstantsOK
<1> USE <1>1, <1>2 DEF Receive, Goto, fsVars
<1>3. SessionsTyped'
  BY DEF SessionInv, SessionsTyped, PC
<1>4. Control'
  BY DEF SessionInv, SessionsTyped, Control, Guarded
<1>5. LockShape' /\ LockedThroughout' /\ Compatible'
  BY QuietKeepsLocks DEF PC, Guarded
<1> QED BY <1>3, <1>4, <1>5 DEF SessionInv

LEMMA ReceiveFailsKeeps ==
  ASSUME SessionInv, NEW s \in Sessions, ReceiveFails(s)
  PROVE  SessionInv'
BY FinishKeeps DEF ReceiveFails, Fail

\* The step in which fsWriteFile has its descriptor.
LEMMA StartWritingKeeps ==
  ASSUME SessionInv, NEW s \in Sessions, NEW i \in Inodes,
         pc[s] \in {"excl", "reopen"}, StartWriting(s, i)
  PROVE  SessionInv'
<1>1. PICK l \in {"trunc", "write"} : Goto(s, l)
  BY DEF StartWriting
<1> USE <1>1 DEF StartWriting, Goto
<1>2. SessionsTyped'
  BY DEF SessionInv, SessionsTyped, PC
<1>3. Control'
  BY DEF SessionInv, SessionsTyped, Control, Guarded
<1>4. LockShape' /\ LockedThroughout' /\ Compatible'
  BY QuietKeepsLocks DEF PC, Guarded
<1> QED BY <1>2, <1>3, <1>4 DEF SessionInv

LEMMA FsCreateKeeps ==
  ASSUME SessionInv, NEW s \in Sessions, FsCreate(s)
  PROVE  SessionInv'
<1>1. CASE Exists(req[s].path)
  <2> USE <1>1 DEF FsCreate, Goto, procVars
  <2>1. SessionsTyped'
    BY DEF SessionInv, SessionsTyped, PC
  <2>2. Control'
    BY DEF SessionInv, SessionsTyped, Control, Guarded
  <2>3. LockShape' /\ LockedThroughout' /\ Compatible'
    BY QuietKeepsLocks DEF PC, Guarded
  <2> QED BY <2>1, <2>2, <2>3 DEF SessionInv
<1>2. CASE Fail(s)
  BY <1>2, FinishKeeps DEF Fail
<1>3. CASE ~Exists(req[s].path) /\ ~Fail(s)
  BY <1>3, StartWritingKeeps DEF FsCreate
<1> QED BY <1>1, <1>2, <1>3

LEMMA FsReopenKeeps ==
  ASSUME FilesTyped, SessionInv, NEW s \in Sessions, FsReopen(s)
  PROVE  SessionInv'
<1>1. CASE CanOpen(req[s].path, {"w"})
  BY <1>1, NodeTyped, StartWritingKeeps DEF FsReopen, CanOpen
<1>2. CASE ~CanOpen(req[s].path, {"w"})
  BY <1>2, FinishKeeps DEF FsReopen, Fail
<1> QED BY <1>1, <1>2

LEMMA FsTruncateKeeps ==
  ASSUME SessionInv, NEW s \in Sessions, FsTruncate(s)
  PROVE  SessionInv'
<1> USE DEF FsTruncate, Goto, procVars
<1>1. SessionsTyped'
  BY DEF SessionInv, SessionsTyped, PC
<1>2. Control'
  BY DEF SessionInv, SessionsTyped, Control, Guarded
<1>3. LockShape' /\ LockedThroughout' /\ Compatible'
  BY QuietKeepsLocks DEF PC, Guarded
<1> QED BY <1>1, <1>2, <1>3 DEF SessionInv

LEMMA FsWriteKeeps ==
  ASSUME SessionInv, NEW s \in Sessions, FsWrite(s)
  PROVE  SessionInv'
BY FinishKeeps DEF FsWrite

-----------------------------------------------------------------------------
(* CREATE, CHMOD, DELETE and MOVE                                          *)

LEMMA CreateKeeps ==
  ASSUME SessionInv, NEW s \in Sessions, Create(s)
  PROVE  SessionInv'
BY FinishKeeps DEF Create, Fail

LEMMA CheckTargetKeeps ==
  ASSUME SessionInv, NEW s \in Sessions, CheckTarget(s)
  PROVE  SessionInv'
<1>1. CASE Exists(req[s].path)
  <2>0. PICK l \in {"open", "apply"} : Goto(s, l)
    BY <1>1 DEF CheckTarget
  <2> USE <1>1, <2>0 DEF CheckTarget, At, Goto, procVars
  <2>1. SessionsTyped'
    BY DEF SessionInv, SessionsTyped, PC
  <2>2. Control'
    BY DEF SessionInv, SessionsTyped, Control, Guarded
  <2>3. LockShape' /\ LockedThroughout' /\ Compatible'
    BY QuietKeepsLocks DEF PC, Guarded, SessionInv, Control
  <2> QED BY <2>1, <2>2, <2>3 DEF SessionInv
<1>2. CASE ~Exists(req[s].path)
  BY <1>2, FinishKeeps DEF CheckTarget, Fail
<1> QED BY <1>1, <1>2

LEMMA OpenToLockKeeps ==
  ASSUME FilesTyped, SessionInv, NEW s \in Sessions, OpenToLock(s)
  PROVE  SessionInv'
<1>1. CASE CanOpen(req[s].path, {"r", "w"})
  <2>0. dir[req[s].path] \in Inodes
    BY <1>1, NodeTyped DEF CanOpen
  <2> USE <1>1 DEF OpenToLock, At, Goto
  <2>1. SessionsTyped'
    BY <2>0 DEF SessionInv, SessionsTyped, PC
  <2>2. Control'
    BY <2>0 DEF SessionInv, SessionsTyped, Control, Guarded
  <2>3. LockShape' /\ LockedThroughout' /\ Compatible'
    BY <2>0, OpeningKeepsLocks
  <2> QED BY <2>1, <2>2, <2>3 DEF SessionInv
<1>2. CASE ~CanOpen(req[s].path, {"r", "w"}) /\ req[s].op = "delete"
  <2> USE <1>2 DEF OpenToLock, At, Goto, procVars
  <2>1. SessionsTyped'
    BY DEF SessionInv, SessionsTyped, PC
  <2>2. Control'
    BY DEF SessionInv, SessionsTyped, Control, Guarded
  <2>3. LockShape' /\ LockedThroughout' /\ Compatible'
    BY QuietKeepsLocks DEF PC, Guarded, SessionInv, Control
  <2> QED BY <2>1, <2>2, <2>3 DEF SessionInv
<1>3. CASE ~CanOpen(req[s].path, {"r", "w"}) /\ req[s].op # "delete"
  BY <1>3, FinishKeeps DEF OpenToLock, Fail
<1> QED BY <1>1, <1>2, <1>3

LEMMA ChmodKeeps ==
  ASSUME SessionInv, NEW s \in Sessions, Chmod(s)
  PROVE  SessionInv'
BY FinishKeeps DEF Chmod, Fail

LEMMA DeleteLockFileKeeps ==
  ASSUME SessionInv, NEW s \in Sessions, DeleteLockFile(s)
  PROVE  SessionInv'
<1> USE DEF DeleteLockFile, At, Goto, procVars
<1>1. SessionsTyped'
  BY DEF SessionInv, SessionsTyped, PC
<1>2. Control'
  BY DEF SessionInv, SessionsTyped, Control, Guarded
<1>3. LockShape' /\ LockedThroughout' /\ Compatible'
  BY QuietKeepsLocks DEF PC, Guarded
<1> QED BY <1>1, <1>2, <1>3 DEF SessionInv

\* lstat and opendir lead on, or the handler gives up.
LEMMA DeleteLooksKeep ==
  ASSUME SessionInv, NEW s \in Sessions, DeleteLook(s) \/ DeleteOpenDir(s)
  PROVE  SessionInv'
<1>1. CASE Fail(s)
  BY <1>1, FinishKeeps DEF Fail
<1>2. CASE ~Fail(s)
  <2>0. /\ pc[s] \in {"look", "opendir"}
        /\ UNCHANGED <<fsVars, lock, procVars>>
    BY <1>2 DEF DeleteLook, DeleteOpenDir
  <2>1. PICK l \in {"remove", "opendir", "rmdir"} : Goto(s, l)
    BY <1>2 DEF DeleteLook, DeleteOpenDir
  <2> USE <2>0, <2>1 DEF Goto, procVars
  <2>2. SessionsTyped'
    BY DEF SessionInv, SessionsTyped, PC
  <2>3. Control'
    BY DEF SessionInv, SessionsTyped, Control
  <2>4. LockShape' /\ LockedThroughout' /\ Compatible'
    BY QuietKeepsLocks DEF PC, Guarded
  <2> QED BY <2>2, <2>3, <2>4 DEF SessionInv
<1> QED BY <1>1, <1>2

LEMMA RemoveRecursiveKeeps ==
  ASSUME SessionInv, NEW s \in Sessions, RemoveRecursive(s)
  PROVE  SessionInv'
<1>1. CASE DeleteFile(s) \/ DeleteDir(s)
  BY <1>1, FinishKeeps DEF DeleteFile, DeleteDir, Fail
<1> QED BY <1>1, DeleteLockFileKeeps, DeleteLooksKeep DEF RemoveRecursive

LEMMA MoveCheckKeeps ==
  ASSUME SessionInv, NEW s \in Sessions, MoveCheck(s)
  PROVE  SessionInv'
<1> DEFINE ok == Exists(req[s].path) /\ ~Exists(req[s].dst)
<1>1. CASE ok
  <2>0. PICK l \in {"open", "apply"} : Goto(s, l)
    BY <1>1 DEF MoveCheck
  <2> USE <1>1, <2>0 DEF MoveCheck, At, Goto, procVars
  <2>1. SessionsTyped'
    BY DEF SessionInv, SessionsTyped, PC
  <2>2. Control'
    BY DEF SessionInv, SessionsTyped, Control, Guarded
  <2>3. LockShape' /\ LockedThroughout' /\ Compatible'
    BY QuietKeepsLocks DEF PC, Guarded, SessionInv, Control
  <2> QED BY <2>1, <2>2, <2>3 DEF SessionInv
<1>2. CASE ~ok
  BY <1>2, FinishKeeps DEF MoveCheck, Fail
<1> QED BY <1>1, <1>2

LEMMA MoveOpenSourceKeeps ==
  ASSUME FilesTyped, SessionInv, NEW s \in Sessions, MoveOpenSource(s)
  PROVE  SessionInv'
<1>0. PICK i \in Inodes \cup {NoInode} : ifd' = [ifd EXCEPT ![s] = i]
  BY NodeTyped DEF MoveOpenSource, CanOpen
<1>a. /\ pc[s] = "open" /\ req[s].op = "move" /\ Goto(s, "lockfile")
      /\ UNCHANGED <<lock, req, fd, size, data, status>>
  BY DEF MoveOpenSource, At
<1> USE <1>0, <1>a DEF Goto
<1>1. SessionsTyped'
  BY DEF SessionInv, SessionsTyped, PC
<1>2. Control'
  BY DEF SessionInv, SessionsTyped, Control, Guarded
<1>3. LockShape' /\ LockedThroughout' /\ Compatible'
  BY QuietKeepsLocks DEF PC, Guarded
<1> QED BY <1>1, <1>2, <1>3 DEF SessionInv

LEMMA MoveOpenLockFileKeeps ==
  ASSUME FilesTyped, SessionInv, NEW s \in Sessions, MoveOpenLockFile(s)
  PROVE  SessionInv'
<1>0. pc[s] = "lockfile" /\ req[s].op = "move"
  BY DEF MoveOpenLockFile, SessionInv, Control
<1>1. CASE Goto(s, "lock")
  <2>0. PICK i \in Inodes :
          /\ fd' = [fd EXCEPT ![s] = i]
          /\ UNCHANGED <<lock, req, ifd, size, data, status>>
    BY <1>0, <1>1, NodeTyped
       DEF MoveOpenLockFile, CanOpen, Goto, SessionInv, SessionsTyped
  <2> USE <1>0, <1>1, <2>0 DEF Goto
  <2>1. SessionsTyped'
    BY DEF SessionInv, SessionsTyped, PC
  <2>2. Control'
    BY DEF SessionInv, SessionsTyped, Control, Guarded
  <2>3. LockShape' /\ LockedThroughout' /\ Compatible'
    BY OpeningKeepsLocks
  <2> QED BY <2>1, <2>2, <2>3 DEF SessionInv
<1>2. CASE ~Goto(s, "lock")
  <2>0. Goto(s, "apply") /\ UNCHANGED <<lock, procVars>>
    BY <1>2 DEF MoveOpenLockFile
  <2> USE <1>0, <2>0 DEF Goto, procVars
  <2>1. SessionsTyped'
    BY DEF SessionInv, SessionsTyped, PC
  <2>2. Control'
    BY DEF SessionInv, SessionsTyped, Control, Guarded
  <2>3. LockShape' /\ LockedThroughout' /\ Compatible'
    BY QuietKeepsLocks DEF PC, Guarded
  <2> QED BY <2>1, <2>2, <2>3 DEF SessionInv
<1> QED BY <1>1, <1>2

LEMMA RenameKeeps ==
  ASSUME SessionInv, NEW s \in Sessions, Rename(s)
  PROVE  SessionInv'
<1>1. CASE fd[s] = NoInode
  BY <1>1, FinishKeeps DEF Rename
<1>2. CASE fd[s] # NoInode
  <2>0. PICK st \in {"ok", "error"} :
          /\ status' = [status EXCEPT ![s] = st]
          /\ pc[s] = "apply" /\ req[s].op = "move" /\ Goto(s, "unlock")
          /\ UNCHANGED <<lock, req, fd, ifd, size, data>>
    BY <1>2 DEF Rename, At
  <2> USE <1>2, <2>0 DEF Goto
  <2>1. SessionsTyped'
    BY DEF SessionInv, SessionsTyped, PC
  <2>2. Control'
    BY DEF SessionInv, SessionsTyped, Control, Guarded
  <2>3. LockShape' /\ LockedThroughout' /\ Compatible'
    BY QuietKeepsLocks DEF PC, Guarded
  <2> QED BY <2>1, <2>2, <2>3 DEF SessionInv
<1> QED BY <1>1, <1>2

LEMMA MoveUnlockKeeps ==
  ASSUME SessionInv, NEW s \in Sessions, MoveUnlock(s)
  PROVE  SessionInv'
<1> USE DEF SessionInv, MoveUnlock, Goto
<1>1. SessionsTyped'
  BY DEF SessionsTyped, Closed, PC, LockMode
<1>2. Control'
  BY DEF SessionsTyped, Control, Guarded
<1>3. LockShape'
  BY DEF SessionsTyped, LockShape, Closed
<1>4. LockedThroughout'
  BY DEF SessionsTyped, LockedThroughout, Closed, Guarded, LockShape
<1>5. Compatible'
  BY DEF SessionsTyped, Compatible, Closed
<1> QED BY <1>1, <1>2, <1>3, <1>4, <1>5

LEMMA MoveUnlinkKeeps ==
  ASSUME SessionInv, NEW s \in Sessions, MoveUnlink(s)
  PROVE  SessionInv'
BY FinishKeeps DEF MoveUnlink, SessionInv, SessionsTyped

LEMMA SessionStep ==
  ASSUME TypeOK, SessionInv, [Next]_vars
  PROVE  SessionInv'
<1>1. CASE UNCHANGED vars
  <2> USE <1>1 DEF vars, procVars, SessionInv
  <2>1. SessionsTyped' /\ Control'
    BY DEF SessionsTyped, Control
  <2>2. LockShape' /\ LockedThroughout' /\ Compatible'
    BY DEF LockShape, LockedThroughout, Compatible
  <2> QED BY <2>1, <2>2
<1>2. ASSUME NEW s \in Sessions,
             Begin(s) \/ HandlerStep(s) \/ ClientStep(s) \/ LockInterrupted(s)
      PROVE  SessionInv'
  BY <1>2, BeginKeeps, GetLockKeeps, LockInterruptedKeeps,
     DownloadStatKeeps, OpenToReadKeeps, ReadStatKeeps, FsReadOpenKeeps,
     FsReadKeeps, ReadUnlockKeeps, SendAnswerKeeps, OpenToWriteKeeps, ReceiveKeeps,
     ReceiveFailsKeeps, FsCreateKeeps, FsReopenKeeps, FsTruncateKeeps,
     FsWriteKeeps, CreateKeeps, CheckTargetKeeps, OpenToLockKeeps, ChmodKeeps,
     RemoveRecursiveKeeps, MoveCheckKeeps, MoveOpenSourceKeeps,
     MoveOpenLockFileKeeps, RenameKeeps, MoveUnlockKeeps, MoveUnlinkKeeps
     DEF HandlerStep, ClientStep, TypeOK
<1> QED BY <1>1, <1>2 DEF Next

-----------------------------------------------------------------------------
(* The files.                                                              *)

LEMMA MakeNodeTyped ==
  ASSUME FilesTyped, NEW n \in Name, NEW i \in Inodes,
         NEW k \in Kind, NEW m \in Mode, MakeNode(n, i, k, m)
  PROVE  FilesTyped'
<1>1. <<>> \in Seq(Byte)
  OBVIOUS
<1>2. Fresh(k, m) \in [kind : Kind, mode : Mode, content : Seq(Byte)]
  BY <1>1 DEF Fresh
<1>3. node' \in [Inodes -> [kind : Kind, mode : Mode, content : Seq(Byte)]]
  BY <1>2 DEF FilesTyped, MakeNode
<1>4. /\ DOMAIN dir' = DOMAIN dir \cup {n}
      /\ dir' \in [DOMAIN dir \cup {n} -> Inodes]
  BY DEF FilesTyped, MakeNode, Bind
<1> QED BY <1>3, <1>4 DEF FilesTyped

LEMMA LockOfTyped ==
  ASSUME NEW n \in Name
  PROVE  LockOf(n) \in Name
BY DEF Name, LockOf

LEMMA UnbindTyped ==
  ASSUME FilesTyped, NEW n
  PROVE  /\ DOMAIN Unbind(dir, n) = DOMAIN dir \ {n}
         /\ Unbind(dir, n) \in [DOMAIN dir \ {n} -> Inodes]
         /\ DOMAIN Unbind(dir, n) \subseteq Name
BY DEF Unbind, FilesTyped

LEMMA OverlayTyped ==
  ASSUME NEW old \in Seq(Byte), NEW new \in Seq(Byte), NEW off \in Nat
  PROVE  Overlay(old, new, off) \in Seq(Byte)
<1> DEFINE n == off + Len(new)
           len == IF new = <<>> \/ n < Len(old) THEN Len(old) ELSE n
           f == [k \in 1..len |-> IF k > off /\ k <= n THEN new[k - off]
                                  ELSE IF k <= Len(old) THEN old[k] ELSE 0]
<1>1. len \in Nat
  BY LenProperties
<1>2. \A k \in 1..len : k > off /\ k <= n => new[k - off] \in Byte
  <2> SUFFICES ASSUME NEW k \in 1..len, k > off, k <= n
               PROVE  new[k - off] \in Byte
    OBVIOUS
  <2>1. Len(new) \in Nat
    BY LenProperties
  <2>2. k - off \in 1..Len(new)
    BY <1>1, <2>1
  <2> QED BY <2>2, ElementOfSeq
<1>3. \A k \in 1..len : k <= Len(old) => old[k] \in Byte
  <2>1. Len(old) \in Nat
    BY LenProperties
  <2> QED BY <1>1, <2>1, ElementOfSeq
<1>4. \A k \in 1..len : f[k] \in Byte
  BY <1>2, <1>3 DEF Byte
<1>5. f \in [1..len -> Byte]
  BY <1>4
<1>6. f \in Seq(Byte)
  BY <1>1, <1>5, SeqDef
<1> QED BY <1>6 DEF Overlay

\* The steps that change a file or the directory.
LEMMA ContentTyped ==
  ASSUME FilesTyped, NEW i \in Inodes, NEW c \in Seq(Byte),
         dir' = dir, node' = [node EXCEPT ![i].content = c]
  PROVE  FilesTyped'
<1>1. [node[i] EXCEPT !.content = c]
        \in [kind : Kind, mode : Mode, content : Seq(Byte)]
  BY DEF FilesTyped
<1>2. node' \in [Inodes -> [kind : Kind, mode : Mode, content : Seq(Byte)]]
  BY <1>1 DEF FilesTyped
<1> QED BY <1>2 DEF FilesTyped

LEMMA DirTyped ==
  ASSUME FilesTyped, node' = node,
         DOMAIN dir' \subseteq Name, dir' \in [DOMAIN dir' -> Inodes]
  PROVE  FilesTyped'
BY DEF FilesTyped

LEMMA FilesStep ==
  ASSUME TypeOK, SessionInv, [Next]_vars
  PROVE  FilesTyped'
<1> USE DEF TypeOK
<1>0. CASE UNCHANGED fsVars
  BY <1>0 DEF fsVars, FilesTyped
<1>1. CASE UNCHANGED vars
  BY <1>1, <1>0 DEF vars, fsVars
<1>2. ASSUME NEW s \in Sessions, ~UNCHANGED fsVars,
             Begin(s) \/ HandlerStep(s) \/ ClientStep(s) \/ LockInterrupted(s)
      PROVE  FilesTyped'
  <2>0. /\ pc[s] # "idle"
        /\ req[s] \in Requests
        /\ req[s].path \in Name /\ req[s].dst \in Name /\ Offset(s) \in Nat
        /\ req[s].kind \in Kind /\ req[s].mode \in Mode
    <3>1. pc[s] # "idle"
      BY <1>2 DEF Begin, HandlerStep, ClientStep, LockInterrupted, fsVars,
         GetLock, DownloadStat, OpenToRead, ReadStat, FsReadOpen, FsRead,
         ReadUnlock, SendAnswer, OpenToWrite, Receive, ReceiveFails, FsCreate,
         FsReopen, FsTruncate, FsWrite, Create, CheckTarget, OpenToLock, Chmod,
         RemoveRecursive, DeleteLockFile, DeleteLook, DeleteFile, DeleteOpenDir,
         DeleteDir, MoveCheck, MoveOpenSource, MoveOpenLockFile,
         Rename, MoveUnlock, MoveUnlink, At
    <3>2. req[s] \in Requests
      BY <3>1 DEF SessionInv, SessionsTyped, Control
    <3> QED BY <3>1, <3>2, RequestTyped DEF Offset
  <2>1. {"r", "w"} \in Mode /\ "file" \in Kind
    BY DEF Mode, Kind
  <2>2. ASSUME NEW n \in Name, NEW i \in Inodes,
               NEW k \in Kind, NEW m \in Mode, MakeNode(n, i, k, m)
        PROVE  FilesTyped'
    BY <2>2, MakeNodeTyped
  <2>3. CASE \/ GetLock(s) \/ DownloadStat(s) \/ OpenToRead(s) \/ ReadStat(s)
             \/ FsReadOpen(s) \/ FsRead(s) \/ ReadUnlock(s) \/ ClientStep(s)
             \/ LockInterrupted(s) \/ Begin(s) \/ CheckTarget(s)
             \/ OpenToLock(s) \/ MoveCheck(s) \/ MoveOpenSource(s)
             \/ MoveUnlock(s) \/ FsReopen(s) \/ DeleteLook(s) \/ DeleteOpenDir(s)
    <3>1. UNCHANGED fsVars
      BY <2>3 DEF fsVars, GetLock, DownloadStat, OpenToRead, ReadStat,
         FsReadOpen, FsRead, ReadUnlock, SendAnswer, ClientStep, Receive,
         ReceiveFails, DeleteLook, DeleteOpenDir,
         LockInterrupted, Begin, CheckTarget, OpenToLock, MoveCheck,
         MoveOpenSource, MoveUnlock, FsReopen, Fail
    <3> QED BY <3>1, <1>0
  <2>4. CASE OpenToWrite(s)
    BY <2>0, <2>1, <2>2, <2>4, <1>2 DEF OpenToWrite, Fail
  <2>5. CASE FsCreate(s)
    BY <2>0, <2>1, <2>2, <2>5, <1>2 DEF FsCreate, Fail
  <2>6. CASE Create(s)
    BY <2>0, <2>2, <2>6, <1>2 DEF Create, Fail
  <2>7. CASE MoveOpenLockFile(s)
    BY <2>0, <2>1, <2>2, <2>7, <1>2, LockOfTyped DEF MoveOpenLockFile
  <2>8. CASE FsTruncate(s)
    <3>1. ifd[s] \in Inodes 
      BY <2>8 DEF FsTruncate, SessionInv, Control
    <3>2. <<>> \in Seq(Byte)
      OBVIOUS
    <3> QED BY <2>8, <3>1, <3>2, ContentTyped DEF FsTruncate
  <2>9. CASE FsWrite(s)
    <3>1. ifd[s] \in Inodes /\ data[s] \in Seq(Byte)
      BY <2>9 DEF FsWrite, SessionInv, Control, SessionsTyped
    <3>2. node[ifd[s]].content \in Seq(Byte)
      BY <3>1 DEF FilesTyped
    <3>3. PICK k \in 0..Len(data[s]) :
            node' = [node EXCEPT ![ifd[s]].content =
                       Overlay(@, SubSeq(data[s], 1, k), Offset(s))]
      BY <2>9 DEF FsWrite
    <3> DEFINE d == SubSeq(data[s], 1, k)
               c == Overlay(node[ifd[s]].content, d, Offset(s))
    <3>4. d \in Seq(Byte)
      BY <3>1 DEF Byte
    <3> HIDE DEF d
    <3>5. c \in Seq(Byte)
      BY <2>0, <3>2, <3>4, OverlayTyped
    <3>6. /\ dir' = dir
          /\ node' = [node EXCEPT ![ifd[s]].content = c]
      BY <2>9, <3>1, <3>3 DEF FsWrite, FilesTyped, d
    <3> HIDE DEF c
    <3> QED BY <3>1, <3>5, <3>6, ContentTyped
  <2>10. CASE Chmod(s)
    <3>1. /\ Exists(req[s].path) /\ dir' = dir
          /\ node' = [node EXCEPT ![dir[req[s].path]].mode = req[s].mode]
      BY <1>2, <2>10 DEF Chmod, Fail
    <3>2. dir[req[s].path] \in Inodes
      BY <3>1, NodeTyped
    <3> QED BY <2>0, <3>1, <3>2 DEF FilesTyped
  <2>11. CASE DeleteLockFile(s) \/ MoveUnlink(s) \/ DeleteFile(s) \/ DeleteDir(s)
    <3>1. /\ node' = node
          /\ \E n \in Name : dir' = UnlinkFile(n) \/ dir' = Unbind(dir, n)
      BY <1>2, <2>0, <2>11, LockOfTyped
         DEF DeleteLockFile, MoveUnlink, DeleteFile, DeleteDir, Fail
    <3>2. CASE dir' = dir
      BY <3>1, <3>2, <1>0 DEF fsVars
    <3>3. CASE \E n \in Name : dir' = Unbind(dir, n)
      <4>1. DOMAIN dir' \subseteq Name /\ dir' \in [DOMAIN dir' -> Inodes]
        BY <3>3, UnbindTyped
      <4> QED BY <3>1, <4>1, DirTyped
    <3> QED BY <3>1, <3>2, <3>3 DEF UnlinkFile
  <2>12. CASE Rename(s)
    <3>1. CASE CanRename(req[s].path, req[s].dst)
      <4> DEFINE src == req[s].path  dst == req[s].dst
                 d == Unbind(dir, src)
      <4>1. dir[src] \in Inodes
        BY <3>1, NodeTyped DEF CanRename
      <4>2. /\ DOMAIN d \subseteq Name
            /\ d \in [DOMAIN d -> Inodes]
        BY UnbindTyped
      <4> HIDE DEF d
      <4>3. dir' = Bind(d, dst, dir[src]) /\ node' = node
        BY <2>12, <3>1 DEF Rename, d
      <4>4. /\ DOMAIN dir' = DOMAIN d \cup {dst}
            /\ dir' \in [DOMAIN d \cup {dst} -> Inodes]
        BY <4>1, <4>2, <4>3 DEF Bind
      <4> QED BY <2>0, <4>2, <4>3, <4>4, DirTyped
    <3>2. CASE ~CanRename(req[s].path, req[s].dst)
      BY <2>12, <3>2, <1>2 DEF Rename, fsVars
    <3> QED BY <3>1, <3>2
  <2> QED BY <1>2, <2>3, <2>4, <2>5, <2>6, <2>7, <2>8, <2>9, <2>10, <2>11,
             <2>12 DEF HandlerStep, RemoveRecursive
<1> QED BY <1>0, <1>1, <1>2 DEF Next

-----------------------------------------------------------------------------

LEMMA InitInv == Init => TypeOK /\ SessionInv
<1> SUFFICES ASSUME Init PROVE TypeOK /\ SessionInv
  OBVIOUS
<1> USE DEF Init
<1>1. FilesTyped
  <2>1. <<>> \in Seq(Byte)
    OBVIOUS
  <2> QED BY <2>1 DEF FilesTyped, Fresh, Kind, Mode
<1>2. SessionsTyped
  BY DEF SessionsTyped, LockMode, PC
<1>3. Control
  BY DEF Control, Guarded
<1>4. LockShape /\ LockedThroughout /\ Compatible
  BY DEF LockShape, LockedThroughout, Compatible, Guarded
<1> QED BY <1>1, <1>2, <1>3, <1>4 DEF TypeOK, SessionInv

LEMMA InvStep == TypeOK /\ SessionInv /\ [Next]_vars => TypeOK' /\ SessionInv'
BY SessionStep, FilesStep DEF TypeOK, SessionInv

(* The inductive invariant behind the theorems that follow.                *)
THEOREM Invariance == Spec => [](TypeOK /\ SessionInv)
BY InitInv, InvStep, PTL DEF Spec

(* The files and the sessions keep their types under every mixture of      *)
(* commands: no handler uses a descriptor it has not opened.               *)
THEOREM TypeCorrect == Spec => []TypeOK
BY Invariance, PTL

(* For any number of sessions and any commands, a lock is held only inside *)
(* the critical section of the command that asked for it: no path out of a *)
(* handler leaks one, and none is held while an answer is being sent.      *)
THEOREM LockDiscipline == Spec => []NoLeakedLock
<1>1. SessionInv => NoLeakedLock
  BY DEF SessionInv, LockShape, NoLeakedLock
<1> QED BY <1>1, Invariance, PTL

(* And such a lock is held to the end of the section: no handler loses its *)
(* lock by closing a second descriptor of the file before the last access. *)
(* MOVE, which goes on without its lock, and a DELETE or CHMOD that never  *)
(* took one are left out.                                                  *)
THEOREM LockKept == Spec => []LockedThroughout
<1>1. SessionInv => LockedThroughout
  BY DEF SessionInv
<1> QED BY <1>1, Invariance, PTL

(* A handler that waits for a lock holds none: sessions of the user cannot *)
(* wait for one another in a circle, MOVE with its two locks included.     *)
THEOREM NoLockCycle == Spec => []WaitersHoldNothing
<1>1. SessionInv => WaitersHoldNothing
  BY DEF SessionInv, LockShape, WaitersHoldNothing, Guarded
<1> QED BY <1>1, Invariance, PTL

-----------------------------------------------------------------------------
(* Commands that neither remove nor rename.  A handler locks a descriptor  *)
(* and then lets fsReadFile or fsWriteFile resolve the path again: the     *)
(* lock protects the access because the path cannot have come to name      *)
(* another inode in between.                                               *)

\* What a session has open is what its path names.
Settled ==
  \A s \in Sessions :
    /\ fd[s] # NoInode => Exists(req[s].path) /\ fd[s] = dir[req[s].path]
    /\ pc[s] \in {"read", "trunc", "write"} => ifd[s] = fd[s]

\* No step takes a name away or binds it anew.
NamesKept == \A n \in DOMAIN dir : n \in DOMAIN dir' /\ dir'[n] = dir[n]

LEMMA MakeNodeKeepsNames ==
  ASSUME NEW n, NEW i, NEW k, NEW m, ~Exists(n), MakeNode(n, i, k, m)
  PROVE  NamesKept
BY DEF MakeNode, Bind, Exists, NamesKept

LEMMA OnlySharing ==
  ASSUME NoRemoval, TypeOK, SessionInv, NEW s \in Sessions
  PROVE  /\ req[s].op \notin {"delete", "move"}
         /\ pc[s] \notin {"lockfile", "unlock", "unlink"}
         /\ pc[s] \notin {"look", "remove", "opendir", "rmdir"}
<1>1. req[s].op \notin {"delete", "move"}
  BY DEF NoRemoval, TypeOK, SessionsTyped, NoRequest
<1>2. pc[s] \notin {"lockfile", "look", "remove", "opendir", "rmdir"}
  BY <1>1 DEF SessionInv, Control
<1>3. pc[s] \notin {"unlock", "unlink"}
  BY <1>1 DEF SessionInv, Control
<1> QED BY <1>1, <1>2, <1>3

LEMMA NoRemovalStep ==
  ASSUME NoRemoval, TypeOK, SessionInv, NEW s \in Sessions
  PROVE  ~RemoveRecursive(s)
BY OnlySharing DEF RemoveRecursive, DeleteLockFile, DeleteLook, DeleteFile,
                   DeleteOpenDir, DeleteDir, At

LEMMA KeepsNames ==
  ASSUME NoRemoval, TypeOK, SessionInv, [Next]_vars
  PROVE  NamesKept
<1>0. CASE UNCHANGED dir
  BY <1>0 DEF NamesKept
<1>1. CASE UNCHANGED vars
  BY <1>0, <1>1 DEF vars, fsVars
<1>2. ASSUME NEW s \in Sessions,
             Begin(s) \/ HandlerStep(s) \/ ClientStep(s) \/ LockInterrupted(s)
      PROVE  NamesKept
  <2>1. CASE Create(s) \/ OpenToWrite(s) \/ FsCreate(s)
    <3>1. \/ UNCHANGED dir
          \/ \E n, i, k, m : ~Exists(n) /\ MakeNode(n, i, k, m)
      BY <2>1 DEF Create, OpenToWrite, FsCreate, Fail, fsVars
    <3> QED BY <3>1, <1>0, MakeNodeKeepsNames
  <2>2. CASE MoveOpenLockFile(s) \/ Rename(s) \/ MoveUnlink(s)
    BY <2>2, OnlySharing DEF MoveOpenLockFile, Rename, MoveUnlink, At
  <2>3. CASE ~(\/ Create(s) \/ OpenToWrite(s) \/ FsCreate(s)
               \/ MoveOpenLockFile(s) \/ Rename(s) \/ MoveUnlink(s))
    <3>1. UNCHANGED dir
      BY <1>2, <2>3, NoRemovalStep
         DEF HandlerStep, ClientStep, LockInterrupted, Begin,
         GetLock, DownloadStat, OpenToRead, ReadStat, FsReadOpen, FsRead,
         ReadUnlock, SendAnswer, Receive, ReceiveFails, FsReopen, StartWriting,
         FsTruncate, FsWrite, CheckTarget, OpenToLock, Chmod, MoveCheck,
         MoveOpenSource, MoveUnlock, Fail, fsVars
    <3> QED BY <3>1, <1>0
  <2> QED BY <2>1, <2>2, <2>3
<1> QED BY <1>0, <1>1, <1>2 DEF Next

\* What a step of one session does to its own descriptors.
LEMMA OwnDescriptors ==
  ASSUME NoRemoval, TypeOK, SessionInv, Settled, NamesKept, NEW s \in Sessions,
         Begin(s) \/ HandlerStep(s) \/ ClientStep(s) \/ LockInterrupted(s)
  PROVE  /\ fd'[s] # NoInode => Exists(req[s].path)' /\ fd'[s] = dir'[req'[s].path]
         /\ pc'[s] \in {"read", "trunc", "write"} => ifd'[s] = fd'[s]
<1> DEFINE Goal == /\ fd'[s] # NoInode => Exists(req[s].path)' /\ fd'[s] = dir'[req'[s].path]
                   /\ pc'[s] \in {"read", "trunc", "write"} => ifd'[s] = fd'[s]
<1> SUFFICES Goal
  OBVIOUS
<1>a. /\ pc \in [Sessions -> PC] /\ fd \in [Sessions -> Inodes \cup {NoInode}]
      /\ ifd \in [Sessions -> Inodes \cup {NoInode}]
      /\ req \in [Sessions -> Requests \cup {NoRequest}]
  BY DEF TypeOK, SessionsTyped
<1>1. ASSUME NEW st, Finish(s, st)
      PROVE  Goal
  BY <1>1, <1>a DEF Finish, Goto
<1>2. ASSUME UNCHANGED <<req, fd>>, pc'[s] \notin {"read", "trunc", "write"}
      PROVE  Goal
  BY <1>2, <1>a DEF Settled, NamesKept, Exists
<1>3. ASSUME UNCHANGED <<req, fd>>, ifd'[s] = fd[s]
      PROVE  Goal
  BY <1>3, <1>a DEF Settled, NamesKept, Exists
<1>4. ASSUME req' = req, Exists(req[s].path)', fd'[s] = dir'[req[s].path],
             pc'[s] = "lock"
      PROVE  Goal
  BY <1>4
<1> HIDE DEF Goal
<1>5. CASE Begin(s)
  <2>1. pc'[s] \notin {"read", "trunc", "write"} /\ fd'[s] = NoInode
    BY <1>5, <1>a, RequestTyped
       DEF Begin, Goto, FirstStep, SessionInv, Control, Op
  <2> QED BY <2>1 DEF Goal
<1>6. CASE GetLock(s) /\ ~Goal
  <2>1. req[s] \in Requests /\ req[s].op # "create"
    BY <1>6 DEF GetLock, SessionInv, Control, SessionsTyped
  <2>2. AfterLock(req[s].op) \notin {"read", "trunc", "write"}
    BY <2>1, RequestTyped DEF AfterLock, Op
  <2> QED BY <1>2, <1>6, <2>2, <1>a DEF GetLock, Goto, procVars
<1>7. CASE LockInterrupted(s)
  BY <1>1, <1>7, OnlySharing DEF LockInterrupted, Fail
<1>8. CASE DownloadStat(s) \/ ReadStat(s) \/ FsRead(s)
  BY <1>1, <1>2, <1>8, <1>a DEF DownloadStat, ReadStat, FsRead, Fail, Goto
<1>9. CASE FsReadOpen(s)
  <2>1. fd[s] = dir[req[s].path] \/ Fail(s)
    BY <1>9, ConstantsOK DEF FsReadOpen, SessionInv, Control, Settled
  <2> QED BY <1>1, <1>3, <1>9, <2>1, <1>a DEF FsReadOpen, Fail
<1>10. CASE OpenToRead(s) \/ OpenToLock(s)
  BY <1>1, <1>2, <1>4, <1>10, <1>a, OnlySharing
     DEF OpenToRead, OpenToLock, Fail, Goto, CanOpen, Exists, fsVars
<1>11. CASE OpenToWrite(s)
  BY <1>1, <1>4, <1>11, <1>a
     DEF OpenToWrite, Fail, Goto, CanOpen, Exists, fsVars, MakeNode, Bind
<1>12. CASE ClientStep(s)
  BY <1>1, <1>2, <1>12, <1>a
     DEF ClientStep, Receive, ReceiveFails, SendAnswer, Fail, Goto
<1>13. CASE FsCreate(s) \/ FsReopen(s)
  <2>1. Exists(req[s].path) /\ fd[s] = dir[req[s].path]
    BY <1>13, ConstantsOK DEF FsCreate, FsReopen, SessionInv, Control, Settled
  <2> QED BY <1>1, <1>2, <1>3, <1>13, <2>1, <1>a
          DEF FsCreate, FsReopen, StartWriting, Fail, Goto, procVars
<1>14. CASE FsTruncate(s)
  BY <1>3, <1>14, <1>a DEF FsTruncate, Settled, procVars
<1>15. CASE FsWrite(s) \/ Create(s) \/ Chmod(s)
  BY <1>1, <1>15 DEF FsWrite, Create, Chmod, Fail
<1>18. CASE ReadUnlock(s)
  BY <1>18, <1>a DEF ReadUnlock, Goto, Goal
<1>16. CASE CheckTarget(s)
  BY <1>1, <1>2, <1>16, <1>a DEF CheckTarget, Fail, Goto, procVars
<1>17. CASE \/ RemoveRecursive(s) \/ MoveCheck(s)
            \/ MoveOpenSource(s) \/ MoveOpenLockFile(s) \/ Rename(s)
            \/ MoveUnlock(s) \/ MoveUnlink(s)
  BY <1>17, OnlySharing, NoRemovalStep DEF MoveCheck, MoveOpenSource,
     MoveOpenLockFile, Rename, MoveUnlock, MoveUnlink, At
<1> QED
  BY <1>5, <1>6, <1>7, <1>8, <1>9, <1>10, <1>11, <1>12, <1>13, <1>14, <1>15,
     <1>16, <1>17, <1>18 DEF HandlerStep

\* A step of one session leaves the variables of the others alone.
LEMMA OthersKept ==
  ASSUME TypeOK, NEW s \in Sessions, NEW t \in Sessions \ {s},
         Begin(s) \/ HandlerStep(s) \/ ClientStep(s) \/ LockInterrupted(s)
  PROVE  pc'[t] = pc[t] /\ req'[t] = req[t] /\ fd'[t] = fd[t] /\ ifd'[t] = ifd[t]
<1> DEFINE Same == /\ pc'[t] = pc[t] /\ req'[t] = req[t]
                   /\ fd'[t] = fd[t] /\ ifd'[t] = ifd[t]
<1> SUFFICES Same
  OBVIOUS
<1> USE DEF TypeOK, SessionsTyped, Goto
<1>1. ASSUME NEW st, Finish(s, st)
      PROVE  Same
  BY <1>1 DEF Finish
<1>2. CASE Begin(s) \/ GetLock(s) \/ LockInterrupted(s) \/ ClientStep(s)
  BY <1>1, <1>2 DEF Begin, GetLock, LockInterrupted, ClientStep, Receive,
     ReceiveFails, SendAnswer, Fail, procVars
<1>3. CASE \/ DownloadStat(s) \/ OpenToRead(s) \/ ReadStat(s)
           \/ FsReadOpen(s) \/ FsRead(s) \/ ReadUnlock(s)
  BY <1>1, <1>3 DEF DownloadStat, OpenToRead, ReadStat, FsReadOpen, FsRead,
     ReadUnlock, Fail
<1>4. CASE \/ OpenToWrite(s) \/ FsCreate(s) \/ FsReopen(s) \/ FsTruncate(s)
           \/ FsWrite(s)
  BY <1>1, <1>4 DEF OpenToWrite, FsCreate, FsReopen, StartWriting, FsTruncate,
     FsWrite, Fail, procVars
<1>5. CASE \/ Create(s) \/ CheckTarget(s) \/ OpenToLock(s) \/ Chmod(s)
           \/ RemoveRecursive(s)
  BY <1>1, <1>5 DEF Create, CheckTarget, OpenToLock, Chmod, RemoveRecursive,
     DeleteLockFile, DeleteLook, DeleteFile, DeleteOpenDir, DeleteDir, Fail,
     procVars
<1>6. CASE \/ MoveCheck(s) \/ MoveOpenSource(s) \/ MoveOpenLockFile(s)
           \/ Rename(s) \/ MoveUnlock(s) \/ MoveUnlink(s)
  BY <1>1, <1>6 DEF MoveCheck, MoveOpenSource, MoveOpenLockFile, Rename,
     MoveUnlock, MoveUnlink, Fail, procVars
<1> QED BY <1>2, <1>3, <1>4, <1>5, <1>6 DEF HandlerStep

LEMMA SettledStep ==
  ASSUME NoRemoval, TypeOK, SessionInv, Settled, [Next]_vars
  PROVE  Settled'
<1>0. NamesKept
  BY KeepsNames
<1>1. CASE UNCHANGED vars
  BY <1>1 DEF vars, fsVars, procVars, Settled, Exists
<1>2. ASSUME NEW s \in Sessions,
             Begin(s) \/ HandlerStep(s) \/ ClientStep(s) \/ LockInterrupted(s)
      PROVE  Settled'
  <2> SUFFICES ASSUME NEW t \in Sessions
               PROVE  /\ fd'[t] # NoInode => /\ Exists(req[t].path)'
                                             /\ fd'[t] = dir'[req'[t].path]
                      /\ pc'[t] \in {"read", "trunc", "write"} => ifd'[t] = fd'[t]
    BY DEF Settled
  <2>1. CASE t = s
    BY <1>0, <1>2, <2>1, OwnDescriptors
  <2>2. CASE t # s
    <3>1. pc'[t] = pc[t] /\ req'[t] = req[t] /\ fd'[t] = fd[t] /\ ifd'[t] = ifd[t]
      BY <1>2, <2>2, OthersKept
    <3> QED BY <1>0, <3>1 DEF Settled, NamesKept, Exists
  <2> QED BY <2>1, <2>2
<1> QED BY <1>1, <1>2 DEF Next

\* Whoever is about to read or write holds the lock on that very inode.
LEMMA AccessIsLocked ==
  ASSUME NoRemoval, TypeOK, SessionInv, Settled, NEW s \in Sessions
  PROVE  /\ Writing(s) => ifd[s] \in Inodes /\ lock[ifd[s]][s] = "excl"
         /\ pc[s] = "read" => ifd[s] \in Inodes /\ lock[ifd[s]][s] = "shared"
<1> USE DEF SessionInv, Settled, LockedThroughout, Guarded, Control, Needed,
        Writers
<1>1. ASSUME Writing(s)
      PROVE  ifd[s] \in Inodes /\ lock[ifd[s]][s] = "excl"
  BY <1>1, ConstantsOK DEF Writing
<1>2. ASSUME pc[s] = "read"
      PROVE  ifd[s] \in Inodes /\ lock[ifd[s]][s] = "shared"
  BY <1>2, ConstantsOK
<1> QED BY <1>1, <1>2

LEMMA AccessIsExclusive ==
  ASSUME NoRemoval, TypeOK, SessionInv, Settled
  PROVE  ExclusiveAccess
<1> SUFFICES ASSUME NEW s \in Sessions, NEW t \in Sessions, s # t, Writing(s),
                    Writing(t) \/ pc[t] = "read", ifd[s] = ifd[t]
             PROVE  FALSE
  BY DEF ExclusiveAccess
<1>1. ifd[s] \in Inodes /\ lock[ifd[s]][s] = "excl"
  BY AccessIsLocked
<1>2. lock[ifd[s]][t] # "none"
  BY AccessIsLocked
<1> QED BY <1>1, <1>2 DEF SessionInv, Compatible

\* Only ftruncate, write and the making of a file change bytes.
LEMMA ContentStep ==
  ASSUME NoRemoval, TypeOK, SessionInv, Settled, [Next]_vars,
         NEW i \in Inodes, node'[i].content # node[i].content,
         NEW t \in Sessions, lock[i][t] # "none"
  PROVE  Writing(t)
<1>1. PICK s \in Sessions :
        Begin(s) \/ HandlerStep(s) \/ ClientStep(s) \/ LockInterrupted(s)
  BY DEF Next, vars, fsVars
<1>2. ~Free(i)
  <2>1. fd[t] = i
    BY DEF SessionInv, LockShape
  <2> QED BY <2>1 DEF Free
<1>3. ASSUME NEW n, NEW j \in Inodes, NEW k, NEW m, MakeNode(n, j, k, m)
      PROVE  FALSE
  BY <1>2, <1>3 DEF MakeNode, TypeOK, FilesTyped
<1>4. CASE FsTruncate(s) \/ FsWrite(s)
  <2>1. Writing(s) /\ ifd[s] = i
    BY <1>4 DEF FsTruncate, FsWrite, Writing, TypeOK, FilesTyped
  <2>2. lock[i][s] = "excl"
    BY <2>1, AccessIsLocked
  <2> QED BY <2>1, <2>2 DEF SessionInv, Compatible
<1>5. CASE \/ Create(s) \/ OpenToWrite(s) \/ FsCreate(s) \/ MoveOpenLockFile(s)
  <2>1. \/ UNCHANGED node
        \/ \E n, k, m : \E j \in Inodes : MakeNode(n, j, k, m)
    BY <1>5 DEF Create, OpenToWrite, FsCreate, MoveOpenLockFile, Fail, fsVars
  <2> QED BY <1>3, <2>1
<1>6. CASE Chmod(s)
  <2>1. node[i] \in [kind : Kind, mode : Mode, content : Seq(Byte)]
    BY DEF TypeOK, FilesTyped
  <2>2. \/ node' = node
        \/ \E j, m : node' = [node EXCEPT ![j].mode = m]
    BY <1>6 DEF Chmod, Fail, fsVars
  <2>3. node'[i] = node[i] \/ \E m : node'[i] = [node[i] EXCEPT !.mode = m]
    BY <2>2 DEF TypeOK, FilesTyped
  <2> QED BY <2>1, <2>3
<1>7. CASE ~(\/ FsTruncate(s) \/ FsWrite(s) \/ Create(s) \/ OpenToWrite(s)
             \/ FsCreate(s) \/ MoveOpenLockFile(s) \/ Chmod(s))
  <2>1. UNCHANGED node
    BY <1>1, <1>7, NoRemovalStep
       DEF HandlerStep, ClientStep, LockInterrupted, Begin,
       GetLock, DownloadStat, OpenToRead, ReadStat, FsReadOpen, FsRead,
       ReadUnlock, SendAnswer, Receive, ReceiveFails, FsReopen, StartWriting,
       CheckTarget, OpenToLock, MoveCheck, MoveOpenSource, Rename,
       MoveUnlock, MoveUnlink, Fail, fsVars
  <2> QED BY <2>1
<1> QED BY <1>4, <1>5, <1>6, <1>7

LEMMA SettledInvariance ==
  ASSUME NoRemoval
  PROVE  Spec => [](TypeOK /\ SessionInv /\ Settled)
<1>1. Init => Settled
  <2> SUFFICES ASSUME Init PROVE Settled
    OBVIOUS
  <2>1. \A s \in Sessions : fd[s] = NoInode /\ pc[s] = "idle"
    BY DEF Init
  <2> QED BY <2>1 DEF Settled
<1>2. TypeOK /\ SessionInv /\ Settled /\ [Next]_vars => Settled'
  BY SettledStep
<1> QED BY <1>1, <1>2, InitInv, InvStep, PTL DEF Spec

(* If no command removes or renames, then for any number of sessions no    *)
(* handler ever reads or writes a file that another one is overwriting,    *)
(* although the handlers lock one descriptor and access another.           *)
THEOREM ExclusiveAccessHolds ==
  ASSUME NoRemoval
  PROVE  Spec => []ExclusiveAccess
<1>1. TypeOK /\ SessionInv /\ Settled => ExclusiveAccess
  BY AccessIsExclusive
<1> QED BY <1>1, SettledInvariance, PTL

(* If no command removes or renames, a file that is locked by another      *)
(* session, for reading or while its new content is on its way, keeps its  *)
(* bytes.                                                                  *)
THEOREM LockRespectedHolds ==
  ASSUME NoRemoval
  PROVE  Spec => LockRespected
<1>1. TypeOK /\ SessionInv /\ Settled /\ [Next]_vars
        => [\A i \in Inodes :
              node'[i].content # node[i].content
                => \A s \in Sessions : lock[i][s] # "none" => Writing(s)]_vars
  BY ContentStep
<1> QED BY <1>1, SettledInvariance, PTL DEF Spec, LockRespected
=============================================================================

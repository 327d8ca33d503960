----------------------- MODULE FileServerRefinementProofs -----------------------
(***************************************************************************)
(* The theorem that FileServer, without DELETE and MOVE and on a disk that *)
(* does not fill up, implements AtomicStore: for every set of sessions,    *)
(* files, commands and payloads.  First an invariant that says what a      *)
(* handler knows of the file it is about to read or write, then what each  *)
(* step does to the stored files and to the replies.                       *)
(***************************************************************************)
EXTENDS FileServerRefinement, FileServerProofs

\* There are no hard links.
NamesDistinct == \A m, n \in DOMAIN dir : dir[m] = dir[n] => m = n

\* What is about to be written has come from a client, and only a command
\* that begins at the first byte truncates.
Buffered ==
  \A s \in Sessions :
    /\ pc[s] \in {"excl", "reopen", "trunc", "write"} => data[s] \in Payloads
    /\ pc[s] = "trunc" => Offset(s) = 0

\* Between ftruncate and write the file is empty.
Emptied ==
  \A s \in Sessions :
    pc[s] = "write" /\ Offset(s) = 0 => node[ifd[s]].content = <<>>

\* The size that READ took under its lock is still right when it reads.
SizeFound ==
  \A s \in Sessions :
    pc[s] \in {"fsopen", "read"} /\ req[s].op = "read" =>
      /\ req[s].off < Len(node[fd[s]].content)
      /\ size[s] = Len(node[fd[s]].content) - req[s].off

\* fsWriteFile has opened a file and not a directory.
IntoFiles == \A s \in Sessions : Writing(s) => node[ifd[s]].kind = "file"

StoreInv == NamesDistinct /\ Buffered /\ Emptied /\ SizeFound /\ IntoFiles

Act(s) == Begin(s) \/ HandlerStep(s) \/ ClientStep(s) \/ LockInterrupted(s)

\* The steps at which a handler is inside fsReadFile or fsWriteFile, or about
\* to answer with what it has read.
Inner == {"excl", "reopen", "trunc", "write", "fsopen", "read", "reply"}

-----------------------------------------------------------------------------
(* Where the steps lead.                                                   *)

LEMMA ControlFacts ==
  ASSUME TypeOK, SessionInv, NEW s \in Sessions
  PROVE  /\ pc[s] \in PC
         /\ pc[s] # "idle" => req[s] \in Requests
         /\ pc[s] \in {"recv", "excl", "reopen", "trunc", "write"}
              => req[s].op \in {"write", "upload"}
         /\ pc[s] \in {"fsopen", "read", "reply", "send"}
              => req[s].op \in {"read", "download"}
         /\ pc[s] \in {"read", "trunc", "write"} => ifd[s] \in Inodes
BY DEF TypeOK, SessionInv, SessionsTyped, Control, Writers

LEMMA FinishEnds ==
  ASSUME TypeOK, NEW s \in Sessions, NEW st, Finish(s, st)
  PROVE  pc'[s] = "idle"
BY DEF Finish, Goto, TypeOK, SessionsTyped

LEMMA BeginEnds ==
  ASSUME TypeOK, NEW s \in Sessions, Begin(s)
  PROVE  pc'[s] \notin Inner
<1>1. PICK r \in Requests : Goto(s, FirstStep(r.op))
  BY DEF Begin
<1>2. FirstStep(r.op) \in {"open", "check", "create"}
  BY RequestTyped DEF FirstStep, Op
<1> QED BY <1>1, <1>2 DEF Goto, TypeOK, SessionsTyped, Inner

LEMMA GetLockEnds ==
  ASSUME TypeOK, SessionInv, NEW s \in Sessions, GetLock(s)
  PROVE  \/ pc'[s] \notin Inner
         \/ pc'[s] = "fsopen" /\ req'[s].op = "download"
<1>1. pc'[s] = AfterLock(req[s].op) /\ req' = req
  BY DEF GetLock, Goto, TypeOK, SessionsTyped, procVars
<1>2. req[s].op \in Op \ {"create"}
  BY RequestTyped DEF GetLock, SessionInv, Control, TypeOK, SessionsTyped
<1> QED BY <1>1, <1>2 DEF AfterLock, Op, Inner

\* The steps that go further into fsReadFile and fsWriteFile.
LEMMA InnerSteps ==
  ASSUME TypeOK, SessionInv, NEW s \in Sessions, Act(s), pc'[s] \in Inner
  PROVE  \/ GetLock(s) /\ pc'[s] = "fsopen" /\ req'[s].op = "download"
         \/ ReadStat(s) \/ FsReadOpen(s) \/ FsRead(s)
         \/ Receive(s) \/ FsCreate(s) \/ FsReopen(s) \/ FsTruncate(s)
<1>a. pc \in [Sessions -> PC]
  BY DEF TypeOK, SessionsTyped
<1>b. "idle" \notin Inner /\ "open" \notin Inner /\ "lock" \notin Inner
      /\ "apply" \notin Inner /\ "lockfile" \notin Inner /\ "unlock" \notin Inner
      /\ "unlink" \notin Inner /\ "look" \notin Inner /\ "remove" \notin Inner
      /\ "opendir" \notin Inner /\ "rmdir" \notin Inner /\ "send" \notin Inner
  BY DEF Inner
<1>c. \A st : ~Finish(s, st)
  BY <1>b, FinishEnds
<1>1. ~Begin(s)
  BY BeginEnds
<1>2. ~LockInterrupted(s) /\ ~ReceiveFails(s) /\ ~SendAnswer(s)
  BY <1>a, <1>b, <1>c DEF LockInterrupted, ReceiveFails, SendAnswer, Fail, Goto
<1>3. ~DownloadStat(s) /\ ~OpenToRead(s) /\ ~ReadUnlock(s)
  BY <1>a, <1>b, <1>c DEF DownloadStat, OpenToRead, ReadUnlock, Fail, Goto
<1>4. ~OpenToWrite(s) /\ ~FsWrite(s)
  BY <1>a, <1>b, <1>c DEF OpenToWrite, FsWrite, Fail, Goto
<1>5. ~Create(s) /\ ~CheckTarget(s) /\ ~OpenToLock(s) /\ ~Chmod(s)
  BY <1>a, <1>b, <1>c DEF Create, CheckTarget, OpenToLock, Chmod, Fail, Goto
<1>6. ~RemoveRecursive(s)
  BY <1>a, <1>b, <1>c DEF RemoveRecursive, DeleteLockFile, DeleteLook, DeleteFile,
     DeleteOpenDir, DeleteDir, Fail, Goto
<1>7. ~MoveCheck(s) /\ ~MoveOpenSource(s) /\ ~MoveOpenLockFile(s)
  BY <1>a, <1>b, <1>c DEF MoveCheck, MoveOpenSource, MoveOpenLockFile, Fail, Goto
<1>8. ~Rename(s) /\ ~MoveUnlock(s) /\ ~MoveUnlink(s)
  BY <1>a, <1>b, <1>c DEF Rename, MoveUnlock, MoveUnlink, Goto
<1> QED BY <1>1, <1>2, <1>3, <1>4, <1>5, <1>6, <1>7, <1>8, GetLockEnds
        DEF Act, HandlerStep, ClientStep

\* What the other sessions have read or received stays theirs.
LEMMA OthersBuffers ==
  ASSUME TypeOK, NEW s \in Sessions, NEW t \in Sessions \ {s}, Act(s)
  PROVE  data'[t] = data[t] /\ size'[t] = size[t]
<1> DEFINE Same == data'[t] = data[t] /\ size'[t] = size[t]
<1> SUFFICES Same
  OBVIOUS
<1> USE DEF TypeOK, SessionsTyped
<1>1. ASSUME NEW st, Finish(s, st)
      PROVE  Same
  BY <1>1 DEF Finish
<1>2. CASE Begin(s) \/ GetLock(s) \/ LockInterrupted(s) \/ ClientStep(s)
  BY <1>1, <1>2 DEF Begin, GetLock, LockInterrupted, ClientStep, Receive,
     ReceiveFails, SendAnswer, Fail, procVars
<1>3. CASE \/ DownloadStat(s) \/ OpenToRead(s) \/ ReadStat(s)
           \/ FsReadOpen(s) \/ FsRead(s) \/ ReadUnlock(s)
  BY <1>1, <1>3 DEF DownloadStat, OpenToRead, ReadStat, FsReadOpen, FsRead,
     ReadUnlock, Fail
<1>4. CASE \/ OpenToWrite(s) \/ FsCreate(s) \/ FsReopen(s) \/ FsTruncate(s)
           \/ FsWrite(s)
  BY <1>1, <1>4 DEF OpenToWrite, FsCreate, FsReopen, StartWriting, FsTruncate,
     FsWrite, Fail, procVars
<1>5. CASE \/ Create(s) \/ CheckTarget(s) \/ OpenToLock(s) \/ Chmod(s)
           \/ RemoveRecursive(s)
  BY <1>1, <1>5 DEF Create, CheckTarget, OpenToLock, Chmod, RemoveRecursive,
     DeleteLockFile, DeleteLook, DeleteFile, DeleteOpenDir, DeleteDir, Fail, procVars
<1>6. CASE \/ MoveCheck(s) \/ MoveOpenSource(s) \/ MoveOpenLockFile(s)
           \/ Rename(s) \/ MoveUnlock(s) \/ MoveUnlink(s)
  BY <1>1, <1>6 DEF MoveCheck, MoveOpenSource, MoveOpenLockFile, Rename,
     MoveUnlock, MoveUnlink, Fail, procVars
<1> QED BY <1>2, <1>3, <1>4, <1>5, <1>6 DEF Act, HandlerStep

\* What a step does to the files: nothing (CHMOD only touches permissions),
\* the making of a file, or the rewriting of the file that s holds open.
FilesKept ==
  /\ dir' = dir
  /\ \A i \in Inodes : node'[i].content = node[i].content
                       /\ node'[i].kind = node[i].kind

MakesFile(s, i, k) ==
  /\ \E m \in Mode : MakeNode(req[s].path, i, k, m)
  /\ ~Exists(req[s].path) /\ req[s] \in Requests

Rewrites(s) == FsTruncate(s) \/ FsWrite(s)

LEMMA ChmodFiles ==
  ASSUME TypeOK, NEW s \in Sessions, Chmod(s)
  PROVE  FilesKept
<1>1. \A i \in Inodes : node[i] \in [kind : Kind, mode : Mode, content : Seq(Byte)]
  BY DEF TypeOK, FilesTyped
<1>2. dir' = dir
  BY DEF Chmod, Fail, fsVars
<1>3. \/ node' = node
      \/ \E j, m : node' = [node EXCEPT ![j].mode = m]
  BY DEF Chmod, Fail, fsVars
<1>4. \A i \in Inodes :
        node'[i] = node[i] \/ \E m : node'[i] = [node[i] EXCEPT !.mode = m]
  BY <1>3 DEF TypeOK, FilesTyped
<1> QED BY <1>1, <1>2, <1>4 DEF FilesKept

LEMMA FilesChange ==
  ASSUME NoRemoval, TypeOK, SessionInv, NEW s \in Sessions, Act(s)
  PROVE  \/ FilesKept
         \/ \E i \in Inodes, k \in Kind :
              MakesFile(s, i, k) /\ (k = "file" \/ Create(s))
         \/ Rewrites(s)
<1>0. CASE UNCHANGED fsVars
  BY <1>0 DEF fsVars, FilesKept
<1>1. CASE Create(s) /\ ~UNCHANGED fsVars
  <2>1. PICK i \in Inodes : MakeNode(req[s].path, i, req[s].kind, req[s].mode)
                            /\ ~Exists(req[s].path)
    BY <1>1 DEF Create, Fail
  <2>2. req[s] \in Requests
    BY <1>1, ControlFacts DEF Create
  <2>3. req[s].kind \in Kind /\ req[s].mode \in Mode
    BY <2>2, RequestTyped
  <2> QED BY <1>1, <2>1, <2>2, <2>3 DEF MakesFile
<1>2. CASE (OpenToWrite(s) \/ FsCreate(s)) /\ ~UNCHANGED fsVars
  <2>1. PICK i \in Inodes : MakeNode(req[s].path, i, "file", {"r", "w"})
                            /\ ~Exists(req[s].path)
    BY <1>2 DEF OpenToWrite, FsCreate, Fail
  <2>2. req[s] \in Requests
    BY <1>2, ControlFacts DEF OpenToWrite, FsCreate, At
  <2>3. "file" \in Kind /\ {"r", "w"} \in Mode
    BY DEF Kind, Mode
  <2> QED BY <2>1, <2>2, <2>3 DEF MakesFile
<1>3. CASE Chmod(s)
  BY <1>3, ChmodFiles
<1>4. CASE RemoveRecursive(s) \/ MoveOpenLockFile(s)
           \/ Rename(s) \/ MoveUnlink(s)
  BY <1>4, OnlySharing, NoRemovalStep DEF MoveOpenLockFile, Rename, MoveUnlink, At
<1>5. CASE ~(\/ Create(s) \/ OpenToWrite(s) \/ FsCreate(s) \/ Chmod(s)
             \/ RemoveRecursive(s) \/ MoveOpenLockFile(s)
             \/ Rename(s) \/ MoveUnlink(s) \/ Rewrites(s))
  <2>1. UNCHANGED fsVars
    BY <1>5 DEF Act, Rewrites, HandlerStep, ClientStep, LockInterrupted, Begin,
       GetLock, DownloadStat, OpenToRead, ReadStat, FsReadOpen, FsRead,
       ReadUnlock, Receive, ReceiveFails, SendAnswer, FsReopen, StartWriting,
       CheckTarget, OpenToLock, MoveCheck, MoveOpenSource, MoveUnlock, Fail, fsVars
  <2> QED BY <2>1, <1>0
<1> QED BY <1>0, <1>1, <1>2, <1>3, <1>4, <1>5

-----------------------------------------------------------------------------
(* The invariant.                                                          *)

\* A file in use: no step hands out its inode.
LEMMA OpenKept ==
  ASSUME NoRemoval, TypeOK, SessionInv, NEW s \in Sessions, Act(s),
         NEW i \in Inodes, ~Free(i), ~(Rewrites(s) /\ ifd[s] = i)
  PROVE  node'[i].content = node[i].content /\ node'[i].kind = node[i].kind
<1>1. ASSUME NEW j \in Inodes, NEW k \in Kind, MakesFile(s, j, k)
      PROVE  node'[i] = node[i]
  BY <1>1 DEF MakesFile, MakeNode, TypeOK, FilesTyped
<1>2. ASSUME Rewrites(s)
      PROVE  node'[i] = node[i]
  BY <1>2 DEF Rewrites, FsTruncate, FsWrite, TypeOK, FilesTyped
<1> QED BY <1>1, <1>2, FilesChange DEF FilesKept

LEMMA NamesDistinctStep ==
  ASSUME NoRemoval, TypeOK, SessionInv, NamesDistinct, NEW s \in Sessions, Act(s)
  PROVE  NamesDistinct'
<1>1. CASE dir' = dir
  BY <1>1 DEF NamesDistinct
<1>2. ASSUME NEW n, NEW i, NEW k, NEW m, MakeNode(n, i, k, m)
      PROVE  NamesDistinct'
  BY <1>2 DEF MakeNode, Free, Bind, NamesDistinct
<1>3. Rewrites(s) => dir' = dir
  BY DEF Rewrites, FsTruncate, FsWrite
<1> QED BY <1>1, <1>2, <1>3, FilesChange DEF FilesKept, MakesFile

LEMMA StartWritingFacts ==
  ASSUME TypeOK, NEW s \in Sessions, NEW i, StartWriting(s, i)
  PROVE  /\ pc'[s] = IF Offset(s) = 0 THEN "trunc" ELSE "write"
         /\ data' = data /\ req' = req /\ Offset(s)' = Offset(s)
BY DEF StartWriting, Goto, Offset, TypeOK, SessionsTyped

LEMMA BufferedHere ==
  ASSUME TypeOK, SessionInv, Buffered, NEW s \in Sessions, Act(s),
         pc'[s] \in {"excl", "reopen", "trunc", "write"}
  PROVE  data'[s] \in Payloads /\ (pc'[s] = "trunc" => Offset(s)' = 0)
<1>a. pc \in [Sessions -> PC] /\ data \in [Sessions -> Seq(Byte)]
  BY DEF TypeOK, SessionsTyped
<1>b. \A st : ~Finish(s, st)
  BY FinishEnds
<1>1. CASE Receive(s)
  BY <1>1, <1>a DEF Receive, Goto
<1>2. CASE FsCreate(s)
  <2>1. data[s] \in Payloads
    BY <1>2 DEF FsCreate, Buffered
  <2>2. \/ pc'[s] = "reopen" /\ data' = data
        \/ \E i : StartWriting(s, i)
    BY <1>2, <1>a, <1>b DEF FsCreate, Fail, Goto, procVars
  <2> QED BY <2>1, <2>2, StartWritingFacts
<1>3. CASE FsReopen(s)
  <2>1. data[s] \in Payloads
    BY <1>3 DEF FsReopen, Buffered
  <2>2. \E i : StartWriting(s, i)
    BY <1>3, <1>b DEF FsReopen, Fail
  <2> QED BY <2>1, <2>2, StartWritingFacts
<1>4. CASE FsTruncate(s)
  <2>1. data[s] \in Payloads
    BY <1>4 DEF FsTruncate, Buffered
  <2>2. pc'[s] = "write" /\ data' = data
    BY <1>4, <1>a DEF FsTruncate, Goto, procVars
  <2> QED BY <2>1, <2>2
<1>5. ~ReadStat(s) /\ ~FsReadOpen(s) /\ ~FsRead(s)
  BY <1>a, <1>b DEF ReadStat, FsReadOpen, FsRead, Fail, Goto
<1> QED BY <1>1, <1>2, <1>3, <1>4, <1>5, InnerSteps DEF Inner

LEMMA BufferedStep ==
  ASSUME TypeOK, SessionInv, Buffered, NEW s \in Sessions, Act(s)
  PROVE  Buffered'
<1> SUFFICES ASSUME NEW t \in Sessions
             PROVE  /\ pc'[t] \in {"excl", "reopen", "trunc", "write"}
                         => data'[t] \in Payloads
                    /\ pc'[t] = "trunc" => Offset(t)' = 0
  BY DEF Buffered
<1>1. CASE t = s
  BY <1>1, BufferedHere
<1>2. CASE t # s
  <2>1. pc'[t] = pc[t] /\ req'[t] = req[t] /\ data'[t] = data[t]
    BY <1>2, OthersKept, OthersBuffers DEF Act
  <2> QED BY <2>1 DEF Buffered, Offset
<1> QED BY <1>1, <1>2

\* The file that s has open in fsReadFile or fsWriteFile, and who may rewrite
\* a file that t holds locked.
LEMMA OpenIsUsed ==
  ASSUME TypeOK, SessionInv, NEW t \in Sessions, NEW i \in Inodes,
         fd[t] = i \/ ifd[t] = i
  PROVE  ~Free(i)
BY DEF Free

LEMMA EmptiedHere ==
  ASSUME TypeOK, SessionInv, NEW s \in Sessions, Act(s),
         pc'[s] = "write", Offset(s)' = 0
  PROVE  node'[ifd'[s]].content = <<>>
<1>a. pc \in [Sessions -> PC]
  BY DEF TypeOK, SessionsTyped
<1>b. \A st : ~Finish(s, st)
  BY FinishEnds
<1>1. \A i : ~StartWriting(s, i)
  BY StartWritingFacts
<1>2. ~FsCreate(s) /\ ~FsReopen(s)
  BY <1>1, <1>a, <1>b DEF FsCreate, FsReopen, Fail, Goto
<1>3. ~ReadStat(s) /\ ~FsReadOpen(s) /\ ~FsRead(s) /\ ~Receive(s)
  BY <1>a, <1>b DEF ReadStat, FsReadOpen, FsRead, Receive, Fail, Goto
<1>4. FsTruncate(s)
  BY <1>2, <1>3, InnerSteps DEF Inner
<1>5. ifd[s] \in Inodes /\ ifd' = ifd
  BY <1>4, ControlFacts DEF FsTruncate, procVars
<1> QED BY <1>4, <1>5 DEF FsTruncate, TypeOK, FilesTyped

LEMMA EmptiedStep ==
  ASSUME NoRemoval, TypeOK, SessionInv, Settled, Emptied, NEW s \in Sessions, Act(s)
  PROVE  Emptied'
<1> SUFFICES ASSUME NEW t \in Sessions, pc'[t] = "write", Offset(t)' = 0
             PROVE  node'[ifd'[t]].content = <<>>
  BY DEF Emptied
<1>1. CASE t = s
  BY <1>1, EmptiedHere
<1>2. CASE t # s
  <2>1. pc[t] = "write" /\ Offset(t) = 0 /\ ifd'[t] = ifd[t]
    BY <1>2, OthersKept DEF Act, Offset
  <2>2. ifd[t] \in Inodes /\ ~Free(ifd[t])
    BY <2>1, ControlFacts, OpenIsUsed
  <2>3. ~(Rewrites(s) /\ ifd[s] = ifd[t])
    BY <1>2, <2>1, AccessIsExclusive
       DEF ExclusiveAccess, Rewrites, FsTruncate, FsWrite, Writing
  <2> QED BY <2>1, <2>2, <2>3, OpenKept DEF Emptied
<1> QED BY <1>1, <1>2

\* READ takes the size.
LEMMA ReadStatMeasures ==
  ASSUME TypeOK, SessionInv, Settled, NEW s \in Sessions, ReadStat(s),
         pc'[s] # "idle"
  PROVE  /\ req'[s].off < Len(node'[fd'[s]].content)
         /\ size'[s] = Len(node'[fd'[s]].content) - req'[s].off
<1>1. \A st : ~Finish(s, st)
  BY FinishEnds
<1>2. fd[s] = dir[req[s].path]
  BY ConstantsOK DEF ReadStat, At, Settled, SessionInv, Control
<1> DEFINE len == Len(node[dir[req[s].path]].content)
<1>3. /\ req[s].off < len /\ size' = [size EXCEPT ![s] = len - req[s].off]
      /\ UNCHANGED <<req, fd, node>>
  BY <1>1 DEF ReadStat, Fail, fsVars
<1>4. size'[s] = len - req[s].off
  BY <1>3 DEF TypeOK, SessionsTyped
<1> QED BY <1>2, <1>3, <1>4

LEMMA SizeFoundHere ==
  ASSUME TypeOK, SessionInv, Settled, SizeFound, NEW s \in Sessions, Act(s),
         pc'[s] \in {"fsopen", "read"}, req'[s].op = "read"
  PROVE  /\ req'[s].off < Len(node'[fd'[s]].content)
         /\ size'[s] = Len(node'[fd'[s]].content) - req'[s].off
<1>a. pc \in [Sessions -> PC]
  BY DEF TypeOK, SessionsTyped
<1>b. \A st : ~Finish(s, st)
  BY FinishEnds
<1>1. \A i : ~StartWriting(s, i)
  BY StartWritingFacts
<1>2. ~FsCreate(s) /\ ~FsReopen(s)
  BY <1>1, <1>a, <1>b DEF FsCreate, FsReopen, Fail, Goto
<1>3. ~Receive(s) /\ ~FsRead(s) /\ ~FsTruncate(s)
  BY <1>a, <1>b DEF Receive, FsRead, FsTruncate, Fail, Goto
<1>4. ReadStat(s) \/ FsReadOpen(s)
  BY <1>2, <1>3, InnerSteps DEF Inner
<1>5. CASE FsReadOpen(s)
  BY <1>5, <1>b DEF FsReadOpen, Fail, fsVars, SizeFound
<1> QED BY <1>4, <1>5, ReadStatMeasures

LEMMA SizeFoundStep ==
  ASSUME NoRemoval, TypeOK, SessionInv, Settled, SizeFound, NEW s \in Sessions, Act(s)
  PROVE  SizeFound'
<1> SUFFICES ASSUME NEW t \in Sessions, pc'[t] \in {"fsopen", "read"},
                    req'[t].op = "read"
             PROVE  /\ req'[t].off < Len(node'[fd'[t]].content)
                    /\ size'[t] = Len(node'[fd'[t]].content) - req'[t].off
  BY DEF SizeFound
<1>1. CASE t = s
  BY <1>1, SizeFoundHere
<1>2. CASE t # s
  <2>1. /\ pc[t] \in {"fsopen", "read"} /\ req'[t] = req[t] /\ fd'[t] = fd[t]
        /\ size'[t] = size[t]
    BY <1>2, OthersKept, OthersBuffers DEF Act
  <2>2. fd[t] \in Inodes /\ lock[fd[t]][t] = "shared"
    BY <2>1, ConstantsOK DEF SessionInv, Control, LockedThroughout, Guarded, Needed
  <2>3. ~(Rewrites(s) /\ ifd[s] = fd[t])
    <3>1. SUFFICES ASSUME Rewrites(s), ifd[s] = fd[t]
                   PROVE  FALSE
      OBVIOUS
    <3>2. Writing(s)
      BY <3>1 DEF Rewrites, FsTruncate, FsWrite, Writing
    <3>3. lock[ifd[s]][s] = "excl"
      BY <3>2, AccessIsLocked
    <3> QED BY <1>2, <2>2, <3>1, <3>3 DEF SessionInv, Compatible
  <2>4. node'[fd[t]].content = node[fd[t]].content
    BY <2>2, <2>3, OpenIsUsed, OpenKept
  <2> QED BY <2>1, <2>4 DEF SizeFound
<1> QED BY <1>1, <1>2

LEMMA IntoFilesHere ==
  ASSUME TypeOK, SessionInv, IntoFiles, NEW s \in Sessions, Act(s), Writing(s)'
  PROVE  node'[ifd'[s]].kind = "file"
<1>a. pc \in [Sessions -> PC] /\ ifd \in [Sessions -> Inodes \cup {NoInode}]
      /\ node \in [Inodes -> [kind : Kind, mode : Mode, content : Seq(Byte)]]
  BY DEF TypeOK, SessionsTyped, FilesTyped
<1>b. \A st : ~Finish(s, st)
  BY FinishEnds DEF Writing
<1>1. ~ReadStat(s) /\ ~FsReadOpen(s) /\ ~FsRead(s) /\ ~Receive(s)
  BY <1>a, <1>b DEF ReadStat, FsReadOpen, FsRead, Receive, Fail, Goto, Writing
<1>2. CASE FsCreate(s)
  <2>1. PICK i \in Inodes : MakeNode(req[s].path, i, "file", {"r", "w"})
                            /\ StartWriting(s, i)
    BY <1>2, <1>a, <1>b DEF FsCreate, Fail, Goto, Writing
  <2>2. ifd'[s] = i
    BY <2>1, <1>a DEF StartWriting
  <2> QED BY <2>1, <2>2, <1>a DEF MakeNode, Fresh
<1>3. CASE FsReopen(s)
  <2>1. CanOpen(req[s].path, {"w"}) /\ StartWriting(s, dir[req[s].path])
        /\ node' = node
    BY <1>3, <1>b DEF FsReopen, Fail, fsVars
  <2> QED BY <2>1, <1>a DEF CanOpen, StartWriting
<1>4. CASE FsTruncate(s)
  <2>1. ifd[s] \in Inodes /\ ifd' = ifd /\ node[ifd[s]].kind = "file"
    BY <1>4, ControlFacts DEF FsTruncate, procVars, IntoFiles, Writing
  <2> QED BY <1>4, <1>a, <2>1 DEF FsTruncate
<1> QED BY <1>1, <1>2, <1>3, <1>4, InnerSteps DEF Inner, Writing

LEMMA IntoFilesStep ==
  ASSUME NoRemoval, TypeOK, SessionInv, Settled, IntoFiles, NEW s \in Sessions, Act(s)
  PROVE  IntoFiles'
<1> SUFFICES ASSUME NEW t \in Sessions, Writing(t)'
             PROVE  node'[ifd'[t]].kind = "file"
  BY DEF IntoFiles
<1>1. CASE t = s
  BY <1>1, IntoFilesHere
<1>2. CASE t # s
  <2>1. Writing(t) /\ ifd'[t] = ifd[t]
    BY <1>2, OthersKept DEF Act, Writing
  <2>2. ifd[t] \in Inodes /\ ~Free(ifd[t])
    BY <2>1, ControlFacts, OpenIsUsed DEF Writing
  <2>3. ~(Rewrites(s) /\ ifd[s] = ifd[t])
    BY <1>2, <2>1, AccessIsExclusive
       DEF ExclusiveAccess, Rewrites, FsTruncate, FsWrite, Writing
  <2> QED BY <2>1, <2>2, <2>3, OpenKept DEF IntoFiles
<1> QED BY <1>1, <1>2

LEMMA StoreInvStep ==
  ASSUME NoRemoval, TypeOK, SessionInv, Settled, StoreInv, [Next]_vars
  PROVE  StoreInv'
<1>1. CASE \E s \in Sessions : Act(s)
  BY <1>1, NamesDistinctStep, BufferedStep, EmptiedStep, SizeFoundStep, IntoFilesStep
     DEF StoreInv
<1>2. CASE UNCHANGED vars
  <2>1. UNCHANGED <<dir, node, pc, req, fd, ifd, size, data>>
    BY <1>2 DEF vars, fsVars, procVars
  <2>2. NamesDistinct' /\ SizeFound' /\ IntoFiles'
    BY <2>1 DEF StoreInv, NamesDistinct, SizeFound, IntoFiles, Writing
  <2>3. \A s \in Sessions : Offset(s)' = Offset(s)
    BY <2>1 DEF Offset
  <2>4. Buffered' /\ Emptied'
    BY <2>1, <2>3 DEF StoreInv, Buffered, Emptied
  <2> QED BY <2>2, <2>4 DEF StoreInv
<1> QED BY <1>1, <1>2 DEF Next, Act

LEMMA StoreInvariance ==
  ASSUME NoRemoval
  PROVE  Spec => [](TypeOK /\ SessionInv /\ Settled /\ StoreInv)
<1>1. Init => StoreInv
  BY DEF Init, StoreInv, NamesDistinct, Buffered, Emptied, SizeFound, IntoFiles,
         Writing
<1>2. TypeOK /\ SessionInv /\ Settled /\ StoreInv /\ [Next]_vars => StoreInv'
  BY StoreInvStep
<1> QED BY <1>1, <1>2, SettledInvariance, PTL DEF Spec

-----------------------------------------------------------------------------
(* Bytes: what write leaves in a file is what the store says.              *)

LEMMA LenIs ==
  ASSUME NEW S, NEW q \in Seq(S), NEW n \in Nat, DOMAIN q = 1..n
  PROVE  Len(q) = n
<1>1. Len(q) \in Nat /\ 1..Len(q) = 1..n
  BY LenProperties
<1>2. ~(Len(q) < n)
  <2>1. SUFFICES ASSUME Len(q) < n
                 PROVE  FALSE
    OBVIOUS
  <2>2. n \in 1..n /\ n \notin 1..Len(q)
    BY <1>1, <2>1
  <2> QED BY <1>1, <2>2
<1>3. ~(n < Len(q))
  <2>1. SUFFICES ASSUME n < Len(q)
                 PROVE  FALSE
    OBVIOUS
  <2>2. Len(q) \in 1..Len(q) /\ Len(q) \notin 1..n
    BY <1>1, <2>1
  <2> QED BY <1>1, <2>2
<1> QED BY <1>1, <1>2, <1>3

LEMMA OverlayElements ==
  ASSUME NEW old \in Seq(Byte), NEW new \in Seq(Byte), NEW off \in Nat
  PROVE  LET n == off + Len(new)
             len == IF new = <<>> \/ n < Len(old) THEN Len(old) ELSE n
         IN  /\ Overlay(old, new, off) \in Seq(Byte)
             /\ Len(Overlay(old, new, off)) = len
             /\ \A k \in 1..len :
                  Overlay(old, new, off)[k] =
                    IF k > off /\ k <= n THEN new[k - off]
                    ELSE IF k <= Len(old) THEN old[k] ELSE 0
<1> DEFINE n == off + Len(new)
           len == IF new = <<>> \/ n < Len(old) THEN Len(old) ELSE n
<1>1. len \in Nat
  BY LenProperties
<1>2. Overlay(old, new, off) \in Seq(Byte)
  BY OverlayTyped
<1>3. DOMAIN Overlay(old, new, off) = 1..len
  BY DEF Overlay
<1>4. Len(Overlay(old, new, off)) = len
  <2> HIDE DEF len
  <2> QED BY <1>1, <1>2, <1>3, LenIs
<1> QED BY <1>2, <1>4 DEF Overlay

\* From the first byte on, after a truncation.
LEMMA OverlayFromStart ==
  ASSUME NEW d \in Seq(Byte)
  PROVE  Overlay(<<>>, d, 0) = d
<1>1. <<>> \in Seq(Byte) /\ Len(<<>>) = 0 /\ Len(d) \in Nat
  BY EmptySeq, LenProperties
<1> DEFINE o == Overlay(<<>>, d, 0)
<1>2. o \in Seq(Byte)
  BY <1>1, OverlayTyped
<1>a. 0 \in Nat /\ 0 + Len(d) = Len(d) /\ ~(Len(d) < 0) /\ (d = <<>> => Len(d) = 0)
  BY <1>1
<1>3. Len(o) = Len(d)
  <2>1. Len(o) = IF d = <<>> \/ 0 + Len(d) < Len(<<>>) THEN Len(<<>>) ELSE 0 + Len(d)
    BY <1>1, <1>a, OverlayElements
  <2> HIDE DEF o
  <2> QED BY <1>1, <1>a, <2>1
<1>4. \A k \in 1..Len(d) : o[k] = d[k]
  <2>1. SUFFICES ASSUME NEW k \in 1..Len(d)
                 PROVE  o[k] = d[k]
    OBVIOUS
  <2>2. k > 0 /\ k <= 0 + Len(d) /\ k - 0 = k
    BY <1>1, <2>1
  <2>3. d # <<>>
    BY <1>1, <1>a, <2>1
  <2>4. ~(d = <<>> \/ 0 + Len(d) < Len(<<>>))
    BY <1>1, <1>a, <2>3
  <2>5. o[k] = IF k > 0 /\ k <= 0 + Len(d) THEN d[k - 0]
               ELSE IF k <= Len(<<>>) THEN <<>>[k] ELSE 0
    BY <1>1, <1>a, <2>1, <2>4 DEF Overlay
  <2> HIDE DEF o
  <2> QED BY <2>2, <2>5
<1> HIDE DEF o
<1>5. o = d
  BY <1>2, <1>3, <1>4, SeqEqual
<1> QED BY <1>5 DEF o

\* The three parts of what the store writes at an offset.
LEMMA HeadElements ==
  ASSUME NEW old \in Seq(Byte), NEW off \in Nat
  PROVE  LET head == [k \in 1..off |-> IF k <= Len(old) THEN old[k] ELSE 0]
         IN  head \in Seq(Byte) /\ Len(head) = off
<1> DEFINE head == [k \in 1..off |-> IF k <= Len(old) THEN old[k] ELSE 0]
<1>1. Len(old) \in Nat
  BY LenProperties
<1>2. \A k \in 1..off : k <= Len(old) => old[k] \in Byte
  BY <1>1, ElementOfSeq
<1>3. head \in [1..off -> Byte]
  BY <1>2 DEF Byte
<1>4. head \in Seq(Byte)
  BY <1>3, SeqDef
<1>5. DOMAIN head = 1..off
  OBVIOUS
<1> HIDE DEF head
<1>6. Len(head) = off
  BY <1>4, <1>5, LenIs
<1> QED BY <1>4, <1>6 DEF head

LEMMA RestElements ==
  ASSUME NEW old \in Seq(Byte), NEW n \in Nat
  PROVE  /\ SubSeq(old, n + 1, Len(old)) \in Seq(Byte)
         /\ Len(SubSeq(old, n + 1, Len(old))) = IF n < Len(old) THEN Len(old) - n ELSE 0
         /\ \A k \in 1..(Len(old) - n) : SubSeq(old, n + 1, Len(old))[k] = old[n + k]
<1>1. Len(old) \in Nat /\ n + 1 \in Int
  BY LenProperties
<1>2. \A k \in (n + 1)..Len(old) : old[k] \in Byte
  BY <1>1, ElementOfSeq
<1>3. /\ SubSeq(old, n + 1, Len(old)) \in Seq(Byte)
      /\ Len(SubSeq(old, n + 1, Len(old)))
           = IF n + 1 <= Len(old) THEN Len(old) - (n + 1) + 1 ELSE 0
      /\ \A k \in 1..(Len(old) - (n + 1) + 1) :
           SubSeq(old, n + 1, Len(old))[k] = old[(n + 1) + k - 1]
  BY <1>1, <1>2, SubSeqProperties
<1>4. Len(old) - (n + 1) + 1 = Len(old) - n /\ (n + 1 <= Len(old) <=> n < Len(old))
  BY <1>1
<1>5. \A k \in 1..(Len(old) - n) : (n + 1) + k - 1 = n + k
  BY <1>1
<1> QED BY <1>3, <1>4, <1>5

LEMMA OverlayIsWritten ==
  ASSUME NEW old \in Seq(Byte), NEW d \in Seq(Byte), NEW off \in Nat, off > 0
  PROVE  Overlay(old, d, off) = Store!Written(old, d, off)
<1> DEFINE head == [k \in 1..off |-> IF k <= Len(old) THEN old[k] ELSE 0]
           n == off + Len(d)
           rest == SubSeq(old, n + 1, Len(old))
           o == Overlay(old, d, off)
<1>1. Len(old) \in Nat /\ Len(d) \in Nat /\ n \in Nat
  BY LenProperties
<1>2. o \in Seq(Byte)
  BY OverlayTyped
<1>3. CASE d = <<>>
  <2>1. Len(d) = 0
    BY <1>3
  <2>2. Len(o) = Len(old)
    BY <1>3, OverlayElements
  <2>3. \A k \in 1..Len(old) : o[k] = old[k]
    <3>1. SUFFICES ASSUME NEW k \in 1..Len(old)
                   PROVE  o[k] = old[k]
      OBVIOUS
    <3>2. ~(k > off /\ k <= n) /\ k <= Len(old)
      BY <1>1, <2>1
    <3> QED BY <1>3, <3>2, OverlayElements
  <2> HIDE DEF o
  <2>4. o = old
    BY <1>2, <2>2, <2>3, SeqEqual
  <2> QED BY <1>3, <2>4 DEF o, Store!Written
<1>4. CASE d # <<>>
  <2>1. head \in Seq(Byte) /\ Len(head) = off
    BY HeadElements
  <2>2. /\ rest \in Seq(Byte)
        /\ Len(rest) = IF n < Len(old) THEN Len(old) - n ELSE 0
        /\ \A k \in 1..(Len(old) - n) : rest[k] = old[n + k]
    BY <1>1, RestElements
  <2>3. \A k \in 1..off : head[k] = IF k <= Len(old) THEN old[k] ELSE 0
    OBVIOUS
  <2>4. /\ Len(o) = IF n < Len(old) THEN Len(old) ELSE n
        /\ \A k \in 1..Len(o) : o[k] = IF k > off /\ k <= n THEN d[k - off]
                                       ELSE IF k <= Len(old) THEN old[k] ELSE 0
    BY <1>4, OverlayElements
  <2>5. Store!Written(old, d, off) = (head \o d) \o rest
    <3>1. off # 0 /\ ~(off > 0 /\ d = <<>>)
      BY <1>4
    <3> QED BY <3>1 DEF Store!Written
  <2> HIDE DEF head, rest, o
  <2> DEFINE front == head \o d
             w == front \o rest
  <2>6. /\ front \in Seq(Byte) /\ Len(front) = n
        /\ \A k \in 1..n : front[k] = IF k <= off THEN head[k] ELSE d[k - off]
    BY <2>1, ConcatProperties
  <2> HIDE DEF front
  <2>7. /\ w \in Seq(Byte) /\ Len(w) = n + Len(rest)
        /\ \A k \in 1..(n + Len(rest)) :
             w[k] = IF k <= n THEN front[k] ELSE rest[k - n]
    <3>1. w = front \o rest
      OBVIOUS
    <3>2. rest \in Seq(Byte) /\ front \in Seq(Byte)
      BY <2>2, <2>6
    <3>3. /\ w \in Seq(Byte) /\ Len(w) = Len(front) + Len(rest)
          /\ \A k \in 1..(Len(front) + Len(rest)) :
               w[k] = IF k <= Len(front) THEN front[k] ELSE rest[k - Len(front)]
      BY <3>1, <3>2, ConcatProperties
    <3> HIDE DEF w, n
    <3> QED BY <2>6, <3>3
  <2> HIDE DEF w
  <2>8. Len(w) = Len(o)
    <3>1. CASE n < Len(old)
      <4>1. Len(rest) = Len(old) - n /\ Len(o) = Len(old)
        BY <2>2, <2>4, <3>1
      <4> HIDE DEF n
      <4> QED BY <1>1, <2>7, <4>1
    <3>2. CASE ~(n < Len(old))
      <4>1. Len(rest) = 0 /\ Len(o) = n
        BY <2>2, <2>4, <3>2
      <4> HIDE DEF n
      <4> QED BY <1>1, <2>7, <4>1
    <3> QED BY <3>1, <3>2
  <2>a. Len(o) \in Nat /\ Len(rest) \in Nat
    BY <1>2, <2>2, LenProperties
  <2>9. ASSUME NEW k \in 1..Len(o)
        PROVE  o[k] = w[k]
    <3>1. k \in Nat /\ k >= 1 /\ k <= Len(w) /\ k \in 1..(n + Len(rest))
      <4> HIDE DEF n
      <4> QED BY <2>a, <2>7, <2>8
    <3>2. CASE k <= off
      <4>1. k <= n /\ k \in 1..n /\ k \in 1..off /\ ~(k > off)
        BY <1>1, <3>1, <3>2
      <4>2. w[k] = head[k]
        BY <2>6, <2>7, <3>1, <3>2, <4>1
      <4> QED BY <2>3, <2>4, <4>1, <4>2
    <3>3. CASE k > off /\ k <= n
      <4>1. k \in 1..n /\ ~(k <= off)
        BY <1>1, <3>1, <3>3
      <4>2. w[k] = d[k - off]
        BY <2>6, <2>7, <3>1, <3>3, <4>1
      <4> QED BY <2>4, <3>3, <4>2
    <3>4. CASE k > n
      <4>1. n < Len(old)
        <5>1. SUFFICES ASSUME ~(n < Len(old))
                       PROVE  FALSE
          OBVIOUS
        <5>2. Len(o) = n
          BY <2>4, <5>1
        <5> QED BY <2>a, <3>4, <5>2
      <4>2. Len(o) = Len(old)
        BY <2>4, <4>1
      <4>3. /\ k <= Len(old) /\ k - n \in 1..(Len(old) - n)
            /\ n + (k - n) = k /\ ~(k <= n) /\ ~(k > off /\ k <= n)
        <5> HIDE DEF n
        <5> QED BY <1>1, <3>1, <3>4, <4>2
      <4>4. w[k] = rest[k - n]
        BY <2>7, <3>1, <4>3
      <4>5. rest[k - n] = old[n + (k - n)]
        BY <2>2, <4>3
      <4>6. o[k] = old[k]
        BY <2>4, <4>3
      <4> QED BY <4>3, <4>4, <4>5, <4>6
    <3> QED BY <1>1, <3>1, <3>2, <3>3, <3>4
  <2>10. o = w
    BY <1>2, <2>7, <2>8, <2>9, SeqEqual DEF o
  <2> QED BY <2>5, <2>10 DEF o, w, front
<1> QED BY <1>3, <1>4

-----------------------------------------------------------------------------
(* What the store sees: the content of an inode, and the replies.          *)

Seen ==
  \A i \in Inodes :
    /\ Overwriting(i) = {} => ContentSeen(i) = node[i].content
    /\ \A s \in Overwriting(i) : ContentSeen(i) = data[s]

Replies == [s \in Sessions |-> ReplyOf(s)]

LEMMA SeenHolds ==
  ASSUME NoRemoval, TypeOK, SessionInv, Settled
  PROVE  Seen
<1> SUFFICES ASSUME NEW i \in Inodes, NEW s \in Overwriting(i)
             PROVE  ContentSeen(i) = data[s]
  BY DEF Seen, ContentSeen
<1> DEFINE c == CHOOSE t \in Overwriting(i) : TRUE
<1>1. c \in Overwriting(i)
  OBVIOUS
<1>2. \A t \in Overwriting(i) : t \in Sessions /\ Writing(t) /\ ifd[t] = i
  BY DEF Overwriting, Writing
<1>3. c = s
  BY <1>1, <1>2, AccessIsExclusive DEF ExclusiveAccess
<1> QED BY <1>3 DEF ContentSeen

\* The same, of the state a step leads to.
LEMMA SeenNext ==
  ASSUME NoRemoval
  PROVE  /\ TypeOK' /\ SessionInv' /\ Settled' => Seen' /\ ExclusiveAccess'
         /\ TypeOK /\ SessionInv /\ Settled => Seen /\ ExclusiveAccess
<1>1. TypeOK /\ SessionInv /\ Settled => Seen /\ ExclusiveAccess
  BY SeenHolds, AccessIsExclusive
<1> QED BY <1>1, PTL

LEMMA OthersSeen ==
  ASSUME TypeOK, NEW s \in Sessions, Act(s), NEW t \in Sessions \ {s}, NEW i
  PROVE  /\ t \in Overwriting(i)' <=> t \in Overwriting(i)
         /\ data'[t] = data[t]
         /\ ReplyOf(t)' = ReplyOf(t)
<1>1. /\ pc'[t] = pc[t] /\ req'[t] = req[t] /\ ifd'[t] = ifd[t]
      /\ data'[t] = data[t] /\ size'[t] = size[t]
  BY OthersKept, OthersBuffers DEF Act
<1>2. Offset(t)' = Offset(t) /\ Measured(t)' = Measured(t)
  BY <1>1 DEF Offset, Measured
<1> QED BY <1>1, <1>2 DEF Overwriting, ReplyOf

\* What is seen of an inode changes only if its bytes do, or if the session
\* that acts begins or ends an overwriting of it.
LEMMA SeenKept ==
  ASSUME NoRemoval, TypeOK, SessionInv, Settled, TypeOK', SessionInv', Settled',
         NEW s \in Sessions, Act(s), NEW i \in Inodes,
         s \notin Overwriting(i), s \notin Overwriting(i)',
         node'[i].content = node[i].content
  PROVE  ContentSeen(i)' = ContentSeen(i)
<1>1. Seen /\ Seen'
  BY SeenNext
<1>2. Overwriting(i) \subseteq Sessions /\ Overwriting(i)' \subseteq Sessions
  BY DEF Overwriting
<1>3. Overwriting(i)' = Overwriting(i)
  BY <1>2, OthersSeen
<1>4. CASE Overwriting(i) = {}
  BY <1>1, <1>3, <1>4 DEF Seen
<1>5. ASSUME NEW t \in Overwriting(i)
      PROVE  ContentSeen(i)' = ContentSeen(i)
  <2>1. t \in Sessions \ {s} /\ t \in Overwriting(i)'
    BY <1>2, <1>3, <1>5
  <2>2. data'[t] = data[t]
    BY <2>1, OthersSeen
  <2>3. ContentSeen(i) = data[t] /\ ContentSeen(i)' = data'[t]
    BY <1>1, <1>5, <2>1 DEF Seen
  <2> QED BY <2>2, <2>3
<1> QED BY <1>4, <1>5

LEMMA RepliesKept ==
  ASSUME TypeOK, NEW s \in Sessions, Act(s), ReplyOf(s)' = ReplyOf(s)
  PROVE  Replies' = Replies
BY OthersSeen DEF Replies

LEMMA RepliesChange ==
  ASSUME TypeOK, NEW s \in Sessions, Act(s)
  PROVE  Replies' = [Replies EXCEPT ![s] = ReplyOf(s)']
BY OthersSeen DEF Replies

-----------------------------------------------------------------------------
(* What the store sees of the files.                                       *)

LEMMA StoredKept ==
  ASSUME FilesTyped, dir' = dir,
         \A i \in Inodes : node'[i].kind = node[i].kind
                           /\ ContentSeen(i)' = ContentSeen(i)
  PROVE  StoredFiles' = StoredFiles
<1>1. \A n \in DOMAIN dir : dir[n] \in Inodes
  BY DEF FilesTyped
<1>2. \A n : IsFile(n)' <=> IsFile(n)
  BY <1>1 DEF IsFile, Exists
<1>3. {m \in DOMAIN dir : IsFile(m)}' = {m \in DOMAIN dir : IsFile(m)}
  BY <1>2
<1> QED BY <1>1, <1>3 DEF StoredFiles

LEMMA StoredWritten ==
  ASSUME FilesTyped, NamesDistinct, dir' = dir, NEW n, IsFile(n), NEW c,
         NEW i \in Inodes, dir[n] = i, ContentSeen(i)' = c,
         \A j \in Inodes : /\ node'[j].kind = node[j].kind
                           /\ j # i => ContentSeen(j)' = ContentSeen(j)
  PROVE  /\ n \in DOMAIN StoredFiles
         /\ StoredFiles[n] = ContentSeen(i)
         /\ StoredFiles' = [StoredFiles EXCEPT ![n] = c]
<1>1. n \in DOMAIN dir /\ \A m \in DOMAIN dir : dir[m] \in Inodes
  BY DEF FilesTyped, IsFile, Exists
<1>2. \A m : IsFile(m)' <=> IsFile(m)
  BY <1>1 DEF IsFile, Exists
<1>3. {m \in DOMAIN dir : IsFile(m)}' = {m \in DOMAIN dir : IsFile(m)}
  BY <1>2
<1>4. \A m \in DOMAIN dir : m # n => dir[m] # i
  BY <1>1 DEF NamesDistinct
<1> QED BY <1>1, <1>3, <1>4 DEF StoredFiles

LEMMA StoredMade ==
  ASSUME FilesTyped, NEW n, NEW i \in Inodes, NEW k \in Kind, NEW m,
         ~Exists(n), MakeNode(n, i, k, m),
         \A j \in Inodes : j # i => ContentSeen(j)' = ContentSeen(j),
         ContentSeen(i)' = <<>>
  PROVE  /\ n \notin DOMAIN StoredFiles
         /\ k = "file" => StoredFiles' = [x \in DOMAIN StoredFiles \cup {n} |->
                                            IF x = n THEN <<>> ELSE StoredFiles[x]]
         /\ k = "dir"  => StoredFiles' = StoredFiles
<1> DEFINE F  == {x \in DOMAIN dir : IsFile(x)}
           F1 == {x \in DOMAIN dir' : IsFile(x)'}
<1>1. /\ n \notin DOMAIN dir
      /\ \A x \in DOMAIN dir : dir[x] \in Inodes /\ dir[x] # i
      /\ DOMAIN dir' = DOMAIN dir \cup {n}
      /\ dir'[n] = i
      /\ \A x \in DOMAIN dir : dir'[x] = dir[x]
  BY DEF MakeNode, Bind, Exists, Free, FilesTyped
<1>2. node'[i].kind = k /\ \A j \in Inodes : j # i => node'[j] = node[j]
  BY DEF MakeNode, Fresh, FilesTyped
<1>3. \A x \in DOMAIN dir : IsFile(x)' <=> IsFile(x)
  BY <1>1, <1>2 DEF IsFile, Exists
<1>4. IsFile(n)' <=> k = "file"
  BY <1>1, <1>2 DEF IsFile, Exists
<1>5. F1 = IF k = "file" THEN F \cup {n} ELSE F
  BY <1>1, <1>3, <1>4
<1>6. \A x \in F : ContentSeen(dir[x])' = ContentSeen(dir[x])
  BY <1>1
<1>7. DOMAIN StoredFiles = F /\ DOMAIN StoredFiles' = F1
  BY DEF StoredFiles
<1>8. \A x \in F : StoredFiles'[x] = StoredFiles[x]
  BY <1>1, <1>5, <1>6 DEF StoredFiles
<1>9. n \in F1 => StoredFiles'[n] = <<>>
  BY <1>1 DEF StoredFiles
<1> QED BY <1>1, <1>5, <1>7, <1>8, <1>9 DEF StoredFiles

-----------------------------------------------------------------------------
(* The steps of the handlers, as steps of the store.                       *)

Good == TypeOK /\ SessionInv /\ Settled /\ StoreInv

StoreVars == <<StoredFiles, Replies>>

\* Which steps are taken from write, reply and send, and which lead there.
LEMMA FromWrite ==
  ASSUME TypeOK, NEW s \in Sessions, Act(s)
  PROVE  /\ pc[s] = "write" => FsWrite(s)
         /\ pc[s] = "reply" => ReadUnlock(s)
         /\ pc[s] = "send" => SendAnswer(s)
<1> DEFINE here == pc[s] \in {"write", "reply", "send"}
<1>1. ~(here /\ (Begin(s) \/ Receive(s) \/ ReceiveFails(s) \/ LockInterrupted(s)
                \/ GetLock(s)))
  BY DEF Begin, Receive, ReceiveFails, LockInterrupted, GetLock
<1>2. ~(here /\ (DownloadStat(s) \/ OpenToRead(s) \/ ReadStat(s) \/ FsReadOpen(s)
                \/ FsRead(s)))
  BY DEF DownloadStat, OpenToRead, ReadStat, FsReadOpen, FsRead, At
<1>3. ~(here /\ (OpenToWrite(s) \/ FsCreate(s) \/ FsReopen(s) \/ FsTruncate(s)))
  BY DEF OpenToWrite, FsCreate, FsReopen, FsTruncate, At
<1>4. ~(here /\ (Create(s) \/ CheckTarget(s) \/ OpenToLock(s) \/ Chmod(s)
                \/ RemoveRecursive(s)))
  BY DEF Create, CheckTarget, OpenToLock, Chmod, RemoveRecursive, DeleteLockFile,
     DeleteLook, DeleteFile, DeleteOpenDir, DeleteDir, At
<1>5. ~(here /\ (MoveCheck(s) \/ MoveOpenSource(s) \/ MoveOpenLockFile(s)
                \/ Rename(s) \/ MoveUnlock(s) \/ MoveUnlink(s)))
  BY DEF MoveCheck, MoveOpenSource, MoveOpenLockFile, Rename, MoveUnlock,
     MoveUnlink, At
<1>6. /\ FsWrite(s) => pc[s] = "write"
      /\ ReadUnlock(s) => pc[s] = "reply"
      /\ SendAnswer(s) => pc[s] = "send"
  BY DEF FsWrite, ReadUnlock, SendAnswer
<1> HIDE DEF here
<1>7. here => FsWrite(s) \/ ReadUnlock(s) \/ SendAnswer(s)
  BY <1>1, <1>2, <1>3, <1>4, <1>5 DEF Act, HandlerStep, ClientStep
<1> QED BY <1>6, <1>7 DEF here

LEMMA ToWrite ==
  ASSUME TypeOK, SessionInv, NEW s \in Sessions, Act(s), ~FsTruncate(s)
  PROVE  /\ pc'[s] = "write" => Offset(s)' # 0
         /\ pc'[s] = "reply" => FsRead(s)
<1>a. pc \in [Sessions -> PC]
  BY DEF TypeOK, SessionsTyped
<1>b. \A st : ~Finish(s, st) \/ pc'[s] = "idle"
  BY FinishEnds
<1>1. CASE FsCreate(s) \/ FsReopen(s)
  <2>1. \/ pc'[s] \in {"reopen", "idle"}
        \/ \E i : StartWriting(s, i)
    BY <1>1, <1>a, <1>b DEF FsCreate, FsReopen, Fail, Goto
  <2> QED BY <2>1, StartWritingFacts
<1>2. CASE ReadStat(s) \/ FsReadOpen(s) \/ Receive(s)
  BY <1>2, <1>a, <1>b DEF ReadStat, FsReadOpen, Receive, Fail, Goto
<1>3. CASE FsRead(s)
  BY <1>3, <1>a, <1>b DEF FsRead, Fail, Goto
<1> QED BY <1>1, <1>2, <1>3, InnerSteps DEF Inner

LEMMA ToSend ==
  ASSUME TypeOK, SessionInv, NEW s \in Sessions, Act(s), pc'[s] = "send"
  PROVE  ReadUnlock(s)
<1>a. pc \in [Sessions -> PC]
  BY DEF TypeOK, SessionsTyped
<1>b. \A st : ~Finish(s, st)
  BY FinishEnds
<1>1. ~Begin(s)
  <2>1. SUFFICES ASSUME Begin(s)
                 PROVE  FALSE
    OBVIOUS
  <2>2. PICK r \in Requests : pc'[s] = FirstStep(r.op)
    BY <1>a, <2>1 DEF Begin, Goto
  <2>3. FirstStep(r.op) \in {"open", "check", "create"}
    BY RequestTyped DEF FirstStep, Op
  <2> QED BY <2>2, <2>3
<1>2. ~GetLock(s)
  <2>1. SUFFICES ASSUME GetLock(s)
                 PROVE  FALSE
    OBVIOUS
  <2>2. pc'[s] = AfterLock(req[s].op)
    BY <1>a, <2>1 DEF GetLock, Goto
  <2>3. AfterLock(req[s].op) # "send"
    BY <2>1, ControlFacts, RequestTyped DEF GetLock, SessionInv, Control, AfterLock, Op
  <2> QED BY <2>2, <2>3
<1>3. ~(LockInterrupted(s) \/ Receive(s) \/ ReceiveFails(s) \/ SendAnswer(s))
  BY <1>a, <1>b DEF LockInterrupted, Receive, ReceiveFails, SendAnswer, Fail, Goto
<1>4. ~(DownloadStat(s) \/ OpenToRead(s) \/ ReadStat(s) \/ FsReadOpen(s) \/ FsRead(s))
  BY <1>a, <1>b DEF DownloadStat, OpenToRead, ReadStat, FsReadOpen, FsRead, Fail, Goto
<1>5. ~(OpenToWrite(s) \/ FsCreate(s) \/ FsReopen(s) \/ FsTruncate(s) \/ FsWrite(s))
  BY <1>a, <1>b DEF OpenToWrite, FsCreate, FsReopen, StartWriting, FsTruncate,
     FsWrite, Fail, Goto
<1>6. ~(Create(s) \/ CheckTarget(s) \/ OpenToLock(s) \/ Chmod(s) \/ RemoveRecursive(s))
  BY <1>a, <1>b DEF Create, CheckTarget, OpenToLock, Chmod, RemoveRecursive,
     DeleteLockFile, DeleteLook, DeleteFile, DeleteOpenDir, DeleteDir, Fail, Goto
<1>7. ~(\/ MoveCheck(s) \/ MoveOpenSource(s) \/ MoveOpenLockFile(s)
        \/ Rename(s) \/ MoveUnlock(s) \/ MoveUnlink(s))
  BY <1>a, <1>b DEF MoveCheck, MoveOpenSource, MoveOpenLockFile, Rename,
     MoveUnlock, MoveUnlink, Fail, Goto
<1> QED BY <1>1, <1>2, <1>3, <1>4, <1>5, <1>6, <1>7 DEF Act, HandlerStep, ClientStep

\* A handler that is not overwriting, before or after its step.
LEMMA NotOverwriting ==
  ASSUME TypeOK, SessionInv, NEW s \in Sessions, Act(s), ~Rewrites(s), NEW i
  PROVE  s \notin Overwriting(i) /\ s \notin Overwriting(i)'
<1>1. pc[s] # "write" /\ ~FsTruncate(s)
  BY FromWrite DEF Rewrites
<1>2. ~(pc'[s] = "write" /\ Offset(s)' = 0)
  BY <1>1, ToWrite
<1> QED BY <1>1, <1>2 DEF Overwriting

LEMMA UntouchedFiles ==
  ASSUME NoRemoval, Good, Good', NEW s \in Sessions, Act(s), ~Rewrites(s),
         dir' = dir, node' = node
  PROVE  StoredFiles' = StoredFiles
<1>1. \A j \in Inodes : ContentSeen(j)' = ContentSeen(j)
  BY NotOverwriting, SeenKept DEF Good
<1> QED BY <1>1, StoredKept DEF Good, TypeOK

\* Every step but ftruncate and write: the store is as it was, or has one more
\* file, which is empty.
LEMMA QuietFiles ==
  ASSUME NoRemoval, Good, Good', NEW s \in Sessions, Act(s), ~Rewrites(s)
  PROVE  StoredFiles' = StoredFiles \/ \E n \in {r.path : r \in Requests} :
           /\ n \notin DOMAIN StoredFiles
           /\ StoredFiles' = [x \in DOMAIN StoredFiles \cup {n} |->
                                IF x = n THEN <<>> ELSE StoredFiles[x]]
<1> USE DEF Good, TypeOK
<1>a. \A i \in Inodes : node'[i].content = node[i].content
                          => ContentSeen(i)' = ContentSeen(i)
  BY NotOverwriting, SeenKept
<1>1. CASE FilesKept
  BY <1>1, <1>a, StoredKept DEF FilesKept
<1>2. ASSUME NEW i \in Inodes, NEW k \in Kind, MakesFile(s, i, k)
      PROVE  \/ StoredFiles' = StoredFiles
             \/ /\ req[s].path \notin DOMAIN StoredFiles
                /\ StoredFiles' = [x \in DOMAIN StoredFiles \cup {req[s].path} |->
                                IF x = req[s].path THEN <<>> ELSE StoredFiles[x]]
  <2>1. PICK m \in Mode : MakeNode(req[s].path, i, k, m)
    BY <1>2 DEF MakesFile
  <2>2. ~Exists(req[s].path)
    BY <1>2 DEF MakesFile
  <2>3. \A j \in Inodes : j # i => node'[j] = node[j]
    BY <2>1 DEF MakeNode, FilesTyped
  <2>4. \A j \in Inodes : j # i => ContentSeen(j)' = ContentSeen(j)
    BY <1>a, <2>3
  <2>5. node'[i].content = <<>> /\ Free(i)
    BY <2>1 DEF MakeNode, Fresh, FilesTyped
  <2>6. Overwriting(i)' = {}
    <3>1. \A t \in Sessions : t # s => t \notin Overwriting(i)
      BY <2>5 DEF Free, Overwriting
    <3>2. \A t \in Sessions : t \notin Overwriting(i)'
      BY <3>1, NotOverwriting, OthersSeen
    <3> QED BY <3>2 DEF Overwriting
  <2>7. ContentSeen(i)' = <<>>
    BY <2>5, <2>6 DEF ContentSeen
  <2>8. k = "file" \/ k = "dir"
    BY DEF Kind
  <2> QED BY <2>1, <2>2, <2>4, <2>7, <2>8, StoredMade
<1>3. \A i \in Inodes, k \in Kind : MakesFile(s, i, k) => req[s] \in Requests
  BY DEF MakesFile
<1> QED BY <1>1, <1>2, <1>3, FilesChange

\* From the look at the size until the read, a DOWNLOAD touches no file, and
\* it keeps the size or gives up.
LEMMA FromMeasured ==
  ASSUME TypeOK, SessionInv, NEW s \in Sessions, Act(s), Measured(s), ~FsRead(s)
  PROVE  /\ UNCHANGED fsVars
         /\ ReplyOf(s)' = ReplyOf(s) \/ ReplyOf(s)' = Store!None
<1> USE DEF Measured
<1>a. /\ pc \in [Sessions -> PC] /\ size \in [Sessions -> Nat]
      /\ req \in [Sessions -> Requests \cup {NoRequest}]
  BY DEF TypeOK, SessionsTyped
<1>1. \/ OpenToRead(s) \/ GetLock(s) \/ LockInterrupted(s) \/ FsReadOpen(s)
  <2>1. ~(Begin(s) \/ Receive(s) \/ ReceiveFails(s) \/ SendAnswer(s))
    BY DEF Begin, Receive, ReceiveFails, SendAnswer
  <2>2. ~(DownloadStat(s) \/ ReadStat(s) \/ ReadUnlock(s))
    BY DEF DownloadStat, ReadStat, ReadUnlock, At
  <2>3. ~(OpenToWrite(s) \/ FsCreate(s) \/ FsReopen(s) \/ FsTruncate(s) \/ FsWrite(s))
    BY DEF OpenToWrite, FsCreate, FsReopen, FsTruncate, FsWrite, At, Writers
  <2>4. ~(Create(s) \/ CheckTarget(s) \/ OpenToLock(s) \/ Chmod(s) \/ RemoveRecursive(s))
    BY DEF Create, CheckTarget, OpenToLock, Chmod, RemoveRecursive, DeleteLockFile,
       DeleteLook, DeleteFile, DeleteOpenDir, DeleteDir, At
  <2>5. ~(\/ MoveCheck(s) \/ MoveOpenSource(s) \/ MoveOpenLockFile(s)
          \/ Rename(s) \/ MoveUnlock(s) \/ MoveUnlink(s))
    BY DEF MoveCheck, MoveOpenSource, MoveOpenLockFile, Rename, MoveUnlock,
       MoveUnlink, At
  <2> QED BY <2>1, <2>2, <2>3, <2>4, <2>5 DEF Act, HandlerStep, ClientStep
<1>2. UNCHANGED fsVars
  BY <1>1 DEF OpenToRead, GetLock, LockInterrupted, FsReadOpen, Fail
<1>3. \/ \E st : Finish(s, st)
      \/ UNCHANGED <<req, size>> /\ pc'[s] \in {"lock", "fsopen", "read"}
  BY <1>1, <1>a DEF OpenToRead, GetLock, LockInterrupted, FsReadOpen, Fail, Goto,
     AfterLock, procVars
<1>4. ASSUME NEW st, Finish(s, st)
      PROVE  ReplyOf(s)' = Store!None
  <2>1. pc'[s] = "idle"
    BY <1>4, FinishEnds
  <2> QED BY <2>1 DEF ReplyOf, Store!None
<1>5. CASE UNCHANGED <<req, size>> /\ pc'[s] \in {"lock", "fsopen", "read"}
  BY <1>2, <1>5 DEF ReplyOf
<1> QED BY <1>2, <1>3, <1>4, <1>5

\* Only the look at the size makes a DOWNLOAD note one.
LEMMA ToMeasured ==
  ASSUME TypeOK, SessionInv, NEW s \in Sessions, Act(s), ~Measured(s),
         ~DownloadStat(s)
  PROVE  ~Measured(s)'
<1> DEFINE Goal == pc'[s] \notin {"open", "lock", "fsopen", "read"}
                   \/ req'[s].op # "download"
<1> SUFFICES Goal
  BY DEF Measured
<1>a. /\ pc \in [Sessions -> PC]
      /\ req \in [Sessions -> Requests \cup {NoRequest}]
  BY DEF TypeOK, SessionsTyped
<1>1. ASSUME NEW st, Finish(s, st)
      PROVE  Goal
  BY <1>1, FinishEnds
<1>2. CASE Begin(s)
  <2>1. PICK r \in Requests : req'[s] = r /\ pc'[s] = FirstStep(r.op)
    BY <1>2, <1>a DEF Begin, Goto
  <2> QED BY <2>1 DEF FirstStep
<1>3. CASE ReadStat(s) \/ FsReadOpen(s) \/ FsRead(s) \/ OpenToRead(s) \/ GetLock(s)
  <2>1. req' = req \/ \E st : Finish(s, st)
    BY <1>3 DEF ReadStat, FsReadOpen, FsRead, OpenToRead, GetLock, Fail, procVars
  <2>2. req[s].op # "download"
        \/ ~(ReadStat(s) \/ FsReadOpen(s) \/ FsRead(s) \/ OpenToRead(s) \/ GetLock(s))
    BY DEF ReadStat, FsReadOpen, FsRead, OpenToRead, GetLock, At, Measured
  <2> QED BY <1>1, <1>3, <2>1, <2>2
<1>4. CASE ReadUnlock(s) \/ FsTruncate(s) \/ MoveUnlock(s) \/ Receive(s)
  BY <1>4, <1>a DEF ReadUnlock, FsTruncate, MoveUnlock, Receive, Goto
<1>5. CASE OpenToWrite(s) \/ FsCreate(s) \/ FsReopen(s)
  <2>1. req' = req \/ \E st : Finish(s, st)
    BY <1>5 DEF OpenToWrite, FsCreate, FsReopen, StartWriting, Fail, procVars
  <2>2. req[s].op # "download"
    BY <1>5 DEF OpenToWrite, FsCreate, FsReopen, At, Writers, SessionInv, Control
  <2> QED BY <1>1, <2>1, <2>2
<1>6. CASE CheckTarget(s) \/ OpenToLock(s) \/ MoveCheck(s) \/ MoveOpenSource(s)
           \/ MoveOpenLockFile(s) \/ Rename(s)
  <2>1. req' = req \/ \E st : Finish(s, st)
    BY <1>6 DEF CheckTarget, OpenToLock, MoveCheck, MoveOpenSource,
       MoveOpenLockFile, Rename, Fail, procVars
  <2>2. req[s].op # "download"
    BY <1>6 DEF CheckTarget, OpenToLock, MoveCheck, MoveOpenSource,
       MoveOpenLockFile, Rename, At, SessionInv, Control
  <2> QED BY <1>1, <2>1, <2>2
<1>7. CASE RemoveRecursive(s)
  <2>1. pc'[s] \in {"look", "remove", "opendir", "rmdir"} \/ \E st : Finish(s, st)
    BY <1>7, <1>a DEF RemoveRecursive, DeleteLockFile, DeleteLook, DeleteFile,
       DeleteOpenDir, DeleteDir, Fail, Goto
  <2> QED BY <1>1, <2>1
<1>8. CASE \/ LockInterrupted(s) \/ ReceiveFails(s) \/ SendAnswer(s) \/ FsWrite(s)
           \/ Create(s) \/ Chmod(s) \/ MoveUnlink(s)
  <2>1. (\E st : Finish(s, st)) \/ pc'[s] = "apply"
    BY <1>8, <1>a DEF LockInterrupted, ReceiveFails, SendAnswer, FsWrite, Create,
       Chmod, MoveUnlink, Fail, Goto
  <2> QED BY <1>1, <2>1
<1> QED BY <1>2, <1>3, <1>4, <1>5, <1>6, <1>7, <1>8
        DEF Act, HandlerStep, ClientStep

\* Steps that neither look at a file nor send what was read: the reply stays
\* as it is, or a DOWNLOAD gives up.
LEMMA ReplyChange ==
  ASSUME TypeOK, SessionInv, NEW s \in Sessions, Act(s),
         ~DownloadStat(s), ~FsRead(s), ~SendAnswer(s)
  PROVE  \/ ReplyOf(s)' = ReplyOf(s)
         \/ Measured(s) /\ ReplyOf(s)' = Store!None /\ UNCHANGED fsVars
<1>1. CASE Measured(s)
  BY <1>1, FromMeasured
<1>2. CASE pc[s] = "reply"
  <2>1. ReadUnlock(s)
    BY <1>2, FromWrite
  <2>2. pc'[s] = "send" /\ UNCHANGED <<req, data>>
    BY <2>1 DEF ReadUnlock, Goto, TypeOK, SessionsTyped
  <2> QED BY <1>2, <2>2 DEF ReplyOf, Offset, Measured
<1>3. CASE ~Measured(s) /\ pc[s] # "reply"
  <2>1. pc[s] \notin {"reply", "send"}
    BY <1>3, FromWrite
  <2>2. pc'[s] # "reply"
    <3>1. ~FsTruncate(s) \/ pc'[s] = "write"
      BY DEF FsTruncate, Goto, TypeOK, SessionsTyped
    <3> QED BY <3>1, ToWrite
  <2>3. pc'[s] # "send"
    BY <2>1, ToSend DEF ReadUnlock
  <2>4. ~Measured(s)'
    BY <1>3, ToMeasured
  <2> QED BY <1>3, <2>1, <2>2, <2>3, <2>4 DEF ReplyOf
<1> QED BY <1>1, <1>2, <1>3

\* A step that neither begins a reply nor sends what was read.
LEMMA QuietStep ==
  ASSUME NoRemoval, Good, Good', NEW s \in Sessions, Act(s), ~Rewrites(s),
         ~DownloadStat(s), ~FsRead(s), ~SendAnswer(s)
  PROVE  [Store!Next]_StoreVars
<1>1. CASE Measured(s) /\ ReplyOf(s)' = Store!None /\ UNCHANGED fsVars
  <2>1. StoredFiles' = StoredFiles
    BY <1>1, UntouchedFiles DEF fsVars
  <2>2. Replies' = [Replies EXCEPT ![s] = Store!None]
    BY <1>1, RepliesChange DEF Good
  <2>3. Replies[s] # Store!None
    <3>1. Replies[s].op = "measured"
      BY <1>1 DEF Replies, ReplyOf, Measured
    <3> QED BY <3>1 DEF Store!None
  <2>4. Store!Send(s)
    BY <2>1, <2>2, <2>3 DEF Store!Send, Replies
  <2> QED BY <2>4 DEF Store!Next
<1>2. CASE ReplyOf(s)' = ReplyOf(s)
  <2>1. Replies' = Replies
    BY <1>2, RepliesKept DEF Good
  <2>2. CASE StoredFiles' = StoredFiles
    BY <2>1, <2>2 DEF StoreVars
  <2>3. ASSUME NEW n \in {r.path : r \in Requests}, n \notin DOMAIN StoredFiles,
               StoredFiles' = [x \in DOMAIN StoredFiles \cup {n} |->
                                 IF x = n THEN <<>> ELSE StoredFiles[x]]
        PROVE  Store!Next
    <3>1. Store!Create(n)
      BY <2>1, <2>3 DEF Store!Create, Replies
    <3> QED BY <3>1 DEF Store!Next
  <2> QED BY <2>2, <2>3, QuietFiles
<1> QED BY <1>1, <1>2, ReplyChange DEF Good

\* What the handler that reads or writes knows of its file.
LEMMA AtItsFile ==
  ASSUME Good, NEW s \in Sessions, pc[s] \in {"read", "trunc", "write"},
         node[ifd[s]].kind = "file"
  PROVE  /\ req[s] \in Requests /\ req[s].path \in {r.path : r \in Requests}
         /\ IsFile(req[s].path) /\ dir[req[s].path] = ifd[s]
         /\ ifd[s] \in Inodes /\ node[ifd[s]].content \in Seq(Byte)
<1>1. req[s] \in Requests /\ ifd[s] \in Inodes
  BY ControlFacts DEF Good
<1>2. fd[s] = ifd[s] /\ fd[s] # NoInode
  BY <1>1, ConstantsOK DEF Good, Settled
<1> QED BY <1>1, <1>2 DEF Good, Settled, IsFile, TypeOK, FilesTyped

\* Only the file of the writer is seen to change, and no reply is touched.
LEMMA RewriteFrame ==
  ASSUME NoRemoval, Good, Good', NEW s \in Sessions, Act(s), Rewrites(s),
         NEW i, ifd[s] = i
  PROVE  /\ i \in Inodes /\ dir' = dir /\ Replies' = Replies
         /\ node[i].kind = "file" /\ pc[s] \in {"trunc", "write"}
         /\ \A j \in Inodes : /\ node'[j].kind = node[j].kind
                              /\ j # i => ContentSeen(j)' = ContentSeen(j)
         /\ \A t \in Sessions \ {s} : t \notin Overwriting(i) /\ t \notin Overwriting(i)'
<1> USE DEF Good
<1>1. Writing(s) /\ pc[s] \in {"trunc", "write"} /\ dir' = dir
  BY DEF Rewrites, FsTruncate, FsWrite, Writing
<1>2. i \in Inodes /\ node[i].kind = "file"
  BY <1>1, ControlFacts DEF StoreInv, IntoFiles
<1>3. \A j \in Inodes : /\ node'[j].kind = node[j].kind
                        /\ j # i => node'[j] = node[j]
  <2>1. \E c : node' = [node EXCEPT ![i].content = c]
    BY DEF Rewrites, FsTruncate, FsWrite
  <2> QED BY <1>2, <2>1 DEF TypeOK, FilesTyped
<1>4. pc'[s] \in {"write", "idle"} /\ (pc'[s] = "write" => ifd'[s] = i)
  <2>1. CASE FsTruncate(s)
    BY <2>1 DEF FsTruncate, Goto, procVars, TypeOK, SessionsTyped
  <2>2. CASE FsWrite(s)
    <3>1. \E st : Finish(s, st)
      BY <2>2 DEF FsWrite
    <3>2. pc'[s] = "idle"
      BY <3>1, FinishEnds
    <3> QED BY <3>2
  <2> QED BY <2>1, <2>2 DEF Rewrites
<1>5. ReplyOf(s)' = ReplyOf(s)
  BY <1>1, <1>4 DEF ReplyOf, Measured
<1>6. Replies' = Replies
  BY <1>5, RepliesKept
<1>7. \A j \in Inodes : j # i => s \notin Overwriting(j) /\ s \notin Overwriting(j)'
  BY <1>4 DEF Overwriting
<1>8. \A j \in Inodes : j # i => ContentSeen(j)' = ContentSeen(j)
  BY <1>3, <1>7, SeenKept
<1>9. ASSUME NEW t \in Sessions \ {s}
      PROVE  t \notin Overwriting(i) /\ t \notin Overwriting(i)'
  <2>1. t \notin Overwriting(i)
    BY <1>1, AccessIsExclusive DEF ExclusiveAccess, Overwriting, Writing
  <2> QED BY <2>1, OthersSeen
<1> QED BY <1>1, <1>2, <1>3, <1>6, <1>8, <1>9

LEMMA TruncateStep ==
  ASSUME NoRemoval, Good, Good', NEW s \in Sessions, Act(s), FsTruncate(s)
  PROVE  [Store!Next]_StoreVars
<1> DEFINE n == req[s].path
<1>1. PICK i : ifd[s] = i
  OBVIOUS
<1>2. /\ i \in Inodes /\ dir' = dir /\ Replies' = Replies
      /\ node[i].kind = "file"
      /\ \A j \in Inodes : /\ node'[j].kind = node[j].kind
                           /\ j # i => ContentSeen(j)' = ContentSeen(j)
  BY <1>1, RewriteFrame DEF Rewrites
<1>3. n \in {r.path : r \in Requests} /\ IsFile(n) /\ dir[n] = i
  BY <1>1, <1>2, AtItsFile DEF FsTruncate
<1>4. data[s] \in Payloads /\ Offset(s) = 0
  BY DEF FsTruncate, Good, StoreInv, Buffered
<1>5. pc'[s] = "write" /\ UNCHANGED <<req, ifd, data>>
  BY DEF FsTruncate, Goto, procVars, Good, TypeOK, SessionsTyped
<1>6. s \in Overwriting(i)'
  BY <1>1, <1>4, <1>5 DEF Overwriting, Offset
<1>7. ContentSeen(i)' = data[s]
  BY <1>2, <1>5, <1>6, SeenNext DEF Seen, Good
<1>8. /\ n \in DOMAIN StoredFiles
      /\ StoredFiles' = [StoredFiles EXCEPT ![n] = data[s]]
  <2> HIDE DEF n
  <2> QED BY <1>2, <1>3, <1>7, StoredWritten DEF Good, TypeOK, StoreInv
<1>9. Store!Written(StoredFiles[n], data[s], 0) = data[s]
  BY DEF Store!Written
<1>10. Store!Write(n)
  BY <1>2, <1>4, <1>8, <1>9 DEF Store!Write, Replies
<1> QED BY <1>3, <1>10 DEF Store!Next

\* write() writes everything, and the handler is done.
LEMMA WriteFacts ==
  ASSUME ~DiskMayFill, TypeOK, SessionInv, NEW s \in Sessions, FsWrite(s),
         NEW i \in Inodes, ifd[s] = i
  PROVE  /\ node'[i].content = Overlay(node[i].content, data[s], Offset(s))
         /\ s \notin Overwriting(i)'
<1>1. data[s] \in Seq(Byte)
  BY DEF TypeOK, SessionsTyped
<1>2. PICK k \in 0..Len(data[s]) :
        /\ k < Len(data[s]) => DiskMayFill
        /\ node' = [node EXCEPT ![i].content =
                      Overlay(@, SubSeq(data[s], 1, k), Offset(s))]
        /\ \E st : Finish(s, st)
  BY DEF FsWrite
<1>3. k = Len(data[s])
  BY <1>1, <1>2, LenProperties
<1>4. SubSeq(data[s], 1, k) = data[s]
  BY <1>1, <1>3, SubSeqFull
<1>5. pc'[s] = "idle"
  BY <1>2, FinishEnds
<1>6. node'[i].content = Overlay(node[i].content, data[s], Offset(s))
  BY <1>2, <1>4 DEF TypeOK, FilesTyped
<1>7. s \notin Overwriting(i)'
  BY <1>5 DEF Overwriting
<1> QED BY <1>6, <1>7

LEMMA WriteStep ==
  ASSUME NoRemoval, ~DiskMayFill, Good, Good', NEW s \in Sessions, Act(s), FsWrite(s)
  PROVE  [Store!Next]_StoreVars
<1> DEFINE n == req[s].path
<1>0. PICK i : ifd[s] = i
  OBVIOUS
<1>1. /\ i \in Inodes /\ dir' = dir /\ Replies' = Replies
      /\ node[i].kind = "file" /\ pc[s] = "write"
      /\ \A j \in Inodes : /\ node'[j].kind = node[j].kind
                           /\ j # i => ContentSeen(j)' = ContentSeen(j)
      /\ \A t \in Sessions \ {s} : t \notin Overwriting(i) /\ t \notin Overwriting(i)'
  BY <1>0, RewriteFrame DEF Rewrites, FsWrite
<1>2. /\ req[s] \in Requests /\ n \in {r.path : r \in Requests}
      /\ IsFile(n) /\ dir[n] = i /\ node[i].content \in Seq(Byte)
  BY <1>0, <1>1, AtItsFile
<1>3. /\ node'[i].content = Overlay(node[i].content, data[s], Offset(s))
      /\ s \notin Overwriting(i)'
  BY <1>0, <1>1, WriteFacts DEF Good
<1>4. Overwriting(i)' = {}
  <2>1. Overwriting(i)' \subseteq Sessions
    BY DEF Overwriting
  <2> QED BY <1>1, <1>3, <2>1
<1>5. ContentSeen(i)' = Overlay(node[i].content, data[s], Offset(s))
  BY <1>3, <1>4 DEF ContentSeen
<1>6. data[s] \in Payloads /\ data[s] \in Seq(Byte)
  BY <1>1 DEF Good, StoreInv, Buffered, TypeOK, SessionsTyped
<1>7. Offset(s) \in Nat /\ Offset(s) \in {0} \cup {r.off : r \in Requests}
  BY <1>2, RequestTyped DEF Offset
<1>8. CASE Offset(s) = 0
  <2>1. node[i].content = <<>>
    BY <1>0, <1>1, <1>8 DEF Good, StoreInv, Emptied
  <2>2. ContentSeen(i)' = data[s]
    BY <1>5, <1>6, <1>8, <2>1, OverlayFromStart
  <2>3. s \in Overwriting(i)
    BY <1>0, <1>1, <1>8 DEF Overwriting
  <2>4. ContentSeen(i) = data[s]
    BY <1>1, <2>3, SeenHolds DEF Seen, Good
  <2>5. \A j \in Inodes : ContentSeen(j)' = ContentSeen(j)
    BY <1>1, <2>2, <2>4
  <2>6. StoredFiles' = StoredFiles
    BY <1>1, <2>5, StoredKept DEF Good, TypeOK
  <2> QED BY <1>1, <2>6 DEF StoreVars
<1>9. CASE Offset(s) > 0
  <2>1. Overwriting(i) = {}
    <3>1. s \notin Overwriting(i) /\ Overwriting(i) \subseteq Sessions
      BY <1>9 DEF Overwriting
    <3> QED BY <1>1, <3>1
  <2>2. ContentSeen(i) = node[i].content
    BY <2>1 DEF ContentSeen
  <2>3. ContentSeen(i)' = Store!Written(ContentSeen(i), data[s], Offset(s))
    BY <1>2, <1>5, <1>6, <1>7, <1>9, <2>2, OverlayIsWritten
  <2>4. /\ n \in DOMAIN StoredFiles
        /\ StoredFiles[n] = ContentSeen(i)
        /\ StoredFiles' = [StoredFiles EXCEPT ![n] =
                             Store!Written(ContentSeen(i), data[s], Offset(s))]
    <3> HIDE DEF n
    <3> QED BY <1>1, <1>2, <2>3, StoredWritten DEF Good, TypeOK, StoreInv
  <2>5. Store!Write(n)
    BY <1>1, <1>6, <1>7, <2>4 DEF Store!Write, Replies
  <2> QED BY <1>2, <2>5 DEF Store!Next
<1> QED BY <1>7, <1>8, <1>9

\* The bytes a READ or DOWNLOAD takes from an inode that nobody is writing.
LEMMA ReadFacts ==
  ASSUME NoRemoval, Good, NEW s \in Sessions, FsRead(s), pc'[s] = "reply",
         NEW i, ifd[s] = i
  PROVE  /\ i \in Inodes /\ node[i].kind = "file" /\ UNCHANGED <<dir, node, req>>
         /\ data'[s] = ReadBytes(node[i].content, Offset(s), size[s])
         /\ ContentSeen(i) = node[i].content
<1> USE DEF Good
<1>1. pc[s] = "read" /\ i \in Inodes
  BY ControlFacts DEF FsRead
<1>2. \A st : ~Finish(s, st)
  BY FinishEnds
<1>3. /\ node[i].kind = "file" /\ UNCHANGED <<dir, node, req>>
      /\ data' = [data EXCEPT ![s] = ReadBytes(node[i].content, Offset(s), size[s])]
  BY <1>2 DEF FsRead, Fail, fsVars
<1>4. Overwriting(i) = {}
  <2>1. \A t \in Sessions : t # s /\ Writing(t) => ifd[t] # i
    BY <1>1, AccessIsExclusive DEF ExclusiveAccess
  <2> QED BY <1>1, <2>1 DEF Overwriting, Writing
<1> QED BY <1>1, <1>3, <1>4 DEF ContentSeen, TypeOK, SessionsTyped

LEMMA ReadBytesIs ==
  ASSUME NEW c \in Seq(Byte), NEW off \in Nat, NEW n \in Nat
  PROVE  /\ off < Len(c) /\ n = Len(c) - off
              => ReadBytes(c, off, n) = SubSeq(c, off + 1, Len(c))
         /\ ReadBytes(c, 0, n) = SubSeq(c, 1, IF n < Len(c) THEN n ELSE Len(c))
<1>1. Len(c) \in Nat
  BY LenProperties
<1>2. ASSUME off < Len(c), n = Len(c) - off
      PROVE  ReadBytes(c, off, n) = SubSeq(c, off + 1, Len(c))
  <2>1. ~(off + n < Len(c))
    BY <1>1, <1>2
  <2> QED BY <2>1 DEF ReadBytes
<1>3. 0 + 1 = 1 /\ 0 + n = n
  OBVIOUS
<1>4. ReadBytes(c, 0, n) = SubSeq(c, 1, IF n < Len(c) THEN n ELSE Len(c))
  BY <1>3 DEF ReadBytes
<1> QED BY <1>2, <1>4

\* The look of DOWNLOAD: the size of the file, or 0 while it is overwritten.
LEMMA MeasureStep ==
  ASSUME NoRemoval, Good, Good', NEW s \in Sessions, Act(s), DownloadStat(s)
  PROVE  [Store!Next]_StoreVars
<1> DEFINE n == req[s].path
<1>1. /\ pc[s] = "check" /\ req[s].op = "download" /\ ~Rewrites(s)
      /\ node' = node /\ dir' = dir
  BY DEF DownloadStat, At, Rewrites, FsTruncate, FsWrite, Fail, fsVars
<1>2. StoredFiles' = StoredFiles
  BY <1>1, UntouchedFiles
<1>3. Replies[s] = Store!None
  BY <1>1 DEF Replies, ReplyOf, Measured, Store!None
<1>4. CASE ~IsFile(n)
  <2>1. pc'[s] = "idle"
    BY <1>4, FinishEnds DEF DownloadStat, Fail, Good
  <2>2. ReplyOf(s)' = Store!None
    BY <2>1 DEF ReplyOf, Measured, Store!None
  <2>3. Replies' = Replies
    BY <1>3, <2>2, RepliesKept DEF Replies, Good
  <2> QED BY <1>2, <2>3 DEF StoreVars
<1>5. CASE IsFile(n)
  <2>1. /\ req' = req /\ pc'[s] = "open"
        /\ size'[s] = Len(node[dir[n]].content)
    BY <1>5 DEF DownloadStat, Goto, Good, TypeOK, SessionsTyped
  <2>2. dir[n] \in Inodes /\ n \in DOMAIN StoredFiles
        /\ StoredFiles[n] = ContentSeen(dir[n])
    BY <1>5 DEF IsFile, Exists, StoredFiles, Good, TypeOK, FilesTyped
  <2>3. size'[s] \in {0, Len(StoredFiles[n])}
    <3>1. CASE Overwriting(dir[n]) = {}
      BY <2>1, <2>2, <3>1 DEF ContentSeen
    <3>2. ASSUME NEW t \in Overwriting(dir[n])
          PROVE  size'[s] = 0
      <4>1. node[dir[n]].content = <<>>
        BY <3>2 DEF Overwriting, Good, StoreInv, Emptied
      <4> QED BY <2>1, <4>1
    <3> QED BY <3>1, <3>2
  <2>4. ReplyOf(s)' = [op |-> "measured", name |-> n, size |-> size'[s]]
    BY <1>1, <2>1 DEF ReplyOf, Measured
  <2>5. Replies' = [Replies EXCEPT ![s] =
                      [op |-> "measured", name |-> n, size |-> size'[s]]]
    BY <2>4, RepliesChange DEF Good
  <2>6. Store!Measure(s, n)
    BY <1>2, <1>3, <2>2, <2>3, <2>5 DEF Store!Measure, Replies
  <2>7. n \in {r.path : r \in Requests}
    BY <1>1, ControlFacts DEF Good
  <2> QED BY <2>6, <2>7 DEF Store!Next
<1> QED BY <1>4, <1>5

LEMMA ReadStep ==
  ASSUME NoRemoval, Good, Good', NEW s \in Sessions, Act(s), FsRead(s)
  PROVE  [Store!Next]_StoreVars
<1> DEFINE n == req[s].path
<1>0. PICK i : ifd[s] = i
  OBVIOUS
<1>a. pc[s] = "read" /\ ~Rewrites(s)
  BY DEF FsRead, Rewrites, FsTruncate, FsWrite
<1>b. node' = node /\ dir' = dir
  BY DEF FsRead, Fail, fsVars
<1>c. StoredFiles' = StoredFiles
  BY <1>a, <1>b, UntouchedFiles
<1>d. req[s].op \in {"read", "download"}
  BY <1>a, ControlFacts DEF Good
<1>e. Replies[s] = IF req[s].op = "read" THEN Store!None
                   ELSE [op |-> "measured", name |-> n, size |-> size[s]]
  BY <1>a, <1>d DEF Replies, ReplyOf, Measured, Store!None
<1>f. Replies' = [Replies EXCEPT ![s] = ReplyOf(s)']
  BY RepliesChange DEF Good
<1>1. CASE pc'[s] # "reply"
  <2>1. \E st : Finish(s, st)
    BY <1>1 DEF FsRead, Fail, Goto, Good, TypeOK, SessionsTyped
  <2>2. pc'[s] = "idle"
    BY <2>1, FinishEnds DEF Good
  <2>3. ReplyOf(s)' = Store!None
    BY <2>2 DEF ReplyOf, Measured, Store!None
  <2>4. CASE Replies[s] = Store!None
    <3>1. Replies' = Replies
      BY <2>3, <2>4, RepliesKept DEF Replies, Good
    <3> QED BY <1>c, <3>1 DEF StoreVars
  <2>5. CASE Replies[s] # Store!None
    <3>1. Store!Send(s)
      BY <1>c, <1>f, <2>3, <2>5 DEF Store!Send, Replies
    <3> QED BY <3>1 DEF Store!Next
  <2> QED BY <2>4, <2>5
<1>2. CASE pc'[s] = "reply"
  <2>1. /\ i \in Inodes /\ node[i].kind = "file" /\ req' = req
        /\ data'[s] = ReadBytes(node[i].content, Offset(s), size[s])
        /\ ContentSeen(i) = node[i].content
    BY <1>0, <1>2, ReadFacts
  <2>2. /\ req[s] \in Requests /\ n \in {r.path : r \in Requests}
        /\ IsFile(n) /\ dir[n] = i /\ node[i].content \in Seq(Byte)
    BY <1>0, <1>a, <2>1, AtItsFile
  <2>3. n \in DOMAIN StoredFiles /\ StoredFiles[n] = node[i].content
    BY <2>1, <2>2 DEF StoredFiles, IsFile, Exists
  <2>4. req[s].op \in {"read", "download"} /\ req[s].off \in Nat /\ size[s] \in Nat
    BY <1>a, <2>2, ControlFacts, RequestTyped DEF Good, TypeOK, SessionsTyped
  <2>5. ReplyOf(s)' = [op |-> req[s].op, name |-> n, off |-> Offset(s),
                       bytes |-> data'[s]]
    BY <1>2, <2>1 DEF ReplyOf, Offset, Measured
  <2>7. CASE req[s].op = "read"
    <3>1. Offset(s) = req[s].off /\ req[s].off \in {0} \cup {r.off : r \in Requests}
      BY <2>2, <2>7 DEF Offset
    <3>2. fd[s] = i
      BY <1>0, <1>a DEF Good, Settled
    <3>3. req[s].off < Len(node[i].content)
          /\ size[s] = Len(node[i].content) - req[s].off
      BY <1>a, <2>7, <3>2 DEF Good, StoreInv, SizeFound
    <3>4. data'[s] = SubSeq(StoredFiles[n], req[s].off + 1, Len(StoredFiles[n]))
      <4>1. ReadBytes(node[i].content, req[s].off, size[s])
              = SubSeq(node[i].content, req[s].off + 1, Len(node[i].content))
        BY <2>2, <2>4, <3>3, ReadBytesIs
      <4> HIDE DEF n
      <4> QED BY <2>1, <2>3, <3>1, <4>1
    <3>5. Replies' = [Replies EXCEPT ![s] =
            [op |-> "read", name |-> n, off |-> req[s].off,
             bytes |-> SubSeq(StoredFiles[n], req[s].off + 1, Len(StoredFiles[n]))]]
      BY <1>f, <2>5, <2>7, <3>1, <3>4
    <3>6. Store!Read(s, n)
      BY <1>c, <1>e, <2>3, <2>7, <3>1, <3>3, <3>5 DEF Store!Read, Replies
    <3> QED BY <2>2, <3>6 DEF Store!Next
  <2>8. CASE req[s].op = "download"
    <3>1. Offset(s) = 0
      BY <2>8 DEF Offset
    <3> DEFINE k == IF size[s] < Len(StoredFiles[n]) THEN size[s]
                    ELSE Len(StoredFiles[n])
    <3>2. data'[s] = SubSeq(StoredFiles[n], 1, k)
      <4>1. ReadBytes(node[i].content, 0, size[s])
              = SubSeq(node[i].content, 1, IF size[s] < Len(node[i].content)
                                           THEN size[s] ELSE Len(node[i].content))
        BY <2>2, <2>4, ReadBytesIs
      <4> HIDE DEF n
      <4> QED BY <2>1, <2>3, <3>1, <4>1
    <3>3. Replies' = [Replies EXCEPT ![s] =
            [op |-> "download", name |-> n, off |-> 0,
             bytes |-> SubSeq(StoredFiles[n], 1, k)]]
      <4> HIDE DEF k
      <4> QED BY <1>f, <2>5, <2>8, <3>1, <3>2
    <3>4. Replies[s] = [op |-> "measured", name |-> n, size |-> size[s]]
      BY <1>e, <2>8
    <3>5. /\ Replies[s].op = "measured" /\ Replies[s].name = n
          /\ Replies[s].size = size[s]
      BY <3>4
    <3>6. Store!Download(s)
      <4> HIDE DEF n
      <4> QED BY <1>c, <2>3, <3>3, <3>5 DEF Store!Download, Replies
    <3> QED BY <3>6 DEF Store!Next
  <2> QED BY <2>4, <2>7, <2>8
<1> QED BY <1>1, <1>2

LEMMA SendStep ==
  ASSUME NoRemoval, Good, Good', NEW s \in Sessions, Act(s), SendAnswer(s)
  PROVE  [Store!Next]_StoreVars
<1>1. /\ pc[s] = "send" /\ ~Rewrites(s) /\ node' = node /\ dir' = dir
      /\ \E st : Finish(s, st)
  BY DEF SendAnswer, Rewrites, FsTruncate, FsWrite, fsVars
<1>2. StoredFiles' = StoredFiles
  BY <1>1, UntouchedFiles
<1>3. pc'[s] = "idle"
  BY <1>1, FinishEnds DEF Good
<1>4. ReplyOf(s)' = Store!None
  BY <1>3 DEF ReplyOf, Measured, Store!None
<1>5. Replies' = [Replies EXCEPT ![s] = Store!None]
  BY <1>4, RepliesChange DEF Good
<1>6. Replies[s] # Store!None
  <2>1. req[s].op \in {"read", "download"}
    BY <1>1, ControlFacts DEF Good
  <2>2. Replies[s].op = req[s].op
    BY <1>1 DEF Replies, ReplyOf, Measured
  <2>3. Store!None.op = "none"
    BY DEF Store!None
  <2> QED BY <2>1, <2>2, <2>3
<1>7. Store!Send(s)
  BY <1>2, <1>5, <1>6 DEF Store!Send, Replies
<1> QED BY <1>7 DEF Store!Next

-----------------------------------------------------------------------------

\* Every step of the server is a step of the store, or leaves it alone.
LEMMA Simulation ==
  ASSUME NoRemoval, ~DiskMayFill, Good, Good', [Next]_vars
  PROVE  [Store!Next]_StoreVars
<1>1. CASE UNCHANGED vars
  <2>1. UNCHANGED <<dir, node, pc, req, ifd, size, data>>
    BY <1>1 DEF vars, fsVars, procVars
  <2>2. \A s \in Sessions : Offset(s)' = Offset(s)
    BY <2>1 DEF Offset
  <2>3. \A i : Overwriting(i)' = Overwriting(i)
    BY <2>1, <2>2 DEF Overwriting
  <2>4. \A i \in Inodes : ContentSeen(i)' = ContentSeen(i)
    BY <2>1, <2>3, SeenNext DEF Seen, Good
  <2>5. StoredFiles' = StoredFiles
    BY <2>1, <2>4, StoredKept DEF Good, TypeOK
  <2>6. Replies' = Replies
    BY <2>1, <2>2 DEF Replies, ReplyOf, Measured
  <2> QED BY <2>5, <2>6 DEF StoreVars
<1>2. ASSUME NEW s \in Sessions, Act(s)
      PROVE  [Store!Next]_StoreVars
  BY <1>2, QuietStep, TruncateStep, WriteStep, MeasureStep, ReadStep,
     SendStep DEF Rewrites
<1> QED BY <1>1, <1>2 DEF Next, Act

LEMMA InitiallyEmpty ==
  ASSUME Init
  PROVE  Store!Init
<1>1. DOMAIN dir = {} /\ \A s \in Sessions : pc[s] = "idle"
  BY DEF Init
<1>2. StoredFiles = [n \in {} |-> <<>>]
  BY <1>1 DEF StoredFiles
<1>3. Replies = [s \in Sessions |-> Store!None]
  BY <1>1 DEF Replies, ReplyOf, Measured, Store!None
<1> QED BY <1>2, <1>3 DEF Store!Init, Replies

(* For any number of sessions of the user, any files, commands without     *)
(* DELETE and MOVE, and any payloads, and as long as write() is not cut    *)
(* short: the handlers, with their locks, second descriptors, stat and     *)
(* ftruncate calls, behave like a store in which each WRITE and each READ  *)
(* happens at one instant.  A DOWNLOAD answers with what the file holds at *)
(* one instant too, but cut at the size it had at an earlier one.          *)
THEOREM ImplementsAtomicStoreHolds ==
  ASSUME NoRemoval, ~DiskMayFill
  PROVE  Spec => ImplementsAtomicStore
<1>1. Spec => []Good
  BY StoreInvariance, PTL DEF Good
<1>2. Init => Store!Init
  BY InitiallyEmpty
<1>3. Good /\ Good' /\ [Next]_vars => [Store!Next]_(Store!svars)
  BY Simulation DEF StoreVars, Store!svars, Replies
<1> QED BY <1>1, <1>2, <1>3, PTL DEF Spec, ImplementsAtomicStore, Store!Spec
=============================================================================

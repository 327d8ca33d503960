------------------------------ MODULE FileServer ------------------------------
(***************************************************************************)
(* The file commands of the server: what the child processes that serve    *)
(* the sessions of ONE user do, concurrently, to the files of that user's  *)
(* home directory.  isInsideHome confines every file command to the home   *)
(* of the logged-in user, so two handlers can only meet on a file when     *)
(* the same user has several sessions: a second terminal, or a background  *)
(* transfer, which logs in on a connection of its own.                     *)
(*                                                                         *)
(* A handler is a sequence of system calls, and each call that reads or    *)
(* writes shared state is a step of its own, because the scheduler may     *)
(* run another session's handler between any two of them.  A path is       *)
(* resolved anew by every call that takes one, whereas a descriptor stays  *)
(* with the inode it was opened on: the handlers lock a descriptor and     *)
(* then work on the path, and this model keeps the two apart.              *)
(***************************************************************************)
EXTENDS Integers, Sequences

CONSTANTS
  Sessions,   \* the child processes serving the user's connections
  Bases,      \* file names as a user types them, without any ".lock" ending
  Inodes,     \* the inodes the file system can hand out
  NoInode,    \* the value of a descriptor that is not open (fd = -1)
  Requests,   \* the commands the clients may send
  Payloads,   \* the byte strings the clients may send as file data
  DiskMayFill \* write() may write fewer bytes than it was given, or fail

(***************************************************************************)
(* A name is a base with a number of ".lock" endings; "%s.lock" appends    *)
(* one more.  The home directory is flat here.                             *)
(***************************************************************************)
Name == Bases \X Nat
LockOf(n) == <<n[1], n[2] + 1>>

Op   == {"read", "download", "write", "upload",
         "create", "chmod", "delete", "move"}
Mode == SUBSET {"r", "w"}      \* the owner bits open() looks at
Kind == {"file", "dir"}
Byte == Nat                    \* 0 is the byte a hole reads as

Request == [op : Op, path : Name, dst : Name, off : Nat, size : Nat,
            mode : Mode, kind : Kind]
NoRequest == [op |-> "none"]

ASSUME ConstantsOK ==
  /\ NoInode \notin Inodes
  /\ Requests \subseteq Request
  /\ Payloads \subseteq Seq(Byte)
  /\ DiskMayFill \in BOOLEAN

VARIABLES
  dir,     \* the directory: a function from the names present to inodes
  node,    \* inode -> its kind, owner permission bits and content
  lock,    \* inode -> session -> the fcntl lock the process holds on it
  pc,      \* session -> the next step of its handler
  req,     \* session -> the command it is executing
  fd,      \* session -> inode of the descriptor it locks (fd, fd_dst_lock)
  ifd,     \* session -> inode of its other descriptor (of fsOps, fd_src)
  size,    \* session -> number of bytes the handler decided to read
  data,    \* session -> the buffer it received or read into
  status   \* session -> status of the last response

fsVars == <<dir, node>>
procVars == <<req, fd, ifd, size, data, status>>
vars == <<dir, node, lock, pc, procVars>>

LockMode == {"none", "shared", "excl"}
PC == {"idle", "check", "create", "open", "lockfile", "lock", "recv", "stat",
       "excl", "reopen", "trunc", "write", "fsopen", "read", "reply", "send",
       "apply", "look", "remove", "opendir", "rmdir", "unlock", "unlink"}

-----------------------------------------------------------------------------
(* The file system, as the handlers use it.                                *)

Fresh(k, m) == [kind |-> k, mode |-> m, content |-> <<>>]

Exists(n) == n \in DOMAIN dir
IsFile(n) == Exists(n) /\ node[dir[n]].kind = "file"

\* open(n, access): every bit asked for is granted, and a directory cannot
\* be opened for writing (EISDIR).
CanOpen(n, access) ==
  /\ Exists(n)
  /\ access \subseteq node[dir[n]].mode
  /\ "w" \in access => node[dir[n]].kind = "file"

Bind(d, n, i) == [m \in DOMAIN d \cup {n} |-> IF m = n THEN i ELSE d[m]]
Unbind(d, n)  == [m \in DOMAIN d \ {n} |-> d[m]]

\* An inode can be handed out once no name and no descriptor refers to it.
Free(i) ==
  /\ \A n \in DOMAIN dir : dir[n] # i
  /\ \A s \in Sessions : fd[s] # i /\ ifd[s] # i

\* The file system is full: no name can be added (ENOSPC).
Full == \A i \in Inodes : ~Free(i)

MakeNode(n, i, k, m) ==
  /\ Free(i)
  /\ dir'  = Bind(dir, n, i)
  /\ node' = [node EXCEPT ![i] = Fresh(k, m)]

\* pwrite semantics: bytes before off stay, a gap reads as zeros.
Overlay(old, new, off) ==
  LET n == off + Len(new)
      len == IF new = <<>> \/ n < Len(old) THEN Len(old) ELSE n
  IN [k \in 1..len |-> IF k > off /\ k <= n THEN new[k - off]
                       ELSE IF k <= Len(old) THEN old[k] ELSE 0]

\* pread semantics: at most n bytes, fewer at the end of the file.
ReadBytes(content, off, n) ==
  SubSeq(content, off + 1,
         IF off + n < Len(content) THEN off + n ELSE Len(content))

\* fcntl locks belong to the process: a lock conflicts with other sessions
\* only, and closing ANY descriptor of an inode drops the lock on it.
Conflict(i, s, m) ==
  \E t \in Sessions \ {s} :
    lock[i][t] # "none" /\ (m = "excl" \/ lock[i][t] = "excl")

Closed(s, closing) ==
  [i \in Inodes |-> IF i \in closing THEN [lock[i] EXCEPT ![s] = "none"]
                    ELSE lock[i]]

-----------------------------------------------------------------------------
(* How a handler moves from step to step.                                  *)

\* UPLOAD and DOWNLOAD always start at the first byte.
Offset(s) == IF req[s].op \in {"read", "write"} THEN req[s].off ELSE 0

At(s, l, ops) == pc[s] = l /\ req[s].op \in ops
Goto(s, l) == pc' = [pc EXCEPT ![s] = l]

\* Unlock, close what is open, send the response, wait for the next command.
Finish(s, st) ==
  /\ Goto(s, "idle")
  /\ lock'   = Closed(s, {fd[s], ifd[s]})
  /\ req'    = [req EXCEPT ![s] = NoRequest]
  /\ fd'     = [fd EXCEPT ![s] = NoInode]
  /\ ifd'    = [ifd EXCEPT ![s] = NoInode]
  /\ size'   = [size EXCEPT ![s] = 0]
  /\ data'   = [data EXCEPT ![s] = <<>>]
  /\ status' = [status EXCEPT ![s] = st]

Fail(s) == Finish(s, "error") /\ UNCHANGED fsVars

FirstStep(op) ==
  CASE op \in {"read", "write", "upload"}             -> "open"
    [] op \in {"download", "chmod", "delete", "move"} -> "check"
    [] op = "create"                                  -> "create"

\* processCommand: the next message selects a handler.
Begin(s) ==
  /\ pc[s] = "idle"
  /\ \E r \in Requests :
       /\ req' = [req EXCEPT ![s] = r]
       /\ Goto(s, FirstStep(r.op))
  /\ status' = [status EXCEPT ![s] = "none"]
  /\ UNCHANGED <<fsVars, lock, fd, ifd, size, data>>

-----------------------------------------------------------------------------
(* Locks: lockFileRead and lockFileWrite block in F_SETLKW.                *)

Needed(op) == IF op \in {"read", "download"} THEN "shared" ELSE "excl"

AfterLock(op) ==
  CASE op = "read"                        -> "stat"
    [] op = "download"                    -> "fsopen"
    [] op \in {"write", "upload"}         -> "recv"
    [] op \in {"chmod", "delete", "move"} -> "apply"

\* Variant: F_SETLK instead of F_SETLKW, its failure ignored.
GetLockWithoutWaiting(s) ==
  /\ pc[s] = "lock"
  /\ lock' = IF Conflict(fd[s], s, Needed(req[s].op)) THEN lock
             ELSE [lock EXCEPT ![fd[s]][s] = Needed(req[s].op)]
  /\ Goto(s, AfterLock(req[s].op))
  /\ UNCHANGED <<fsVars, procVars>>

GetLock(s) ==
  /\ pc[s] = "lock"
  /\ ~Conflict(fd[s], s, Needed(req[s].op))
  /\ lock' = [lock EXCEPT ![fd[s]][s] = Needed(req[s].op)]
  /\ Goto(s, AfterLock(req[s].op))
  /\ UNCHANGED <<fsVars, procVars>>

\* A shutdown signal, whose handler is installed without SA_RESTART, makes
\* the waiting call fail with EINTR.  Every handler gives up, except
\* handleMove, which does not look at the result.
LockInterrupted(s) ==
  /\ pc[s] = "lock"
  /\ IF req[s].op = "move"
     THEN Goto(s, "apply") /\ UNCHANGED <<fsVars, lock, procVars>>
     ELSE Fail(s)

-----------------------------------------------------------------------------
(* READ and DOWNLOAD                                                       *)

\* handleDownload takes the size BEFORE it opens and locks the file.
DownloadStat(s) ==
  /\ At(s, "check", {"download"})
  /\ IF IsFile(req[s].path)
     THEN /\ size' = [size EXCEPT ![s] = Len(node[dir[req[s].path]].content)]
          /\ Goto(s, "open")
          /\ UNCHANGED <<fsVars, lock, req, fd, ifd, data, status>>
     ELSE Fail(s)

\* Variant: readers do not lock.
OpenToReadUnlocked(s) ==
  /\ At(s, "open", {"read", "download"})
  /\ IF CanOpen(req[s].path, {"r"})
     THEN /\ fd' = [fd EXCEPT ![s] = dir[req[s].path]]
          /\ Goto(s, AfterLock(req[s].op))
          /\ UNCHANGED <<fsVars, lock, req, ifd, size, data, status>>
     ELSE Fail(s)

OpenToRead(s) ==
  /\ At(s, "open", {"read", "download"})
  /\ IF CanOpen(req[s].path, {"r"})
     THEN /\ fd' = [fd EXCEPT ![s] = dir[req[s].path]]
          /\ Goto(s, "lock")
          /\ UNCHANGED <<fsVars, lock, req, ifd, size, data, status>>
     ELSE Fail(s)

\* Variant: the offset is not clamped to the size.
ReadStatUnclamped(s) ==
  /\ At(s, "stat", {"read"})
  /\ IF IsFile(req[s].path)
     THEN /\ size' = [size EXCEPT ![s] =
                        Len(node[dir[req[s].path]].content) - req[s].off]
          /\ Goto(s, "fsopen")
          /\ UNCHANGED <<fsVars, lock, req, fd, ifd, data, status>>
     ELSE Fail(s)

\* Variant: the size comes from a second descriptor, closed at once.
ReadStatByDescriptor(s) ==
  /\ At(s, "stat", {"read"})
  /\ IF CanOpen(req[s].path, {"r"})
     THEN /\ size' = [size EXCEPT ![s] = Len(node[dir[req[s].path]].content)]
          /\ lock' = Closed(s, {dir[req[s].path]})
          /\ Goto(s, "fsopen")
          /\ UNCHANGED <<fsVars, req, fd, ifd, data, status>>
     ELSE Fail(s)

\* handleRead takes the size under the lock, and clamps the offset to it.
ReadStat(s) ==
  /\ At(s, "stat", {"read"})
  /\ IF IsFile(req[s].path)
     THEN LET len == Len(node[dir[req[s].path]].content)
          IN  IF req[s].off < len
              THEN /\ size' = [size EXCEPT ![s] = len - req[s].off]
                   /\ Goto(s, "fsopen")
                   /\ UNCHANGED <<fsVars, lock, req, fd, ifd, data, status>>
              ELSE Finish(s, "ok") /\ UNCHANGED fsVars
     ELSE Fail(s)

\* fsReadFile opens the path once more ...
FsReadOpen(s) ==
  /\ pc[s] = "fsopen"
  /\ IF CanOpen(req[s].path, {"r"})
     THEN /\ ifd' = [ifd EXCEPT ![s] = dir[req[s].path]]
          /\ Goto(s, "read")
          /\ UNCHANGED <<fsVars, lock, req, fd, size, data, status>>
     ELSE Fail(s)

\* ... reads, and closes that descriptor, which drops the lock if the path
\* still names the locked inode.  (read() of a directory fails.)
FsRead(s) ==
  /\ pc[s] = "read"
  /\ IF node[ifd[s]].kind = "file"
     THEN /\ data' = [data EXCEPT ![s] = ReadBytes(node[ifd[s]].content,
                                               Offset(s), size[s])]
          /\ lock' = Closed(s, {ifd[s]})
          /\ ifd'  = [ifd EXCEPT ![s] = NoInode]
          /\ Goto(s, "reply")
          /\ UNCHANGED <<fsVars, req, fd, size, status>>
     ELSE Fail(s)

\* Variant: unlocked and closed after the answer has been sent.
ReadUnlockLate(s) ==
  /\ pc[s] = "reply"
  /\ Goto(s, "send")
  /\ UNCHANGED <<fsVars, lock, procVars>>

\* The file is unlocked and closed before anything is sent ...
ReadUnlock(s) ==
  /\ pc[s] = "reply"
  /\ lock' = Closed(s, {fd[s]})
  /\ fd'   = [fd EXCEPT ![s] = NoInode]
  /\ Goto(s, "send")
  /\ UNCHANGED <<fsVars, req, ifd, size, data, status>>

\* ... because sendAll blocks for as long as the client does not read what it
\* has asked for.  Nobody looks at its result.
SendAnswer(s) ==
  /\ pc[s] = "send"
  /\ Finish(s, "ok")
  /\ UNCHANGED fsVars

-----------------------------------------------------------------------------
(* WRITE and UPLOAD                                                        *)

Writers == {"write", "upload"}

\* Variant: O_TRUNC.
OpenToWriteTruncating(s) ==
  /\ At(s, "open", Writers)
  /\ CanOpen(req[s].path, {"w"}) \/ ~Exists(req[s].path)
  /\ IF Exists(req[s].path)
     THEN /\ node' = [node EXCEPT ![dir[req[s].path]].content = <<>>]
          /\ fd' = [fd EXCEPT ![s] = dir[req[s].path]]
          /\ UNCHANGED dir
     ELSE \E i \in Inodes : /\ MakeNode(req[s].path, i, "file", {"r", "w"})
                            /\ fd' = [fd EXCEPT ![s] = i]
  /\ Goto(s, "lock")
  /\ UNCHANGED <<lock, req, ifd, size, data, status>>

\* open(path, O_WRONLY | O_CREAT, 0700): an existing file keeps its bytes.
OpenToWrite(s) ==
  /\ At(s, "open", Writers)
  /\ LET p == req[s].path IN
       \/ /\ ~Exists(p)
          /\ \E i \in Inodes : /\ MakeNode(p, i, "file", {"r", "w"})
                               /\ fd' = [fd EXCEPT ![s] = i]
          /\ Goto(s, "lock")
          /\ UNCHANGED <<lock, req, ifd, size, data, status>>
       \/ /\ CanOpen(p, {"w"})
          /\ fd' = [fd EXCEPT ![s] = dir[p]]
          /\ Goto(s, "lock")
          /\ UNCHANGED <<fsVars, lock, req, ifd, size, data, status>>
       \/ /\ IF Exists(p) THEN ~CanOpen(p, {"w"}) ELSE Full
          /\ Fail(s)

\* The data arrives in full: as many bytes as the UPLOAD message announced,
\* or as the client's size prefix says.
Receive(s) ==
  /\ pc[s] = "recv"
  /\ \E d \in Payloads :
       /\ req[s].op = "upload" => Len(d) = req[s].size
       /\ data' = [data EXCEPT ![s] = d]
  /\ Goto(s, "excl")
  /\ UNCHANGED <<fsVars, lock, req, fd, ifd, size, status>>

\* Variant: the error path forgets unlockFile and close.
ReceiveFailsLocked(s) ==
  /\ pc[s] = "recv"
  /\ Goto(s, "idle")
  /\ req' = [req EXCEPT ![s] = NoRequest]
  /\ status' = [status EXCEPT ![s] = "error"]
  /\ UNCHANGED <<fsVars, lock, fd, ifd, size, data>>

\* recvAll fails (the client is gone, a signal) or malloc does: the handler
\* gives up; a gone client's next receiveMessage ends the child, and another
\* connection of the user takes its place.
ReceiveFails(s) == pc[s] = "recv" /\ Fail(s)

StartWriting(s, i) ==
  /\ ifd' = [ifd EXCEPT ![s] = i]
  /\ Goto(s, IF Offset(s) = 0 THEN "trunc" ELSE "write")
  /\ UNCHANGED <<lock, req, fd, size, data, status>>

\* fsWriteFile: open(path, O_CREAT | O_EXCL) makes the file if the name is
\* gone by now ...
FsCreate(s) ==
  /\ pc[s] = "excl"
  /\ IF Exists(req[s].path)
     THEN Goto(s, "reopen") /\ UNCHANGED <<fsVars, lock, procVars>>
     ELSE \/ \E i \in Inodes : /\ MakeNode(req[s].path, i, "file", {"r", "w"})
                               /\ StartWriting(s, i)
          \/ Full /\ Fail(s)

\* ... and otherwise opens whatever file has the name now.
FsReopen(s) ==
  /\ pc[s] = "reopen"
  /\ IF CanOpen(req[s].path, {"w"})
     THEN StartWriting(s, dir[req[s].path]) /\ UNCHANGED fsVars
     ELSE Fail(s)

FsTruncate(s) ==
  /\ pc[s] = "trunc"
  /\ node' = [node EXCEPT ![ifd[s]].content = <<>>]
  /\ Goto(s, "write")
  /\ UNCHANGED <<dir, lock, procVars>>

\* write() is called once.  If it writes less the answer is still OK, with
\* the number of bytes; if it fails, a file that was truncated stays empty.
FsWrite(s) ==
  /\ pc[s] = "write"
  /\ \E k \in 0..Len(data[s]) :
       /\ k < Len(data[s]) => DiskMayFill
       /\ node' = [node EXCEPT ![ifd[s]].content =
                     Overlay(@, SubSeq(data[s], 1, k), Offset(s))]
       /\ Finish(s, IF k = 0 /\ data[s] # <<>> THEN "error" ELSE "ok")
  /\ UNCHANGED dir

-----------------------------------------------------------------------------
(* CREATE and CHMOD                                                        *)

\* The fileExists check and the O_EXCL or mkdir agree: one of them refuses a
\* name that is taken.
Create(s) ==
  /\ pc[s] = "create"
  /\ \/ /\ ~Exists(req[s].path)
        /\ \E i \in Inodes : MakeNode(req[s].path, i, req[s].kind, req[s].mode)
        /\ Finish(s, "ok")
     \/ (Exists(req[s].path) \/ Full) /\ Fail(s)

\* The checks of CHMOD and DELETE on an existing path: a directory is not
\* locked, a file is.
CheckTarget(s) ==
  /\ At(s, "check", {"chmod", "delete"})
  /\ IF Exists(req[s].path)
     THEN /\ Goto(s, IF IsFile(req[s].path) THEN "open" ELSE "apply")
          /\ UNCHANGED <<fsVars, lock, procVars>>
     ELSE Fail(s)

\* open(path, O_RDWR) in order to lock.  CHMOD fails without it, DELETE goes
\* on without the lock.
OpenToLock(s) ==
  /\ At(s, "open", {"chmod", "delete"})
  /\ \/ /\ CanOpen(req[s].path, {"r", "w"})
        /\ fd' = [fd EXCEPT ![s] = dir[req[s].path]]
        /\ Goto(s, "lock")
        /\ UNCHANGED <<fsVars, lock, req, ifd, size, data, status>>
     \/ /\ ~CanOpen(req[s].path, {"r", "w"})
        /\ IF req[s].op = "delete"
           THEN Goto(s, "apply") /\ UNCHANGED <<fsVars, lock, procVars>>
           ELSE Fail(s)

Chmod(s) ==
  /\ At(s, "apply", {"chmod"})
  /\ IF Exists(req[s].path)
     THEN /\ node' = [node EXCEPT ![dir[req[s].path]].mode = req[s].mode]
          /\ Finish(s, "ok")
          /\ UNCHANGED dir
     ELSE Fail(s)

-----------------------------------------------------------------------------
(* DELETE                                                                  *)

\* unlink(n) leaves a directory alone.
UnlinkFile(n) == IF IsFile(n) THEN Unbind(dir, n) ELSE dir

\* removeRecursive first removes "path.lock", whoever made it ...
DeleteLockFile(s) ==
  /\ At(s, "apply", {"delete"})
  /\ dir' = UnlinkFile(LockOf(req[s].path))
  /\ Goto(s, "look")
  /\ UNCHANGED <<node, lock, procVars>>

\* ... and looks with lstat at what the path names by now.
DeleteLook(s) ==
  /\ pc[s] = "look"
  /\ IF Exists(req[s].path)
     THEN /\ Goto(s, IF IsFile(req[s].path) THEN "remove" ELSE "opendir")
          /\ UNCHANGED <<fsVars, lock, procVars>>
     ELSE Fail(s)

\* unlink fails if the file has gone, or a directory has taken its place.
DeleteFile(s) ==
  /\ pc[s] = "remove"
  /\ dir' = UnlinkFile(req[s].path)
  /\ Finish(s, IF IsFile(req[s].path) THEN "ok" ELSE "error")
  /\ UNCHANGED node

IsDirectory(n) == Exists(n) /\ ~IsFile(n)

DeleteOpenDir(s) ==
  /\ pc[s] = "opendir"
  /\ IF IsDirectory(req[s].path) /\ CanOpen(req[s].path, {"r"})
     THEN Goto(s, "rmdir") /\ UNCHANGED <<fsVars, lock, procVars>>
     ELSE Fail(s)

\* The failures of the recursion are not looked at; rmdir fails if anything
\* is left in the directory (what is in it is not modelled).
DeleteDir(s) ==
  /\ pc[s] = "rmdir"
  /\ \/ /\ IsDirectory(req[s].path)
        /\ dir' = Unbind(dir, req[s].path)
        /\ Finish(s, "ok")
        /\ UNCHANGED node
     \/ Fail(s)

RemoveRecursive(s) ==
  \/ DeleteLockFile(s) \/ DeleteLook(s) \/ DeleteFile(s)
  \/ DeleteOpenDir(s) \/ DeleteDir(s)

-----------------------------------------------------------------------------
(* MOVE                                                                    *)

MoveCheck(s) ==
  /\ At(s, "check", {"move"})
  /\ IF Exists(req[s].path) /\ ~Exists(req[s].dst)
     THEN /\ Goto(s, IF IsFile(req[s].path) THEN "open" ELSE "apply")
          /\ UNCHANGED <<fsVars, lock, procVars>>
     ELSE Fail(s)

\* Variant: the source is opened O_RDWR, so that the lock is granted.
MoveOpenSourceLocking(s) ==
  /\ At(s, "open", {"move"})
  /\ CanOpen(req[s].path, {"r", "w"})
  /\ ~Conflict(dir[req[s].path], s, "excl")
  /\ ifd'  = [ifd EXCEPT ![s] = dir[req[s].path]]
  /\ lock' = [lock EXCEPT ![dir[req[s].path]][s] = "excl"]
  /\ Goto(s, "lockfile")
  /\ UNCHANGED <<fsVars, req, fd, size, data, status>>

\* The source is opened O_RDONLY.  F_WRLCK on such a descriptor fails with
\* EBADF, and the result is ignored: no lock comes out of this step.
MoveOpenSource(s) ==
  /\ At(s, "open", {"move"})
  /\ ifd' = [ifd EXCEPT ![s] = IF CanOpen(req[s].path, {"r"})
                               THEN dir[req[s].path] ELSE NoInode]
  /\ Goto(s, "lockfile")
  /\ UNCHANGED <<fsVars, lock, req, fd, size, data, status>>

\* open("dst.lock", O_CREAT | O_RDWR, 0700)
MoveOpenLockFile(s) ==
  /\ pc[s] = "lockfile"
  /\ LET l == LockOf(req[s].dst) IN
       \/ /\ ~Exists(l)
          /\ \E i \in Inodes : /\ MakeNode(l, i, "file", {"r", "w"})
                               /\ fd' = [fd EXCEPT ![s] = i]
          /\ Goto(s, "lock")
          /\ UNCHANGED <<lock, req, ifd, size, data, status>>
       \/ /\ CanOpen(l, {"r", "w"})
          /\ fd' = [fd EXCEPT ![s] = dir[l]]
          /\ Goto(s, "lock")
          /\ UNCHANGED <<fsVars, lock, req, ifd, size, data, status>>
       \/ /\ IF Exists(l) THEN ~CanOpen(l, {"r", "w"}) ELSE Full
          /\ Goto(s, "apply")
          /\ UNCHANGED <<fsVars, lock, procVars>>

\* rename(src, dst) replaces a dst of the same kind (a directory must be
\* empty, and in this flat model it is).
CanRename(src, dst) ==
  Exists(src) /\ (Exists(dst) => node[dir[src]].kind = node[dir[dst]].kind)

Rename(s) ==
  LET src == req[s].path  dst == req[s].dst  ok == CanRename(src, dst)
  IN  /\ At(s, "apply", {"move"})
      /\ dir' = IF ok THEN Bind(Unbind(dir, src), dst, dir[src]) ELSE dir
      /\ UNCHANGED node
      /\ IF fd[s] = NoInode
         THEN Finish(s, IF ok THEN "ok" ELSE "error")
         ELSE /\ status' = [status EXCEPT ![s] = IF ok THEN "ok" ELSE "error"]
              /\ Goto(s, "unlock")
              /\ UNCHANGED <<lock, req, fd, ifd, size, data>>

\* Both descriptors are unlocked and closed ...
MoveUnlock(s) ==
  /\ pc[s] = "unlock"
  /\ lock' = Closed(s, {fd[s], ifd[s]})
  /\ fd'   = [fd EXCEPT ![s] = NoInode]
  /\ ifd'  = [ifd EXCEPT ![s] = NoInode]
  /\ Goto(s, "unlink")
  /\ UNCHANGED <<fsVars, req, size, data, status>>

\* ... and only then is "dst.lock" removed.
MoveUnlink(s) ==
  /\ pc[s] = "unlink"
  /\ dir' = UnlinkFile(LockOf(req[s].dst))
  /\ Finish(s, status[s])
  /\ UNCHANGED node

-----------------------------------------------------------------------------

Init ==
  /\ dir    = [n \in {} |-> NoInode]
  /\ node   = [i \in Inodes |-> Fresh("file", {})]
  /\ lock   = [i \in Inodes |-> [s \in Sessions |-> "none"]]
  /\ pc     = [s \in Sessions |-> "idle"]
  /\ req    = [s \in Sessions |-> NoRequest]
  /\ fd     = [s \in Sessions |-> NoInode]
  /\ ifd    = [s \in Sessions |-> NoInode]
  /\ size   = [s \in Sessions |-> 0]
  /\ data   = [s \in Sessions |-> <<>>]
  /\ status = [s \in Sessions |-> "none"]

\* The steps a handler takes by itself once a command has arrived.
HandlerStep(s) ==
  \/ GetLock(s)
  \/ DownloadStat(s) \/ OpenToRead(s) \/ ReadStat(s)
  \/ FsReadOpen(s) \/ FsRead(s) \/ ReadUnlock(s)
  \/ OpenToWrite(s) \/ FsCreate(s) \/ FsReopen(s) \/ FsTruncate(s) \/ FsWrite(s)
  \/ Create(s) \/ CheckTarget(s) \/ OpenToLock(s) \/ Chmod(s)
  \/ RemoveRecursive(s)
  \/ MoveCheck(s) \/ MoveOpenSource(s) \/ MoveOpenLockFile(s)
  \/ Rename(s) \/ MoveUnlock(s) \/ MoveUnlink(s)

\* A client that was told to send its data sends it or goes away, and one
\* that is sent a file reads it or goes away.
ClientStep(s) == Receive(s) \/ ReceiveFails(s) \/ SendAnswer(s)

Next == \E s \in Sessions :
          Begin(s) \/ HandlerStep(s) \/ ClientStep(s) \/ LockInterrupted(s)

Spec == Init /\ [][Next]_vars

(***************************************************************************)
(* The kernel runs every process that can run.  Nothing is assumed of the  *)
(* clients (a user may leave the text of a "write" unfinished for ever, or *)
(* stop the client that a file is sent to), of the arrival of commands, or *)
(* of signals.                                                             *)
(***************************************************************************)
Fairness == \A s \in Sessions : WF_vars(HandlerStep(s))

FairSpec == Spec /\ Fairness

-----------------------------------------------------------------------------
(* What must hold whatever the commands are.                               *)

FilesTyped ==
  /\ DOMAIN dir \subseteq Name
  /\ dir \in [DOMAIN dir -> Inodes]
  /\ node \in [Inodes -> [kind : Kind, mode : Mode, content : Seq(Byte)]]

SessionsTyped ==
  /\ lock \in [Inodes -> [Sessions -> LockMode]]
  /\ pc \in [Sessions -> PC]
  /\ req \in [Sessions -> Requests \cup {NoRequest}]
  /\ fd \in [Sessions -> Inodes \cup {NoInode}]
  /\ ifd \in [Sessions -> Inodes \cup {NoInode}]
  /\ size \in [Sessions -> Nat]
  /\ data \in [Sessions -> Seq(Byte)]
  /\ status \in [Sessions -> {"none", "ok", "error"}]

(* The files and the sessions are what the comments at VARIABLES say.      *)
TypeOK == FilesTyped /\ SessionsTyped

\* The steps between F_SETLKW and the end of the handler's critical section.
Guarded == {"recv", "stat", "excl", "reopen", "trunc", "write", "fsopen",
            "read", "apply", "look", "remove", "opendir", "rmdir", "unlock"}

(* Every path out of a handler gives its locks back: a lock is only ever   *)
(* held inside the critical section of a command, on the inode of the      *)
(* descriptor that command locked.  One forgotten unlock would block the   *)
(* user's other sessions for as long as this connection lives.             *)
NoLeakedLock ==
  \A s \in Sessions, i \in Inodes :
    lock[i][s] # "none" => fd[s] = i /\ pc[s] \in Guarded \cup {"reply"}

(* A handler that blocks in F_SETLKW holds no lock at all, so handlers     *)
(* cannot wait for one another in a circle (and the kernel never answers   *)
(* EDEADLK).  MOVE, which asks for two locks, is the one to watch.         *)
WaitersHoldNothing ==
  \A s \in Sessions : pc[s] = "lock" => \A i \in Inodes : lock[i][s] = "none"

(* The lock a command obtained is still held at each step it protects:     *)
(* nothing before the last access to the file closes a second descriptor   *)
(* of the locked inode, which would silently drop the lock.                *)
LockedThroughout ==
  \A s \in Sessions :
    /\ pc[s] \in Guarded
    /\ req[s].op # "move"        \* goes on even when its lock failed
    /\ fd[s] # NoInode           \* CHMOD of a directory, DELETE unlocked
    => lock[fd[s]][s] = Needed(req[s].op)

(* Whatever mixture of commands is under way, the only thing that can keep *)
(* ANOTHER session's handler from finishing is a client that was told to   *)
(* send data and does not: once no further command arrives, eventually     *)
(* some client is silent, or every handler is idle or has nothing left to  *)
(* do but to send its own client what that one has asked for.              *)
OnlyASilentClientBlocks ==
  <>[][\A s \in Sessions : ~Begin(s)]_vars
    => <>[](\/ \A s \in Sessions : pc[s] \in {"idle", "send"}
            \/ \E s \in Sessions : pc[s] = "recv")

-----------------------------------------------------------------------------
(* What must hold of commands that neither remove nor rename a name.       *)

NoRemoval == \A r \in Requests : r.op \notin {"delete", "move"}

Writing(s) == pc[s] \in {"trunc", "write"}

(* While a handler overwrites a file, from before the truncation to the    *)
(* write, no other handler is about to write or to read that inode: the    *)
(* lock on the outer descriptor protects the descriptor of fsOps, although *)
(* the path was resolved again in between.                                 *)
ExclusiveAccess ==
  \A s, t \in Sessions :
    s # t /\ Writing(s) /\ (Writing(t) \/ pc[t] = "read") => ifd[s] # ifd[t]

(* A step changes the bytes of a file only while no other session holds a  *)
(* lock on it; in particular a file whose new content is still on its way  *)
(* from the client (which may be lost) keeps its bytes, and the size READ  *)
(* found is the size it reads.                                             *)
LockRespected ==
  [][\A i \in Inodes :
       node'[i].content # node[i].content
         => \A s \in Sessions : lock[i][s] # "none" => Writing(s)]_vars

-----------------------------------------------------------------------------
(* What the comments of the code say and the code does not ensure.         *)

(* "destination must NOT exist" (handleMove): a name that is in use never  *)
(* comes to name another file in one step, so no file is lost to a MOVE.   *)
(* The check is made before the locks, and rename replaces the target.     *)
MoveNeverOverwrites ==
  [][\A n \in DOMAIN dir \cap DOMAIN dir' : dir'[n] = dir[n]]_vars
=============================================================================

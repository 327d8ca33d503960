# A TLA+ model of the file server

The repository is a client and a server in C for shared files: one server
process per connection, system users as accounts, one home directory per user,
fcntl locks around the file commands, and background transfers in the client.
This directory holds TLA+ modules of the parts whose correctness depends on
what several processes do at once, TLC configurations that check them on small
instances, and proofs for all instances.

## 1. Inventory

| Part (source) | State | Operations | Talks to |
|---|---|---|---|
| File commands and locks (`serverCommands.c` 478-774, 1035-1497; `fsOps.c`; `utils.c`) | directory entries, inodes (kind, owner bits, bytes), fcntl locks, per handler two descriptors, a size and a buffer | CREATE, CHMOD, MOVE, READ, WRITE, DELETE, UPLOAD, DOWNLOAD | other sessions of the same user, through the file system and the locks only; its own client (data of WRITE and UPLOAD) |
| Server lifecycle (`serverMain.c`, `networkServer.c`) | `shutdownRequested`, `children`, `childCount`; the processes and their pending signals | accept loop, fork, SIGCHLD and SIGTERM/SIGINT handlers, console watcher, shutdown | kernel, children, clients |
| Background transfers (`clientCommands.c` 40-91, 292-401, 792-803; `clientMain.c`) | `bgPids`, `bgCount` | register, unregister (from the SIGCHLD handler), exit | the SIGCHLD handler interrupts the main program |
| User administration (`serverCommands.c` 100-166, 230-473, 1502-1603; `session.c`) | the session, system users, home directories, effective ids, the flags of what a call has made | LOGIN, CREATE_USER with its rollback, DELETE_USER, root elevation | adduser/userdel processes, the inherited SIGCHLD handler, other sessions |
| Wire protocol (`protocol.c`, `networkServer.c`, `networkClient.c`, the send and receive parts of the handlers) | bytes under way in two directions, the size each side expects | messages, responses, payloads, failures on either side | client and child |
| Paths (`fsOps.c` 67-256, `handleCd`, `updateCurrentPath`) | `currentDir` of the session, `g_currentPath` and `g_username` of the client | resolve, normalise, containment tests, cd, the path of a background transfer | the wire carries the path to display |
| Listing, client command line, server start | little or none | text in and out, a start sequence | |

What is hard here:

* **Interleaving of handlers.** Handlers lock a *descriptor* but work on the
  *path*, which every helper resolves again; sizes, existence and kind are
  looked at before the lock is taken.
* **fcntl locks belong to processes**, and closing any descriptor of the inode
  drops them; `fsReadFile` and `fsWriteFile` open and close descriptors of
  their own under the lock of the handler.
* **Silent and vanishing clients.** WRITE and UPLOAD wait for the client with
  the exclusive lock held.
* **Signals.** SIGCHLDs merge; the client's handler changes the table that the
  main program is changing; SIGTERM only ends a child that is in a blocking
  `recv`; a signal interrupts a wait for a lock; the SIGCHLD handler that
  children inherit may take the exit status of adduser away from the command
  that waits for it.
* **Rollback.** CREATE_USER undoes an account, a home, or both, while other
  sessions create and delete the same user; nothing locks a user name.
* **Framing.** Nothing on the wire says what it is. A side that gives up after
  it has agreed on an exchange leaves bytes that the other side takes for
  something else.
* **Two views of one place.** Client and session each keep a user and a
  directory; background transfers open sessions of their own.
* **Limits.** 1024 children and 128 jobs, both ignored silently when exceeded.

What makes the parts correct, in one line each: accesses to a file exclude one
another, and locks come back; a user who shares files between sessions sees
single-instant reads and writes, except that a DOWNLOAD is cut at a size it found
earlier; a shutdown is noticed, every child in the array that still runs is
signalled, and the server ends once no client is served; no zombies stay; the
table of jobs never lets the user leave while a registered job runs; a session
has root only while a command needs it, and between commands the identity of
its own user; a command on users that fails leaves nothing half-done, unless
userdel itself or the removal of a directory fails, a CREATE_USER and a
DELETE_USER of one user overlap, or the status of adduser is lost; the two sides
of a connection agree on where a message begins and where the user is, unless one of them
gives up inside an exchange; and neither cd nor the path of a background
transfer leaves the home. `isInsideHome` confines the file commands to the
home as well. LIST is the exception: `handleList` (875-893) tests its path for the
root directory of the server only, so it can name the homes of other users.
`PROJECT.json` lists the hazards with their lines. Not every hazard is covered by a
property: several are in the model and excepted by name in the properties,
and their entry says so.

## 2. Modules

| Module | Content |
|---|---|
| `FileServer` | the eight file commands, one system call per step; properties |
| `AtomicStore` | what these commands promise to sessions that share files |
| `FileServerRefinement` | the mapping of `FileServer` to `AtomicStore` |
| `MCFileServer` | requests, payloads and symmetry for TLC |
| `FileServerProofs` | theorems about `FileServer` |
| `FileServerRefinementProofs` | `FileServer` implements `AtomicStore` |
| `ServerLifecycle` | parent, children, watcher, signals, shutdown |
| `ServerLifecycleProofs` | theorems about `ServerLifecycle` |
| `BackgroundJobs` | the client's table of jobs and its SIGCHLD handler |
| `BackgroundJobsProofs` | theorems about `BackgroundJobs` |
| `UserAdmin` | LOGIN, CREATE_USER, DELETE_USER, effective ids, adduser and userdel |
| `UserAdminProofs` | theorems about `UserAdmin`: types, identities, ownership |
| `AccountsProofs` | accounts and homes stay together |
| `Connection` | client and child over one connection: framing, paths, cd, login |
| `MCConnection` | directories, names and arguments for TLC |
| `PathProofs` | what `normalize_path` and `isInsideHome` do with any path |
| `ConnectionProofs` | theorems about `Connection` |

The modules divide the system at what is shared. `FileServer` and `UserAdmin`
have many sessions and what they share: the files of one user, or
the accounts and homes of all. `Connection` has one session and the client at
its other end; whether a file command succeeds, which is what `FileServer`
is about, is left open there, and the data that `FileServer` waits for in
`Receive` is what the client sends in `Connection` after an acknowledgement.
`ServerLifecycle` has all children, whose commands only take time or block.

An operator whose comment starts with "Variant" is not part of a
specification: it is what an action would be with a plausible mistake in the
code, and shows that a property notices that mistake.

### FileServer and the code

`Sessions` are the child processes that serve connections of *one* user.
Different users cannot meet on a file, because `isInsideHome` confines every
file command to the home of the user. `dir` maps names to inodes and `node`
inodes to files, so that a descriptor can outlive its name. `fd[s]` is the
descriptor a handler locks (`fd`, in MOVE `fd_dst_lock`), `ifd[s]` the second
one (that of `fsReadFile`/`fsWriteFile`, in MOVE `fd_src`). `pc[s]` says
between which two system calls the handler is. A handler runs from `Begin`
(`processCommand`) to `Finish` (unlock, close, response):

* READ: `OpenToRead`, `GetLock`, `ReadStat`, `FsReadOpen`, `FsRead`,
  `ReadUnlock`, `SendAnswer`. The file is unlocked and closed (1130-1131,
  1481-1482) before `sendAll`, which may block for as long as the client does not read.
* DOWNLOAD: the same, but `DownloadStat` comes *before* the open and the lock
* WRITE, UPLOAD: `OpenToWrite`, `GetLock`, `Receive` or `ReceiveFails`,
  `FsCreate`, `FsReopen`, `FsTruncate` (offset 0 only), `FsWrite`
* CREATE: `Create`, one step, since `O_EXCL` and `mkdir` repeat the check
* CHMOD: `CheckTarget`, `OpenToLock`, `GetLock`, `Chmod`
* DELETE: `CheckTarget`, `OpenToLock`, `GetLock`, and `removeRecursive` call by
  call: `DeleteLockFile`, `DeleteLook` (lstat), then `DeleteFile`, or
  `DeleteOpenDir` and `DeleteDir`, each of which may fail and end the command
* MOVE: `MoveCheck`, `MoveOpenSource`, `MoveOpenLockFile`, `GetLock`, `Rename`,
  `MoveUnlock`, `MoveUnlink`

MOVE opens its source `O_RDONLY`; `F_WRLCK` on it fails with EBADF, which the
code ignores, so the step takes no lock. `Closed` models that closing any
descriptor of an inode drops the process's lock. `LockInterrupted` is the EINTR
of a shutdown signal. `Full` is ENOSPC for names, `DiskMayFill` for bytes.
`Receive`, `ReceiveFails` and `SendAnswer` are up to the client (`ClientStep`).

`AtomicStore` has one step for each READ, WRITE and UPLOAD, and two for a
DOWNLOAD: `Measure`, its look at the size, which no lock protects (1446), and
`Download`, which returns that many bytes of the file as it is then. So a file that
has grown is cut off, exactly at the size that was found (0 if the look fell
between `ftruncate` and `write`), and nowhere else. WRITE at an offset makes
a file that does not exist, in the store as in the code.

Abstractions: one flat home directory; names are a base with some number of
`.lock` endings; the owner's `r` and `w` bits only (handlers run as the owner);
files are short sequences of numbers. Path resolution, the login test and the
argument checks that precede the first system call have no effect on shared
state and are left out, and so are errors of `malloc`, which give up in the
same way as the failures that are modelled.

### ServerLifecycle and the code

`pc` is where the parent is in the loop of `main`; `proc[p]` what the child with
pid `p` is doing: blocked in `receiveMessage` ("recv"), busy ("work"), waiting
for a lock, waiting for data inside a command ("transfer"), zombie or gone.
Pids are handed out again. `chld` is the one pending SIGCHLD. The step
`CallPoll` separates the test of the flag from the blocking call, so that a
signal can arrive in between. `Interrupted` is the effect of SIGTERM on a
child: the handler it inherited only sets a flag, so only a blocking call
notices. Ctrl+C reaches the whole process group (`CtrlC`), `kill` and the
console watcher only the parent. An error of `poll` ends the loop. A second
signal interrupts the `waitpid` at the end: the parent is "done" like after
ECHILD, with the same report, though children may be alive. `watcher` is
"none" if the fork of line 350 has failed; then `CloseServer` is
`kill(-1, SIGKILL)`, which ends all children. `signalled` is a history variable:
the pids that were sent SIGTERM. It is assumed that no other process gets the
pid of the watcher, or one in `children`, before the signals are sent.

### BackgroundJobs and the code

`bgPids[bgCount++] = pid` is a load (`Load`, with the test) and two stores,
`StoreCount` and `StoreEntry`, in either order, because C leaves the order open;
while the handler runs (`inHandler`) the main program stands still. A job may end at
any time after `Fork`, also before it is registered. `disturbed` and `lost` are
history variables: a registration was interrupted, a job did not fit.

### UserAdmin and the code

A session is a child with its effective uid (`euid`), `old_euid` (`saved`), the
name in its `session` (`login`), and for the running handler `pw_uid` (`pwd`),
`error`, the flags `userCreated` and `homeCreated` (`made`), and the process it
has forked (`helper`). `egid` and `groups` are the effective group and the
supplementary groups: `Become` sets both before the uid, each call may fail, and
`RefuseLogin` puts back the uid only, as the code does. `account` is the
password file, `home` the owners of the directories below the root. LOGIN is
`BeginLogin`, `FindHome`, `FindUser`, `Become`; CREATE_USER is `BeginCreate`,
`CheckUser`, `CheckHome` (with the fork), `Added`, `Mkdir`, `GetIds`, `Chown`,
and after an error `UndoHome`, `UndoUser`, `Undone`; DELETE_USER is
`BeginDelete`, `ForkUserdel`, `Deleted`, `DeleteHome`. Each step is one look at,
or one change of, something shared. `AdduserEnds`, `UserdelScans` and
`UserdelEnds` are the forked programs (external), which fail or not as they like
but respect what is there; userdel first looks for processes of the user and
removes the account later, so that a LOGIN can come in between; `Stolen` is the
SIGCHLD handler that reaps them first. Then `waitpid` fails, `status` is not
initialised, and `Returns` lets the handler read either outcome.

The server is assumed to have been started with sudo, as its README asks, so
`elevateToRoot` does not fail. The uid it starts with is then root's as well;
the model keeps the two apart ("server" and "root"), so that a missing
`dropFromRoot` shows. Signals of a shutdown are left out here. Tests of the
syntax of arguments are left out; `Users` are names that pass them. `Leave`
merges the end of a child and the fork of the next one. Uids are recycled.
`userBy` and `homeBy` record which running command has made an account or a
home. `overtaken` marks the sessions whose uid a userdel may have made stale:
the userdel looked while their LOGIN was between `getpwnam` and `seteuid` or
while they ran a CREATE_USER as root, or their LOGIN came between its look and
its removal. `Identity` promises the current uid to all others. `spoiled`
collects the users that met one of four hazards for which the code has no
answer: a CREATE_USER and a DELETE_USER of one user at once, a status of adduser
that was lost, a userdel that failed (or was not forked), a directory that could
not be removed. What the code promises, it promises for the others.

### Connection and the code

The two directions are sequences of frames; a frame is what one side sends at
once: a message, a response with its size field, the number that WRITE sends, a
payload of so many bytes, the path that cd answers. A receiver that finds
another frame, or another size, than it waits for has lost the boundaries;
`Derail` sets `derailed` and the behaviour ends there, because what follows
depends on the bytes of files. `at` is where the client is between the calls of
`receiveResponse`, `recvAll` and `sendAll`, `serving` the same for the child. A
command is answered at once (`Serve`), or the child first waits for the lock of
its file (`WaitForLock`, `LockEnds`), without a limit and with the message still
to be answered. Of the commands that are answered by a response alone
("simple"), only CHMOD, DELETE and MOVE wait for locks; the model lets all of
them. `Interrupted` and `SendInterrupted` are a signal in a `recv` and in a
`send`; the second leaves the last part of an answer out, and nobody notices.
`fault` says that one side gave up in the middle of an agreed exchange, by
`malloc` failing, a short read of the local file, a download that is refused
after its announcement, or a signal of the shutdown inside a command or a send;
it happens at most once in a behaviour, and the properties about framing say
what holds without it.

A path is a sequence of names and the flag "absolute". `Push` and `Normalize`
are `normalize_path` with its array of `MaxParts` components, `Resolve` is
`resolvePath` with both its cases for absolute paths ("/" is the home, and any other,
also "//", starts at the root directory), `Cut` the truncation of the second by
`snprintf`, `Begins` is the test by
`strncmp`, for which `Longer` says which names begin with other names, and `IsInside` adds the
character after it. The directories in `Dirs` are named from `/` without `.` and
`..`; so is the root directory, which is an argument of the server. (A root
given with `..` would make the test by `strncmp` at the end of `resolvePath`
refuse every path.) `PathSize` counts names where the code counts characters, so
`Cut` always cuts between two names.
`Dirs` does not change during a connection: directories that come and go are
in `FileServer`. The path argument of LIST selects what is shown and changes nothing;
it has tests of its own, which are not modelled.
`bg` is one background transfer with the path it resolves (`target`) and the
path the same command would have resolved without `-b` (`meant`).

## 3. Runs

| Run | Instance | Shows |
|---|---|---|
| `FileServer_sharing` | 3 sessions that READ, DOWNLOAD, WRITE at offsets 0 and 1, UPLOAD, or make a directory of one name; payloads of 1 and 2 bytes | `TypeOK`, `ExclusiveAccess`, `LockRespected`, and that the server implements `AtomicStore` |
| `FileServer_commands` | 2 sessions, 2 bases with their `.lock` names, 2 inodes, all commands but UPLOAD, READ and WRITE at offset 0, disk may fill, fairness | `NoLeakedLock`, `LockedThroughout`, `WaitersHoldNothing`, `OnlyASilentClientBlocks` |
| `FileServer_stale_lock` | 2 sessions, WRITE and DELETE | **violated**: `ExclusiveAccess` |
| `FileServer_move_overwrites` | 2 sessions, CREATE and MOVE | **violated**: `MoveNeverOverwrites` |
| `ServerLifecycle` | 2 pids, an array of 2, a backlog of 1, fairness | `EveryChildSignalled`, `ShutdownNoticed`, `ShutdownCompletes`, `ZombiesAreReaped`, `ChildFollowsClient` |
| `ServerLifecycle_terminates` | 1 pid, fairness | **violated**: `AllHandlersTerminate` |
| `BackgroundJobs` | 3 pids, a table of 2, fairness | `TableExact`, `NoJobUncounted`, `JobsAreReaped` |
| `BackgroundJobs_exit` | 3 pids, a table of 2 | **violated**: `NoExitWhileJobsRun` |
| `UserAdmin` | 2 sessions, 1 user name, 2 uids, the SIGCHLD handler may be first, fairness | `Identity`, `AccountsComplete`, `RollbackOwn`, `HandlersFinish` |
| `UserAdmin_rollback` | 2 sessions, 1 user, 1 uid | **violated**: `RollbackOnlyOwn` |
| `Connection` | users `al` and `alice`, three directories below the home of `al`, 10 arguments of cd, files of 0 to 2 bytes with a limit of 1, fairness | `Synchronised`, `ViewsAgree`, `InsideHome`, `ResolveIsWalk`, `Answered` |
| `Connection_background` | the same | **violated**: `BackgroundMeansTheSame` |

Every module's type invariant is checked as well. The six violations are
disagreements between the code and what its comments or its README say;
`PROJECT.json` ("findings") quotes both sides.

* *Stale lock.* A WRITE waits for the lock of a DELETE. It gets it when the
  file is gone, on an inode without a name, and then `fsWriteFile` makes a new
  file. A second WRITE locks that new file properly, and both overwrite it.
* *MOVE overwrites.* The test that the destination is free precedes everything
  else; CREATE takes the name meanwhile, and `rename` replaces the new file.
* *Children survive the shutdown.* SIGTERM arrives between two blocking calls of
  a child; the child goes on to `recv`, and the parent waits for it.
* *Exit with a job running.* A job that does not fit in the table is forgotten.
* *Rollback of somebody else's user.* A CREATE_USER has made the account and
  fails later; meanwhile DELETE_USER removes the account and a
  second CREATE_USER makes it anew. The rollback of the first removes it.
* *Background path.* After a cd, `upload -b` resolves its remote path in the
  home, not in the directory that the prompt shows.

### Why the bounds are enough

*Sessions.* Conflicts are between two handlers; the third session of
`FileServer_sharing` observes what two others do (a reader between two
writers), and gives two readers and a writer. *Inodes.* Where no name
is removed, one name needs one inode. Otherwise one name recreated under an
old descriptor needs 2; when none is free, `Full`
holds and the error paths run. The invariants of `FileServer_commands` are
also proved, for any number of inodes and names. *Requests.* READ at offset 0 and
WRITE of one byte let READ, DOWNLOAD and WRITE go through all their steps in
`FileServer_commands`, DELETE, CHMOD and MOVE among them; offsets, and UPLOAD,
which differs from WRITE in where its size comes from, are in `FileServer_sharing`.
CHMOD changes no bytes and is left out there. *Bytes.*
Payloads of different lengths tell apart whole, partial and
mixed contents, and a shorter new content from the rest of an older one. *Pids.*
Two children make SIGCHLDs merge and let one hold the lock the other waits for;
`fork` failing (-1) and connections that come and go fill the array of 2, so
there are children outside it. *Jobs.* Three pids are one more than the table
holds, and each can be recycled. *Users.* Handlers meet on
one user name; the second uid lets a name be deleted and made again with another
uid while a session still has the old one (two names with one uid, where
a uid changes its user, keep the same invariants and `RollbackOwn`, and are
too many states for the liveness of the run). *Connection.* The name `alice` begins with
`al`, so the test by prefix is not enough. Three nested directories and the
argument `docs/../docs` go beyond the array of 5 components, and an absolute path of
7 names is, with the root before it, longer than `PathSize`; a limit
of 1 byte with files of 0, 1 and 2 separates empty, allowed and
refused. Requests do not overlap, so queues stay short by themselves.

DELETE and MOVE are absent from `FileServer_sharing` because with them the lock
does not exclude (`FileServer_stale_lock`); short writes are absent since
an overwrite that fails half-way has no counterpart in the store.

### Fairness

The kernel runs each process that is not blocked: weak fairness of the handler
steps, of the parent, of the main program of the client and of signal handlers.
Nothing is assumed of clients, of users at the console, of the arrival of signals or of the
length of a transfer. In `FileServer` only `HandlerStep` is fair: data that does
not come and an answer that is not read may stop a handler for ever. A client that was asked
for data and stays silent is an explicit exception in `OnlyASilentClientBlocks` and
`ChildFollowsClient`; one that does not read its answer stops nobody but its own
handler, which has given its lock back by then.

`ServerLifecycle` makes one stronger assumption: a child that waits for a
lock gets it if time and again nobody transfers data under one (strong fairness). A
kernel that lets new readers in could starve a writer; `ChildFollowsClient` and
`ShutdownCompletes` do not hold for such a kernel. Nor do they speak of a
client that is cut off without its connection being closed: the server has no timeout, and the
model's `client` is what the server can notice. In `UserAdmin` the children
run, and adduser and userdel end, successfully or not. In `Connection` both
processes run, and what was sent arrives; nothing is assumed of the user who
types, nor of those who hold the locks: `Answered` is about waiting for the
server, and excepts a child that waits for a lock.

`CHECK_DEADLOCK FALSE` is used for `ServerLifecycle`, `BackgroundJobs` and
`Connection`, in which the program ends (and in `Connection` also where
`derailed` ends a behaviour).

### Disagreements that no run shows

These statements of the repository are not true of the code either. The models do
what the code does.

* `README.txt` line 174 says that the offset of `write` "works only if file
  already exists". The handler opens with `O_CREAT` (`serverCommands.c` 1186)
  whatever the offset is, so the file is made, with zeros up to the offset.
* `fsOps.c` lines 137-140 call a path that begins with "/" an "absolute path from
  client perspective" that starts in the home. Only "/" alone does; the others are appended to
  the root directory of the server (160), and `cd` shows paths below the home. Thus
  `cd /docs` is refused although the prompt may show `/docs`. `ResolveIsWalk` covers
  relative paths and "/".
* `serverMain.c` lines 449-450 print that all handlers have terminated and that the
  server has terminated cleanly after any failure of `waitpid`, also after the
  EINTR of a second signal, with children alive.
* `serverCommands.c` line 158 says that after `seteuid` the child "has only premission
  of logged user". The uid may by then be one that was deleted, and given to another user
  (`overtaken`).
* DOWNLOAD announces and sends as many bytes as it found before it had the lock
  (1446); a file that has grown meanwhile arrives incomplete and is taken for whole.

## 4. Proofs

`FileServerProofs` proves, for any sets of sessions, names, inodes, requests and
payloads, whether or not the disk may fill:

| Theorem | Statement |
|---|---|
| `TypeCorrect` | `Spec => []TypeOK` |
| `LockDiscipline` | `Spec => []NoLeakedLock` |
| `LockKept` | `Spec => []LockedThroughout`: all commands but MOVE, and CHMOD and DELETE where they found a file to lock |
| `NoLockCycle` | `Spec => []WaitersHoldNothing` |
| `ExclusiveAccessHolds` | `NoRemoval => (Spec => []ExclusiveAccess)` |
| `LockRespectedHolds` | `NoRemoval => (Spec => LockRespected)` |

They rest on `ConstantsOK` alone, and the last two on `NoRemoval`: without it
they are false (`FileServer_stale_lock`).

*The argument.* `TypeOK` is not inductive: `node[ifd[s]]` is only meaningful at
the steps where the descriptor is open. `SessionInv` adds which variables are
set at which `pc` (`Control`), that a lock is held only on `fd[s]` inside the
critical section (`LockShape`), that it is held at each protected step
(`LockedThroughout`), and that the locks of two sessions on one inode are
compatible (`Compatible`). Every action is shown to keep it by one lemma;
most of them only cite one of two lemmas, for actions that move to another step
and leave the locks alone, and for actions that end in `Finish`.

For the last two theorems the invariant needs one fact more, `Settled`: a name
is bound to one inode for good, so a descriptor that was opened by path is on
the inode the name has now. Only with it does the lock on `fd[s]` protect
`ifd[s]`. `Settled` fails exactly where DELETE and MOVE take names away.

`FileServerRefinementProofs` proves, for the same constants,

| Theorem | Statement |
|---|---|
| `ImplementsAtomicStoreHolds` | `NoRemoval`, `~DiskMayFill` imply `Spec => ImplementsAtomicStore` |

so that reads and writes of sessions that share files are single instants, and a
DOWNLOAD is cut at most at the size it has found. A write that stops half-way
leaves a file that `AtomicStore` does not know, hence the second hypothesis.

*The argument.* `Simulation` takes each step to a step of the store or a stutter.
Its cases are the steps that change what the store sees: `ftruncate` of an
overwrite (`TruncateStep`), `write` (`WriteStep`), the end of a read
(`ReadStep`), the look of a DOWNLOAD at the size and its failure afterwards,
the answer (`SendStep`), and a new name; every other step is quiet
(`QuietStep`). Besides the theorems above they need `StoreInv`: no two
names have one inode (`NamesDistinct`), data to be written have come
from a client (`Buffered`), a file between `ftruncate` and `write` is empty
(`Emptied`), the size that READ has taken is still that of the file when it
reads (`SizeFound`), and writers have a file open and not a directory
(`IntoFiles`). `SizeFound` and `Emptied` are where the locks are used. What
`Overlay` does with bytes is proved in lemmas of its own (`OverlayFromStart`,
`OverlayIsWritten`).

`BackgroundJobsProofs` proves, for any pids and any size of the table (from
`JobConstants`):

| Theorem | Statement |
|---|---|
| `TypeCorrect` | `Spec => []TypeOK`: no store is outside the array |
| `NoJobUncountedHolds` | `Spec => []NoJobUncounted` |
| `TableExactHolds` | `Spec => []TableExact` |

*The argument.* `NoJobUncounted` only speaks of the prompt. Its strengthening
`Counted` bounds the jobs that have not been reaped at every point of a registration,
between the load and the first store by the value that is about to be stored
rather than by `bgCount`: the handler may lower `bgCount` as often as
it likes meanwhile, and each time it reaps a job too. The cardinalities
come from the library's theorems about finite sets.

`TableExact` is about entries and not only their number. `Entered` says what the
first entries of the table list (`Lists`: a set, each member once) at every
point of a registration: all jobs but the new one until its entry is counted,
with the free slot behind them. `AddEntry` and `RemoveEntry` are the two
loops over the array: to append, and to close the gap by the last entry.

`ServerLifecycleProofs` proves, for any number of pids, any size of the array of
children and any backlog (from `LifecycleConstants`):

| Theorem | Statement |
|---|---|
| `TypeCorrect` | `Spec => []TypeOK` |
| `EveryChildSignalledHolds` | `Spec => []EveryChildSignalled` |

*The argument.* For the types one fact is missing in `TypeOK`: at "accept" there is
a connection in the queue, since nobody but the parent takes one.
`EveryChildSignalled` is about the moment after the loop over the array. `Tracked`
says what leads there: a child that runs is in the array, or the array is full
and it is not (`PassedOver`); while the loop runs, a child in the array that has not been
signalled is still ahead of the index. Pids are recycled, but only
`Fork` makes a child of one, and puts it in the array.

`UserAdminProofs` proves, for any sessions, user names and uids, and whether or
not the SIGCHLD handler may be first (from `UserConstants`):

| Theorem | Statement |
|---|---|
| `TypeCorrect` | `Spec => []TypeOK` |
| `IdentityKept` | `Spec => []Identity` |
| `RollbackOwnHolds` | `Spec => RollbackOwn` |

`AccountsProofs` adds

| Theorem | Statement |
|---|---|
| `AccountsCompleteHolds` | `Spec => []AccountsComplete` |

*The argument.* Types need to know that a handler that has begun has a user and
a uid to go back to, and that a forked process is waited for (`Engaged`).
`Others...` lemmas say that a step of one session leaves the variables of the others
alone, so what concerns one session (`WhoIs`: the uid in `old_euid`; `Course`:
which flags are set at which step) is shown for the session that moves.
`Identity` speaks of the time between two commands. `Grouped` says of the group and
the supplementary groups what holds during commands too, and `Current` of the
uid: the one that the session has, is about to take or goes back to (`Uid`) is that of its user,
and no userdel that has looked is at work on him. That one is not a matter of one session:
any userdel might end it, but either it finds the session (`Busy`) or it has
overtaken it.
Ownership is not of that kind: `OwnerInv` says of a user who met no hazard that, while a
CREATE_USER remembers to have made the account or the home, that
one is still its own, and no DELETE_USER of him is at work. It holds
because adduser and mkdir refuse what exists, because a rollback clears
what it undoes, and because every other way to lose an account is a hazard.

`AccountsComplete` speaks of users nobody is at work on. `Whole` says of every
user who met no hazard what his account and home are while somebody is:
an account without an owner has its home (`Matched`), except between the end of
userdel and the removal of the home; the owner of an account knows that it has made
it, and nobody else has made the home (`Making`, `MakingHome`); a DELETE_USER
whose userdel has succeeded left no account (`Deleting`).

`PathProofs` and `ConnectionProofs` prove, for any users, directories, arguments
of cd, sizes of files, and limits of the arrays (from `ConnectionConstants`):

| Theorem | Statement |
|---|---|
| `TypeCorrect` | `Spec => []TypeOK` |
| `InsideHomeHolds` | `Spec => []InsideHome` |
| `SynchronisedHolds` | `Spec => []Synchronised` |
| `ViewsAgreeHolds` | `Spec => []ViewsAgree` |
| `ResolveIsWalkHolds` | `Spec => []ResolveIsWalk`: relative paths, and "/" |
| `InsideIsPrefix` | `IsInside(d, p)` implies `IsPrefix(d, p)` |
| `NormalizeWalks` | `Normalize(d \o parts) = e` if the walk `parts` from `d` ends in `e`, unless the array is full |

*The argument.* `Typed` strengthens `TypeOK` by what the frames of each direction
contain. `Synchronised` speaks of the prompt; `Exchange` says for each of the
six places of the client which frames may be under way and where the child is:
the three stages of an answer (asked, where the child may be waiting for a lock with the
message at the head of its queue; answered; acknowledged), the payload, the text
that the user still types, and the result. `ChildServed` says the same of the
child alone, since the client may leave at any moment. From `Exchange` it follows that
`Derail` is impossible (`NothingMistaken`), and each handler keeps it because
it sends exactly one of the replies that `ReplyTo` and `AcknowledgementOf` allow.
`ViewsAgree` is not inductive either: between the answer to login or cd and its arrival
the two sides differ. `Agreement` says that meanwhile it is the answer that
tells what the client is about to display; for cd, `InsidePath` shows that the home
followed by the path in the answer is the new directory.

`NormalizeWalks` is an induction over the rounds of the loop. The induction
theorems of the library cannot be instantiated by the provers; `Upward` does
it with the least counterexample, which exists because `<` on the naturals is
well-founded. The loop has one value per round (`NormalizeRounds`),
whatever satisfies its rule is that value (`NormalizeIs`), and the text of the directory
followed by the directories of the walk does, as long as the array is not full.
The walk is over directories that exist, so it says nothing about
`nowhere/..`, which the kernel refuses and `normalize_path` does not.

Model-checked only: all liveness (`OnlyASilentClientBlocks`, `ShutdownNoticed`,
`ShutdownCompletes`, `ZombiesAreReaped`, `ChildFollowsClient`, `JobsAreReaped`,
`HandlersFinish`, `Answered`), which the prover does not handle. Every invariant
and action property of a passing run is also a theorem.

## 5. Not modelled

* The text of LIST, the buffer it is composed in and the tests of its path; LIST's
  exchange is in `Connection`.
* Sub-directories as far as `removeRecursive` descends into them. Its failures
  are outcomes of `DeleteLook`, `DeleteFile`, `DeleteOpenDir`, `DeleteDir`,
  `RemoveHome` and `DeleteHome`.
* The start of the server and its arguments run once, before any concurrency,
  and every error there ends the program.
* Tokenising, syntax errors, help and explanations of the client are text; the
  buffer of `fgets`, which `poll` does not see, is not modelled.
* Sizes are small numbers: the cast of `st_size` to `int` is not modelled.
* Users who are changed by other programs than the server; symbolic links,
  which no command of the server makes.

## 6. Plan

1. `FileServer`: what `ExclusiveAccess` and `LockRespected` still promise for a name that
   no command removes while others are removed; now all commands of the instance
   have to spare all names.
2. `FileServer` with `DiskMayFill`: a store in which a write may stop half-way.
3. `Connection`: what holds of the child after a fault, from `ChildServed`.

---------------------------- MODULE ServerLifecycle ----------------------------
(***************************************************************************)
(* The processes of the server: the parent that accepts connections, the   *)
(* child that serves each of them, the console watcher, and the signals    *)
(* between them, from the start of the accept loop to the end of main.     *)
(*                                                                         *)
(* A child inherits the parent's SIGTERM handler, which only sets a flag   *)
(* that no child looks at.  So SIGTERM ends a child by one way only: it    *)
(* interrupts the recv of receiveMessage, whose failure ends the child's   *)
(* loop.  Anywhere else it fails a blocking call of a command, or nothing. *)
(*                                                                         *)
(* What a command does to files is the matter of FileServer; here it only  *)
(* takes time, waits for a lock, or waits for the client's data.  The pid  *)
(* of the watcher is taken not to be given to a child after its end.       *)
(***************************************************************************)
EXTENDS Integers, Sequences, Functions

CONSTANTS
  Pids,         \* the process ids that fork can return; they are recycled
  MaxChildren,  \* MAX_CHILDREN, the size of the array children
  Backlog       \* how many connections the listening socket can queue

ASSUME LifecycleConstants ==
  /\ -1 \notin Pids
  /\ MaxChildren \in Nat
  /\ Backlog \in Nat \ {0}

VARIABLES
  pc,        \* where the parent is
  shutdownRequested,
  children,  \* the array children, up to childCount
  next,      \* the loop index of the parent while it sends SIGTERM
  chld,      \* SIGCHLD is pending for the parent
  queue,     \* number of connections waiting to be accepted
  watcher,   \* the console watcher; "none" if its fork failed
  proc,      \* pid -> what the child with that pid is doing
  client,    \* pid -> the client at the other end is still connected
  signalled  \* history: the pids that the parent has sent SIGTERM

parentVars == <<pc, shutdownRequested, children, next>>
childVars  == <<proc, client>>
vars == <<parentVars, chld, queue, watcher, childVars, signalled>>

ParentPC == {"loop", "call", "poll", "accept", "fork", "close", "kill",
             "wait", "done"}

\* "work" is everything a child does without blocking for long, up to the
\* moment its recv blocks; "recv" is receiveMessage.
Live == {"recv", "work", "lockwait", "transfer"}
ProcState == Live \cup {"zombie", "free"}

Goto(l) == pc' = l
InLoop == pc \in {"loop", "call", "poll", "accept", "fork"}
Exit(p) == proc' = [proc EXCEPT ![p] = "zombie"] /\ chld' = TRUE

-----------------------------------------------------------------------------
(* The parent.                                                             *)

\* while (!shutdownRequested)
TestFlag ==
  /\ pc = "loop"
  /\ Goto(IF shutdownRequested THEN "close" ELSE "call")
  /\ UNCHANGED <<shutdownRequested, children, next, chld, queue, watcher, childVars, signalled>>

\* The system call begins: from here on a signal interrupts it.
CallPoll ==
  /\ pc = "call"
  /\ Goto("poll")
  /\ UNCHANGED <<shutdownRequested, children, next, chld, queue, watcher, childVars, signalled>>

\* Variant: poll without a timeout.
PollForever ==
  /\ pc = "poll" /\ queue > 0
  /\ \E l \in {"accept", "close"} : Goto(l)
  /\ UNCHANGED <<shutdownRequested, children, next, chld, queue, watcher, childVars, signalled>>

\* A connection is there, or one second has passed, or poll fails, and that
\* ends the loop without anybody having asked for it.
Poll ==
  /\ pc = "poll"
  /\ Goto(IF queue > 0 THEN "accept" ELSE "loop") \/ Goto("close")
  /\ UNCHANGED <<shutdownRequested, children, next, chld, queue, watcher, childVars, signalled>>

\* acceptClient, which may fail and leave the connection in the queue; a
\* shutdown that was requested meanwhile closes the connection at once.
Accept ==
  /\ pc = "accept"
  /\ \E accepted \in BOOLEAN :
       /\ queue' = IF accepted THEN queue - 1 ELSE queue
       /\ Goto(CASE shutdownRequested -> "close"
                 [] ~shutdownRequested /\ accepted -> "fork"
                 [] OTHER             -> "loop")
  /\ UNCHANGED <<shutdownRequested, children, next, chld, watcher, childVars, signalled>>

\* Variant: childCount <= MAX_CHILDREN.
TrackOneTooMany(pid) ==
  children' = IF Len(children) <= MaxChildren THEN Append(children, pid)
              ELSE children

\* A full array forgets the child, and a failed fork is recorded as -1.
Track(pid) ==
  children' = IF Len(children) < MaxChildren THEN Append(children, pid)
              ELSE children

Fork ==
  /\ pc = "fork"
  /\ \/ \E p \in Pids :
          /\ proc[p] = "free"
          /\ proc'   = [proc EXCEPT ![p] = "work"]
          /\ client' = [client EXCEPT ![p] = TRUE]
          /\ Track(p)
     \/ Track(-1) /\ UNCHANGED childVars
  /\ Goto("loop")
  /\ UNCHANGED <<shutdownRequested, next, chld, queue, watcher, signalled>>

\* Variant: the watcher is not killed.
CloseServerOnly ==
  /\ pc = "close"
  /\ queue' = 0
  /\ next' = 1
  /\ Goto("kill")
  /\ UNCHANGED <<shutdownRequested, children, chld, watcher, childVars, signalled>>

\* close(serverFd), and SIGKILL for the watcher.  Without a watcher its pid
\* is -1, and the signal is for every process that the server may signal.
CloseServer ==
  /\ pc = "close"
  /\ queue' = 0
  /\ watcher' = IF watcher = "reading" THEN "zombie" ELSE watcher
  /\ proc' = [p \in Pids |-> IF watcher = "none" /\ proc[p] \in Live
                             THEN "zombie" ELSE proc[p]]
  /\ chld' = (chld \/ watcher' # watcher \/ proc' # proc)
  /\ next' = 1
  /\ Goto("kill")
  /\ UNCHANGED <<shutdownRequested, children, client, signalled>>

\* What SIGTERM and SIGINT do to a child: they fail the call it is blocked in.
Interrupted(state) ==
  CASE state = "recv" -> "zombie"
    [] state \in {"lockwait", "transfer"} -> "work"
    [] OTHER -> state

Signal(ps) ==
  /\ proc' = [p \in Pids |-> IF p \in ps THEN Interrupted(proc[p]) ELSE proc[p]]
  /\ chld' = (chld \/ \E p \in ps : proc[p] = "recv")

\* Variant: the loop is one iteration short.
KillNextShort ==
  /\ pc = "kill"
  /\ IF next < Len(children)
     THEN /\ Signal({children[next]} \cap Pids)
          /\ signalled' = signalled \cup ({children[next]} \cap Pids)
          /\ next' = next + 1
          /\ UNCHANGED pc
     ELSE Goto("wait") /\ UNCHANGED <<proc, chld, next, signalled>>
  /\ UNCHANGED <<shutdownRequested, children, queue, watcher, client>>

KillNext ==
  /\ pc = "kill"
  /\ IF next <= Len(children)
     THEN /\ Signal({children[next]} \cap Pids)
          /\ signalled' = signalled \cup ({children[next]} \cap Pids)
          /\ next' = next + 1
          /\ UNCHANGED pc
     ELSE Goto("wait") /\ UNCHANGED <<proc, chld, next, signalled>>
  /\ UNCHANGED <<shutdownRequested, children, queue, watcher, client>>

\* while (waitpid(-1, NULL, 0) > 0) {}: ends with ECHILD, or with the EINTR
\* of ShutdownSignal.  In both cases the report is that all handlers have
\* terminated.
Wait ==
  /\ pc = "wait"
  /\ \/ \E p \in Pids :
          /\ proc[p] = "zombie"
          /\ proc' = [proc EXCEPT ![p] = "free"]
          /\ UNCHANGED <<pc, watcher>>
     \/ /\ watcher = "zombie"
        /\ watcher' = "reaped"
        /\ UNCHANGED <<pc, proc>>
     \/ /\ watcher \in {"reaped", "none"} /\ \A p \in Pids : proc[p] = "free"
        /\ Goto("done")
        /\ UNCHANGED <<watcher, proc>>
  /\ UNCHANGED <<shutdownRequested, children, next, chld, queue, client, signalled>>

ParentStep ==
  TestFlag \/ CallPoll \/ Poll \/ Accept \/ Fork \/ CloseServer \/ KillNext \/ Wait

-----------------------------------------------------------------------------
(* Signals for the parent.                                                 *)

Running == pc # "done"

\* Variant: the handler reaps one child.
ReapOne ==
  /\ Running /\ chld
  /\ chld' = FALSE
  /\ IF \E p \in Pids : proc[p] = "zombie"
     THEN proc' = [proc EXCEPT ![CHOOSE p \in Pids : proc[p] = "zombie"] = "free"]
     ELSE UNCHANGED proc
  /\ watcher' = IF watcher = "zombie" THEN "reaped" ELSE watcher
  /\ Goto(IF pc = "poll" THEN "loop" ELSE pc)
  /\ UNCHANGED <<shutdownRequested, children, next, queue, client, signalled>>

\* handleChildSignal reaps whatever has ended, because SIGCHLDs merge into
\* one.  Its handler interrupts poll, which SA_RESTART does not restart.
ReapAll ==
  /\ Running /\ chld
  /\ chld' = FALSE
  /\ proc' = [p \in Pids |-> IF proc[p] = "zombie" THEN "free" ELSE proc[p]]
  /\ watcher' = IF watcher = "zombie" THEN "reaped" ELSE watcher
  /\ Goto(IF pc = "poll" THEN "loop" ELSE pc)
  /\ UNCHANGED <<shutdownRequested, children, next, queue, client, signalled>>

\* handleShutdownSignal.  The handler interrupts poll, and also a waitpid at
\* the end of main, which makes main return without the other children.
ShutdownSignal ==
  /\ shutdownRequested' = TRUE
  /\ \/ Goto(IF pc = "poll" THEN "loop" ELSE pc)
     \/ pc = "wait" /\ Goto("done")

\* kill, at any time and any number of times.
KillServer ==
  /\ Running
  /\ ShutdownSignal
  /\ UNCHANGED <<children, next, chld, queue, watcher, childVars, signalled>>

\* Ctrl+C is for every process of the terminal.  The watcher's fgets fails.
CtrlC ==
  /\ Running
  /\ ShutdownSignal
  /\ proc' = [p \in Pids |-> Interrupted(proc[p])]
  /\ watcher' = IF watcher = "reading" THEN "zombie" ELSE watcher
  /\ chld' = (chld \/ proc' # proc \/ watcher' # watcher)
  /\ UNCHANGED <<children, next, queue, client, signalled>>

\* runConsoleWatcher: "exit" signals the parent; the end of input does not.
WatcherExits ==
  /\ watcher = "reading"
  /\ watcher' = "zombie"
  /\ chld' = TRUE
  /\ ShutdownSignal \/ UNCHANGED <<pc, shutdownRequested>>
  /\ UNCHANGED <<children, next, queue, childVars, signalled>>

-----------------------------------------------------------------------------
(* The children.                                                           *)

CallReceive(p) ==
  /\ proc[p] = "work"
  /\ proc' = [proc EXCEPT ![p] = "recv"]
  /\ UNCHANGED <<parentVars, chld, queue, watcher, client, signalled>>

\* A message arrives: EXIT ends the child, another command runs at once or
\* first waits for a lock.
Command(p) ==
  /\ proc[p] = "recv" /\ client[p]
  /\ \/ Exit(p)
     \/ \E l \in {"work", "lockwait"} :
          proc' = [proc EXCEPT ![p] = l] /\ UNCHANGED chld
  /\ UNCHANGED <<parentVars, queue, watcher, client, signalled>>

\* The lock waited for may or may not be one held by a child in "transfer".
LockGranted(p) ==
  /\ proc[p] = "lockwait"
  /\ \E l \in {"work", "transfer"} : proc' = [proc EXCEPT ![p] = l]
  /\ UNCHANGED <<parentVars, chld, queue, watcher, client, signalled>>

DataArrives(p) ==
  /\ proc[p] = "transfer" /\ client[p]
  /\ proc' = [proc EXCEPT ![p] = "work"]
  /\ UNCHANGED <<parentVars, chld, queue, watcher, client, signalled>>

\* Variant: recv = 0 inside a command is taken for an empty transfer that
\* has to be retried.
EndOfStreamRetried(p) ==
  /\ proc[p] = "recv" /\ ~client[p]
  /\ Exit(p)
  /\ UNCHANGED <<parentVars, queue, watcher, client, signalled>>

\* recvAll fails once the client is gone: the child's loop ends, and a
\* command gives up.  An answer that meets a closed socket is a SIGPIPE.
EndOfStream(p) ==
  /\ ~client[p]
  /\ \/ proc[p] \in {"recv", "work"} /\ Exit(p)
     \/ /\ proc[p] = "transfer"
        /\ proc' = [proc EXCEPT ![p] = "work"] /\ UNCHANGED chld
  /\ UNCHANGED <<parentVars, queue, watcher, client, signalled>>

ChildStep(p) == CallReceive(p) \/ LockGranted(p) \/ EndOfStream(p)

ClientLeaves(p) ==
  /\ client[p]
  /\ client' = [client EXCEPT ![p] = FALSE]
  /\ UNCHANGED <<parentVars, chld, queue, watcher, proc, signalled>>

ClientConnects ==
  /\ InLoop \/ pc = "close"
  /\ queue < Backlog
  /\ queue' = queue + 1
  /\ UNCHANGED <<parentVars, chld, watcher, childVars, signalled>>

-----------------------------------------------------------------------------

Init ==
  /\ pc = "loop"
  /\ shutdownRequested = FALSE
  /\ children = <<>>
  /\ next = 1
  /\ chld = FALSE
  /\ queue = 0
  /\ watcher \in {"reading", "none"}
  /\ signalled = {}
  /\ proc = [p \in Pids |-> "free"]
  /\ client = [p \in Pids |-> FALSE]

Next ==
  \/ ParentStep \/ ReapAll \/ KillServer \/ CtrlC \/ WatcherExits \/ ClientConnects
  \/ \E p \in Pids :
       ChildStep(p) \/ Command(p) \/ DataArrives(p) \/ ClientLeaves(p)

Spec == Init /\ [][Next]_vars

(***************************************************************************)
(* The kernel runs every process that can run and delivers pending         *)
(* signals.  A lock is granted if time and again no child receives data    *)
(* under one.  Nothing is assumed of the users at the console, nor of the  *)
(* clients.                                                                *)
(***************************************************************************)
NobodyTransfers == \A q \in Pids : proc[q] # "transfer"

Fairness ==
  /\ WF_vars(ParentStep)
  /\ WF_vars(ReapAll)
  /\ \A p \in Pids : WF_vars(CallReceive(p)) /\ WF_vars(EndOfStream(p))
                     /\ SF_vars(NobodyTransfers /\ LockGranted(p))

FairSpec == Spec /\ Fairness

-----------------------------------------------------------------------------

(* Every variable keeps its type, and the loop index stays in the array.   *)
TypeOK ==
  /\ pc \in ParentPC
  /\ shutdownRequested \in BOOLEAN
  /\ children \in Seq(Pids \cup {-1}) /\ Len(children) <= MaxChildren
  /\ next \in 1..MaxChildren + 1
  /\ chld \in BOOLEAN
  /\ queue \in 0..Backlog
  /\ watcher \in {"reading", "zombie", "reaped", "none"}
  /\ proc \in [Pids -> ProcState]
  /\ client \in [Pids -> BOOLEAN]
  /\ signalled \subseteq Pids

(* When the parent begins to wait for its children, each one that still    *)
(* runs has been sent SIGTERM, whichever children have ended before, and   *)
(* whose pids were used again; only a child that found the array full is   *)
(* passed over.                                                            *)
EveryChildSignalled ==
  pc = "wait" => \A p \in Pids : proc[p] \in Live =>
    \/ p \in signalled
    \/ Len(children) = MaxChildren /\ p \notin Range(children)

(* A request to shut down is never lost, not even if the signal arrives    *)
(* between the test of the flag and the call of poll.                      *)
ShutdownNoticed == shutdownRequested ~> ~InLoop

(* Once the loop is left and no child serves a connected client any more,  *)
(* the server ends: it waits neither for a watcher that reads the console  *)
(* nor for a lock or a transfer of a client that has left.                 *)
ShutdownCompletes ==
  (~InLoop /\ \A p \in Pids : proc[p] \in Live => ~client[p]) ~> ~Running

(* No ended child stays a zombie while the parent runs, although several   *)
(* SIGCHLDs may arrive as one.                                             *)
ZombiesAreReaped ==
  \A p \in Pids : proc[p] = "zombie" ~> proc[p] = "free" \/ ~Running

(* A child ends when its client leaves, unless another client is being     *)
(* waited for under a lock.                                                *)
ChildFollowsClient ==
  \A p \in Pids : (proc[p] \in Live /\ ~client[p])
                    ~> \/ proc[p] \notin Live \/ client[p]
                       \/ \E q \in Pids : proc[q] = "transfer" /\ client[q]

(* README, "When exit is typed": all client processes are terminated.      *)
AllHandlersTerminate ==
  shutdownRequested ~> \A p \in Pids : proc[p] \notin Live
=============================================================================

---------------------------- MODULE BackgroundJobs -----------------------------
(***************************************************************************)
(* The client's table of background transfers ("upload -b", "download -b").*)
(* The main program enters a job after fork has returned, the SIGCHLD      *)
(* handler removes it when it has ended, and "exit" is refused while the   *)
(* table is not empty.                                                     *)
(*                                                                         *)
(* The handler interrupts the main program between any two accesses to     *)
(* bgPids and bgCount.  bgPids[bgCount++] = pid is, after the test of      *)
(* bgCount, one more load of it and two stores, and C leaves the order of  *)
(* the two stores to the compiler.                                         *)
(***************************************************************************)
EXTENDS Integers, FiniteSets

CONSTANTS
  Pids,    \* the process ids that fork can return; they are recycled
  Size     \* the number of entries of bgPids (128)

ASSUME JobConstants == 0 \notin Pids /\ Size \in Nat \ {0}

VARIABLES
  bgPids,   \* the array; its entries are initially 0
  bgCount,
  proc,     \* pid -> "free", "running" or "zombie"
  chld,     \* SIGCHLD is pending
  inHandler,\* the SIGCHLD handler is running; main is suspended
  pc,       \* where the main program is
  job,      \* the pid that fork returned
  slot,     \* the value of bgCount that was loaded
  disturbed,\* history: the handler ran in the middle of a registration
  lost      \* history: a job did not fit in the table

tableVars == <<bgPids, bgCount>>
mainVars  == <<pc, job, slot>>
history == <<disturbed, lost>>
vars == <<tableVars, proc, chld, inHandler, mainVars, history>>

Index == 0..Size - 1
Gone == pc \in {"left", "cut off"}
Registering == pc # "prompt" /\ ~Gone
Main(l) == pc = l /\ ~inHandler

-----------------------------------------------------------------------------
(* The main program.                                                       *)

\* startBackgroundUpload and startBackgroundDownload: fork.
Fork ==
  /\ Main("prompt")
  /\ \E p \in Pids : /\ proc[p] = "free"
                     /\ proc' = [proc EXCEPT ![p] = "running"]
                     /\ job' = p
  /\ pc' = "forked"
  /\ UNCHANGED <<tableVars, chld, inHandler, slot, history>>

\* Variant: bgCount <= 128 instead of bgCount < 128.
TestOneTooMany ==
  /\ Main("forked")
  /\ IF bgCount <= Size
     THEN pc' = "tested" /\ UNCHANGED lost
     ELSE pc' = "prompt" /\ lost' = TRUE
  /\ UNCHANGED <<tableVars, proc, chld, inHandler, job, slot, disturbed>>

\* Variant: a full table starts again at its first entry.
TestWrapping ==
  /\ Main("forked")
  /\ IF bgCount < Size
     THEN pc' = "tested" /\ UNCHANGED slot
     ELSE pc' = "loaded" /\ slot' = 0
  /\ UNCHANGED <<tableVars, proc, chld, inHandler, job, history>>

\* registerBackgroundProcess: the test.  A full table is left as it is.
Test ==
  /\ Main("forked")
  /\ IF bgCount < Size
     THEN pc' = "tested" /\ UNCHANGED lost
     ELSE pc' = "prompt" /\ lost' = TRUE
  /\ UNCHANGED <<tableVars, proc, chld, inHandler, job, slot, disturbed>>

\* The load of bgCount, which the handler may have lowered since the test.
Load ==
  /\ Main("tested")
  /\ slot' = bgCount
  /\ pc' = "loaded"
  /\ UNCHANGED <<tableVars, proc, chld, inHandler, job, history>>

\* The two stores, in either order.
StoreCount ==
  /\ Main("loaded") \/ Main("entry stored")
  /\ bgCount' = slot + 1
  /\ pc' = IF pc = "loaded" THEN "count stored" ELSE "prompt"
  /\ UNCHANGED <<bgPids, proc, chld, inHandler, job, slot, history>>

StoreEntry ==
  /\ Main("loaded") \/ Main("count stored")
  /\ bgPids' = [bgPids EXCEPT ![slot] = job]
  /\ pc' = IF pc = "loaded" THEN "entry stored" ELSE "prompt"
  /\ UNCHANGED <<bgCount, proc, chld, inHandler, job, slot, history>>

\* "exit": hasActiveBackgroundProcesses refuses it.
Exit ==
  /\ Main("prompt") /\ bgCount = 0
  /\ pc' = "left"
  /\ UNCHANGED <<tableVars, proc, chld, inHandler, job, slot, history>>

\* The server disconnects or standard input ends: main leaves its loop, and
\* the jobs go on without it.
CutOff ==
  /\ Main("prompt")
  /\ pc' = "cut off"
  /\ UNCHANGED <<tableVars, proc, chld, inHandler, job, slot, history>>

-----------------------------------------------------------------------------
(* The jobs, and the handler.                                              *)

\* A transfer ends, or fails.
JobEnds(p) ==
  /\ proc[p] = "running"
  /\ proc' = [proc EXCEPT ![p] = "zombie"]
  /\ chld' = TRUE
  /\ UNCHANGED <<tableVars, inHandler, mainVars, history>>

\* SIGCHLDs merge into one, and are held back while the handler runs.
Deliver ==
  /\ chld /\ ~inHandler /\ ~Gone
  /\ chld' = FALSE
  /\ inHandler' = TRUE
  /\ UNCHANGED <<tableVars, proc, mainVars, history>>

\* Variant: the freed entry is not filled with the last one.
UnregisterShortens(p) ==
  IF \E i \in 0..bgCount - 1 : bgPids[i] = p
  THEN bgCount' = bgCount - 1 /\ UNCHANGED bgPids
  ELSE UNCHANGED tableVars

\* unregisterBackgroundProcess: the last entry takes the place of the first
\* one that holds p.
Unregister(p) ==
  IF \E i \in 0..bgCount - 1 : bgPids[i] = p
  THEN LET i == CHOOSE i \in 0..bgCount - 1 :
                  bgPids[i] = p /\ \A j \in 0..i - 1 : bgPids[j] # p
       IN  /\ bgCount' = bgCount - 1
           /\ bgPids' = [bgPids EXCEPT ![i] = bgPids[bgCount - 1]]
  ELSE UNCHANGED tableVars

\* Variant: "if" instead of "while".
ReapOnce(p) ==
  /\ inHandler
  /\ proc[p] = "zombie"
  /\ proc' = [proc EXCEPT ![p] = "free"]
  /\ Unregister(p)
  /\ inHandler' = FALSE
  /\ disturbed' = (disturbed \/ Registering)
  /\ UNCHANGED <<chld, mainVars, lost>>

\* while ((pid = waitpid(-1, &status, WNOHANG)) > 0)
Reap(p) ==
  /\ inHandler
  /\ proc[p] = "zombie"
  /\ proc' = [proc EXCEPT ![p] = "free"]
  /\ Unregister(p)
  /\ disturbed' = (disturbed \/ Registering)
  /\ UNCHANGED <<chld, inHandler, mainVars, lost>>

Return ==
  /\ inHandler /\ \A p \in Pids : proc[p] # "zombie"
  /\ inHandler' = FALSE
  /\ UNCHANGED <<tableVars, proc, chld, mainVars, history>>

-----------------------------------------------------------------------------

Init ==
  /\ bgPids = [i \in Index |-> 0] /\ bgCount = 0
  /\ proc = [p \in Pids |-> "free"]
  /\ chld = FALSE /\ inHandler = FALSE
  /\ pc = "prompt" /\ job = 0 /\ slot = 0
  /\ disturbed = FALSE /\ lost = FALSE

Register == Test \/ Load \/ StoreCount \/ StoreEntry
Handler  == Deliver \/ Return \/ \E p \in Pids : Reap(p)

Next == \/ Fork \/ Register \/ Exit \/ CutOff
        \/ Handler \/ \E p \in Pids : JobEnds(p)

Spec == Init /\ [][Next]_vars

\* The client runs and the kernel delivers its signals; nothing is assumed
\* of the user or of the length of a transfer.
FairSpec == Spec /\ WF_vars(Register) /\ WF_vars(Handler)

-----------------------------------------------------------------------------

TableTyped ==
  /\ bgPids \in [Index -> Pids \cup {0}] /\ bgCount \in 0..Size
  /\ job \in Pids \cup {0} /\ slot \in Index
  /\ pc = "tested" => bgCount < Size

ProcessesTyped ==
  /\ proc \in [Pids -> {"free", "running", "zombie"}]
  /\ chld \in BOOLEAN /\ inHandler \in BOOLEAN
  /\ pc \in {"prompt", "forked", "tested", "loaded", "count stored",
            "entry stored", "left", "cut off"}
  /\ disturbed \in BOOLEAN /\ lost \in BOOLEAN

(* Every index that is stored to is inside the array, however the handler  *)
(* changes bgCount under the main program.                                 *)
TypeOK == TableTyped /\ ProcessesTyped

Registered == {bgPids[i] : i \in 0..bgCount - 1}

(* As long as every registration fitted in the table and none was          *)
(* interrupted by the end of a job, the table holds exactly the jobs that  *)
(* have not been reaped, each of them once.                                *)
TableExact ==
  ~disturbed /\ ~lost /\ ~Registering =>
    /\ Registered = {p \in Pids : proc[p] # "free"}
    /\ bgCount = Cardinality(Registered)

(* The races between a registration and the handler can leave entries that *)
(* nobody removes any more, so that "exit" is refused for ever, but they   *)
(* never make the count too small: unless the table was full, "exit" is    *)
(* not accepted while a job runs.                                          *)
NoJobUncounted ==
  ~lost /\ pc \in {"prompt", "left"} =>
    Cardinality({p \in Pids : proc[p] # "free"}) <= bgCount

(* The handler leaves no zombie behind, although the ends of several jobs  *)
(* may be announced by one signal.                                         *)
JobsAreReaped ==
  \A p \in Pids : proc[p] = "zombie" ~> proc[p] # "zombie" \/ Gone

(* README, "Client exit": the client cannot exit if background operations  *)
(* are still running.                                                      *)
NoExitWhileJobsRun == pc = "left" => \A p \in Pids : proc[p] # "running"
=============================================================================

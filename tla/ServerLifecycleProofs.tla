------------------------- MODULE ServerLifecycleProofs -------------------------
(***************************************************************************)
(* Theorems about ServerLifecycle, for any pids, any size of the array of  *)
(* children and any backlog.                                               *)
(***************************************************************************)
EXTENDS ServerLifecycle, TLAPS

\* TypeOK in two halves: what the parent keeps, and the processes.  A parent
\* that is at "accept" has seen a connection, and nobody else takes it.
ParentTyped ==
  /\ pc \in ParentPC
  /\ children \in Seq(Pids \cup {-1}) /\ Len(children) <= MaxChildren
  /\ next \in 1..MaxChildren + 1
  /\ queue \in 0..Backlog
  /\ pc = "accept" => queue > 0

ProcessesTyped ==
  /\ shutdownRequested \in BOOLEAN
  /\ chld \in BOOLEAN
  /\ watcher \in {"reading", "zombie", "reaped", "none"}
  /\ proc \in [Pids -> ProcState]
  /\ client \in [Pids -> BOOLEAN]
  /\ signalled \subseteq Pids

-----------------------------------------------------------------------------
(* Types.                                                                  *)

LEMMA NumbersTyped == MaxChildren \in Nat /\ Backlog \in Nat /\ Backlog >= 1
BY LifecycleConstants

LEMMA TrackTyped ==
  ASSUME ParentTyped, NEW pid \in Pids \cup {-1}, Track(pid)
  PROVE  children' \in Seq(Pids \cup {-1}) /\ Len(children') <= MaxChildren
BY NumbersTyped DEF ParentTyped, Track

LEMMA ParentStepTyped ==
  ASSUME ParentTyped, ParentStep
  PROVE  ParentTyped'
<1> USE NumbersTyped DEF ParentTyped, ParentPC, Goto
<1>1. CASE TestFlag \/ CallPoll \/ Poll
  BY <1>1 DEF TestFlag, CallPoll, Poll
<1>2. CASE Accept
  BY <1>2 DEF Accept
<1>3. CASE Fork
  <2>1. children' \in Seq(Pids \cup {-1}) /\ Len(children') <= MaxChildren
    BY <1>3, TrackTyped DEF Fork
  <2> QED BY <1>3, <2>1 DEF Fork
<1>4. CASE CloseServer
  BY <1>4 DEF CloseServer
<1>5. CASE KillNext
  BY <1>5 DEF KillNext
<1>6. CASE Wait
  BY <1>6 DEF Wait
<1> QED BY <1>1, <1>2, <1>3, <1>4, <1>5, <1>6 DEF ParentStep

LEMMA ParentKept ==
  ASSUME ParentTyped, [Next]_vars
  PROVE  ParentTyped'
<1> USE NumbersTyped DEF ParentTyped, ParentPC, Goto
<1>1. CASE ParentStep
  BY <1>1, ParentStepTyped
<1>2. CASE ReapAll
  BY <1>2 DEF ReapAll
<1>3. CASE KillServer \/ CtrlC \/ WatcherExits
  BY <1>3 DEF KillServer, CtrlC, WatcherExits, ShutdownSignal
<1>4. CASE ClientConnects
  BY <1>4 DEF ClientConnects, parentVars
<1>5. CASE UNCHANGED <<parentVars, queue>>
  BY <1>5 DEF parentVars
<1> QED BY <1>1, <1>2, <1>3, <1>4, <1>5
        DEF Next, ChildStep, CallReceive, LockGranted, EndOfStream, Command,
            DataArrives, ClientLeaves, vars

LEMMA SignalTyped ==
  ASSUME ProcessesTyped, NEW ps, Signal(ps)
  PROVE  proc' \in [Pids -> ProcState] /\ chld' \in BOOLEAN
BY DEF ProcessesTyped, Signal, Interrupted, ProcState, Live

LEMMA ProcessesKept ==
  ASSUME ProcessesTyped, [Next]_vars
  PROVE  ProcessesTyped'
<1> USE DEF ProcessesTyped, ProcState, Live
<1>1. CASE TestFlag \/ CallPoll \/ Poll \/ Accept
  BY <1>1 DEF TestFlag, CallPoll, Poll, Accept, childVars
<1>2. CASE Fork
  BY <1>2 DEF Fork, childVars
<1>3. CASE CloseServer
  BY <1>3 DEF CloseServer, childVars
<1>4. CASE KillNext
  BY <1>4, SignalTyped DEF KillNext
<1>5. CASE Wait
  BY <1>5 DEF Wait
<1>6. CASE ReapAll
  BY <1>6 DEF ReapAll
<1>7. CASE KillServer \/ WatcherExits
  BY <1>7 DEF KillServer, WatcherExits, ShutdownSignal, childVars
<1>8. CASE CtrlC
  BY <1>8 DEF CtrlC, ShutdownSignal, Interrupted
<1>9. CASE \E p \in Pids : ChildStep(p) \/ Command(p) \/ DataArrives(p)
  BY <1>9 DEF ChildStep, CallReceive, LockGranted, EndOfStream, Command,
              DataArrives, Exit, parentVars
<1>10. CASE \E p \in Pids : ClientLeaves(p)
  BY <1>10 DEF ClientLeaves, parentVars
<1>11. CASE UNCHANGED <<shutdownRequested, chld, watcher, childVars, signalled>>
  BY <1>11 DEF childVars
<1> QED BY <1>1, <1>2, <1>3, <1>4, <1>5, <1>6, <1>7, <1>8, <1>9, <1>10, <1>11
        DEF Next, ParentStep, ClientConnects, vars, parentVars

LEMMA TypedInvariance == Spec => [](ParentTyped /\ ProcessesTyped)
<1>1. Init => ParentTyped /\ ProcessesTyped
  <2>1. Init => ParentTyped
    BY NumbersTyped DEF Init, ParentTyped, ParentPC
  <2>2. Init => ProcessesTyped
    BY DEF Init, ProcessesTyped, ProcState
  <2> QED BY <2>1, <2>2
<1>2. ParentTyped /\ ProcessesTyped /\ [Next]_vars => ParentTyped' /\ ProcessesTyped'
  BY ParentKept, ProcessesKept
<1> QED BY <1>1, <1>2, PTL DEF Spec

(* For any number of children: the index of the loop that signals them     *)
(* stays in the array, and no connection is accepted that is not there.    *)
THEOREM TypeCorrect == Spec => []TypeOK
<1>1. ParentTyped /\ ProcessesTyped => TypeOK
  BY DEF ParentTyped, ProcessesTyped, TypeOK
<1> QED BY <1>1, TypedInvariance, PTL

-----------------------------------------------------------------------------
(* The signals at the end.  Every child that runs is in the array, unless  *)
(* the array is full; and while the loop sends the signals, a child in the *)
(* array that has not got one is still ahead of it.                        *)

PassedOver(p) == Len(children) = MaxChildren /\ p \notin Range(children)

Tracked ==
  \A p \in Pids : proc[p] \in Live =>
    /\ p \in Range(children) \/ Len(children) = MaxChildren
    /\ pc = "kill" => \/ p \in signalled \/ PassedOver(p)
                      \/ \E k \in next..Len(children) : children[k] = p
    /\ pc = "wait" => p \in signalled \/ PassedOver(p)

\* Only Fork makes a child, and the other steps leave the array alone.
LEMMA LiveStep ==
  ASSUME ProcessesTyped, [Next]_vars, ~Fork, NEW p \in Pids, proc'[p] \in Live
  PROVE  proc[p] \in Live /\ children' = children
<1> USE DEF ProcessesTyped, ProcState, Live
<1>1. CASE TestFlag \/ CallPoll \/ Poll \/ Accept \/ CloseServer \/ Wait
  BY <1>1 DEF TestFlag, CallPoll, Poll, Accept, CloseServer, Wait, childVars
<1>2. CASE KillNext
  BY <1>2 DEF KillNext, Signal, Interrupted
<1>3. CASE ReapAll \/ KillServer \/ WatcherExits
  BY <1>3 DEF ReapAll, KillServer, WatcherExits, childVars
<1>4. CASE CtrlC
  BY <1>4 DEF CtrlC, Interrupted
<1>5. CASE \E q \in Pids : ChildStep(q) \/ Command(q) \/ DataArrives(q)
  BY <1>5 DEF ChildStep, CallReceive, LockGranted, EndOfStream, Command,
              DataArrives, Exit, parentVars
<1>6. CASE UNCHANGED <<children, proc>>
  BY <1>6
<1> QED BY <1>1, <1>2, <1>3, <1>4, <1>5, <1>6
        DEF Next, ParentStep, ClientConnects, ClientLeaves, vars, parentVars, childVars

LEMMA TrackedFork ==
  ASSUME ParentTyped, ProcessesTyped, Tracked, Fork
  PROVE  Tracked'
<1> SUFFICES ASSUME NEW p \in Pids, proc'[p] \in Live
             PROVE  p \in Range(children') \/ Len(children') = MaxChildren
  BY DEF Fork, Goto, Tracked
<1>1. PICK pid \in Pids \cup {-1} :
        /\ Track(pid)
        /\ pid = p \/ proc'[p] = proc[p]
  BY DEF Fork, ProcessesTyped, childVars
<1>2. CASE Len(children) < MaxChildren
  <2>1. children' = Append(children, pid)
    BY <1>1, <1>2 DEF Track
  <2>2. children \in Seq(Pids \cup {-1})
    BY DEF ParentTyped
  <2>3. \A k \in 1..Len(children) : children'[k] = children[k]
    BY <2>1, <2>2
  <2>4. children'[Len(children) + 1] = pid /\ DOMAIN children' = 1..Len(children) + 1
    BY <2>1, <2>2
  <2>5. CASE pid = p
    BY <2>2, <2>4, <2>5 DEF Range
  <2>6. CASE proc'[p] = proc[p]
    <3>1. p \in Range(children)
      BY <1>2, <2>6, NumbersTyped DEF Tracked
    <3>2. PICK k \in 1..Len(children) : children[k] = p
      BY <2>2, <3>1 DEF Range
    <3>3. k \in DOMAIN children' /\ children'[k] = p
      BY <2>2, <2>3, <2>4, <3>2
    <3> QED BY <3>3 DEF Range
  <2> QED BY <1>1, <2>5, <2>6
<1>3. CASE ~(Len(children) < MaxChildren)
  BY <1>1, <1>3, NumbersTyped DEF Track, ParentTyped
<1> QED BY <1>2, <1>3

LEMMA TrackedStep ==
  ASSUME ParentTyped, ProcessesTyped, Tracked, [Next]_vars
  PROVE  Tracked'
<1>1. CASE Fork
  BY <1>1, TrackedFork
<1>2. CASE ~Fork
  <2> SUFFICES ASSUME NEW p \in Pids, proc'[p] \in Live
               PROVE  /\ p \in Range(children') \/ Len(children') = MaxChildren
                      /\ pc' = "kill" => \/ p \in signalled' \/ PassedOver(p)'
                                         \/ \E k \in next'..Len(children') : children'[k] = p
                      /\ pc' = "wait" => p \in signalled' \/ PassedOver(p)'
    BY DEF Tracked
  <2>1. proc[p] \in Live /\ children' = children
    BY <1>2, LiveStep
  <2>2. p \in Range(children) \/ PassedOver(p)
    BY <2>1 DEF Tracked, PassedOver
  <2>3. /\ pc = "kill" => \/ p \in signalled \/ PassedOver(p)
                          \/ \E k \in next..Len(children) : children[k] = p
        /\ pc = "wait" => p \in signalled \/ PassedOver(p)
        /\ p \in Range(children) \/ Len(children) = MaxChildren
    BY <2>1 DEF Tracked
  <2>4. PassedOver(p)' = PassedOver(p)
    BY <2>1 DEF PassedOver
  <2>5. children \in Seq(Pids \cup {-1}) /\ next \in 1..MaxChildren + 1
    BY DEF ParentTyped
  <2>6. CASE CloseServer
    <3>1. next' = 1 /\ pc' = "kill"
      BY <2>6 DEF CloseServer, Goto
    <3>2. p \in Range(children) => \E k \in 1..Len(children) : children[k] = p
      BY <2>5 DEF Range
    <3> QED BY <2>1, <2>2, <2>3, <2>4, <3>1, <3>2
  <2>7. CASE KillNext /\ next <= Len(children)
    <3>1. /\ next' = next + 1 /\ pc' = pc /\ pc = "kill"
          /\ signalled' = signalled \cup ({children[next]} \cap Pids)
      BY <2>7 DEF KillNext
    <3>2. ASSUME NEW k \in next..Len(children), children[k] = p
          PROVE  p \in signalled' \/ k \in next'..Len(children)
      BY <2>5, <3>1, <3>2, NumbersTyped
    <3> QED BY <2>1, <2>3, <2>4, <3>1, <3>2
  <2>8. CASE KillNext /\ ~(next <= Len(children))
    <3>1. pc' = "wait" /\ pc = "kill" /\ signalled' = signalled
      BY <2>8 DEF KillNext, Goto
    <3>2. next..Len(children) = {}
      BY <2>5, <2>8, NumbersTyped
    <3> QED BY <2>1, <2>3, <2>4, <3>1, <3>2
  <2>9. CASE pc' \notin {"kill", "wait"}
    BY <2>1, <2>3, <2>9
  <2>10. CASE UNCHANGED <<pc, next, signalled>>
    BY <2>1, <2>3, <2>4, <2>10
  <2> QED BY <1>2, <2>6, <2>7, <2>8, <2>9, <2>10
          DEF Next, ParentStep, TestFlag, CallPoll, Poll, Accept, Wait, Goto, ReapAll,
              KillServer, CtrlC, WatcherExits, ShutdownSignal, ClientConnects,
              ClientLeaves, ChildStep, CallReceive, LockGranted, EndOfStream,
              Command, DataArrives, vars, parentVars
<1> QED BY <1>1, <1>2

(* When the parent begins to wait, every child that still runs has been    *)
(* sent SIGTERM, unless it found the array full, for any number of         *)
(* children, any size of the array and any reuse of pids.                  *)
THEOREM EveryChildSignalledHolds == Spec => []EveryChildSignalled
<1>1. Init => Tracked
  BY DEF Init, Tracked, Live
<1>2. ParentTyped /\ ProcessesTyped /\ Tracked /\ [Next]_vars => Tracked'
  BY TrackedStep
<1>3. Tracked => EveryChildSignalled
  BY DEF Tracked, EveryChildSignalled, PassedOver
<1> QED BY <1>1, <1>2, <1>3, TypedInvariance, PTL DEF Spec
=============================================================================

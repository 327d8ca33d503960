------------------------- MODULE BackgroundJobsProofs -------------------------
(***************************************************************************)
(* Theorems about BackgroundJobs, for any pids and any size of the table.  *)
(***************************************************************************)
EXTENDS BackgroundJobs, FiniteSetTheorems, TLAPS

\* The jobs that have not been reaped.
Alive == {p \in Pids : proc[p] # "free"}
Jobs == Cardinality(Alive)

-----------------------------------------------------------------------------
(* Types.                                                                  *)

LEMMA SizeTyped == Size \in Nat /\ Size >= 1
BY JobConstants

LEMMA UnregisterTyped ==
  ASSUME TableTyped, NEW p \in Pids, Unregister(p)
  PROVE  bgPids' \in [Index -> Pids \cup {0}] /\ bgCount' \in 0..Size /\ bgCount' <= bgCount
<1>1. CASE \E i \in 0..bgCount - 1 : bgPids[i] = p
  <2>1. bgCount \in 1..Size /\ bgCount - 1 \in Index
    BY <1>1, SizeTyped DEF TableTyped, Index
  <2>2. bgCount' = bgCount - 1 /\ \E i : bgPids' = [bgPids EXCEPT ![i] = bgPids[bgCount - 1]]
    BY <1>1 DEF Unregister
  <2>3. bgPids[bgCount - 1] \in Pids \cup {0}
    BY <2>1 DEF TableTyped
  <2>4. bgCount' \in 0..Size /\ bgCount' <= bgCount
    BY <2>1, <2>2, SizeTyped
  <2>5. bgPids' \in [Index -> Pids \cup {0}]
    BY <2>2, <2>3 DEF TableTyped
  <2> QED BY <2>4, <2>5
<1>2. CASE ~\E i \in 0..bgCount - 1 : bgPids[i] = p
  BY <1>2, SizeTyped DEF TableTyped, Unregister, tableVars
<1> QED BY <1>1, <1>2

LEMMA TableStep ==
  ASSUME TableTyped, [Next]_vars
  PROVE  TableTyped'
<1> USE SizeTyped DEF TableTyped, Index, Main
<1>1. CASE Fork
  BY <1>1 DEF Fork, tableVars
<1>2. CASE Test \/ Load
  BY <1>2 DEF Test, Load, tableVars
<1>3. CASE StoreCount \/ StoreEntry
  <2>1. CASE StoreCount
    <3>1. bgCount' = slot + 1 /\ UNCHANGED <<bgPids, job, slot>>
      BY <2>1 DEF StoreCount
    <3>2. pc' # "tested"
      BY <2>1 DEF StoreCount
    <3> QED BY <3>1, <3>2
  <2>2. CASE StoreEntry
    BY <2>2 DEF StoreEntry
  <2> QED BY <1>3, <2>1, <2>2
<1>4. CASE \E p \in Pids : Reap(p)
  <2>1. PICK p \in Pids : Unregister(p) /\ UNCHANGED <<pc, job, slot>>
    BY <1>4 DEF Reap, mainVars
  <2>2. /\ bgPids' \in [Index -> Pids \cup {0}]
        /\ bgCount' \in 0..Size /\ bgCount' <= bgCount
    BY <2>1, UnregisterTyped
  <2>3. pc' = "tested" => bgCount' < Size
    BY <2>1, <2>2
  <2> QED BY <2>1, <2>2, <2>3
<1>5. CASE UNCHANGED <<tableVars, job, slot>> /\ (pc' = pc \/ pc' # "tested")
  BY <1>5 DEF tableVars
<1> QED BY <1>1, <1>2, <1>3, <1>4, <1>5
        DEF Next, Register, Handler, Exit, CutOff, Deliver, Return, JobEnds,
            vars, mainVars

LEMMA ProcessesStep ==
  ASSUME ProcessesTyped, [Next]_vars
  PROVE  ProcessesTyped'
<1> USE DEF ProcessesTyped, history
<1>1. CASE Fork \/ Exit \/ CutOff
  BY <1>1 DEF Fork, Exit, CutOff
<1>2. CASE Register
  BY <1>2 DEF Register, Test, Load, StoreCount, StoreEntry
<1>3. CASE Handler
  BY <1>3 DEF Handler, Deliver, Return, Reap, mainVars
<1>4. CASE \E p \in Pids : JobEnds(p)
  BY <1>4 DEF JobEnds, mainVars
<1>5. CASE UNCHANGED vars
  BY <1>5 DEF vars, mainVars
<1> QED BY <1>1, <1>2, <1>3, <1>4, <1>5 DEF Next

LEMMA TypeInit == Init => TypeOK
<1> SUFFICES ASSUME Init PROVE TypeOK
  OBVIOUS
<1>1. TableTyped
  BY SizeTyped DEF Init, TableTyped, Index
<1>2. ProcessesTyped
  BY DEF Init, ProcessesTyped
<1> QED BY <1>1, <1>2 DEF TypeOK

LEMMA TypeStep == TypeOK /\ [Next]_vars => TypeOK'
BY TableStep, ProcessesStep DEF TypeOK

(* No store of the main program is ever outside the array, whatever the    *)
(* handler has done to bgCount since the test.                             *)
THEOREM TypeCorrect == Spec => []TypeOK
BY TypeInit, TypeStep, PTL DEF Spec

-----------------------------------------------------------------------------
(* How the steps change the set of jobs.                                   *)

\* Every other step leaves the jobs and their number alone.
LEMMA AliveStep ==
  ASSUME TypeOK, IsFiniteSet(Alive), [Next]_vars
  PROVE  /\ IsFiniteSet(Alive')
         /\ (~Fork /\ ~\E p \in Pids : Reap(p)) => Alive' = Alive
<1> USE DEF TypeOK, Alive
<1>1. CASE \E p \in Pids : JobEnds(p)
  <2>1. Alive' = Alive
    BY <1>1 DEF ProcessesTyped, JobEnds
  <2> QED BY <2>1
<1>2. CASE Fork
  <2>1. PICK p \in Pids : proc' = [proc EXCEPT ![p] = "running"]
    BY <1>2 DEF Fork
  <2>2. Alive' = Alive \cup {p}
    BY <2>1 DEF ProcessesTyped
  <2> QED BY <1>2, <2>2, FS_AddElement
<1>3. CASE \E p \in Pids : Reap(p)
  <2>1. Alive' \subseteq Alive
    BY <1>3 DEF ProcessesTyped, Reap
  <2> QED BY <1>3, <2>1, FS_Subset
<1>4. CASE UNCHANGED proc
  BY <1>4
<1> QED BY <1>1, <1>2, <1>3, <1>4
        DEF Next, Register, Handler, Test, Load, StoreCount, StoreEntry, Exit, CutOff,
            Deliver, Return, vars

LEMMA ForkAdds ==
  ASSUME TypeOK, IsFiniteSet(Alive), Fork
  PROVE  /\ job' \in Pids \ Alive /\ Alive' = Alive \cup {job'}
         /\ Jobs' = Jobs + 1
<1>1. PICK p \in Pids : /\ proc[p] = "free" /\ job' = p
                        /\ proc' = [proc EXCEPT ![p] = "running"]
  BY DEF Fork
<1>2. p \notin Alive /\ Alive' = Alive \cup {p}
  BY <1>1 DEF TypeOK, ProcessesTyped, Alive
<1> QED BY <1>1, <1>2, FS_AddElement DEF Jobs

LEMMA ReapRemoves ==
  ASSUME TypeOK, IsFiniteSet(Alive), NEW p \in Pids, Reap(p)
  PROVE  /\ p \in Alive /\ Alive' = Alive \ {p}
         /\ Jobs \in Nat
         /\ Jobs' = Jobs - 1
<1>1. p \in Alive /\ Alive' = Alive \ {p}
  BY DEF TypeOK, ProcessesTyped, Alive, Reap
<1> QED BY <1>1, FS_RemoveElement, FS_CardinalityType DEF Jobs

-----------------------------------------------------------------------------
(* The count.  While a registration is under way, the bound is on the      *)
(* value that is going to be stored, which the handler cannot change.      *)

Bounded ==
  /\ pc \in {"prompt", "left", "cut off", "count stored"} => Jobs <= bgCount
  /\ pc \in {"forked", "tested"} => Jobs <= bgCount + 1
  /\ pc \in {"loaded", "entry stored"} => Jobs <= slot + 1

Counted == ~lost => Bounded

LEMMA NumbersTyped ==
  ASSUME TypeOK, IsFiniteSet(Alive)
  PROVE  Jobs \in Nat /\ bgCount \in Nat /\ slot \in Nat
<1>1. Jobs \in Nat
  BY FS_CardinalityType DEF Jobs
<1>2. bgCount \in Nat /\ slot \in Nat
  BY SizeTyped DEF TypeOK, TableTyped, Index
<1> QED BY <1>1, <1>2

LEMMA BoundedKept ==
  ASSUME Jobs \in Nat, bgCount \in Nat, slot \in Nat, Bounded,
         pc' = pc, slot' = slot, Jobs' = Jobs - 1,
         bgCount' = bgCount \/ bgCount' = bgCount - 1
  PROVE  Bounded'
<1>1. /\ Jobs <= bgCount => Jobs' <= bgCount'
      /\ Jobs <= bgCount + 1 => Jobs' <= bgCount' + 1
      /\ Jobs <= slot + 1 => Jobs' <= slot' + 1
  OBVIOUS
<1> QED BY <1>1, Zenon DEF Bounded

LEMMA CountedStep ==
  ASSUME TypeOK, IsFiniteSet(Alive), Counted, [Next]_vars
  PROVE  Counted'
<1> USE DEF Counted, Bounded, Main
<1>0. Jobs \in Nat /\ bgCount \in Nat /\ slot \in Nat
  BY NumbersTyped
<1>1. CASE Fork
  <2>1. Jobs' = Jobs + 1
    BY <1>1, ForkAdds
  <2>2. /\ pc = "prompt" /\ pc' = "forked"
        /\ bgCount' = bgCount /\ slot' = slot /\ lost' = lost
    BY <1>1 DEF Fork, tableVars, history
  <2> QED BY <1>0, <2>1, <2>2
<1>2. CASE \E p \in Pids : Reap(p)
  <2>1. PICK p \in Pids : Reap(p)
    BY <1>2
  <2>2. bgCount' = bgCount \/ bgCount' = bgCount - 1
    BY <2>1 DEF Reap, Unregister, tableVars
  <2>3. Jobs' = Jobs - 1
    BY <2>1, ReapRemoves
  <2>4. pc' = pc /\ slot' = slot
    BY <2>1 DEF Reap, mainVars
  <2>5. Bounded => Bounded'
    BY <1>0, <2>2, <2>3, <2>4, BoundedKept
  <2> QED BY <2>1, <2>5 DEF Reap
<1>3. CASE ~Fork /\ ~\E p \in Pids : Reap(p)
  <2>1. Jobs' = Jobs
    BY <1>3, AliveStep DEF Jobs
  <2>2. CASE Test \/ Load
    BY <1>0, <2>1, <2>2 DEF Test, Load, tableVars, history
  <2>3. CASE StoreCount \/ StoreEntry
    BY <1>0, <2>1, <2>3 DEF StoreCount, StoreEntry, history
  <2>4. CASE Exit \/ CutOff
    BY <2>1, <2>4 DEF Exit, CutOff, tableVars, history
  <2>5. CASE UNCHANGED <<bgCount, pc, slot, lost>>
    BY <2>1, <2>5
  <2> QED BY <1>3, <2>2, <2>3, <2>4, <2>5
          DEF Next, Register, Handler, Deliver, Return, JobEnds,
              vars, tableVars, mainVars, history
<1> QED BY <1>1, <1>2, <1>3

LEMMA CountedInit == Init => IsFiniteSet(Alive) /\ Counted
<1> SUFFICES ASSUME Init PROVE IsFiniteSet(Alive) /\ Counted
  OBVIOUS
<1>1. Alive = {}
  BY DEF Init, Alive
<1> QED BY <1>1, FS_EmptySet DEF Init, Counted, Bounded, Jobs

LEMMA CountedInvariance == Spec => [](TypeOK /\ IsFiniteSet(Alive) /\ Counted)
<1>1. TypeOK /\ IsFiniteSet(Alive) /\ Counted /\ [Next]_vars
        => TypeOK' /\ IsFiniteSet(Alive)' /\ Counted'
  BY TypeStep, AliveStep, CountedStep
<1> QED BY <1>1, TypeInit, CountedInit, PTL DEF Spec

(* For any number of jobs, and wherever the handler interrupts the main    *)
(* program: exit is not accepted while a job runs, unless the table was    *)
(* full when it was started.                                               *)
THEOREM NoJobUncountedHolds == Spec => []NoJobUncounted
<1>1. Counted => NoJobUncounted
  BY DEF Counted, Bounded, NoJobUncounted, Alive, Jobs
<1> QED BY <1>1, CountedInvariance, PTL

-----------------------------------------------------------------------------
(* The entries.  The first n of them list the set S, each member once.     *)

Lists(a, n, S) ==
  /\ {a[i] : i \in 0..n - 1} = S
  /\ \A i, j \in 0..n - 1 : a[i] = a[j] => i = j

\* While a registration is under way, the new job is the only one missing.
Entered ==
  /\ ~Registering => Lists(bgPids, bgCount, Alive) /\ bgCount = Jobs
  /\ Registering => job \in Alive
  /\ pc \in {"forked", "tested", "loaded", "entry stored"} =>
       Lists(bgPids, bgCount, Alive \ {job}) /\ bgCount = Jobs - 1
  /\ pc \in {"loaded", "entry stored"} => slot = bgCount
  /\ pc = "entry stored" => bgPids[slot] = job
  /\ pc = "count stored" => /\ Lists(bgPids, slot, Alive \ {job})
                            /\ slot = Jobs - 1 /\ bgCount = slot + 1

Exact == ~disturbed /\ ~lost => Entered

\* An entry behind the others is added to what they list.
LEMMA AddEntry ==
  ASSUME NEW a, NEW n \in Nat, NEW S, Lists(a, n, S), a[n] \notin S
  PROVE  Lists(a, n + 1, S \cup {a[n]})
<1>1. 0..(n + 1) - 1 = (0..n - 1) \cup {n}
  OBVIOUS
<1>2. {a[i] : i \in 0..(n + 1) - 1} = {a[i] : i \in 0..n - 1} \cup {a[n]}
  BY <1>1
<1>3. \A i \in 0..n - 1 : a[i] \in S
  BY DEF Lists
<1>4. ASSUME NEW i \in 0..(n + 1) - 1, NEW j \in 0..(n + 1) - 1, a[i] = a[j]
      PROVE  i = j
  BY <1>1, <1>3, <1>4 DEF Lists
<1> QED BY <1>2, <1>4 DEF Lists

\* The entries behind the first n do not matter.
LEMMA ListsSame ==
  ASSUME NEW a, NEW b, NEW n, NEW S, Lists(a, n, S),
         \A i \in 0..n - 1 : b[i] = a[i]
  PROVE  Lists(b, n, S)
BY DEF Lists

\* The last entry takes the place of the one that is removed.
LEMMA RemoveEntry ==
  ASSUME NEW a, NEW b, NEW n \in Nat, NEW S, Lists(a, n, S),
         NEW k \in 0..n - 1, b[k] = a[n - 1],
         \A i \in 0..n - 1 : i # k => b[i] = a[i]
  PROVE  Lists(b, n - 1, S \ {a[k]})
<1> DEFINE I == 0..n - 1
           J == 0..(n - 1) - 1
<1>1. J \subseteq I /\ n - 1 \in I /\ I = J \cup {n - 1} /\ n - 1 \notin J
  OBVIOUS
<1>2. \A i, j \in I : a[i] = a[j] => i = j
  BY DEF Lists
<1>3. S = {a[i] : i \in I}
  BY DEF Lists
<1>4. k \in I /\ b[k] = a[n - 1] /\ \A i \in I : i # k => b[i] = a[i]
  OBVIOUS
<1> HIDE DEF I, J
<1>5. \A i, j \in J : b[i] = b[j] => i = j
  BY <1>1, <1>2, <1>4
<1>6. \A i \in J : b[i] \in S \ {a[k]}
  BY <1>1, <1>2, <1>3, <1>4
<1>7. ASSUME NEW x \in S \ {a[k]}
      PROVE  \E i \in J : x = b[i]
  <2>1. PICK i \in I : x = a[i] /\ i # k
    BY <1>3, <1>7
  <2>2. CASE i = n - 1
    BY <1>1, <1>4, <2>1, <2>2
  <2>3. CASE i # n - 1
    BY <1>1, <1>4, <2>1, <2>3
  <2> QED BY <2>2, <2>3
<1>8. {b[i] : i \in J} = S \ {a[k]}
  BY <1>6, <1>7
<1> QED BY <1>5, <1>8 DEF Lists, J

LEMMA UnregisterExact ==
  ASSUME TypeOK, NEW p \in Pids, NEW S, Lists(bgPids, bgCount, S), p \in S,
         Unregister(p)
  PROVE  Lists(bgPids', bgCount', S \ {p}) /\ bgCount' = bgCount - 1
<1>0. bgCount \in Nat /\ bgCount <= Size /\ Size \in Nat
  BY SizeTyped DEF TypeOK, TableTyped
<1>1. \E i \in 0..bgCount - 1 : bgPids[i] = p
  BY DEF Lists
<1> DEFINE First(i) == bgPids[i] = p /\ \A j \in 0..i - 1 : bgPids[j] # p
           k == CHOOSE i \in 0..bgCount - 1 : First(i)
<1>2. k \in 0..bgCount - 1 /\ bgPids[k] = p
  <2>1. PICK i \in 0..bgCount - 1 : bgPids[i] = p
    BY <1>1
  <2>2. \A j \in 0..i - 1 : j \in 0..bgCount - 1 /\ j # i
    BY <1>0
  <2>3. \A j \in 0..i - 1 : bgPids[j] # p
    BY <2>1, <2>2 DEF Lists
  <2>4. \E x \in 0..bgCount - 1 : First(x)
    BY <2>1, <2>3
  <2> QED BY <2>4
<1>3. /\ bgCount' = bgCount - 1
      /\ bgPids' = [bgPids EXCEPT ![k] = bgPids[bgCount - 1]]
  BY <1>1 DEF Unregister
<1> HIDE DEF k
<1>4. \A i \in 0..bgCount - 1 : i \in Index
  BY <1>0 DEF Index
<1>5. /\ bgPids'[k] = bgPids[bgCount - 1]
      /\ \A i \in 0..bgCount - 1 : i # k => bgPids'[i] = bgPids[i]
  BY <1>2, <1>3, <1>4 DEF TypeOK, TableTyped
<1>6. Lists(bgPids', bgCount - 1, S \ {bgPids[k]})
  BY <1>0, <1>2, <1>5, RemoveEntry
<1> QED BY <1>2, <1>3, <1>6

LEMMA ExactMain ==
  ASSUME TypeOK, IsFiniteSet(Alive), Exact,
         Fork \/ Test \/ Load \/ StoreCount \/ StoreEntry
  PROVE  Exact'
<1> SUFFICES ASSUME ~disturbed', ~lost'
             PROVE  Entered'
  BY DEF Exact
<1>0. Jobs \in Nat /\ bgCount \in Nat /\ slot \in Nat /\ slot \in Index
  BY NumbersTyped DEF TypeOK, TableTyped
<1>1. CASE Fork
  <2>1. /\ pc = "prompt" /\ pc' = "forked" /\ ~disturbed /\ ~lost
        /\ bgPids' = bgPids /\ bgCount' = bgCount
    BY <1>1 DEF Fork, Main, tableVars, history
  <2>2. Lists(bgPids, bgCount, Alive) /\ bgCount = Jobs
    BY <2>1 DEF Exact, Entered, Registering, Gone
  <2>3. job' \in Alive' /\ Alive' \ {job'} = Alive /\ Jobs' = Jobs + 1
    BY <1>1, ForkAdds
  <2>4. bgCount' = Jobs' - 1
    BY <1>0, <2>1, <2>2, <2>3
  <2> QED BY <2>1, <2>2, <2>3, <2>4 DEF Entered, Registering, Gone
<1>2. CASE ~Fork
  <2>a. Next /\ ~\E p \in Pids : Reap(p)
    <3>1. ~\E p \in Pids : Reap(p)
      BY <1>2 DEF Test, Load, StoreCount, StoreEntry, Reap, Main
    <3> QED BY <1>2, <3>1 DEF Next, Register
  <2>1. Alive' = Alive /\ Jobs' = Jobs
    BY <1>2, <2>a, AliveStep DEF Jobs
  <2>2. CASE Test \/ Load
    <3>1. \/ pc = "forked" /\ pc' = "tested"
          \/ pc = "tested" /\ pc' = "loaded" /\ slot' = bgCount
      BY <2>2 DEF Test, Load, Main
    <3>2. ~disturbed /\ ~lost /\ UNCHANGED <<bgPids, bgCount, job>>
      BY <2>2 DEF Test, Load, tableVars, history
    <3>3. /\ job \in Alive /\ Lists(bgPids, bgCount, Alive \ {job})
          /\ bgCount = Jobs - 1
      BY <3>1, <3>2 DEF Exact, Entered, Registering, Gone
    <3> QED BY <2>1, <3>1, <3>2, <3>3 DEF Entered, Registering, Gone
  <2>3. CASE StoreCount
    <3>1. /\ bgCount' = slot + 1 /\ bgPids' = bgPids /\ job' = job /\ slot' = slot
          /\ ~disturbed /\ ~lost
      BY <2>3 DEF StoreCount, history
    <3>2. Lists(bgPids, slot, Alive \ {job}) /\ slot = Jobs - 1 /\ job \in Alive
      BY <2>3, <3>1 DEF StoreCount, Main, Exact, Entered, Registering, Gone
    <3>3. CASE pc = "loaded"
      <4>1. pc' = "count stored"
        BY <2>3, <3>3 DEF StoreCount
      <4> QED BY <2>1, <3>1, <3>2, <4>1 DEF Entered, Registering, Gone
    <3>4. CASE pc = "entry stored"
      <4>1. pc' = "prompt"
        BY <2>3, <3>4 DEF StoreCount
      <4>2. bgPids[slot] = job
        BY <3>1, <3>4 DEF Exact, Entered
      <4>3. Lists(bgPids, slot + 1, (Alive \ {job}) \cup {job})
        BY <3>2, <4>2, <1>0, AddEntry DEF Index
      <4>4. (Alive \ {job}) \cup {job} = Alive
        BY <3>2
      <4>5. slot + 1 = Jobs
        BY <1>0, <3>2
      <4> QED BY <2>1, <3>1, <4>1, <4>3, <4>4, <4>5 DEF Entered, Registering, Gone
    <3> QED BY <2>3, <3>3, <3>4 DEF StoreCount, Main
  <2>4. CASE StoreEntry
    <3>1. /\ bgPids' = [bgPids EXCEPT ![slot] = job] /\ bgCount' = bgCount
          /\ job' = job /\ slot' = slot /\ ~disturbed /\ ~lost
      BY <2>4 DEF StoreEntry, history
    <3>2. /\ Lists(bgPids, slot, Alive \ {job}) /\ slot = Jobs - 1 /\ job \in Alive
          /\ pc = "loaded" => bgCount = slot
          /\ pc = "count stored" => bgCount = slot + 1
      BY <2>4, <3>1 DEF StoreEntry, Main, Exact, Entered, Registering, Gone
    <3>3. bgPids'[slot] = job
      BY <1>0, <3>1 DEF TypeOK, TableTyped
    <3>4. Lists(bgPids', slot, Alive \ {job})
      <4>1. \A i \in 0..slot - 1 : bgPids'[i] = bgPids[i]
        BY <1>0, <3>1 DEF TypeOK, TableTyped, Index
      <4> QED BY <3>2, <4>1, ListsSame
    <3>5. CASE pc = "loaded"
      <4>1. pc' = "entry stored"
        BY <2>4, <3>5 DEF StoreEntry
      <4> QED BY <2>1, <3>1, <3>2, <3>3, <3>4, <3>5, <4>1 DEF Entered, Registering, Gone
    <3>6. CASE pc = "count stored"
      <4>1. pc' = "prompt"
        BY <2>4, <3>6 DEF StoreEntry
      <4>2. Lists(bgPids', slot + 1, (Alive \ {job}) \cup {job})
        BY <3>3, <3>4, <1>0, AddEntry DEF Index
      <4>3. (Alive \ {job}) \cup {job} = Alive
        BY <3>2
      <4>4. slot + 1 = Jobs
        <5>1. slot = Jobs - 1
          BY <3>2
        <5> QED BY <1>0, <5>1
      <4> QED BY <2>1, <3>1, <3>2, <3>6, <4>1, <4>2, <4>3, <4>4
              DEF Entered, Registering, Gone
    <3> QED BY <2>4, <3>5, <3>6 DEF StoreEntry, Main
  <2> QED BY <1>2, <2>2, <2>3, <2>4
<1> QED BY <1>1, <1>2

LEMMA ExactReap ==
  ASSUME TypeOK, IsFiniteSet(Alive), Exact, NEW p \in Pids, Reap(p)
  PROVE  Exact'
<1> SUFFICES ASSUME ~disturbed', ~lost'
             PROVE  Entered'
  BY DEF Exact
<1>1. /\ ~Registering /\ ~disturbed /\ ~lost /\ Unregister(p) /\ pc' = pc
  BY DEF Reap, mainVars
<1>2. ~Registering'
  BY <1>1 DEF Registering, Gone
<1>3. Lists(bgPids, bgCount, Alive) /\ bgCount = Jobs
  BY <1>1 DEF Exact, Entered
<1>4. p \in Alive /\ Alive' = Alive \ {p} /\ Jobs' = Jobs - 1
  BY ReapRemoves
<1>5. Lists(bgPids', bgCount', Alive') /\ bgCount' = Jobs'
  BY <1>1, <1>3, <1>4, UnregisterExact
<1>6. pc' \notin {"forked", "tested", "loaded", "entry stored", "count stored"}
  BY <1>2 DEF Registering, Gone
<1> QED BY <1>2, <1>5, <1>6 DEF Entered

LEMMA ExactStep ==
  ASSUME TypeOK, IsFiniteSet(Alive), Exact, [Next]_vars
  PROVE  Exact'
<1>1. CASE Fork \/ Register
  BY <1>1, ExactMain DEF Register
<1>2. CASE \E p \in Pids : Reap(p)
  BY <1>2, ExactReap
<1>3. CASE ~Fork /\ ~Register /\ ~\E p \in Pids : Reap(p)
  <2>1. Alive' = Alive /\ Jobs' = Jobs
    BY <1>3, AliveStep DEF Jobs
  <2>2. UNCHANGED <<bgPids, bgCount, job, slot, disturbed, lost>>
    BY <1>3 DEF Next, Handler, Exit, CutOff, Deliver, Return, JobEnds, vars,
                tableVars, mainVars, history
  <2>3. CASE UNCHANGED pc
    BY <2>1, <2>2, <2>3 DEF Exact, Entered, Registering, Gone
  <2>4. CASE Exit \/ CutOff
    <3>1. pc = "prompt" /\ pc' \in {"left", "cut off"}
      BY <2>4 DEF Exit, CutOff, Main
    <3> QED BY <2>1, <2>2, <3>1 DEF Exact, Entered, Registering, Gone
  <2> QED BY <1>3, <2>3, <2>4
          DEF Next, Handler, Deliver, Return, JobEnds, vars, mainVars
<1> QED BY <1>1, <1>2, <1>3

LEMMA ExactInit == Init => Exact
<1> SUFFICES ASSUME Init PROVE Exact
  OBVIOUS
<1>1. Alive = {} /\ bgCount = 0 /\ pc = "prompt"
  BY DEF Init, Alive
<1>2. Jobs = 0
  BY <1>1, FS_EmptySet DEF Jobs
<1>3. Lists(bgPids, 0, {})
  BY DEF Lists
<1> QED BY <1>1, <1>2, <1>3 DEF Exact, Entered, Registering, Gone

(* For any number of jobs and any size of the table: as long as every      *)
(* registration fitted and none was interrupted by a reaping, the table    *)
(* lists the jobs that have not been reaped, each of them once, whatever   *)
(* order the compiler gave the two stores and whichever job ends first.    *)
THEOREM TableExactHolds == Spec => []TableExact
<1>1. Exact => TableExact
  <2> SUFFICES ASSUME Exact, ~disturbed, ~lost, ~Registering
               PROVE  /\ Registered = {p \in Pids : proc[p] # "free"}
                      /\ bgCount = Cardinality(Registered)
    BY DEF TableExact
  <2>1. Lists(bgPids, bgCount, Alive) /\ bgCount = Jobs
    BY DEF Exact, Entered
  <2>2. Registered = Alive
    BY <2>1 DEF Lists, Registered
  <2> QED BY <2>1, <2>2 DEF Jobs, Alive
<1>2. TypeOK /\ IsFiniteSet(Alive) /\ Exact /\ [Next]_vars => Exact'
  BY ExactStep
<1> QED BY <1>1, <1>2, ExactInit, CountedInvariance, PTL DEF Spec
=============================================================================

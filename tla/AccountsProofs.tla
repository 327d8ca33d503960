----------------------------- MODULE AccountsProofs -----------------------------
(***************************************************************************)
(* The theorem that CREATE_USER and DELETE_USER leave nothing half-done,   *)
(* for any sessions, user names and uids.  UserAdminProofs says which      *)
(* handler owns what it has made; here is what the account and the home of *)
(* a user are at each stage of the handler that owns them.                 *)
(***************************************************************************)
EXTENDS UserAdminProofs

Deletes(s, n) == op[s] = "delete" /\ name[s] = n

\* userdel has succeeded for the DELETE_USER of s.
Removed(s) == helper[s] \in {"succeeded", "stolen"} \/ pc[s] = "remove home"

\* An account that no command is making has its home, unless a DELETE_USER
\* has removed the one and not yet the other.
Matched(n) ==
  userBy[n] = None =>
    \/ home[n] = account[n]
    \/ account[n] = None /\ \E s \in Sessions : Deletes(s, n) /\ Removed(s)

\* The CREATE_USER that made the account of n: it knows that it did, no other
\* has made the home, and its uid is the one that the home will have.
Making(s, n) ==
  userBy[n] = s =>
    /\ Creates(s, n)
    /\ homeBy[n] # s => homeBy[n] = None /\ home[n] = None
    /\ "user" \in made[s] \/ (helper[s] = "succeeded" /\ ~error[s])
    /\ error[s] => helper[s] \in {"none", "running", "scanned"}
    /\ pc[s] = "chown" => pwd[s] = account[n]

MakingHome(s, n) ==
  homeBy[n] = s =>
    /\ userBy[n] = s /\ "home" \in made[s]
    /\ pc[s] \in {"get ids", "chown", "undo home"}

Unmaking(s, n) ==
  Deletes(s, n) => helper[s] # "failed" /\ (Removed(s) => account[n] = None)

Whole(n) ==
  /\ Matched(n)
  /\ \A s \in Sessions : Making(s, n) /\ MakingHome(s, n) /\ Unmaking(s, n)

WholeInv == \A n \in Users \ spoiled : Whole(n)

\* A step leaves everything that is recorded of n.
RecordsKept(n) ==
  /\ account'[n] = account[n] /\ home'[n] = home[n]
  /\ userBy'[n] = userBy[n] /\ homeBy'[n] = homeBy[n]

-----------------------------------------------------------------------------
(* What a step of s can do to the records of n.                            *)

LEMMA NoneIsNobody == None \notin Sessions \cup Users \cup Uids \cup {"root"}
BY UserConstants

LEMMA OwnersAre ==
  ASSUME Typed, NEW n \in Users
  PROVE  userBy[n] \in Sessions \cup {None} /\ homeBy[n] \in Sessions \cup {None}
BY DEF Typed, OwnersTyped

\* The steps that write the account or the home of n belong to a command
\* about n.
LEMMA Writer ==
  ASSUME Typed, NEW s \in Sessions, Course(s), Act(s), NEW n \in Users,
         account'[n] # account[n] \/ home'[n] # home[n]
  PROVE  Creates(s, n) \/ Deletes(s, n)
<1>1. CASE account'[n] # account[n]
  <2>1. AdduserEnds(s) \/ UserdelEnds(s)
    BY <1>1, AccountsChange
  <2>2. n = Target(s)
    BY <1>1, <2>1 DEF AdduserEnds, UserdelEnds, Typed, AccountsTyped
  <2>3. op[s] \in {"create", "delete"}
    BY <2>1, UserdelCourse DEF AdduserEnds, Adding
  <2> QED BY <2>2, <2>3 DEF Creates, Deletes, Target
<1>2. CASE home'[n] # home[n]
  <2>1. n = Target(s) /\ (Mkdir(s) \/ Chown(s) \/ UndoHome(s) \/ DeleteHome(s))
    BY <1>2, HomeChange
  <2>2. pc[s] \in {"mkdir", "chown", "undo home", "remove home"}
    BY <2>1 DEF Mkdir, Chown, UndoHome, DeleteHome
  <2> QED BY <2>1, <2>2 DEF Course, Creates, Deletes, Target
<1> QED BY <1>1, <1>2

LEMMA RecordsOf ==
  ASSUME Typed, NEW s \in Sessions, Course(s), Act(s), NEW n \in Users, Whole(n),
         ~Creates(s, n), ~Deletes(s, n)
  PROVE  RecordsKept(n)
<1>1. userBy[n] # s /\ homeBy[n] # s
  BY DEF Whole, Making, MakingHome
<1>2. account'[n] = account[n] /\ home'[n] = home[n]
  BY Writer
<1>3. userBy'[n] = userBy[n]
  <2>1. SUFFICES ASSUME userBy'[n] # userBy[n]
                 PROVE  FALSE
    OBVIOUS
  <2>2. (AdduserEnds(s) \/ UserdelEnds(s)) /\ n = Target(s)
    BY <1>1, <2>1, UserByChange
  <2> QED BY <2>2, UserdelCourse DEF AdduserEnds, Adding, Creates, Deletes, Target
<1>4. homeBy'[n] = homeBy[n]
  <2>1. SUFFICES ASSUME homeBy'[n] # homeBy[n]
                 PROVE  FALSE
    OBVIOUS
  <2>2. (Mkdir(s) \/ UndoHome(s)) /\ n = Target(s)
    BY <1>1, <2>1, HomeByChange
  <2> QED BY <2>2 DEF Mkdir, UndoHome, Course, Creates, Deletes, Target
<1> QED BY <1>2, <1>3, <1>4 DEF RecordsKept

\* What one CREATE_USER has made no other command touches.
LEMMA MadeByOther ==
  ASSUME Typed, OwnerInv, NEW s \in Sessions, Act(s), NEW n \in Users \ spoiled,
         Whole(n), NEW u \in Sessions \ {s}, userBy[n] = u
  PROVE  RecordsKept(n)
<1>0. /\ Course(s) /\ Clean(n) /\ Recorded(n) /\ Creates(u, n)
      /\ homeBy[n] # s /\ account[n] # None
  BY NoneIsNobody DEF OwnerInv, Recorded, Whole, Making, MakingHome
<1>1. ~Deletes(s, n)
  BY <1>0 DEF Clean, Alone, Creates, Deletes
<1>2. CASE ~Creates(s, n)
  BY <1>0, <1>1, <1>2, RecordsOf
<1>3. CASE Creates(s, n)
  <2>0. Owns(s, n) /\ Target(s) = n
    BY <1>0, <1>3 DEF Clean, Creates, Target
  <2>1. ~(Mkdir(s) \/ Chown(s))
    BY <1>0, <2>0 DEF Mkdir, Chown, Course, Owns
  <2>2. ~(UndoHome(s) /\ "home" \in made[s])
    BY <1>0, <2>0 DEF UndoHome, Owns
  <2>3. ~UserdelEnds(s)
    BY <1>0, <1>1, <1>3, <2>0, UserdelCourse DEF Owns, Deletes, Creates
  <2>4. home'[n] = home[n]
    <3>1. ~DeleteHome(s)
      BY <1>0, <1>3 DEF DeleteHome, Course, Creates
    <3>2. UndoHome(s) => home' = home
      BY <2>2 DEF UndoHome
    <3> QED BY <2>1, <3>1, <3>2, HomeChange
  <2>5. account'[n] = account[n]
    <3>1. ~(AdduserEnds(s) /\ account[Target(s)] = None)
      BY <1>0, <2>0
    <3> QED BY <2>3, <3>1, AccountsChange
  <2>6. homeBy'[n] = homeBy[n]
    BY <1>0, <2>1, <2>2, HomeByChange
  <2>7. userBy'[n] = userBy[n]
    BY <1>0, <2>3, UserByChange
  <2> QED BY <2>4, <2>5, <2>6, <2>7 DEF RecordsKept
<1> QED BY <1>2, <1>3

\* As long as the user is spared: who owns what after a step.
LEMMA NewOwners ==
  ASSUME Typed, NEW s \in Sessions, Act(s), NEW n \in Users
  PROVE  /\ userBy'[n] \in {userBy[n], s, None}
         /\ homeBy'[n] \in {homeBy[n], s, None}
BY UserByChange, HomeByChange

-----------------------------------------------------------------------------
(* The handlers that do not take the step.                                 *)

LEMMA BystanderMakes ==
  ASSUME Typed, OwnerInv, NEW s \in Sessions, Act(s), NEW n \in Users \ spoiled,
         Whole(n), NEW u \in Sessions \ {s}
  PROVE  Making(u, n)' /\ MakingHome(u, n)'
<1>1. /\ pc'[u] = pc[u] /\ helper'[u] = helper[u]
      /\ op'[u] = op[u] /\ name'[u] = name[u] /\ pwd'[u] = pwd[u]
      /\ made'[u] = made[u] /\ error'[u] = error[u]
  BY OthersControl, OthersLocals
<1>2. userBy'[n] = u \/ homeBy'[n] = u => userBy[n] = u
  BY NewOwners, NoneIsNobody DEF Whole, MakingHome
<1>3. userBy[n] = u => RecordsKept(n)
  BY MadeByOther
<1>4. Making(u, n) /\ MakingHome(u, n)
  BY DEF Whole
<1>5. Making(u, n)'
  BY <1>1, <1>2, <1>3, <1>4 DEF Making, Creates, RecordsKept
<1>6. MakingHome(u, n)'
  BY <1>1, <1>2, <1>3, <1>4 DEF MakingHome, RecordsKept
<1> QED BY <1>5, <1>6

LEMMA BystanderDeletes ==
  ASSUME Typed, OwnerInv, NEW s \in Sessions, Act(s), NEW n \in Users \ spoiled,
         Whole(n), NEW u \in Sessions \ {s}
  PROVE  /\ Unmaking(u, n)'
         /\ Deletes(u, n)' = Deletes(u, n) /\ Removed(u)' = Removed(u)
<1>1. /\ pc'[u] = pc[u] /\ helper'[u] = helper[u]
      /\ op'[u] = op[u] /\ name'[u] = name[u]
  BY OthersControl, OthersLocals
<1>2. Deletes(u, n)' = Deletes(u, n) /\ Removed(u)' = Removed(u)
  BY <1>1 DEF Deletes, Removed
<1>3. Unmaking(u, n) /\ Course(s) /\ Clean(n)
  BY DEF Whole, OwnerInv
<1>4. ASSUME Deletes(u, n), account[n] = None
      PROVE  account'[n] = None
  <2>1. SUFFICES ASSUME account'[n] # account[n]
                 PROVE  FALSE
    BY <1>4
  <2>2. ~Creates(s, n)
    BY <1>3, <1>4 DEF Clean, Alone, Creates, Deletes
  <2>3. AdduserEnds(s) \/ UserdelEnds(s)
    BY <2>1, AccountsChange
  <2>4. n = Target(s)
    BY <2>1, <2>3 DEF AdduserEnds, UserdelEnds, Typed, AccountsTyped
  <2>5. ~AdduserEnds(s)
    BY <2>2, <2>4 DEF AdduserEnds, Adding, Creates, Target
  <2> QED BY <1>4, <2>1, <2>3, <2>4, <2>5 DEF UserdelEnds
<1> QED BY <1>1, <1>2, <1>3, <1>4 DEF Unmaking

-----------------------------------------------------------------------------
(* The CREATE_USER that takes the step.                                    *)

\* A CREATE_USER of n takes one of these steps, and while it runs no command
\* that it knows of deletes n.
LEMMA CreatorActs ==
  ASSUME Typed, NEW s \in Sessions, Course(s), Act(s), NEW n \in Users, Creates(s, n)
  PROVE  CreateStep(s) \/ HelperRuns(s) \/ Stolen(s)
<1>1. pc[s] \notin {"idle", "find home", "find user", "become", "fork", "remove home"}
  BY NoneIsNobody DEF Course, Creates
<1>2. ~Begin(s) /\ ~Leave(s)
  BY <1>1 DEF Begin, BeginLogin, BeginCreate, BeginDelete, Start, Leave
<1>3. ~LoginStep(s)
  BY <1>1 DEF LoginStep, FindHome, FindUser, Become
<1>4. ~DeleteStep(s)
  BY <1>1 DEF DeleteStep, ForkUserdel, Deleted, DeleteHome, Creates
<1> QED BY <1>2, <1>3, <1>4 DEF Act, Step

LEMMA NobodyDeletes ==
  ASSUME Typed, OwnerInv, NEW s \in Sessions, NEW n \in Users \ spoiled, Creates(s, n)
  PROVE  \A u \in Sessions : ~Deletes(u, n)
BY DEF OwnerInv, Clean, Alone, Creates, Deletes

\* Without an account of its own, all it can do is to let adduser make one.
LEMMA FirstStage ==
  ASSUME Typed, OwnerInv, NEW s \in Sessions, Act(s), NEW n \in Users \ spoiled,
         Whole(n), Creates(s, n), userBy[n] = None
  PROVE  /\ homeBy[n] = None /\ home[n] = account[n]
         /\ \/ RecordsKept(n)
            \/ /\ AdduserEnds(s) /\ account[n] = None /\ userBy'[n] = s
               /\ home'[n] = home[n] /\ homeBy'[n] = homeBy[n]
<1>0. Course(s) /\ Clean(n) /\ Owns(s, n) /\ Target(s) = n
  BY DEF OwnerInv, Clean, Creates, Target
<1>1. homeBy[n] = None /\ home[n] = account[n]
  BY NobodyDeletes, OwnersAre, NoneIsNobody DEF Whole, Matched, MakingHome
<1>2. ~(Mkdir(s) \/ Chown(s) \/ UserdelEnds(s))
  BY <1>0, UserdelCourse, NoneIsNobody DEF Mkdir, Chown, Course, Owns, Creates
<1>3. ~(UndoHome(s) /\ "home" \in made[s]) /\ ~DeleteHome(s)
  BY <1>0, <1>1, NoneIsNobody DEF UndoHome, DeleteHome, Owns, Course, Creates
<1>4. homeBy'[n] = homeBy[n]
  BY <1>1, <1>2, <1>3, HomeByChange, NoneIsNobody
<1>5. home'[n] = home[n]
  <2>1. UndoHome(s) => home' = home
    BY <1>3 DEF UndoHome
  <2> QED BY <1>2, <1>3, <2>1, HomeChange
<1>6. CASE userBy'[n] # userBy[n]
  <2>1. AdduserEnds(s) /\ account[n] = None /\ userBy'[n] = s
    BY <1>2, <1>6, UserByChange, NoneIsNobody
  <2> QED BY <1>1, <1>4, <1>5, <2>1
<1>7. CASE userBy'[n] = userBy[n]
  <2>1. account'[n] = account[n]
    <3>1. SUFFICES ASSUME account'[n] # account[n]
                   PROVE  FALSE
      OBVIOUS
    <3>2. AdduserEnds(s)
      BY <1>2, <3>1, AccountsChange
    <3>3. userBy'[n] = s
      BY <1>0, <3>1, <3>2 DEF AdduserEnds, Typed, OwnersTyped
    <3> QED BY <1>7, <3>3, NoneIsNobody
  <2> QED BY <1>1, <1>4, <1>5, <1>7, <2>1 DEF RecordsKept
<1> QED BY <1>6, <1>7

LEMMA FirstStageWhole ==
  ASSUME Typed, OwnerInv, NEW s \in Sessions, Act(s), NEW n \in Users \ spoiled,
         Whole(n), Creates(s, n), userBy[n] = None
  PROVE  Matched(n)' /\ Making(s, n)' /\ MakingHome(s, n)'
<1>0. Course(s) /\ Target(s) = n
  BY DEF OwnerInv, Creates, Target
<1>1. CASE RecordsKept(n)
  <2>1. userBy'[n] = None /\ homeBy'[n] = None /\ home'[n] = account'[n]
    BY <1>1, FirstStage DEF RecordsKept
  <2> QED BY <2>1, NoneIsNobody DEF Matched, Making, MakingHome
<1>2. CASE AdduserEnds(s) /\ userBy'[n] = s
  <2>1. /\ homeBy'[n] = None /\ home'[n] = None
    BY <1>2, FirstStage, NoneIsNobody DEF RecordsKept
  <2>2. /\ pc[s] = "waitpid" /\ ~error[s]
        /\ UNCHANGED <<pc, error, op, name>>
    BY <1>2 DEF AdduserEnds, Adding, Typed, EachEngaged, Engaged, locals
  <2>3. helper'[s] = "succeeded"
    <3>1. userBy' # userBy
      BY <1>2, NoneIsNobody
    <3>2. helper' = [helper EXCEPT ![s] = "succeeded"]
      BY <1>2, <3>1 DEF AdduserEnds
    <3> QED BY <3>2 DEF Typed, ControlTyped
  <2>4. Making(s, n)'
    BY <2>1, <2>2, <2>3 DEF Making, Creates
  <2> QED BY <1>2, <2>1, <2>4, NoneIsNobody DEF Matched, MakingHome
<1> QED BY <1>1, <1>2, FirstStage

\* From adduser to the answer: each step of the command that has made the
\* account of n.
LEMMA SecondStage ==
  ASSUME Typed, OwnerInv, NEW s \in Sessions, Act(s), NEW n \in Users \ spoiled,
         Whole(n), Creates(s, n), userBy[n] = s
  PROVE  /\ Course(s) /\ Owns(s, n) /\ Target(s) = n /\ account[n] # None
         /\ homeBy[n] # s => homeBy[n] = None /\ home[n] = None
         /\ pc[s] = "waitpid" \/ helper[s] = "none"
         /\ "user" \in made[s] \/ (helper[s] = "succeeded" /\ ~error[s])
         /\ error[s] => helper[s] \in {"none", "running", "scanned"}
         /\ pc[s] = "chown" => pwd[s] = account[n]
         /\ homeBy[n] = s => /\ "home" \in made[s]
                             /\ pc[s] \in {"get ids", "chown", "undo home"}
         /\ ~AdduserEnds(s)
<1>1. Course(s) /\ Owns(s, n) /\ Target(s) = n /\ Recorded(n)
  BY DEF OwnerInv, Clean, Creates, Target
<1>2. account[n] # None
  BY <1>1, NoneIsNobody DEF Recorded
<1>3. Making(s, n) /\ MakingHome(s, n)
  BY DEF Whole
<1>4. pc[s] = "waitpid" \/ helper[s] = "none"
  BY DEF Typed, EachEngaged, Engaged
<1>5. ~AdduserEnds(s)
  <2>1. SUFFICES ASSUME AdduserEnds(s)
                 PROVE  FALSE
    OBVIOUS
  <2>2. helper[s] = "running" /\ ~error[s]
    BY <2>1 DEF AdduserEnds, Adding
  <2>3. pc[s] = "waitpid" /\ "user" \in made[s]
    BY <1>3, <1>4, <2>2 DEF Making
  <2> QED BY <1>1, <2>2, <2>3 DEF Course, Creates
<1> QED BY <1>1, <1>2, <1>3, <1>4, <1>5 DEF Making, MakingHome

\* Nothing recorded changes: what is left to show.
LEMMA StillMaking ==
  ASSUME Typed, OwnerInv, NEW s \in Sessions, Act(s), NEW n \in Users \ spoiled,
         Whole(n), Creates(s, n), userBy[n] = s, RecordsKept(n), Creates(s, n)',
         "user" \in made'[s],
         error'[s] => helper'[s] \in {"none", "running", "scanned"},
         pc'[s] = "chown" => pwd'[s] = account[n],
         homeBy[n] = s => /\ "home" \in made'[s]
                          /\ pc'[s] \in {"get ids", "chown", "undo home"}
  PROVE  Matched(n)' /\ Making(s, n)' /\ MakingHome(s, n)'
<1>1. homeBy[n] # s => homeBy[n] = None /\ home[n] = None
  BY SecondStage
<1>2. /\ userBy'[n] = s /\ account'[n] = account[n] /\ home'[n] = home[n]
      /\ homeBy'[n] = homeBy[n]
  BY DEF RecordsKept
<1> QED BY <1>1, <1>2, NoneIsNobody DEF Matched, Making, MakingHome

LEMMA AddedWhole ==
  ASSUME Typed, OwnerInv, NEW s \in Sessions, Act(s), NEW n \in Users \ spoiled,
         Whole(n), Creates(s, n), userBy[n] = s,
         CheckUser(s) \/ CheckHome(s) \/ Added(s)
  PROVE  Matched(n)' /\ Making(s, n)' /\ MakingHome(s, n)'
<1>1. ~CheckUser(s) /\ ~CheckHome(s)
  BY SecondStage DEF CheckUser, CheckHome, Course
<1>2. Added(s) /\ pc[s] = "waitpid" /\ ~error[s] /\ made[s] = {}
  BY <1>1, SecondStage DEF Added, Returns, Course, Adding, Creates
<1>3. helper[s] = "succeeded" /\ homeBy[n] # s
  BY <1>2, SecondStage
<1>4. ~Returns(s, FALSE)
  BY <1>3 DEF Returns
<1>5. Returns(s, TRUE) /\ made' = [made EXCEPT ![s] = {"user"}] /\ Goto(s, "mkdir")
  BY <1>2, <1>4 DEF Added
<1>6. pc'[s] = "mkdir" /\ "user" \in made'[s] /\ helper'[s] = "none"
  BY <1>5 DEF Returns, Goto, Typed, ControlTyped, LocalsTyped
<1>7. RecordsKept(n) /\ Creates(s, n)'
  BY <1>2 DEF Added, RecordsKept, Creates, history
<1> QED BY <1>3, <1>6, <1>7, StillMaking

LEMMA MkdirWhole ==
  ASSUME Typed, OwnerInv, NEW s \in Sessions, Act(s), NEW n \in Users \ spoiled,
         Whole(n), Creates(s, n), userBy[n] = s, Mkdir(s)
  PROVE  Matched(n)' /\ Making(s, n)' /\ MakingHome(s, n)'
<1>1. /\ pc[s] = "mkdir" /\ made[s] = {"user"} /\ homeBy[n] # s /\ ~error[s]
      /\ Target(s) = n /\ helper[s] = "none"
  BY SecondStage DEF Mkdir, Course
<1>2. /\ Creates(s, n)' /\ userBy'[n] = s /\ helper'[s] = "none"
      /\ account'[n] = account[n]
  BY <1>1 DEF Mkdir, Creates
<1>3. CASE Fail(s) /\ UNCHANGED <<home, homeBy, made>>
  <2>1. RecordsKept(n)
    BY <1>2, <1>3 DEF RecordsKept
  <2>2. pc'[s] = "undo home" /\ "user" \in made'[s]
    BY <1>1, <1>3 DEF Fail, Goto, Typed, ControlTyped
  <2> QED BY <1>1, <1>2, <2>1, <2>2, StillMaking
<1>4. CASE /\ homeBy' = [homeBy EXCEPT ![n] = s]
           /\ made' = [made EXCEPT ![s] = @ \cup {"home"}]
           /\ Goto(s, "get ids") /\ UNCHANGED error
  <2>1. pc'[s] = "get ids" /\ homeBy'[n] = s /\ made'[s] = {"user", "home"}
    BY <1>1, <1>4 DEF Goto, Typed, ControlTyped, LocalsTyped, OwnersTyped
  <2> QED BY <1>1, <1>2, <1>4, <2>1, NoneIsNobody DEF Matched, Making, MakingHome
<1> QED BY <1>1, <1>3, <1>4 DEF Mkdir

LEMMA GetIdsWhole ==
  ASSUME Typed, OwnerInv, NEW s \in Sessions, Act(s), NEW n \in Users \ spoiled,
         Whole(n), Creates(s, n), userBy[n] = s, GetIds(s)
  PROVE  Matched(n)' /\ Making(s, n)' /\ MakingHome(s, n)'
<1>1. /\ pc[s] = "get ids" /\ made[s] = {"user", "home"} /\ Target(s) = n
      /\ helper[s] = "none" /\ account[n] # None
  BY SecondStage DEF GetIds, Course
<1>2. /\ Creates(s, n)' /\ RecordsKept(n) /\ helper'[s] = "none"
      /\ made'[s] = {"user", "home"}
  BY <1>1 DEF GetIds, Creates, RecordsKept, history
<1>3. pwd' = [pwd EXCEPT ![s] = account[n]] /\ Goto(s, "chown")
  BY <1>1 DEF GetIds
<1>4. pc'[s] = "chown" /\ pwd'[s] = account[n]
  BY <1>3 DEF Goto, Typed, ControlTyped, LocalsTyped
<1> QED BY <1>2, <1>4, StillMaking

LEMMA ChownWhole ==
  ASSUME Typed, OwnerInv, NEW s \in Sessions, Act(s), NEW n \in Users \ spoiled,
         Whole(n), Creates(s, n), userBy[n] = s, Chown(s)
  PROVE  Matched(n)' /\ Making(s, n)' /\ MakingHome(s, n)'
<1>1. /\ pc[s] = "chown" /\ made[s] = {"user", "home"} /\ Target(s) = n
      /\ helper[s] = "none" /\ pwd[s] = account[n]
  BY SecondStage DEF Chown, Course
<1>2. account' = account /\ helper' = helper
  BY DEF Chown
<1>3. CASE Fail(s) /\ UNCHANGED <<home, euid, saved, op, name, pwd, made, userBy, homeBy>>
  <2>1. RecordsKept(n) /\ Creates(s, n)'
    BY <1>2, <1>3 DEF RecordsKept, Creates
  <2>2. pc'[s] = "undo home" /\ made'[s] = {"user", "home"} /\ helper'[s] = "none"
    BY <1>1, <1>2, <1>3 DEF Fail, Goto, Typed, ControlTyped
  <2> QED BY <2>1, <2>2, StillMaking
<1>4. CASE home' = [home EXCEPT ![n] = pwd[s]] /\ Reply(s)
  <2>1. home'[n] = account'[n]
    BY <1>1, <1>2, <1>4 DEF Typed, AccountsTyped
  <2>2. userBy'[n] = None /\ homeBy'[n] # s
    BY <1>4, ReplyOwners, NoneIsNobody
  <2> QED BY <2>1, <2>2, NoneIsNobody DEF Matched, Making, MakingHome
<1> QED BY <1>1, <1>3, <1>4 DEF Chown

LEMMA UndoHomeWhole ==
  ASSUME Typed, OwnerInv, NEW s \in Sessions, Act(s), NEW n \in Users, n \notin spoiled',
         n \notin spoiled, Whole(n), Creates(s, n), userBy[n] = s, UndoHome(s)
  PROVE  Matched(n)' /\ Making(s, n)' /\ MakingHome(s, n)'
<1>1. /\ pc[s] = "undo home" /\ helper[s] = "none" /\ Target(s) = n
      /\ "user" \in made[s]
  BY SecondStage DEF UndoHome
<1>2. /\ Creates(s, n)' /\ made' = made /\ helper' = helper
      /\ account' = account /\ userBy' = userBy
  BY DEF UndoHome, Creates, locals
<1>3. pc'[s] = "undo user"
  BY DEF UndoHome, Goto, Typed, ControlTyped
<1>4. CASE "home" \notin made[s]
  <2>1. RecordsKept(n) /\ homeBy[n] # s
    BY <1>2, <1>4, SecondStage DEF UndoHome, RecordsKept
  <2> QED BY <1>1, <1>2, <1>3, <2>1, StillMaking
<1>5. CASE "home" \in made[s]
  <2>1. RemoveHome(s)
    BY <1>5 DEF UndoHome
  <2>2. home' = [home EXCEPT ![n] = None] /\ homeBy' = [homeBy EXCEPT ![n] = None]
    BY <1>1, <2>1 DEF RemoveHome, Spoil
  <2>3. home'[n] = None /\ homeBy'[n] = None
    BY <2>2 DEF Typed, AccountsTyped, OwnersTyped
  <2> QED BY <1>1, <1>2, <1>3, <2>3, NoneIsNobody DEF Matched, Making, MakingHome
<1> QED BY <1>4, <1>5

LEMMA UndoUserWhole ==
  ASSUME Typed, OwnerInv, NEW s \in Sessions, Act(s), NEW n \in Users, n \notin spoiled',
         n \notin spoiled, Whole(n), Creates(s, n), userBy[n] = s, UndoUser(s)
  PROVE  Matched(n)' /\ Making(s, n)' /\ MakingHome(s, n)'
<1>1. /\ pc[s] = "undo user" /\ "user" \in made[s] /\ Target(s) = n /\ homeBy[n] # s
  BY SecondStage DEF UndoUser
<1>2. Fork(s) /\ UNCHANGED <<locals, history>>
  BY <1>1 DEF UndoUser, Spoil
<1>3. pc'[s] = "waitpid" /\ helper'[s] = "running" /\ made' = made
  BY <1>2 DEF Fork, Goto, Typed, ControlTyped, locals
<1>4. RecordsKept(n) /\ Creates(s, n)'
  BY <1>2 DEF UndoUser, RecordsKept, Creates, history, locals
<1> QED BY <1>1, <1>3, <1>4, StillMaking

LEMMA ScanWhole ==
  ASSUME Typed, OwnerInv, NEW s \in Sessions, Act(s), NEW n \in Users, n \notin spoiled',
         n \notin spoiled, Whole(n), Creates(s, n), userBy[n] = s, UserdelScans(s)
  PROVE  Matched(n)' /\ Making(s, n)' /\ MakingHome(s, n)'
<1>1. /\ helper[s] = "running" /\ pc[s] = "waitpid" /\ Target(s) = n
      /\ error[s] /\ "user" \in made[s] /\ homeBy[n] # s
  BY SecondStage DEF UserdelScans, Adding, Creates
<1>2. helper'[s] = "scanned"
  BY <1>1 DEF UserdelScans, Spoil, Typed, ControlTyped
<1>3. RecordsKept(n) /\ UNCHANGED <<pc, op, name, pwd, made, error>>
  BY DEF UserdelScans, RecordsKept, locals
<1>4. Creates(s, n)'
  BY <1>3 DEF Creates
<1> QED BY <1>1, <1>2, <1>3, <1>4, StillMaking

LEMMA UserdelWhole ==
  ASSUME Typed, OwnerInv, NEW s \in Sessions, Act(s), NEW n \in Users, n \notin spoiled',
         n \notin spoiled, Whole(n), Creates(s, n), userBy[n] = s, UserdelEnds(s)
  PROVE  Matched(n)' /\ Making(s, n)' /\ MakingHome(s, n)'
<1>1. pc[s] = "waitpid" /\ Target(s) = n
  BY SecondStage, UserdelCourse
<1>2. homeBy[n] = None /\ home[n] = None
  BY <1>1, SecondStage
<1>3. /\ account' = [account EXCEPT ![n] = None]
      /\ userBy' = [userBy EXCEPT ![n] = None]
      /\ home' = home /\ homeBy' = homeBy
  BY <1>1 DEF UserdelEnds, Spoil
<1>4. /\ account'[n] = None /\ userBy'[n] = None
      /\ home'[n] = None /\ homeBy'[n] = None
  BY <1>2, <1>3 DEF Typed, AccountsTyped, OwnersTyped
<1> QED BY <1>4, NoneIsNobody DEF Matched, Making, MakingHome

\* A rollback whose userdel has ended well no longer has an account, and a
\* failed one or a lost status are hazards.
LEMMA EndsExcluded ==
  ASSUME Typed, OwnerInv, NEW s \in Sessions, Act(s), NEW n \in Users, n \notin spoiled',
         n \notin spoiled, Whole(n), Creates(s, n), userBy[n] = s
  PROVE  ~Undone(s) /\ ~Stolen(s)
<1>1. ASSUME Undone(s)
      PROVE  FALSE
  <2>1. error[s] /\ helper[s] \in {"stolen", "succeeded", "failed"}
    BY <1>1 DEF Undone, Returns
  <2> QED BY <2>1, SecondStage
<1>2. ASSUME Stolen(s)
      PROVE  FALSE
  <2>1. helper[s] \in {"succeeded", "failed"} /\ Target(s) = n
    BY <1>2, SecondStage DEF Stolen
  <2>2. Adding(s)
    BY <2>1, SecondStage DEF Adding, Creates
  <2> QED BY <1>2, <2>1, <2>2 DEF Stolen, Spoil
<1> QED BY <1>1, <1>2

LEMMA CreatorWhole ==
  ASSUME Typed, OwnerInv, NEW s \in Sessions, Act(s), NEW n \in Users, n \notin spoiled',
         n \notin spoiled, Whole(n), Creates(s, n)
  PROVE  Matched(n)' /\ Making(s, n)' /\ MakingHome(s, n)' /\ Unmaking(s, n)'
<1>0. Course(s)
  BY DEF OwnerInv
<1>1. Matched(n)' /\ Making(s, n)' /\ MakingHome(s, n)'
  <2>1. CASE userBy[n] = None
    BY <2>1, FirstStageWhole
  <2>2. CASE userBy[n] = s
    <3>1. CASE CheckUser(s) \/ CheckHome(s) \/ Added(s)
      BY <2>2, <3>1, AddedWhole
    <3>2. CASE Mkdir(s)
      BY <2>2, <3>2, MkdirWhole
    <3>3. CASE GetIds(s)
      BY <2>2, <3>3, GetIdsWhole
    <3>4. CASE Chown(s)
      BY <2>2, <3>4, ChownWhole
    <3>5. CASE UndoHome(s)
      BY <2>2, <3>5, UndoHomeWhole
    <3>6. CASE UndoUser(s)
      BY <2>2, <3>6, UndoUserWhole
    <3>7. CASE UserdelScans(s) \/ UserdelEnds(s)
      BY <2>2, <3>7, ScanWhole, UserdelWhole
    <3>8. ~Undone(s) /\ ~Stolen(s) /\ ~AdduserEnds(s)
      BY <2>2, EndsExcluded, SecondStage
    <3> QED BY <1>0, <3>1, <3>2, <3>3, <3>4, <3>5, <3>6, <3>7, <3>8, CreatorActs
            DEF CreateStep, HelperRuns
  <2>3. CASE userBy[n] \notin {None, s}
    <3>1. PICK u \in Sessions \ {s} : userBy[n] = u
      BY <2>3, OwnersAre
    <3>2. RecordsKept(n) /\ homeBy[n] # s
      BY <2>3, <3>1, MadeByOther DEF Whole, MakingHome
    <3>3. userBy'[n] = userBy[n] /\ homeBy'[n] = homeBy[n]
      BY <3>2 DEF RecordsKept
    <3> QED BY <2>3, <3>2, <3>3 DEF Matched, Making, MakingHome
  <2> QED BY <2>1, <2>2, <2>3
<1>2. ~Deletes(s, n)'
  <2>1. ~Begin(s)
    BY <1>0, BeginIdle, NoneIsNobody DEF Creates
  <2> QED BY <2>1, CommandChange, NoneIsNobody DEF Deletes, Creates, Begin
<1> QED BY <1>1, <1>2 DEF Unmaking

-----------------------------------------------------------------------------
(* The DELETE_USER that takes the step.                                    *)

LEMMA DeleterActs ==
  ASSUME Typed, NEW s \in Sessions, Course(s), Act(s), NEW n \in Users, Deletes(s, n)
  PROVE  DeleteStep(s) \/ UserdelScans(s) \/ UserdelEnds(s) \/ Stolen(s)
<1>1. pc[s] \in {"fork", "remove home", "waitpid"}
  BY NoneIsNobody DEF Course, Deletes, Typed, ControlTyped, PCs
<1>2. ~Begin(s) /\ ~Leave(s) /\ ~LoginStep(s)
  BY <1>1 DEF Begin, BeginLogin, BeginCreate, BeginDelete, Start, Leave, LoginStep,
     FindHome, FindUser, Become
<1>3. ~CreateStep(s) /\ ~AdduserEnds(s)
  BY <1>1 DEF CreateStep, CheckUser, CheckHome, Added, Mkdir, GetIds, Chown, UndoHome,
     UndoUser, Undone, AdduserEnds, Adding, Deletes
<1> QED BY <1>2, <1>3 DEF Act, Step, HelperRuns

\* Nobody makes an account or a home meanwhile.
LEMMA NobodyMakes ==
  ASSUME Typed, OwnerInv, NEW s \in Sessions, Act(s), NEW n \in Users \ spoiled,
         Whole(n), Deletes(s, n)
  PROVE  userBy[n] = None /\ homeBy[n] = None /\ userBy'[n] = None /\ homeBy'[n] = None
<1>1. \A u \in Sessions : ~Creates(u, n)
  BY NobodyDeletes
<1>2. userBy[n] = None /\ homeBy[n] = None
  BY <1>1, OwnersAre DEF Whole, Making, MakingHome
<1>3. Course(s) /\ ~AdduserEnds(s) /\ ~Mkdir(s)
  BY DEF OwnerInv, Course, AdduserEnds, Adding, Mkdir, Deletes
<1> QED BY <1>2, <1>3, UserByChange, HomeByChange, NoneIsNobody

LEMMA DeleterWhole ==
  ASSUME Typed, OwnerInv, NEW s \in Sessions, Act(s), NEW n \in Users, n \notin spoiled',
         n \notin spoiled, Whole(n), Deletes(s, n)
  PROVE  Matched(n)' /\ Unmaking(s, n)'
<1>0. /\ Course(s) /\ Engaged(s) /\ Target(s) = n /\ Unmaking(s, n)
      /\ helper[s] # "failed" /\ (Removed(s) => account[n] = None)
      /\ userBy[n] = None /\ Matched(n)
  BY NobodyMakes DEF OwnerInv, Typed, EachEngaged, Deletes, Target, Whole, Unmaking
<1>1. CASE ForkUserdel(s)
  <2>1. Fork(s) /\ pc[s] = "fork" /\ helper[s] = "none"
    BY <1>0, <1>1 DEF ForkUserdel, Spoil, Engaged
  <2>2. helper'[s] = "running" /\ pc'[s] = "waitpid"
    BY <2>1 DEF Fork, Goto, Typed, ControlTyped
  <2>3. account' = account /\ home' = home
    BY <1>1 DEF ForkUserdel
  <2>4. ~Removed(s) /\ ~Removed(s)'
    BY <2>1, <2>2 DEF Removed
  <2>5. \A u \in Sessions \ {s} :
          Deletes(u, n)' = Deletes(u, n) /\ Removed(u)' = Removed(u)
    BY <1>0, BystanderDeletes
  <2>6. Matched(n)'
    BY <1>0, <2>3, <2>4, <2>5 DEF Matched
  <2> QED BY <2>2, <2>4, <2>6 DEF Unmaking
<1>2. CASE UserdelEnds(s)
  <2>1. /\ account' = [account EXCEPT ![n] = None]
        /\ helper' = [helper EXCEPT ![s] = "succeeded"]
        /\ UNCHANGED <<op, name>>
    BY <1>0, <1>2 DEF UserdelEnds, Spoil, locals
  <2>2. account'[n] = None /\ helper'[s] = "succeeded" /\ Deletes(s, n)'
    BY <2>1 DEF Typed, AccountsTyped, ControlTyped, Deletes
  <2> QED BY <2>2 DEF Matched, Unmaking, Removed
<1>3. CASE Stolen(s)
  <2>1. /\ helper[s] = "succeeded" /\ helper' = [helper EXCEPT ![s] = "stolen"]
        /\ UNCHANGED <<account, op, name>>
    BY <1>0, <1>3 DEF Stolen, locals
  <2>2. account'[n] = None /\ helper'[s] = "stolen" /\ Deletes(s, n)'
    BY <1>0, <2>1 DEF Typed, ControlTyped, Deletes, Removed
  <2> QED BY <2>2 DEF Matched, Unmaking, Removed
<1>4. CASE Deleted(s)
  <2>1. helper[s] \in {"succeeded", "stolen"} /\ UNCHANGED <<account, op, name>>
    BY <1>0, <1>4 DEF Deleted, Returns
  <2>2. pc'[s] = "remove home" /\ helper'[s] = "none"
    BY <1>4 DEF Deleted, Returns, Goto, Typed, ControlTyped
  <2>3. account'[n] = None /\ Deletes(s, n)'
    BY <1>0, <2>1 DEF Deletes, Removed
  <2> QED BY <2>2, <2>3 DEF Matched, Unmaking, Removed
<1>5. CASE DeleteHome(s)
  <2>1. /\ home' = [home EXCEPT ![n] = None] /\ account' = account
        /\ pc[s] = "remove home" /\ Reply(s)
    BY <1>0, <1>5 DEF DeleteHome, Spoil
  <2>2. home'[n] = None /\ account'[n] = None
    BY <1>0, <2>1 DEF Removed, Typed, AccountsTyped
  <2>3. ~Deletes(s, n)'
    BY <2>1, ReplyCommand, NoneIsNobody DEF Deletes
  <2> QED BY <2>2, <2>3 DEF Matched, Unmaking
<1>6. CASE UserdelScans(s)
  <2>1. /\ helper[s] = "running" /\ helper'[s] = "scanned" /\ pc[s] = "waitpid"
        /\ UNCHANGED <<account, home, pc>>
    BY <1>0, <1>6 DEF UserdelScans, Spoil, Typed, ControlTyped, Engaged
  <2>2. ~Removed(s) /\ ~Removed(s)'
    BY <2>1 DEF Removed
  <2>3. \A u \in Sessions \ {s} :
          Deletes(u, n)' = Deletes(u, n) /\ Removed(u)' = Removed(u)
    BY <1>0, BystanderDeletes
  <2>4. Matched(n)'
    BY <1>0, <2>1, <2>2, <2>3 DEF Matched
  <2> QED BY <2>1, <2>2, <2>4 DEF Unmaking
<1> QED BY <1>0, <1>1, <1>2, <1>3, <1>4, <1>5, <1>6, DeleterActs DEF DeleteStep

-----------------------------------------------------------------------------
(* A handler that had nothing to do with n.                                *)

LEMMA OutsiderWhole ==
  ASSUME Typed, OwnerInv, NEW s \in Sessions, Act(s), NEW n \in Users \ spoiled,
         Whole(n), ~Creates(s, n), ~Deletes(s, n)
  PROVE  Matched(n)' /\ Making(s, n)' /\ MakingHome(s, n)' /\ Unmaking(s, n)'
<1>0. RecordsKept(n) /\ userBy[n] # s /\ homeBy[n] # s /\ Matched(n)
  BY RecordsOf DEF OwnerInv, Whole, Making, MakingHome
<1>1. Making(s, n)' /\ MakingHome(s, n)'
  BY <1>0 DEF RecordsKept, Making, MakingHome
<1>2. Matched(n)'
  <2>1. \A u \in Sessions \ {s} :
          Deletes(u, n)' = Deletes(u, n) /\ Removed(u)' = Removed(u)
    BY BystanderDeletes
  <2> QED BY <1>0, <2>1 DEF RecordsKept, Matched
<1>3. Unmaking(s, n)'
  <2>1. SUFFICES ASSUME Deletes(s, n)'
                 PROVE  helper'[s] # "failed" /\ ~Removed(s)'
    BY DEF Unmaking
  <2>2. BeginDelete(s, n)
    BY <2>1, CommandChange, NoneIsNobody DEF Deletes
  <2>3. pc'[s] = "fork" /\ pc[s] = "idle" /\ helper' = helper
    BY <2>2 DEF BeginDelete, Start, Goto, Typed, ControlTyped
  <2>4. helper'[s] = "none"
    BY <2>3 DEF Typed, EachEngaged, Engaged
  <2> QED BY <2>3, <2>4 DEF Removed
<1> QED BY <1>1, <1>2, <1>3

LEMMA WholeStep ==
  ASSUME Typed, OwnerInv, WholeInv, [Next]_vars
  PROVE  WholeInv'
<1>1. CASE \E s \in Sessions : Act(s)
  <2>1. PICK s \in Sessions : Act(s)
    BY <1>1
  <2>2. SUFFICES ASSUME NEW n \in Users, n \notin spoiled'
                 PROVE  Whole(n)'
    BY DEF WholeInv
  <2>3. n \notin spoiled /\ Whole(n)
    BY <2>1, <2>2, SpoiledGrows DEF WholeInv
  <2>4. Matched(n)' /\ Making(s, n)' /\ MakingHome(s, n)' /\ Unmaking(s, n)'
    <3>1. CASE Creates(s, n)
      BY <2>1, <2>2, <2>3, <3>1, CreatorWhole
    <3>2. CASE Deletes(s, n)
      <4>1. Making(s, n)' /\ MakingHome(s, n)'
        BY <2>1, <2>3, <3>2, NobodyMakes, NoneIsNobody DEF Making, MakingHome
      <4> QED BY <2>1, <2>2, <2>3, <3>2, <4>1, DeleterWhole
    <3>3. CASE ~Creates(s, n) /\ ~Deletes(s, n)
      BY <2>1, <2>3, <3>3, OutsiderWhole
    <3> QED BY <3>1, <3>2, <3>3
  <2>5. \A u \in Sessions \ {s} :
          Making(u, n)' /\ MakingHome(u, n)' /\ Unmaking(u, n)'
    BY <2>1, <2>3, BystanderMakes, BystanderDeletes
  <2> QED BY <2>4, <2>5 DEF Whole
<1>2. CASE UNCHANGED vars
  <2>1. /\ UNCHANGED <<account, home, pc, helper, op, name, made, error, pwd>>
        /\ UNCHANGED <<userBy, homeBy, spoiled>>
    BY <1>2 DEF vars, locals, history
  <2>2. SUFFICES ASSUME NEW n \in Users \ spoiled
                 PROVE  Whole(n)'
    BY <2>1 DEF WholeInv
  <2>3. Whole(n)
    BY DEF WholeInv
  <2>4. \A s \in Sessions :
          /\ Making(s, n)' /\ MakingHome(s, n)' /\ Unmaking(s, n)'
          /\ Deletes(s, n)' = Deletes(s, n) /\ Removed(s)' = Removed(s)
    BY <2>1, <2>3 DEF Whole, Making, MakingHome, Unmaking, Creates, Deletes, Removed
  <2>5. Matched(n)'
    BY <2>1, <2>3, <2>4 DEF Whole, Matched
  <2> QED BY <2>4, <2>5 DEF Whole
<1> QED BY <1>1, <1>2 DEF Next, Act

LEMMA WholeInvariance == Spec => [](Typed /\ OwnerInv /\ WholeInv)
<1>1. Init => WholeInv
  <2>1. SUFFICES ASSUME Init, NEW n \in Users
                 PROVE  Whole(n)
    BY DEF WholeInv
  <2>2. /\ userBy[n] = None /\ homeBy[n] = None /\ home[n] = account[n]
        /\ \A s \in Sessions : name[s] = None
    BY <2>1 DEF Init
  <2> QED BY <2>2, NoneIsNobody DEF Whole, Matched, Making, MakingHome, Unmaking, Deletes
<1>2. Typed /\ OwnerInv /\ WholeInv /\ [Next]_vars => WholeInv'
  BY WholeStep
<1> QED BY <1>1, <1>2, OwnerInvariance, PTL DEF Spec

(* However many sessions create, delete and log in at once, in whatever    *)
(* order and with whatever failures: a user who met none of the hazards    *)
(* that nothing provides for, and whom no command is working on, has an    *)
(* account and a home of that account's uid, or neither of the two.        *)
THEOREM AccountsCompleteHolds == Spec => []AccountsComplete
<1>1. ASSUME Typed, OwnerInv, WholeInv, NEW n \in Users \ spoiled,
             \A s \in Sessions : name[s] # n
      PROVE  home[n] = account[n]
  <2>1. userBy[n] = None
    BY <1>1, OwnersAre DEF WholeInv, Whole, Making, Creates
  <2> QED BY <1>1, <2>1 DEF WholeInv, Whole, Matched, Deletes
<1>2. Typed /\ OwnerInv /\ WholeInv => AccountsComplete
  BY <1>1 DEF AccountsComplete
<1> QED BY <1>2, WholeInvariance, PTL

=============================================================================

---------------------------- MODULE UserAdminProofs ----------------------------
(***************************************************************************)
(* Theorems about UserAdmin, for any sessions, user names and uids.        *)
(***************************************************************************)
EXTENDS UserAdmin, TLAPS

\* TypeOK in parts: the system, and of the handlers who they are, where they
\* are and what they remember.
AccountsTyped ==
  /\ account \in [Users -> Uids \cup {None}]
  /\ home \in [Users -> Uids \cup {"root", None}]
  /\ spoiled \subseteq Users

OwnersTyped ==
  /\ userBy \in [Users -> Sessions \cup {None}]
  /\ homeBy \in [Users -> Sessions \cup {None}]

IdentityTyped ==
  /\ login \in [Sessions -> Users \cup {None}]
  /\ euid \in [Sessions -> Identities]
  /\ saved \in [Sessions -> Identities \cup {None}]

GroupsTyped ==
  /\ egid \in [Sessions -> {"server", "csapgroup"}]
  /\ groups \in [Sessions -> Users \cup {"server"}]
  /\ overtaken \subseteq Sessions

PCs == {"idle", "find home", "find user", "become", "check user", "check home",
        "mkdir", "get ids", "chown", "undo home", "undo user", "fork",
        "remove home", "waitpid"}

ControlTyped ==
  /\ pc \in [Sessions -> PCs]
  /\ helper \in [Sessions -> {"none", "running", "scanned", "succeeded", "failed",
                           "stolen"}]

LocalsTyped ==
  /\ op \in [Sessions -> {"login", "create", "delete", None}]
  /\ name \in [Sessions -> Users \cup {None}]
  /\ pwd \in [Sessions -> Uids \cup {None}]
  /\ made \in [Sessions -> SUBSET {"user", "home"}]

ErrorTyped == error \in [Sessions -> BOOLEAN]

\* A handler that has begun knows its user and the uid to go back to, LOGIN
\* has found the uid that it takes, and a forked process is waited for.
Engaged(s) ==
  /\ pc[s] # "idle" => name[s] \in Users /\ saved[s] \in Identities
  /\ pc[s] = "become" => pwd[s] \in Uids
  /\ helper[s] # "none" => pc[s] = "waitpid"

EachEngaged == \A s \in Sessions : Engaged(s)

Typed == /\ AccountsTyped /\ OwnersTyped /\ IdentityTyped /\ GroupsTyped
         /\ ControlTyped /\ LocalsTyped /\ ErrorTyped /\ EachEngaged

Act(s) == Begin(s) \/ Step(s) \/ HelperRuns(s) \/ Stolen(s) \/ Leave(s)

-----------------------------------------------------------------------------
(* Types.                                                                  *)

LEMMA ReplyTyped ==
  ASSUME Typed, NEW s \in Sessions, Reply(s)
  PROVE  /\ pc' \in [Sessions -> PCs]
         /\ saved' \in [Sessions -> Identities \cup {None}]
         /\ LocalsTyped' /\ ErrorTyped' /\ OwnersTyped'
<1> USE DEF Typed, Reply, Goto
<1>1. ErrorTyped'
  BY DEF ErrorTyped
<1>2. LocalsTyped'
  BY DEF LocalsTyped
<1>3. OwnersTyped'
  BY DEF OwnersTyped
<1>4. saved' \in [Sessions -> Identities \cup {None}]
  BY DEF IdentityTyped
<1>5. pc' \in [Sessions -> PCs]
  BY DEF ControlTyped, PCs
<1> QED BY <1>1, <1>2, <1>3, <1>4, <1>5

LEMMA ReplyIdle ==
  ASSUME Typed, NEW s \in Sessions, Reply(s)
  PROVE  pc'[s] = "idle"
BY DEF Typed, ControlTyped, Reply, Goto

LEMMA EngagedFacts ==
  ASSUME Typed, NEW s \in Sessions, pc[s] # "idle" \/ helper[s] # "none"
  PROVE  /\ Target(s) \in Users /\ saved[s] \in Identities
         /\ pc[s] = "become" => pwd[s] \in Uids
BY DEF Typed, EachEngaged, Engaged, Target

LEMMA StartTyped ==
  ASSUME Typed, NEW s \in Sessions, NEW n \in Users,
         NEW command \in {"login", "create", "delete"}, Start(s, command, n)
  PROVE  LocalsTyped'
BY DEF Typed, LocalsTyped, Start

LEMMA ErrorStep ==
  ASSUME Typed, NEW s \in Sessions, Act(s)
  PROVE  ErrorTyped'
<1> USE ReplyTyped DEF Typed, ErrorTyped, Start, Fail, locals
<1>1. CASE \E m \in Users : BeginLogin(s, m)
  BY <1>1 DEF BeginLogin
<1>2. CASE \E m \in Users : BeginCreate(s, m)
  BY <1>2 DEF BeginCreate
<1>3. CASE \E m \in Users : BeginDelete(s, m)
  BY <1>3 DEF BeginDelete
<1>4. CASE FindHome(s)
  BY <1>4 DEF FindHome
<1>5. CASE FindUser(s)
  BY <1>5 DEF FindUser, RefuseLogin
<1>6. CASE Become(s)
  BY <1>6 DEF Become, RefuseLogin
<1>7. CASE CheckUser(s)
  BY <1>7 DEF CheckUser
<1>8. CASE CheckHome(s)
  BY <1>8 DEF CheckHome
<1>9. CASE Added(s)
  BY <1>9 DEF Added
<1>10. CASE Mkdir(s)
  BY <1>10 DEF Mkdir
<1>11. CASE GetIds(s)
  BY <1>11 DEF GetIds
<1>12. CASE Chown(s)
  BY <1>12 DEF Chown
<1>13. CASE UndoHome(s)
  BY <1>13 DEF UndoHome
<1>14. CASE UndoUser(s)
  BY <1>14 DEF UndoUser
<1>15. CASE Undone(s)
  BY <1>15 DEF Undone
<1>16. CASE ForkUserdel(s)
  BY <1>16 DEF ForkUserdel
<1>17. CASE Deleted(s)
  BY <1>17 DEF Deleted
<1>18. CASE DeleteHome(s)
  BY <1>18 DEF DeleteHome
<1>19. CASE AdduserEnds(s)
  BY <1>19 DEF AdduserEnds
<1>20. CASE UserdelScans(s) \/ UserdelEnds(s)
  BY <1>20 DEF UserdelScans, UserdelEnds
<1>21. CASE Stolen(s)
  BY <1>21 DEF Stolen
<1>22. CASE Leave(s)
  BY <1>22 DEF Leave
<1> QED BY <1>1, <1>2, <1>3, <1>4, <1>5, <1>6, <1>7, <1>8, <1>9, <1>10, <1>11,
           <1>12, <1>13, <1>14, <1>15, <1>16, <1>17, <1>18, <1>19, <1>20, <1>21,
           <1>22
        DEF Act, Begin, Step, LoginStep, CreateStep, DeleteStep, HelperRuns

LEMMA AccountsStep ==
  ASSUME Typed, NEW s \in Sessions, Act(s)
  PROVE  AccountsTyped'
<1> USE UserConstants, EngagedFacts DEF Typed, AccountsTyped, history, Spoil
<1>1. CASE \E m \in Users : BeginLogin(s, m)
  BY <1>1 DEF BeginLogin, Start
<1>2. CASE \E m \in Users : BeginCreate(s, m)
  BY <1>2 DEF BeginCreate, Start
<1>3. CASE \E m \in Users : BeginDelete(s, m)
  BY <1>3 DEF BeginDelete, Start
<1>4. CASE FindHome(s)
  BY <1>4 DEF FindHome
<1>5. CASE FindUser(s)
  BY <1>5 DEF FindUser, RefuseLogin
<1>6. CASE Become(s)
  BY <1>6 DEF Become, RefuseLogin
<1>7. CASE CheckUser(s)
  BY <1>7 DEF CheckUser
<1>8. CASE CheckHome(s)
  BY <1>8 DEF CheckHome
<1>9. CASE Added(s)
  BY <1>9 DEF Added
<1>10. CASE Mkdir(s)
  BY <1>10 DEF Mkdir
<1>11. CASE GetIds(s)
  BY <1>11 DEF GetIds
<1>12. CASE Chown(s)
  BY <1>12 DEF Chown, LocalsTyped
<1>13. CASE UndoHome(s)
  <2>1. Target(s) \in Users /\ account' = account
    BY <1>13 DEF UndoHome
  <2>2. home' \in [Users -> Uids \cup {"root", None}]
    BY <1>13, <2>1 DEF UndoHome, RemoveHome
  <2>3. spoiled' \subseteq Users
    BY <1>13, <2>1 DEF UndoHome, RemoveHome
  <2> QED BY <2>1, <2>2, <2>3
<1>14. CASE UndoUser(s)
  <2>1. Target(s) \in Users /\ account' = account /\ home' = home
    BY <1>14 DEF UndoUser
  <2>2. spoiled' \subseteq Users
    BY <1>14, <2>1 DEF UndoUser
  <2> QED BY <2>1, <2>2
<1>15. CASE Undone(s)
  BY <1>15 DEF Undone
<1>16. CASE ForkUserdel(s)
  BY <1>16 DEF ForkUserdel
<1>17. CASE Deleted(s)
  BY <1>17 DEF Deleted
<1>18. CASE DeleteHome(s)
  <2>1. Target(s) \in Users /\ account' = account
    BY <1>18 DEF DeleteHome
  <2>2. home' \in [Users -> Uids \cup {"root", None}]
    BY <1>18, <2>1 DEF DeleteHome
  <2>3. spoiled' \subseteq Users
    BY <1>18, <2>1 DEF DeleteHome
  <2> QED BY <2>1, <2>2, <2>3
<1>19. CASE AdduserEnds(s)
  BY <1>19 DEF AdduserEnds, Unused
<1>20. CASE UserdelScans(s) \/ UserdelEnds(s)
  BY <1>20 DEF UserdelScans, UserdelEnds
<1>21. CASE Stolen(s)
  BY <1>21 DEF Stolen
<1>22. CASE Leave(s)
  BY <1>22 DEF Leave
<1> QED BY <1>1, <1>2, <1>3, <1>4, <1>5, <1>6, <1>7, <1>8, <1>9, <1>10, <1>11,
           <1>12, <1>13, <1>14, <1>15, <1>16, <1>17, <1>18, <1>19, <1>20, <1>21,
           <1>22
        DEF Act, Begin, Step, LoginStep, CreateStep, DeleteStep, HelperRuns

LEMMA OwnersStep ==
  ASSUME Typed, NEW s \in Sessions, Act(s)
  PROVE  OwnersTyped'
<1> USE ReplyTyped DEF Typed, OwnersTyped, Start, Target, history
<1>1. CASE \E m \in Users : BeginLogin(s, m)
  BY <1>1 DEF BeginLogin
<1>2. CASE \E m \in Users : BeginCreate(s, m)
  BY <1>2 DEF BeginCreate
<1>3. CASE \E m \in Users : BeginDelete(s, m)
  BY <1>3 DEF BeginDelete
<1>4. CASE FindHome(s)
  BY <1>4 DEF FindHome
<1>5. CASE FindUser(s)
  BY <1>5 DEF FindUser, RefuseLogin
<1>6. CASE Become(s)
  BY <1>6 DEF Become, RefuseLogin
<1>7. CASE CheckUser(s)
  BY <1>7 DEF CheckUser
<1>8. CASE CheckHome(s)
  BY <1>8 DEF CheckHome
<1>9. CASE Added(s)
  BY <1>9 DEF Added
<1>10. CASE Mkdir(s)
  <2>1. userBy' = userBy /\ (homeBy' = homeBy \/ homeBy' = [homeBy EXCEPT ![Target(s)] = s])
    BY <1>10 DEF Mkdir
  <2> QED BY <2>1
<1>11. CASE GetIds(s)
  BY <1>11 DEF GetIds
<1>12. CASE Chown(s)
  BY <1>12 DEF Chown
<1>13. CASE UndoHome(s)
  BY <1>13 DEF UndoHome, RemoveHome
<1>14. CASE UndoUser(s)
  BY <1>14 DEF UndoUser
<1>15. CASE Undone(s)
  BY <1>15 DEF Undone
<1>16. CASE ForkUserdel(s)
  BY <1>16 DEF ForkUserdel
<1>17. CASE Deleted(s)
  BY <1>17 DEF Deleted
<1>18. CASE DeleteHome(s)
  BY <1>18 DEF DeleteHome
<1>19. CASE AdduserEnds(s)
  BY <1>19 DEF AdduserEnds
<1>20. CASE UserdelScans(s) \/ UserdelEnds(s)
  BY <1>20 DEF UserdelScans, UserdelEnds
<1>21. CASE Stolen(s)
  BY <1>21 DEF Stolen
<1>22. CASE Leave(s)
  BY <1>22 DEF Leave
<1> QED BY <1>1, <1>2, <1>3, <1>4, <1>5, <1>6, <1>7, <1>8, <1>9, <1>10, <1>11,
           <1>12, <1>13, <1>14, <1>15, <1>16, <1>17, <1>18, <1>19, <1>20, <1>21,
           <1>22
        DEF Act, Begin, Step, LoginStep, CreateStep, DeleteStep, HelperRuns

LEMMA IdentityStep ==
  ASSUME Typed, NEW s \in Sessions, Act(s)
  PROVE  IdentityTyped'
<1> USE ReplyTyped, EngagedFacts DEF Typed, IdentityTyped, Identities,
        LocalsTyped, Start, Elevate, Drop, identity
<1>1. CASE \E m \in Users : BeginLogin(s, m)
  BY <1>1 DEF BeginLogin
<1>2. CASE \E m \in Users : BeginCreate(s, m)
  BY <1>2 DEF BeginCreate
<1>3. CASE \E m \in Users : BeginDelete(s, m)
  BY <1>3 DEF BeginDelete
<1>4. CASE FindHome(s)
  <2>1. Target(s) \in Users /\ saved[s] \in Identities
    BY <1>4 DEF FindHome
  <2>2. login' \in [Sessions -> Users \cup {None}]
    BY <1>4, <2>1 DEF FindHome
  <2>3. euid' \in [Sessions -> Identities]
    BY <1>4, <2>1 DEF FindHome
  <2>4. saved' \in [Sessions -> Identities \cup {None}]
    BY <1>4, <2>1 DEF FindHome
  <2> QED BY <2>2, <2>3, <2>4
<1>5. CASE FindUser(s)
  BY <1>5 DEF FindUser, RefuseLogin
<1>6. CASE Become(s)
  <2>1. CASE RefuseLogin(s)
    <3>1. pc[s] # "idle" /\ Reply(s) /\ Drop(s)
      BY <1>6, <2>1 DEF Become, RefuseLogin
    <3>2. login' \in [Sessions -> Users \cup {None}]
      BY <2>1 DEF RefuseLogin
    <3> QED BY <3>1, <3>2
  <2>2. CASE ~RefuseLogin(s)
    BY <1>6, <2>2 DEF Become
  <2> QED BY <2>1, <2>2
<1>7. CASE CheckUser(s)
  BY <1>7 DEF CheckUser
<1>8. CASE CheckHome(s)
  BY <1>8 DEF CheckHome
<1>9. CASE Added(s)
  BY <1>9 DEF Added
<1>10. CASE Mkdir(s)
  BY <1>10 DEF Mkdir
<1>11. CASE GetIds(s)
  BY <1>11 DEF GetIds
<1>12. CASE Chown(s)
  BY <1>12 DEF Chown
<1>13. CASE UndoHome(s)
  BY <1>13 DEF UndoHome
<1>14. CASE UndoUser(s)
  BY <1>14 DEF UndoUser
<1>15. CASE Undone(s)
  <2>1. pc[s] # "idle" /\ Reply(s) /\ Drop(s) /\ login' = login
    BY <1>15 DEF Undone, Returns
  <2> QED BY <2>1
<1>16. CASE ForkUserdel(s)
  BY <1>16 DEF ForkUserdel
<1>17. CASE Deleted(s)
  BY <1>17 DEF Deleted
<1>18. CASE DeleteHome(s)
  BY <1>18 DEF DeleteHome
<1>19. CASE AdduserEnds(s)
  BY <1>19 DEF AdduserEnds
<1>20. CASE UserdelScans(s) \/ UserdelEnds(s)
  BY <1>20 DEF UserdelScans, UserdelEnds
<1>21. CASE Stolen(s)
  BY <1>21 DEF Stolen
<1>22. CASE Leave(s)
  BY <1>22 DEF Leave
<1> QED BY <1>1, <1>2, <1>3, <1>4, <1>5, <1>6, <1>7, <1>8, <1>9, <1>10, <1>11,
           <1>12, <1>13, <1>14, <1>15, <1>16, <1>17, <1>18, <1>19, <1>20, <1>21,
           <1>22
        DEF Act, Begin, Step, LoginStep, CreateStep, DeleteStep, HelperRuns

LEMMA GroupsStep ==
  ASSUME Typed, NEW s \in Sessions, Act(s)
  PROVE  GroupsTyped'
<1> USE EngagedFacts DEF Typed, GroupsTyped, Start, identity, groupIds
<1>1. CASE \E m \in Users : BeginLogin(s, m)
  BY <1>1 DEF BeginLogin
<1>2. CASE \E m \in Users : BeginCreate(s, m)
  BY <1>2 DEF BeginCreate
<1>3. CASE \E m \in Users : BeginDelete(s, m)
  BY <1>3 DEF BeginDelete
<1>4. CASE FindHome(s)
  BY <1>4 DEF FindHome
<1>5. CASE FindUser(s)
  BY <1>5 DEF FindUser, RefuseLogin
<1>6. CASE Become(s)
  BY <1>6 DEF Become, RefuseLogin
<1>7. CASE CheckUser(s)
  BY <1>7 DEF CheckUser
<1>8. CASE CheckHome(s)
  BY <1>8 DEF CheckHome
<1>9. CASE Added(s)
  BY <1>9 DEF Added
<1>10. CASE Mkdir(s)
  BY <1>10 DEF Mkdir
<1>11. CASE GetIds(s)
  BY <1>11 DEF GetIds
<1>12. CASE Chown(s)
  BY <1>12 DEF Chown
<1>13. CASE UndoHome(s)
  BY <1>13 DEF UndoHome
<1>14. CASE UndoUser(s)
  BY <1>14 DEF UndoUser
<1>15. CASE Undone(s)
  BY <1>15 DEF Undone
<1>16. CASE ForkUserdel(s)
  BY <1>16 DEF ForkUserdel
<1>17. CASE Deleted(s)
  BY <1>17 DEF Deleted
<1>18. CASE DeleteHome(s)
  BY <1>18 DEF DeleteHome
<1>19. CASE AdduserEnds(s)
  BY <1>19 DEF AdduserEnds
<1>20. CASE UserdelScans(s) \/ UserdelEnds(s)
  BY <1>20 DEF UserdelScans, UserdelEnds
<1>21. CASE Stolen(s)
  BY <1>21 DEF Stolen
<1>22. CASE Leave(s)
  BY <1>22 DEF Leave
<1> QED BY <1>1, <1>2, <1>3, <1>4, <1>5, <1>6, <1>7, <1>8, <1>9, <1>10, <1>11,
           <1>12, <1>13, <1>14, <1>15, <1>16, <1>17, <1>18, <1>19, <1>20, <1>21,
           <1>22
        DEF Act, Begin, Step, LoginStep, CreateStep, DeleteStep, HelperRuns

LEMMA ControlStep ==
  ASSUME Typed, NEW s \in Sessions, Act(s)
  PROVE  ControlTyped'
<1> USE ReplyTyped DEF Typed, ControlTyped, PCs, Start, Fail, Fork, Returns, Goto
<1>1. CASE \E m \in Users : BeginLogin(s, m)
  BY <1>1 DEF BeginLogin
<1>2. CASE \E m \in Users : BeginCreate(s, m)
  BY <1>2 DEF BeginCreate
<1>3. CASE \E m \in Users : BeginDelete(s, m)
  BY <1>3 DEF BeginDelete
<1>4. CASE FindHome(s)
  BY <1>4 DEF FindHome
<1>5. CASE FindUser(s)
  BY <1>5 DEF FindUser, RefuseLogin
<1>6. CASE Become(s)
  BY <1>6 DEF Become, RefuseLogin
<1>7. CASE CheckUser(s)
  BY <1>7 DEF CheckUser
<1>8. CASE CheckHome(s)
  BY <1>8 DEF CheckHome
<1>9. CASE Added(s)
  BY <1>9 DEF Added
<1>10. CASE Mkdir(s)
  BY <1>10 DEF Mkdir
<1>11. CASE GetIds(s)
  BY <1>11 DEF GetIds
<1>12. CASE Chown(s)
  BY <1>12 DEF Chown
<1>13. CASE UndoHome(s)
  BY <1>13 DEF UndoHome
<1>14. CASE UndoUser(s)
  BY <1>14 DEF UndoUser
<1>15. CASE Undone(s)
  BY <1>15 DEF Undone
<1>16. CASE ForkUserdel(s)
  BY <1>16 DEF ForkUserdel
<1>17. CASE Deleted(s)
  BY <1>17 DEF Deleted
<1>18. CASE DeleteHome(s)
  BY <1>18 DEF DeleteHome
<1>19. CASE AdduserEnds(s)
  BY <1>19 DEF AdduserEnds
<1>20. CASE UserdelScans(s) \/ UserdelEnds(s)
  BY <1>20 DEF UserdelScans, UserdelEnds
<1>21. CASE Stolen(s)
  BY <1>21 DEF Stolen
<1>22. CASE Leave(s)
  BY <1>22 DEF Leave
<1> QED BY <1>1, <1>2, <1>3, <1>4, <1>5, <1>6, <1>7, <1>8, <1>9, <1>10, <1>11,
           <1>12, <1>13, <1>14, <1>15, <1>16, <1>17, <1>18, <1>19, <1>20, <1>21,
           <1>22
        DEF Act, Begin, Step, LoginStep, CreateStep, DeleteStep, HelperRuns

LEMMA LocalsStep ==
  ASSUME Typed, NEW s \in Sessions, Act(s)
  PROVE  LocalsTyped'
<1> USE ReplyTyped, StartTyped, EngagedFacts DEF Typed, LocalsTyped,
        AccountsTyped, locals
<1>1. CASE \E m \in Users : BeginLogin(s, m)
  BY <1>1 DEF BeginLogin
<1>2. CASE \E m \in Users : BeginCreate(s, m)
  BY <1>2 DEF BeginCreate
<1>3. CASE \E m \in Users : BeginDelete(s, m)
  BY <1>3 DEF BeginDelete
<1>4. CASE FindHome(s)
  BY <1>4 DEF FindHome
<1>5. CASE FindUser(s)
  BY <1>5 DEF FindUser, RefuseLogin
<1>6. CASE Become(s)
  BY <1>6 DEF Become, RefuseLogin
<1>7. CASE CheckUser(s)
  BY <1>7 DEF CheckUser
<1>8. CASE CheckHome(s)
  BY <1>8 DEF CheckHome
<1>9. CASE Added(s)
  BY <1>9 DEF Added
<1>10. CASE Mkdir(s)
  <2>1. /\ UNCHANGED <<op, name, pwd>>
        /\ made' = made \/ made' = [made EXCEPT ![s] = @ \cup {"home"}]
    BY <1>10 DEF Mkdir
  <2>2. made' \in [Sessions -> SUBSET {"user", "home"}]
    BY <2>1
  <2> QED BY <2>1, <2>2
<1>11. CASE GetIds(s)
  BY <1>11 DEF GetIds
<1>12. CASE Chown(s)
  BY <1>12 DEF Chown
<1>13. CASE UndoHome(s)
  BY <1>13 DEF UndoHome
<1>14. CASE UndoUser(s)
  BY <1>14 DEF UndoUser
<1>15. CASE Undone(s)
  BY <1>15 DEF Undone
<1>16. CASE ForkUserdel(s)
  BY <1>16 DEF ForkUserdel
<1>17. CASE Deleted(s)
  BY <1>17 DEF Deleted
<1>18. CASE DeleteHome(s)
  BY <1>18 DEF DeleteHome
<1>19. CASE AdduserEnds(s)
  BY <1>19 DEF AdduserEnds
<1>20. CASE UserdelScans(s) \/ UserdelEnds(s)
  BY <1>20 DEF UserdelScans, UserdelEnds
<1>21. CASE Stolen(s)
  BY <1>21 DEF Stolen
<1>22. CASE Leave(s)
  BY <1>22 DEF Leave
<1> QED BY <1>1, <1>2, <1>3, <1>4, <1>5, <1>6, <1>7, <1>8, <1>9, <1>10, <1>11,
           <1>12, <1>13, <1>14, <1>15, <1>16, <1>17, <1>18, <1>19, <1>20, <1>21,
           <1>22
        DEF Act, Begin, Step, LoginStep, CreateStep, DeleteStep, HelperRuns

LEMMA OthersControl ==
  ASSUME Typed, NEW s \in Sessions, Act(s)
  PROVE  \A t \in Sessions \ {s} : pc'[t] = pc[t] /\ helper'[t] = helper[t]
<1> USE DEF Typed, ControlTyped, Start, Reply, Fail, Fork, Returns, Goto
<1>1. CASE \E m \in Users : BeginLogin(s, m)
  BY <1>1 DEF BeginLogin
<1>2. CASE \E m \in Users : BeginCreate(s, m)
  BY <1>2 DEF BeginCreate
<1>3. CASE \E m \in Users : BeginDelete(s, m)
  BY <1>3 DEF BeginDelete
<1>4. CASE FindHome(s)
  BY <1>4 DEF FindHome
<1>5. CASE FindUser(s)
  BY <1>5 DEF FindUser, RefuseLogin
<1>6. CASE Become(s)
  BY <1>6 DEF Become, RefuseLogin
<1>7. CASE CheckUser(s)
  BY <1>7 DEF CheckUser
<1>8. CASE CheckHome(s)
  BY <1>8 DEF CheckHome
<1>9. CASE Added(s)
  BY <1>9 DEF Added
<1>10. CASE Mkdir(s)
  BY <1>10 DEF Mkdir
<1>11. CASE GetIds(s)
  BY <1>11 DEF GetIds
<1>12. CASE Chown(s)
  BY <1>12 DEF Chown
<1>13. CASE UndoHome(s)
  BY <1>13 DEF UndoHome
<1>14. CASE UndoUser(s)
  BY <1>14 DEF UndoUser
<1>15. CASE Undone(s)
  BY <1>15 DEF Undone
<1>16. CASE ForkUserdel(s)
  BY <1>16 DEF ForkUserdel
<1>17. CASE Deleted(s)
  BY <1>17 DEF Deleted
<1>18. CASE DeleteHome(s)
  BY <1>18 DEF DeleteHome
<1>19. CASE AdduserEnds(s)
  BY <1>19 DEF AdduserEnds
<1>20. CASE UserdelScans(s) \/ UserdelEnds(s)
  BY <1>20 DEF UserdelScans, UserdelEnds
<1>21. CASE Stolen(s)
  BY <1>21 DEF Stolen
<1>22. CASE Leave(s)
  BY <1>22 DEF Leave
<1> QED BY <1>1, <1>2, <1>3, <1>4, <1>5, <1>6, <1>7, <1>8, <1>9, <1>10, <1>11,
           <1>12, <1>13, <1>14, <1>15, <1>16, <1>17, <1>18, <1>19, <1>20, <1>21,
           <1>22
        DEF Act, Begin, Step, LoginStep, CreateStep, DeleteStep, HelperRuns

LEMMA OthersIdentity ==
  ASSUME Typed, NEW s \in Sessions, Act(s)
  PROVE  \A t \in Sessions \ {s} :
           login'[t] = login[t] /\ euid'[t] = euid[t] /\ saved'[t] = saved[t]
<1> USE DEF Typed, IdentityTyped, Start, Elevate, Drop, Reply, identity
<1>1. CASE \E m \in Users : BeginLogin(s, m)
  BY <1>1 DEF BeginLogin
<1>2. CASE \E m \in Users : BeginCreate(s, m)
  BY <1>2 DEF BeginCreate
<1>3. CASE \E m \in Users : BeginDelete(s, m)
  BY <1>3 DEF BeginDelete
<1>4. CASE FindHome(s)
  BY <1>4 DEF FindHome
<1>5. CASE FindUser(s)
  BY <1>5 DEF FindUser, RefuseLogin
<1>6. CASE Become(s)
  BY <1>6 DEF Become, RefuseLogin
<1>7. CASE CheckUser(s)
  BY <1>7 DEF CheckUser
<1>8. CASE CheckHome(s)
  BY <1>8 DEF CheckHome
<1>9. CASE Added(s)
  BY <1>9 DEF Added
<1>10. CASE Mkdir(s)
  BY <1>10 DEF Mkdir
<1>11. CASE GetIds(s)
  BY <1>11 DEF GetIds
<1>12. CASE Chown(s)
  BY <1>12 DEF Chown
<1>13. CASE UndoHome(s)
  BY <1>13 DEF UndoHome
<1>14. CASE UndoUser(s)
  BY <1>14 DEF UndoUser
<1>15. CASE Undone(s)
  BY <1>15 DEF Undone
<1>16. CASE ForkUserdel(s)
  BY <1>16 DEF ForkUserdel
<1>17. CASE Deleted(s)
  BY <1>17 DEF Deleted
<1>18. CASE DeleteHome(s)
  BY <1>18 DEF DeleteHome
<1>19. CASE AdduserEnds(s)
  BY <1>19 DEF AdduserEnds
<1>20. CASE UserdelScans(s) \/ UserdelEnds(s)
  BY <1>20 DEF UserdelScans, UserdelEnds
<1>21. CASE Stolen(s)
  BY <1>21 DEF Stolen
<1>22. CASE Leave(s)
  BY <1>22 DEF Leave
<1> QED BY <1>1, <1>2, <1>3, <1>4, <1>5, <1>6, <1>7, <1>8, <1>9, <1>10, <1>11,
           <1>12, <1>13, <1>14, <1>15, <1>16, <1>17, <1>18, <1>19, <1>20, <1>21,
           <1>22
        DEF Act, Begin, Step, LoginStep, CreateStep, DeleteStep, HelperRuns

LEMMA OthersGroups ==
  ASSUME Typed, NEW s \in Sessions, Act(s)
  PROVE  \A t \in Sessions \ {s} :
           /\ egid'[t] = egid[t] /\ groups'[t] = groups[t]
           /\ t \in overtaken => t \in overtaken'
<1> USE DEF Typed, GroupsTyped, Start, identity, groupIds
<1>1. CASE \E m \in Users : BeginLogin(s, m)
  BY <1>1 DEF BeginLogin
<1>2. CASE \E m \in Users : BeginCreate(s, m)
  BY <1>2 DEF BeginCreate
<1>3. CASE \E m \in Users : BeginDelete(s, m)
  BY <1>3 DEF BeginDelete
<1>4. CASE FindHome(s)
  BY <1>4 DEF FindHome
<1>5. CASE FindUser(s)
  BY <1>5 DEF FindUser, RefuseLogin
<1>6. CASE Become(s)
  BY <1>6 DEF Become, RefuseLogin
<1>7. CASE CheckUser(s)
  BY <1>7 DEF CheckUser
<1>8. CASE CheckHome(s)
  BY <1>8 DEF CheckHome
<1>9. CASE Added(s)
  BY <1>9 DEF Added
<1>10. CASE Mkdir(s)
  BY <1>10 DEF Mkdir
<1>11. CASE GetIds(s)
  BY <1>11 DEF GetIds
<1>12. CASE Chown(s)
  BY <1>12 DEF Chown
<1>13. CASE UndoHome(s)
  BY <1>13 DEF UndoHome
<1>14. CASE UndoUser(s)
  BY <1>14 DEF UndoUser
<1>15. CASE Undone(s)
  BY <1>15 DEF Undone
<1>16. CASE ForkUserdel(s)
  BY <1>16 DEF ForkUserdel
<1>17. CASE Deleted(s)
  BY <1>17 DEF Deleted
<1>18. CASE DeleteHome(s)
  BY <1>18 DEF DeleteHome
<1>19. CASE AdduserEnds(s)
  BY <1>19 DEF AdduserEnds
<1>20. CASE UserdelScans(s) \/ UserdelEnds(s)
  BY <1>20 DEF UserdelScans, UserdelEnds
<1>21. CASE Stolen(s)
  BY <1>21 DEF Stolen
<1>22. CASE Leave(s)
  BY <1>22 DEF Leave
<1> QED BY <1>1, <1>2, <1>3, <1>4, <1>5, <1>6, <1>7, <1>8, <1>9, <1>10, <1>11,
           <1>12, <1>13, <1>14, <1>15, <1>16, <1>17, <1>18, <1>19, <1>20, <1>21,
           <1>22
        DEF Act, Begin, Step, LoginStep, CreateStep, DeleteStep, HelperRuns

LEMMA OthersLocals ==
  ASSUME Typed, NEW s \in Sessions, Act(s)
  PROVE  \A t \in Sessions \ {s} :
           op'[t] = op[t] /\ name'[t] = name[t] /\ pwd'[t] = pwd[t]
           /\ made'[t] = made[t] /\ error'[t] = error[t]
<1> USE DEF Typed, LocalsTyped, ErrorTyped, Start, Reply, Fail, locals
<1>1. CASE \E m \in Users : BeginLogin(s, m)
  BY <1>1 DEF BeginLogin
<1>2. CASE \E m \in Users : BeginCreate(s, m)
  BY <1>2 DEF BeginCreate
<1>3. CASE \E m \in Users : BeginDelete(s, m)
  BY <1>3 DEF BeginDelete
<1>4. CASE FindHome(s)
  BY <1>4 DEF FindHome
<1>5. CASE FindUser(s)
  BY <1>5 DEF FindUser, RefuseLogin
<1>6. CASE Become(s)
  BY <1>6 DEF Become, RefuseLogin
<1>7. CASE CheckUser(s)
  BY <1>7 DEF CheckUser
<1>8. CASE CheckHome(s)
  BY <1>8 DEF CheckHome
<1>9. CASE Added(s)
  BY <1>9 DEF Added
<1>10. CASE Mkdir(s)
  BY <1>10 DEF Mkdir
<1>11. CASE GetIds(s)
  BY <1>11 DEF GetIds
<1>12. CASE Chown(s)
  BY <1>12 DEF Chown
<1>13. CASE UndoHome(s)
  BY <1>13 DEF UndoHome
<1>14. CASE UndoUser(s)
  BY <1>14 DEF UndoUser
<1>15. CASE Undone(s)
  BY <1>15 DEF Undone
<1>16. CASE ForkUserdel(s)
  BY <1>16 DEF ForkUserdel
<1>17. CASE Deleted(s)
  BY <1>17 DEF Deleted
<1>18. CASE DeleteHome(s)
  BY <1>18 DEF DeleteHome
<1>19. CASE AdduserEnds(s)
  BY <1>19 DEF AdduserEnds
<1>20. CASE UserdelScans(s) \/ UserdelEnds(s)
  BY <1>20 DEF UserdelScans, UserdelEnds
<1>21. CASE Stolen(s)
  BY <1>21 DEF Stolen
<1>22. CASE Leave(s)
  BY <1>22 DEF Leave
<1> QED BY <1>1, <1>2, <1>3, <1>4, <1>5, <1>6, <1>7, <1>8, <1>9, <1>10, <1>11,
           <1>12, <1>13, <1>14, <1>15, <1>16, <1>17, <1>18, <1>19, <1>20, <1>21,
           <1>22
        DEF Act, Begin, Step, LoginStep, CreateStep, DeleteStep, HelperRuns

LEMMA StartFacts ==
  ASSUME Typed, NEW s \in Sessions, NEW n \in Users, NEW command,
         Start(s, command, n), Elevate(s)
  PROVE  name'[s] = n /\ saved'[s] \in Identities /\ helper'[s] = "none"
<1>1. helper'[s] = helper[s] /\ pc[s] = "idle"
  BY DEF Start
<1>2. name'[s] = n
  BY DEF Start, Typed, LocalsTyped
<1>3. saved'[s] = euid[s] /\ euid[s] \in Identities
  BY DEF Elevate, Typed, IdentityTyped
<1> QED BY <1>1, <1>2, <1>3 DEF Typed, EachEngaged, Engaged

LEMMA BeginEngaged ==
  ASSUME Typed, NEW s \in Sessions, Begin(s)
  PROVE  Engaged(s)'
<1>1. PICK n \in Users, l \in {"find home", "check user", "fork"} :
        /\ \E command : Start(s, command, n)
        /\ Elevate(s) /\ Goto(s, l)
  BY DEF Begin, BeginLogin, BeginCreate, BeginDelete
<1>2. name'[s] = n /\ saved'[s] \in Identities /\ helper'[s] = "none"
  BY <1>1, StartFacts
<1>3. pc'[s] = l
  BY <1>1 DEF Goto, Typed, ControlTyped
<1> QED BY <1>1, <1>2, <1>3 DEF Engaged

LEMMA EngagedHere ==
  ASSUME Typed, NEW s \in Sessions, Act(s)
  PROVE  Engaged(s)'
<1> USE UserConstants, ReplyIdle DEF Typed, ControlTyped, LocalsTyped,
        IdentityTyped, EachEngaged, Engaged, PCs, Identities, Start, Elevate,
        Drop, Fail, Fork, Returns, Goto, identity, locals
<1>1. CASE \E m \in Users : BeginLogin(s, m)
  <2>1. Begin(s)
    BY <1>1 DEF Begin
  <2> QED BY <2>1, BeginEngaged
<1>2. CASE \E m \in Users : BeginCreate(s, m)
  <2>1. Begin(s)
    BY <1>2 DEF Begin
  <2> QED BY <2>1, BeginEngaged
<1>3. CASE \E m \in Users : BeginDelete(s, m)
  <2>1. Begin(s)
    BY <1>3 DEF Begin
  <2> QED BY <2>1, BeginEngaged
<1>4. CASE FindHome(s)
  <2>1. helper'[s] = helper[s] /\ pc[s] = "find home"
    BY <1>4 DEF FindHome
  <2>2. CASE home[Target(s)] = None
    <3>1. pc'[s] = "idle"
      BY <1>4, <2>2 DEF FindHome
    <3> QED BY <2>1, <3>1
  <2>3. CASE home[Target(s)] # None
    BY <1>4, <2>1, <2>3 DEF FindHome
  <2> QED BY <2>2, <2>3
<1>5. CASE FindUser(s)
  <2>1. helper'[s] = helper[s] /\ pc[s] = "find user"
    BY <1>5 DEF FindUser
  <2>2. CASE account[Target(s)] = None
    <3>1. pc'[s] = "idle"
      BY <1>5, <2>2 DEF FindUser, RefuseLogin
    <3> QED BY <2>1, <3>1
  <2>3. CASE account[Target(s)] # None
    <3>1. account[Target(s)] \in Uids
      BY <2>1, <2>3, EngagedFacts DEF AccountsTyped
    <3>2. pwd' = [pwd EXCEPT ![s] = account[Target(s)]] /\ name' = name /\ saved' = saved
      BY <1>5, <2>3 DEF FindUser
    <3> QED BY <2>1, <3>1, <3>2
  <2> QED BY <2>2, <2>3
<1>6. CASE Become(s)
  BY <1>6 DEF Become, RefuseLogin
<1>7. CASE CheckUser(s)
  BY <1>7 DEF CheckUser
<1>8. CASE CheckHome(s)
  BY <1>8 DEF CheckHome
<1>9. CASE Added(s)
  BY <1>9 DEF Added
<1>10. CASE Mkdir(s)
  BY <1>10 DEF Mkdir
<1>11. CASE GetIds(s)
  BY <1>11 DEF GetIds
<1>12. CASE Chown(s)
  BY <1>12 DEF Chown
<1>13. CASE UndoHome(s)
  BY <1>13 DEF UndoHome
<1>14. CASE UndoUser(s)
  BY <1>14 DEF UndoUser
<1>15. CASE Undone(s)
  BY <1>15 DEF Undone
<1>16. CASE ForkUserdel(s)
  BY <1>16 DEF ForkUserdel
<1>17. CASE Deleted(s)
  BY <1>17 DEF Deleted
<1>18. CASE DeleteHome(s)
  BY <1>18 DEF DeleteHome
<1>19. CASE AdduserEnds(s)
  BY <1>19 DEF AdduserEnds
<1>20. CASE UserdelScans(s) \/ UserdelEnds(s)
  BY <1>20 DEF UserdelScans, UserdelEnds
<1>21. CASE Stolen(s)
  BY <1>21 DEF Stolen
<1>22. CASE Leave(s)
  BY <1>22 DEF Leave
<1> QED BY <1>1, <1>2, <1>3, <1>4, <1>5, <1>6, <1>7, <1>8, <1>9, <1>10, <1>11,
           <1>12, <1>13, <1>14, <1>15, <1>16, <1>17, <1>18, <1>19, <1>20, <1>21,
           <1>22
        DEF Act, Begin, Step, LoginStep, CreateStep, DeleteStep, HelperRuns

LEMMA TypedInit == Init => Typed
<1> USE UserConstants DEF Init
<1>1. Init => AccountsTyped /\ OwnersTyped
  BY DEF AccountsTyped, OwnersTyped
<1>2. Init => IdentityTyped /\ ControlTyped /\ EachEngaged
  BY DEF IdentityTyped, ControlTyped, EachEngaged, Engaged, Identities, PCs
<1>5. Init => GroupsTyped
  BY DEF GroupsTyped
<1>3. Init => LocalsTyped
  BY DEF LocalsTyped
<1>4. Init => ErrorTyped
  BY DEF ErrorTyped
<1> QED BY <1>1, <1>2, <1>3, <1>4, <1>5 DEF Typed

LEMMA TypedStep ==
  ASSUME Typed, [Next]_vars
  PROVE  Typed'
<1>1. CASE \E s \in Sessions : Act(s)
  <2>1. PICK s \in Sessions : Act(s)
    BY <1>1
  <2>2. EachEngaged'
    <3>1. Engaged(s)'
      BY <2>1, EngagedHere
    <3>2. ASSUME NEW t \in Sessions \ {s}
          PROVE  Engaged(t)'
      <4>1. /\ pc'[t] = pc[t] /\ helper'[t] = helper[t]
            /\ name'[t] = name[t] /\ pwd'[t] = pwd[t] /\ saved'[t] = saved[t]
        BY <2>1, OthersControl, OthersIdentity, OthersLocals
      <4> QED BY <4>1 DEF Typed, EachEngaged, Engaged
    <3> QED BY <3>1, <3>2 DEF EachEngaged
  <2> QED BY <2>1, <2>2, AccountsStep, OwnersStep, IdentityStep, GroupsStep,
             ControlStep, LocalsStep, ErrorStep DEF Typed
<1>2. CASE UNCHANGED vars
  <2>1. UNCHANGED <<account, home, spoiled, userBy, homeBy>>
    BY <1>2 DEF vars, history
  <2>2. UNCHANGED <<login, euid, saved, egid, groups, overtaken, pc, helper>>
    BY <1>2 DEF vars, identity, groupIds
  <2>3. UNCHANGED <<op, name, pwd, made, error>>
    BY <1>2 DEF vars, locals
  <2> QED BY <2>1, <2>2, <2>3 DEF Typed, AccountsTyped, OwnersTyped, IdentityTyped,
             GroupsTyped, ControlTyped, LocalsTyped, ErrorTyped, EachEngaged, Engaged
<1> QED BY <1>1, <1>2 DEF Next, Act

LEMMA TypedInvariance == Spec => []Typed
BY TypedInit, TypedStep, PTL DEF Spec

(* For any sessions, users and uids: whatever fails, a handler goes back   *)
(* to a uid that it has had, and waits only for a process it has forked.   *)
THEOREM TypeCorrect == Spec => []TypeOK
<1>1. Typed => TypeOK
  BY DEF Typed, TypeOK, AccountsTyped, OwnersTyped, IdentityTyped, GroupsTyped,
         ControlTyped, LocalsTyped, ErrorTyped, PCs
<1> QED BY <1>1, TypedInvariance, PTL

-----------------------------------------------------------------------------
(* Identities.  While a command runs it is old_euid that tells who the     *)
(* session is; between loginUser and the end of LOGIN it is still the      *)
(* server's, although the session has a name already.                      *)

Base(s, uid) == IF login[s] = None THEN uid = "server" ELSE uid \in Uids

WhoIs(s) ==
  /\ pc[s] = "idle" => Base(s, euid[s])
  /\ pc[s] = "find home" => login[s] = None
  /\ pc[s] \in {"find user", "become"} => saved[s] = "server" /\ login[s] # None
  /\ pc[s] \notin {"idle", "find user", "become"} => Base(s, saved[s])

LEMMA WhoIsHere ==
  ASSUME Typed, NEW s \in Sessions, WhoIs(s), Act(s)
  PROVE  WhoIs(s)'
<1> USE UserConstants, ReplyIdle DEF Typed, ControlTyped, IdentityTyped, WhoIs,
        Base, Start, Elevate, Drop, Fail, Fork, Returns, Goto, identity
<1>1. CASE \E m \in Users : BeginLogin(s, m)
  BY <1>1 DEF BeginLogin
<1>2. CASE \E m \in Users : BeginCreate(s, m)
  BY <1>2 DEF BeginCreate
<1>3. CASE \E m \in Users : BeginDelete(s, m)
  BY <1>3 DEF BeginDelete
<1>4. CASE FindHome(s)
  <2>0. pc[s] = "find home"
    BY <1>4 DEF FindHome
  <2>1. /\ login[s] = None /\ saved[s] = "server"
        /\ Target(s) \in Users /\ Target(s) # None
    BY <2>0, EngagedFacts
  <2>2. CASE home[Target(s)] = None
    <3>1. pc'[s] = "idle" /\ euid'[s] = "server" /\ login'[s] = None
      BY <1>4, <2>1, <2>2 DEF FindHome
    <3> QED BY <3>1
  <2>3. CASE home[Target(s)] # None
    <3>1. pc'[s] = "find user" /\ saved'[s] = "server" /\ login'[s] = Target(s)
      BY <1>4, <2>1, <2>3 DEF FindHome
    <3> QED BY <2>1, <3>1
  <2> QED BY <2>2, <2>3
<1>5. CASE FindUser(s)
  BY <1>5 DEF FindUser, RefuseLogin
<1>6. CASE Become(s)
  <2>1. pc[s] = "become" /\ saved[s] = "server" /\ login[s] # None /\ pwd[s] \in Uids
    BY <1>6, EngagedFacts DEF Become
  <2>2. CASE RefuseLogin(s)
    <3>1. pc'[s] = "idle" /\ euid'[s] = "server" /\ login'[s] = None
      BY <2>1, <2>2 DEF RefuseLogin
    <3> QED BY <3>1
  <2>3. CASE ~RefuseLogin(s)
    <3>1. pc'[s] = "idle" /\ euid'[s] = pwd[s] /\ login'[s] = login[s]
      BY <1>6, <2>1, <2>3 DEF Become
    <3> QED BY <2>1, <3>1
  <2> QED BY <2>2, <2>3
<1>7. CASE CheckUser(s)
  BY <1>7 DEF CheckUser
<1>8. CASE CheckHome(s)
  BY <1>8 DEF CheckHome
<1>9. CASE Added(s)
  BY <1>9 DEF Added
<1>10. CASE Mkdir(s)
  BY <1>10 DEF Mkdir
<1>11. CASE GetIds(s)
  BY <1>11 DEF GetIds
<1>12. CASE Chown(s)
  BY <1>12 DEF Chown
<1>13. CASE UndoHome(s)
  BY <1>13 DEF UndoHome
<1>14. CASE UndoUser(s)
  BY <1>14 DEF UndoUser
<1>15. CASE Undone(s)
  BY <1>15 DEF Undone
<1>16. CASE ForkUserdel(s)
  BY <1>16 DEF ForkUserdel
<1>17. CASE Deleted(s)
  BY <1>17 DEF Deleted
<1>18. CASE DeleteHome(s)
  BY <1>18 DEF DeleteHome
<1>19. CASE AdduserEnds(s)
  BY <1>19 DEF AdduserEnds
<1>20. CASE UserdelScans(s) \/ UserdelEnds(s)
  BY <1>20 DEF UserdelScans, UserdelEnds
<1>21. CASE Stolen(s)
  BY <1>21 DEF Stolen
<1>22. CASE Leave(s)
  BY <1>22 DEF Leave
<1> QED BY <1>1, <1>2, <1>3, <1>4, <1>5, <1>6, <1>7, <1>8, <1>9, <1>10, <1>11,
           <1>12, <1>13, <1>14, <1>15, <1>16, <1>17, <1>18, <1>19, <1>20, <1>21,
           <1>22
        DEF Act, Begin, Step, LoginStep, CreateStep, DeleteStep, HelperRuns

LEMMA WhoIsStep ==
  ASSUME Typed, \A s \in Sessions : WhoIs(s), [Next]_vars
  PROVE  \A s \in Sessions : WhoIs(s)'
<1>1. CASE \E s \in Sessions : Act(s)
  <2>1. PICK s \in Sessions : Act(s)
    BY <1>1
  <2>2. ASSUME NEW t \in Sessions \ {s}
        PROVE  WhoIs(t)'
    <3>1. /\ pc'[t] = pc[t] /\ login'[t] = login[t]
          /\ euid'[t] = euid[t] /\ saved'[t] = saved[t]
      BY <2>1, OthersControl, OthersIdentity
    <3> QED BY <3>1 DEF WhoIs, Base
  <2> QED BY <2>1, <2>2, WhoIsHere
<1>2. CASE UNCHANGED vars
  BY <1>2 DEF vars, identity, WhoIs, Base
<1> QED BY <1>1, <1>2 DEF Next, Act

-----------------------------------------------------------------------------
(* What changes the accounts.                                              *)

LEMMA AccountsChange ==
  ASSUME Typed, NEW s \in Sessions, Act(s), account' # account
  PROVE  \/ AdduserEnds(s) /\ account[Target(s)] = None
         \/ UserdelEnds(s)
BY DEF Act, Begin, Step, LoginStep, CreateStep, DeleteStep, HelperRuns, BeginLogin,
       BeginCreate, BeginDelete, Start, FindHome, FindUser, Become, CheckUser,
       CheckHome, Added, Mkdir, GetIds, Chown, UndoHome, UndoUser, Undone,
       ForkUserdel, Deleted, DeleteHome, AdduserEnds, UserdelScans, UserdelEnds, Stolen, Leave

-----------------------------------------------------------------------------
(* The course of a handler: what it remembers at each of its steps.        *)

Course(s) ==
  /\ pc[s] = "idle" => op[s] = None /\ name[s] = None /\ made[s] = {} /\ ~error[s]
  /\ pc[s] \in {"find home", "find user", "become"} => op[s] = "login"
  /\ pc[s] \in {"check user", "check home"} =>
       op[s] = "create" /\ ~error[s] /\ made[s] = {}
  /\ pc[s] = "mkdir" => op[s] = "create" /\ ~error[s] /\ made[s] = {"user"}
  /\ pc[s] \in {"get ids", "chown"} =>
       op[s] = "create" /\ ~error[s] /\ made[s] = {"user", "home"}
  /\ pc[s] \in {"undo home", "undo user"} => op[s] = "create" /\ error[s]
  /\ pc[s] \in {"fork", "remove home"} => op[s] = "delete"
  /\ pc[s] = "waitpid" =>
       \/ op[s] = "delete"
       \/ op[s] = "create" /\ error[s] /\ "user" \in made[s]
       \/ op[s] = "create" /\ ~error[s] /\ made[s] = {} /\ helper[s] # "scanned"

LEMMA ReplyCourse ==
  ASSUME Typed, NEW s \in Sessions, Reply(s)
  PROVE  Course(s)'
<1>1. /\ pc'[s] = "idle" /\ op'[s] = None /\ name'[s] = None /\ made'[s] = {}
      /\ ~error'[s]
  BY DEF Typed, ControlTyped, LocalsTyped, ErrorTyped, Reply, Goto
<1> QED BY <1>1 DEF Course

LEMMA ReplyCommand ==
  ASSUME Typed, NEW s \in Sessions, Reply(s)
  PROVE  op'[s] = None /\ name'[s] = None
BY DEF Typed, LocalsTyped, Reply

LEMMA CourseHere ==
  ASSUME Typed, NEW s \in Sessions, Course(s), Act(s)
  PROVE  Course(s)'
<1> USE ReplyCourse DEF Typed, ControlTyped, LocalsTyped, ErrorTyped, Course,
        Start, Fail, Fork, Returns, Goto, locals
<1>1. CASE \E m \in Users : BeginLogin(s, m)
  BY <1>1 DEF BeginLogin
<1>2. CASE \E m \in Users : BeginCreate(s, m)
  BY <1>2 DEF BeginCreate
<1>3. CASE \E m \in Users : BeginDelete(s, m)
  <2>1. pc'[s] = "fork" /\ op'[s] = "delete"
    BY <1>3 DEF BeginDelete
  <2> QED BY <2>1
<1>4. CASE FindHome(s)
  BY <1>4 DEF FindHome
<1>5. CASE FindUser(s)
  BY <1>5 DEF FindUser, RefuseLogin
<1>6. CASE Become(s)
  BY <1>6 DEF Become, RefuseLogin
<1>7. CASE CheckUser(s)
  <2>1. op'[s] = "create" /\ made'[s] = {}
    BY <1>7 DEF CheckUser
  <2>2. \/ pc'[s] = "check home" /\ error'[s] = error[s] /\ ~error[s]
        \/ pc'[s] = "undo home" /\ error'[s]
    BY <1>7 DEF CheckUser
  <2> QED BY <2>1, <2>2
<1>8. CASE CheckHome(s)
  <2>1. op[s] = "create" /\ made[s] = {} /\ ~error[s] /\ UNCHANGED <<op, made>>
    BY <1>8 DEF CheckHome
  <2>2. \/ pc'[s] = "waitpid" /\ error'[s] = error[s] /\ helper'[s] = "running"
        \/ pc'[s] = "undo home" /\ error'[s]
    BY <1>8 DEF CheckHome
  <2> QED BY <2>1, <2>2
<1>9. CASE Added(s)
  <2>1. op[s] = "create" /\ ~error[s] /\ op'[s] = "create"
    BY <1>9 DEF Added, Adding
  <2>2. \/ pc'[s] = "mkdir" /\ made'[s] = {"user"} /\ error'[s] = error[s]
        \/ pc'[s] = "undo home" /\ error'[s]
    BY <1>9 DEF Added
  <2> QED BY <2>1, <2>2
<1>10. CASE Mkdir(s)
  <2>1. op[s] = "create" /\ ~error[s] /\ made[s] = {"user"} /\ op'[s] = "create"
    BY <1>10 DEF Mkdir
  <2>2. \/ pc'[s] = "get ids" /\ made'[s] = made[s] \cup {"home"} /\ error'[s] = error[s]
        \/ pc'[s] = "undo home" /\ error'[s]
    BY <1>10 DEF Mkdir
  <2> QED BY <2>1, <2>2
<1>11. CASE GetIds(s)
  <2>1. op[s] = "create" /\ ~error[s] /\ made[s] = {"user", "home"}
    BY <1>11 DEF GetIds
  <2>2. op'[s] = "create" /\ made'[s] = {"user", "home"}
    BY <1>11, <2>1 DEF GetIds
  <2>3. \/ pc'[s] = "chown" /\ error'[s] = error[s]
        \/ pc'[s] = "undo home" /\ error'[s]
    BY <1>11 DEF GetIds
  <2> QED BY <2>1, <2>2, <2>3
<1>12. CASE Chown(s)
  <2>1. CASE Reply(s)
    BY <2>1
  <2>2. CASE ~Reply(s)
    <3>1. op'[s] = "create" /\ pc'[s] = "undo home" /\ error'[s]
      BY <1>12, <2>2 DEF Chown
    <3> QED BY <3>1
  <2> QED BY <2>1, <2>2
<1>13. CASE UndoHome(s)
  BY <1>13 DEF UndoHome
<1>14. CASE UndoUser(s)
  BY <1>14 DEF UndoUser
<1>15. CASE Undone(s)
  BY <1>15 DEF Undone
<1>16. CASE ForkUserdel(s)
  <2>1. op'[s] = "delete" /\ pc'[s] \in {"waitpid", "remove home"}
    BY <1>16 DEF ForkUserdel
  <2> QED BY <2>1
<1>17. CASE Deleted(s)
  BY <1>17 DEF Deleted
<1>18. CASE DeleteHome(s)
  BY <1>18 DEF DeleteHome
<1>19. CASE AdduserEnds(s)
  BY <1>19 DEF AdduserEnds
<1>20. CASE UserdelScans(s) \/ UserdelEnds(s)
  <2>1. UNCHANGED <<pc, op, name, made, error>>
    BY <1>20 DEF UserdelScans, UserdelEnds
  <2>2. pc[s] = "waitpid"
    BY <1>20 DEF UserdelScans, UserdelEnds, EachEngaged, Engaged
  <2>3. ~Adding(s) \/ helper'[s] # "scanned"
    BY <1>20 DEF UserdelScans, UserdelEnds
  <2> QED BY <2>1, <2>2, <2>3 DEF Adding
<1>21. CASE Stolen(s)
  BY <1>21 DEF Stolen
<1>22. CASE Leave(s)
  BY <1>22 DEF Leave
<1> QED BY <1>1, <1>2, <1>3, <1>4, <1>5, <1>6, <1>7, <1>8, <1>9, <1>10, <1>11,
           <1>12, <1>13, <1>14, <1>15, <1>16, <1>17, <1>18, <1>19, <1>20, <1>21,
           <1>22
        DEF Act, Begin, Step, LoginStep, CreateStep, DeleteStep, HelperRuns

LEMMA CourseStep ==
  ASSUME Typed, \A s \in Sessions : Course(s), [Next]_vars
  PROVE  \A s \in Sessions : Course(s)'
<1>1. CASE \E s \in Sessions : Act(s)
  <2>1. PICK s \in Sessions : Act(s)
    BY <1>1
  <2>2. ASSUME NEW t \in Sessions \ {s}
        PROVE  Course(t)'
    <3>1. /\ pc'[t] = pc[t] /\ op'[t] = op[t] /\ name'[t] = name[t]
          /\ made'[t] = made[t] /\ error'[t] = error[t] /\ helper'[t] = helper[t]
      BY <2>1, OthersControl, OthersLocals
    <3> QED BY <3>1 DEF Course
  <2> QED BY <2>1, <2>2, CourseHere
<1>2. CASE UNCHANGED vars
  BY <1>2 DEF vars, locals, Course
<1> QED BY <1>1, <1>2 DEF Next, Act

-----------------------------------------------------------------------------
(* Identities again: of a logged-in child, which user it is.               *)

\* The uid that a logged-in session has, is about to take, or goes back to.
Uid(s) == CASE pc[s] = "become" -> pwd[s]
            [] pc[s] = "idle" -> euid[s]
            [] OTHER -> saved[s]

\* A login and its command.
Chosen(s) ==
  /\ pc[s] # "idle" /\ op[s] = "delete" => login[s] = None
  /\ pc[s] \in {"find user", "become"} => login[s] = name[s]

LoggedIn(s) == login[s] # None /\ pc[s] # "find user"

Grouped(s) ==
  LoggedIn(s) /\ pc[s] # "become" => egid[s] = "csapgroup" /\ groups[s] = login[s]

\* The uid is the user's and no userdel is about to change that.
Current(s) ==
  LoggedIn(s) /\ s \notin overtaken =>
    Uid(s) = account[login[s]] /\ ~Deleting(login[s])

LEMMA ChosenHere ==
  ASSUME Typed, NEW s \in Sessions, Course(s), WhoIs(s), Chosen(s), Act(s)
  PROVE  Chosen(s)'
<1> USE ReplyIdle, ReplyCommand DEF Typed, ControlTyped, IdentityTyped,
        LocalsTyped, Chosen, Course, WhoIs, Start, Target, Fail, Fork, Returns,
        Goto, identity, locals
<1>1. CASE \E m \in Users : BeginLogin(s, m)
  BY <1>1 DEF BeginLogin
<1>2. CASE \E m \in Users : BeginCreate(s, m)
  BY <1>2 DEF BeginCreate
<1>3. CASE \E m \in Users : BeginDelete(s, m)
  BY <1>3 DEF BeginDelete
<1>4. CASE FindHome(s)
  <2>1. CASE home[Target(s)] = None
    <3>1. pc'[s] = "idle"
      BY <1>4, <2>1 DEF FindHome
    <3> QED BY <3>1
  <2>2. CASE home[Target(s)] # None
    <3>1. pc[s] = "find home" /\ pc'[s] = "find user" /\ op' = op /\ name' = name
      BY <1>4, <2>2 DEF FindHome
    <3>2. op[s] = "login" /\ login' = [login EXCEPT ![s] = name[s]]
      BY <1>4, <2>2, <3>1 DEF FindHome
    <3> QED BY <3>1, <3>2
  <2> QED BY <2>1, <2>2
<1>5. CASE FindUser(s)
  BY <1>5 DEF FindUser, RefuseLogin
<1>6. CASE Become(s)
  BY <1>6 DEF Become, RefuseLogin
<1>7. CASE CheckUser(s)
  BY <1>7 DEF CheckUser
<1>8. CASE CheckHome(s)
  BY <1>8 DEF CheckHome
<1>9. CASE Added(s)
  BY <1>9 DEF Added
<1>10. CASE Mkdir(s)
  BY <1>10 DEF Mkdir
<1>11. CASE GetIds(s)
  BY <1>11 DEF GetIds
<1>12. CASE Chown(s)
  BY <1>12 DEF Chown
<1>13. CASE UndoHome(s)
  BY <1>13 DEF UndoHome
<1>14. CASE UndoUser(s)
  BY <1>14 DEF UndoUser
<1>15. CASE Undone(s)
  BY <1>15 DEF Undone
<1>16. CASE ForkUserdel(s)
  BY <1>16 DEF ForkUserdel
<1>17. CASE Deleted(s)
  BY <1>17 DEF Deleted
<1>18. CASE DeleteHome(s)
  BY <1>18 DEF DeleteHome
<1>19. CASE AdduserEnds(s)
  BY <1>19 DEF AdduserEnds
<1>20. CASE UserdelScans(s) \/ UserdelEnds(s)
  BY <1>20 DEF UserdelScans, UserdelEnds
<1>21. CASE Stolen(s)
  BY <1>21 DEF Stolen
<1>22. CASE Leave(s)
  BY <1>22 DEF Leave
<1> QED BY <1>1, <1>2, <1>3, <1>4, <1>5, <1>6, <1>7, <1>8, <1>9, <1>10, <1>11,
           <1>12, <1>13, <1>14, <1>15, <1>16, <1>17, <1>18, <1>19, <1>20, <1>21,
           <1>22
        DEF Act, Begin, Step, LoginStep, CreateStep, DeleteStep, HelperRuns

LEMMA GroupedHere ==
  ASSUME Typed, NEW s \in Sessions, WhoIs(s), Chosen(s), Grouped(s), Act(s)
  PROVE  Grouped(s)'
<1> USE ReplyIdle DEF Typed, ControlTyped, IdentityTyped, GroupsTyped, Grouped,
        LoggedIn, WhoIs, Chosen, Target, Start, Fail, Fork, Returns, Goto,
        identity, groupIds
<1>1. CASE \E m \in Users : BeginLogin(s, m)
  BY <1>1 DEF BeginLogin
<1>2. CASE \E m \in Users : BeginCreate(s, m)
  BY <1>2 DEF BeginCreate
<1>3. CASE \E m \in Users : BeginDelete(s, m)
  BY <1>3 DEF BeginDelete
<1>4. CASE FindHome(s)
  BY <1>4 DEF FindHome
<1>5. CASE FindUser(s)
  BY <1>5 DEF FindUser, RefuseLogin
<1>6. CASE Become(s)
  <2>1. CASE RefuseLogin(s)
    <3>1. login'[s] = None
      BY <2>1 DEF RefuseLogin
    <3> QED BY <3>1
  <2>2. CASE ~RefuseLogin(s)
    <3>1. pc[s] = "become" /\ login' = login /\ login[s] = name[s]
      BY <1>6, <2>2 DEF Become
    <3>2. egid' = [egid EXCEPT ![s] = "csapgroup"] /\ groups' = [groups EXCEPT ![s] = name[s]]
      BY <1>6, <2>2 DEF Become
    <3> QED BY <3>1, <3>2
  <2> QED BY <2>1, <2>2
<1>7. CASE CheckUser(s)
  BY <1>7 DEF CheckUser
<1>8. CASE CheckHome(s)
  BY <1>8 DEF CheckHome
<1>9. CASE Added(s)
  BY <1>9 DEF Added
<1>10. CASE Mkdir(s)
  BY <1>10 DEF Mkdir
<1>11. CASE GetIds(s)
  BY <1>11 DEF GetIds
<1>12. CASE Chown(s)
  BY <1>12 DEF Chown
<1>13. CASE UndoHome(s)
  BY <1>13 DEF UndoHome
<1>14. CASE UndoUser(s)
  BY <1>14 DEF UndoUser
<1>15. CASE Undone(s)
  BY <1>15 DEF Undone
<1>16. CASE ForkUserdel(s)
  BY <1>16 DEF ForkUserdel
<1>17. CASE Deleted(s)
  BY <1>17 DEF Deleted
<1>18. CASE DeleteHome(s)
  BY <1>18 DEF DeleteHome
<1>19. CASE AdduserEnds(s)
  BY <1>19 DEF AdduserEnds
<1>20. CASE UserdelScans(s) \/ UserdelEnds(s)
  BY <1>20 DEF UserdelScans, UserdelEnds
<1>21. CASE Stolen(s)
  BY <1>21 DEF Stolen
<1>22. CASE Leave(s)
  BY <1>22 DEF Leave
<1> QED BY <1>1, <1>2, <1>3, <1>4, <1>5, <1>6, <1>7, <1>8, <1>9, <1>10, <1>11,
           <1>12, <1>13, <1>14, <1>15, <1>16, <1>17, <1>18, <1>19, <1>20, <1>21,
           <1>22
        DEF Act, Begin, Step, LoginStep, CreateStep, DeleteStep, HelperRuns

\* Where a session gets its uid from, and how it keeps it.
LEMMA UidHere ==
  ASSUME Typed, NEW s \in Sessions, WhoIs(s), Chosen(s), Act(s), LoggedIn(s)'
  PROVE  \/ /\ LoggedIn(s) /\ login'[s] = login[s] /\ Uid(s)' = Uid(s)
            /\ s \in overtaken => s \in overtaken'
         \/ /\ FindUser(s) /\ login'[s] = login[s] /\ Uid(s)' = account[login[s]]
            /\ s \notin overtaken' => ~Deleting(login[s])
<1> USE ReplyIdle DEF Typed, ControlTyped, IdentityTyped, LocalsTyped, WhoIs,
        Chosen, LoggedIn, Uid, Target, Start, Elevate, Drop, Fail, Fork, Returns,
        Goto, identity, locals
<1>1. CASE \E m \in Users : BeginLogin(s, m)
  BY <1>1 DEF BeginLogin
<1>2. CASE \E m \in Users : BeginCreate(s, m)
  BY <1>2 DEF BeginCreate
<1>3. CASE \E m \in Users : BeginDelete(s, m)
  BY <1>3 DEF BeginDelete
<1>4. CASE FindHome(s)
  BY <1>4 DEF FindHome
<1>5. CASE FindUser(s)
  <2>1. CASE account[Target(s)] = None
    <3>1. login'[s] = None
      BY <1>5, <2>1 DEF FindUser, RefuseLogin
    <3> QED BY <3>1
  <2>2. CASE account[Target(s)] # None
    <3>1. pc[s] = "find user" /\ pc'[s] = "become" /\ login' = login
      BY <1>5, <2>2 DEF FindUser
    <3>2. pwd' = [pwd EXCEPT ![s] = account[login[s]]]
      BY <1>5, <2>2, <3>1 DEF FindUser
    <3>3. overtaken' = IF Deleting(Target(s)) THEN overtaken \cup {s} ELSE overtaken
      BY <1>5, <2>2 DEF FindUser
    <3> QED BY <1>5, <3>1, <3>2, <3>3
  <2> QED BY <2>1, <2>2
<1>6. CASE Become(s)
  BY <1>6 DEF Become, RefuseLogin
<1>7. CASE CheckUser(s)
  BY <1>7 DEF CheckUser
<1>8. CASE CheckHome(s)
  BY <1>8 DEF CheckHome
<1>9. CASE Added(s)
  BY <1>9 DEF Added
<1>10. CASE Mkdir(s)
  BY <1>10 DEF Mkdir
<1>11. CASE GetIds(s)
  BY <1>11 DEF GetIds
<1>12. CASE Chown(s)
  BY <1>12 DEF Chown
<1>13. CASE UndoHome(s)
  BY <1>13 DEF UndoHome
<1>14. CASE UndoUser(s)
  BY <1>14 DEF UndoUser
<1>15. CASE Undone(s)
  BY <1>15 DEF Undone
<1>16. CASE ForkUserdel(s)
  BY <1>16 DEF ForkUserdel
<1>17. CASE Deleted(s)
  BY <1>17 DEF Deleted
<1>18. CASE DeleteHome(s)
  BY <1>18 DEF DeleteHome
<1>19. CASE AdduserEnds(s)
  BY <1>19 DEF AdduserEnds
<1>20. CASE UserdelScans(s) \/ UserdelEnds(s)
  BY <1>20 DEF UserdelScans, UserdelEnds
<1>21. CASE Stolen(s)
  BY <1>21 DEF Stolen
<1>22. CASE Leave(s)
  BY <1>22 DEF Leave
<1> QED BY <1>1, <1>2, <1>3, <1>4, <1>5, <1>6, <1>7, <1>8, <1>9, <1>10, <1>11,
           <1>12, <1>13, <1>14, <1>15, <1>16, <1>17, <1>18, <1>19, <1>20, <1>21,
           <1>22
        DEF Act, Begin, Step, LoginStep, CreateStep, DeleteStep, HelperRuns

LEMMA ScannedChange ==
  ASSUME Typed, NEW s \in Sessions, Act(s), helper'[s] = "scanned"
  PROVE  \/ helper[s] = "scanned" /\ name'[s] = name[s]
         \/ /\ UserdelScans(s) /\ name'[s] = name[s] /\ ~Busy(Target(s))
            /\ \A t \in Sessions : login[t] = Target(s)
                  /\ (pc[t] = "become" \/ op[t] = "create") => t \in overtaken'
<1> USE DEF Typed, ControlTyped, LocalsTyped, EachEngaged, Engaged, Start, Fork,
        Returns, locals
<1>1. CASE \E m \in Users : BeginLogin(s, m)
  BY <1>1 DEF BeginLogin
<1>2. CASE \E m \in Users : BeginCreate(s, m)
  BY <1>2 DEF BeginCreate
<1>3. CASE \E m \in Users : BeginDelete(s, m)
  BY <1>3 DEF BeginDelete
<1>4. CASE FindHome(s)
  BY <1>4 DEF FindHome
<1>5. CASE FindUser(s)
  BY <1>5 DEF FindUser, RefuseLogin
<1>6. CASE Become(s)
  BY <1>6 DEF Become, RefuseLogin
<1>7. CASE CheckUser(s)
  BY <1>7 DEF CheckUser
<1>8. CASE CheckHome(s)
  BY <1>8 DEF CheckHome
<1>9. CASE Added(s)
  BY <1>9 DEF Added
<1>10. CASE Mkdir(s)
  BY <1>10 DEF Mkdir
<1>11. CASE GetIds(s)
  BY <1>11 DEF GetIds
<1>12. CASE Chown(s)
  BY <1>12 DEF Chown
<1>13. CASE UndoHome(s)
  BY <1>13 DEF UndoHome
<1>14. CASE UndoUser(s)
  BY <1>14 DEF UndoUser
<1>15. CASE Undone(s)
  BY <1>15 DEF Undone
<1>16. CASE ForkUserdel(s)
  BY <1>16 DEF ForkUserdel
<1>17. CASE Deleted(s)
  BY <1>17 DEF Deleted
<1>18. CASE DeleteHome(s)
  BY <1>18 DEF DeleteHome
<1>19. CASE AdduserEnds(s)
  BY <1>19 DEF AdduserEnds
<1>20. CASE UserdelScans(s) \/ UserdelEnds(s)
  BY <1>20 DEF UserdelScans, UserdelEnds
<1>21. CASE Stolen(s)
  BY <1>21 DEF Stolen
<1>22. CASE Leave(s)
  BY <1>22 DEF Leave
<1> QED BY <1>1, <1>2, <1>3, <1>4, <1>5, <1>6, <1>7, <1>8, <1>9, <1>10, <1>11,
           <1>12, <1>13, <1>14, <1>15, <1>16, <1>17, <1>18, <1>19, <1>20, <1>21,
           <1>22
        DEF Act, Begin, Step, LoginStep, CreateStep, DeleteStep, HelperRuns

LEMMA DeletingChange ==
  ASSUME Typed, NEW s \in Sessions, Act(s), NEW n \in Users, ~Deleting(n), Deleting(n)'
  PROVE  /\ ~Busy(n)
         /\ \A t \in Sessions : login[t] = n /\ (pc[t] = "become" \/ op[t] = "create")
               => t \in overtaken'
<1>1. PICK t \in Sessions : helper'[t] = "scanned" /\ name'[t] = n
  BY DEF Deleting
<1>2. t = s
  BY <1>1, OthersControl, OthersLocals DEF Deleting
<1> QED BY <1>1, <1>2, ScannedChange DEF Deleting, Target

\* A uid that is current stays so: nobody takes the account away, and a userdel
\* that looks for processes finds this one, or has overtaken it.
LEMMA CurrentStays ==
  ASSUME Typed, NEW s \in Sessions, Act(s), NEW t \in Sessions, NEW n \in Users,
         Course(t), WhoIs(t), Chosen(t), LoggedIn(t), t \notin overtaken',
         login[t] = n, Uid(t) = account[n], ~Deleting(n)
  PROVE  account'[n] = account[n] /\ ~Deleting(n)'
<1>1. account[n] # None
  <2>1. pc[t] = "become" => pwd[t] \in Uids
    BY EngagedFacts
  <2>2. pc[t] # "become" => Uid(t) \in Uids
    BY UserConstants DEF WhoIs, Base, LoggedIn, Uid
  <2> QED BY <2>1, <2>2, UserConstants DEF Uid
<1>2. account'[n] = account[n]
  <2>1. CASE AdduserEnds(s) /\ account[Target(s)] = None
    BY <1>1, <2>1 DEF AdduserEnds, Typed, AccountsTyped
  <2>2. CASE UserdelEnds(s)
    <3>1. Target(s) # n
      BY <2>2 DEF UserdelEnds, Deleting, Target
    <3> QED BY <2>2, <3>1 DEF UserdelEnds, Typed, AccountsTyped
  <2> QED BY <2>1, <2>2, AccountsChange
<1>3. ASSUME Deleting(n)'
      PROVE  FALSE
  <2>1. ~Busy(n) /\ pc[t] # "become" /\ op[t] # "create"
    BY <1>3, DeletingChange
  <2>2. pc[t] # "idle"
    BY <2>1 DEF Busy, Uid
  <2>3. op[t] = "delete"
    BY <2>1, <2>2 DEF Course, WhoIs, LoggedIn, Typed, ControlTyped, PCs
  <2> QED BY <2>2, <2>3 DEF Chosen, LoggedIn
<1> QED BY <1>2, <1>3

IdentityInv ==
  \A s \in Sessions : /\ Course(s) /\ WhoIs(s)
                      /\ Chosen(s) /\ Grouped(s) /\ Current(s)

LEMMA CurrentStep ==
  ASSUME Typed, IdentityInv, NEW s \in Sessions, Act(s), NEW t \in Sessions
  PROVE  Current(t)'
<1>1. SUFFICES ASSUME LoggedIn(t)', t \notin overtaken', NEW n, n = login'[t]
               PROVE  (Uid(t) = account[n])' /\ ~Deleting(n)'
  BY DEF Current
<1>2. n \in Users
  BY <1>1, IdentityStep DEF IdentityTyped, LoggedIn
<1>3. CASE LoggedIn(t) /\ login[t] = n /\ Uid(t)' = Uid(t) /\ t \notin overtaken
  <2>1. Uid(t) = account[n] /\ ~Deleting(n)
    BY <1>3 DEF IdentityInv, Current
  <2> QED BY <1>1, <1>2, <1>3, <2>1, CurrentStays DEF IdentityInv
<1>4. CASE t = s
  <2>1. CASE FindUser(s)
    <3>1. account' = account /\ UNCHANGED helper
      BY <2>1 DEF FindUser
    <3>2. login'[s] = login[s] /\ Uid(s)' = account[login[s]] /\ ~Deleting(login[s])
      BY <1>1, <1>4, <2>1, UidHere DEF IdentityInv, LoggedIn, FindUser
    <3>3. ~Deleting(n)'
      <4>1. SUFFICES ASSUME NEW u \in Sessions, helper[u] = "scanned", name'[u] = n
                     PROVE  FALSE
        BY <3>1 DEF Deleting
      <4>2. u # s
        BY <2>1, <4>1 DEF FindUser, Typed, EachEngaged, Engaged
      <4>3. name[u] = n
        BY <4>1, <4>2, OthersLocals
      <4> QED BY <1>1, <1>4, <3>2, <4>1, <4>3 DEF Deleting
    <3> QED BY <1>1, <1>4, <3>1, <3>2, <3>3
  <2>2. CASE ~FindUser(s)
    <3>1. LoggedIn(s) /\ login'[s] = login[s] /\ Uid(s)' = Uid(s)
          /\ (s \in overtaken => s \in overtaken')
      BY <1>1, <1>4, <2>2, UidHere DEF IdentityInv
    <3> QED BY <1>1, <1>3, <1>4, <3>1
  <2> QED BY <2>1, <2>2
<1>5. CASE t # s
  <2>1. /\ pc'[t] = pc[t] /\ login'[t] = login[t] /\ pwd'[t] = pwd[t]
        /\ euid'[t] = euid[t] /\ saved'[t] = saved[t]
        /\ t \in overtaken => t \in overtaken'
    BY <1>5, OthersControl, OthersIdentity, OthersGroups, OthersLocals
  <2>2. LoggedIn(t) /\ Uid(t)' = Uid(t)
    BY <1>1, <2>1 DEF LoggedIn, Uid
  <2> QED BY <1>1, <1>3, <2>1, <2>2
<1> QED BY <1>4, <1>5

LEMMA IdentityInvStep ==
  ASSUME Typed, IdentityInv, [Next]_vars
  PROVE  IdentityInv'
<1>1. (\A s \in Sessions : Course(s)') /\ (\A s \in Sessions : WhoIs(s)')
  BY CourseStep, WhoIsStep DEF IdentityInv
<1>2. CASE \E s \in Sessions : Act(s)
  <2>1. PICK s \in Sessions : Act(s)
    BY <1>2
  <2>2. Chosen(s)' /\ Grouped(s)'
    BY <2>1, ChosenHere, GroupedHere DEF IdentityInv
  <2>3. ASSUME NEW t \in Sessions \ {s}
        PROVE  Chosen(t)' /\ Grouped(t)'
    <3>1. /\ pc'[t] = pc[t] /\ op'[t] = op[t] /\ name'[t] = name[t]
          /\ login'[t] = login[t] /\ egid'[t] = egid[t] /\ groups'[t] = groups[t]
      BY <2>1, OthersControl, OthersIdentity, OthersGroups, OthersLocals
    <3> QED BY <3>1 DEF IdentityInv, Chosen, Grouped, LoggedIn
  <2> QED BY <1>1, <2>1, <2>2, <2>3, CurrentStep DEF IdentityInv
<1>3. CASE UNCHANGED vars
  <2>1. UNCHANGED <<account, pc, helper, op, name, pwd>>
    BY <1>3 DEF vars, locals
  <2>2. UNCHANGED <<login, euid, saved, egid, groups, overtaken>>
    BY <1>3 DEF vars, identity, groupIds
  <2>3. ASSUME NEW s \in Sessions
        PROVE  Chosen(s)' /\ Grouped(s)' /\ Current(s)'
    BY <2>1, <2>2 DEF IdentityInv, Chosen, Grouped, Current, LoggedIn, Uid, Deleting
  <2> QED BY <1>1, <2>3 DEF IdentityInv
<1> QED BY <1>2, <1>3 DEF Next, Act

(* For any number of sessions, users and recycled uids: between two        *)
(* commands a logged-in child has the uid, the group and the supplementary *)
(* groups of its user, and the uid is the one that he has now, unless a    *)
(* userdel overtook the login or the command that the child was in.        *)
THEOREM IdentityKept == Spec => []Identity
<1>1. Init => IdentityInv
  BY UserConstants DEF Init, IdentityInv, Course, WhoIs, Base, Chosen, Grouped,
     Current, LoggedIn
<1>2. Typed /\ IdentityInv /\ [Next]_vars => IdentityInv'
  BY IdentityInvStep
<1>3. IdentityInv => Identity
  BY UserConstants DEF IdentityInv, WhoIs, Base, Grouped, Current, LoggedIn, Uid,
     Identity
<1> QED BY <1>1, <1>2, <1>3, TypedInvariance, PTL DEF Spec

-----------------------------------------------------------------------------
(* Ownership.  Of a user who met no hazard: while CREATE_USER remembers    *)
(* that it has made the account or the home, what is there is its own.     *)

Recorded(n) ==
  /\ userBy[n] # None => account[n] # None
  /\ homeBy[n] # None => op[homeBy[n]] = "create" /\ name[homeBy[n]] = n

Alone(s) == \A t \in Sessions : name[t] = name[s] => op[t] # "delete"

Owns(s, n) ==
  /\ helper[s] = "stolen" => error[s]
  /\ helper[s] = "succeeded" /\ ~error[s] => userBy[n] = s
  /\ "user" \in made[s] /\ (pc[s] # "waitpid" \/ helper[s] \in {"running", "scanned"})
       => userBy[n] = s
  /\ "home" \in made[s] /\ pc[s] \notin {"undo user", "waitpid"} => homeBy[n] = s

Creates(s, n) == op[s] = "create" /\ name[s] = n

Clean(n) ==
  /\ homeBy[n] # None => home[n] # None
  /\ \A s \in Sessions : Creates(s, n) => Alone(s) /\ Owns(s, n)

OwnerInv ==
  /\ \A s \in Sessions : Course(s)
  /\ \A n \in Users : Recorded(n)
  /\ \A n \in Users \ spoiled : Clean(n)

\* What a step of s can do to the records.
LEMMA ReplyOwners ==
  ASSUME Typed, NEW s \in Sessions, Reply(s), NEW n \in Users
  PROVE  /\ userBy'[n] = IF userBy[n] = s THEN None ELSE userBy[n]
         /\ homeBy'[n] = IF homeBy[n] = s THEN None ELSE homeBy[n]
BY DEF Reply

LEMMA UserByChange ==
  ASSUME Typed, NEW s \in Sessions, Act(s), NEW n \in Users, userBy'[n] # userBy[n]
  PROVE  \/ Reply(s) /\ userBy[n] = s /\ userBy'[n] = None
         \/ /\ AdduserEnds(s) /\ n = Target(s)
            /\ account[n] = None /\ account'[n] \in Uids /\ userBy'[n] = s
         \/ UserdelEnds(s) /\ n = Target(s) /\ userBy'[n] = None
<1> USE ReplyOwners DEF Typed, OwnersTyped, Start, history
<1>1. CASE \E m \in Users : BeginLogin(s, m)
  BY <1>1 DEF BeginLogin
<1>2. CASE \E m \in Users : BeginCreate(s, m)
  BY <1>2 DEF BeginCreate
<1>3. CASE \E m \in Users : BeginDelete(s, m)
  BY <1>3 DEF BeginDelete
<1>4. CASE FindHome(s)
  BY <1>4 DEF FindHome
<1>5. CASE FindUser(s)
  BY <1>5 DEF FindUser, RefuseLogin
<1>6. CASE Become(s)
  BY <1>6 DEF Become, RefuseLogin
<1>7. CASE CheckUser(s)
  BY <1>7 DEF CheckUser
<1>8. CASE CheckHome(s)
  BY <1>8 DEF CheckHome
<1>9. CASE Added(s)
  BY <1>9 DEF Added
<1>10. CASE Mkdir(s)
  BY <1>10 DEF Mkdir
<1>11. CASE GetIds(s)
  BY <1>11 DEF GetIds
<1>12. CASE Chown(s)
  BY <1>12 DEF Chown
<1>13. CASE UndoHome(s)
  BY <1>13 DEF UndoHome
<1>14. CASE UndoUser(s)
  BY <1>14 DEF UndoUser
<1>15. CASE Undone(s)
  BY <1>15 DEF Undone
<1>16. CASE ForkUserdel(s)
  BY <1>16 DEF ForkUserdel
<1>17. CASE Deleted(s)
  BY <1>17 DEF Deleted
<1>18. CASE DeleteHome(s)
  BY <1>18 DEF DeleteHome
<1>19. CASE AdduserEnds(s)
  BY <1>19 DEF AdduserEnds, AccountsTyped, Unused
<1>20. CASE UserdelScans(s) \/ UserdelEnds(s)
  BY <1>20 DEF UserdelScans, UserdelEnds
<1>21. CASE Stolen(s)
  BY <1>21 DEF Stolen
<1>22. CASE Leave(s)
  BY <1>22 DEF Leave
<1> QED BY <1>1, <1>2, <1>3, <1>4, <1>5, <1>6, <1>7, <1>8, <1>9, <1>10, <1>11,
           <1>12, <1>13, <1>14, <1>15, <1>16, <1>17, <1>18, <1>19, <1>20, <1>21,
           <1>22
        DEF Act, Begin, Step, LoginStep, CreateStep, DeleteStep, HelperRuns

LEMMA HomeByChange ==
  ASSUME Typed, NEW s \in Sessions, Act(s), NEW n \in Users, homeBy'[n] # homeBy[n]
  PROVE  \/ Reply(s) /\ homeBy[n] = s /\ homeBy'[n] = None
         \/ Mkdir(s) /\ n = Target(s) /\ home[n] = None /\ homeBy'[n] = s
         \/ /\ UndoHome(s) /\ "home" \in made[s] /\ n = Target(s)
            /\ homeBy'[n] = None
<1> USE ReplyOwners DEF Typed, OwnersTyped, Start, history
<1>1. CASE \E m \in Users : BeginLogin(s, m)
  BY <1>1 DEF BeginLogin
<1>2. CASE \E m \in Users : BeginCreate(s, m)
  BY <1>2 DEF BeginCreate
<1>3. CASE \E m \in Users : BeginDelete(s, m)
  BY <1>3 DEF BeginDelete
<1>4. CASE FindHome(s)
  BY <1>4 DEF FindHome
<1>5. CASE FindUser(s)
  BY <1>5 DEF FindUser, RefuseLogin
<1>6. CASE Become(s)
  BY <1>6 DEF Become, RefuseLogin
<1>7. CASE CheckUser(s)
  BY <1>7 DEF CheckUser
<1>8. CASE CheckHome(s)
  BY <1>8 DEF CheckHome
<1>9. CASE Added(s)
  BY <1>9 DEF Added
<1>10. CASE Mkdir(s)
  BY <1>10 DEF Mkdir
<1>11. CASE GetIds(s)
  BY <1>11 DEF GetIds
<1>12. CASE Chown(s)
  BY <1>12 DEF Chown
<1>13. CASE UndoHome(s)
  BY <1>13 DEF UndoHome, RemoveHome
<1>14. CASE UndoUser(s)
  BY <1>14 DEF UndoUser
<1>15. CASE Undone(s)
  BY <1>15 DEF Undone
<1>16. CASE ForkUserdel(s)
  BY <1>16 DEF ForkUserdel
<1>17. CASE Deleted(s)
  BY <1>17 DEF Deleted
<1>18. CASE DeleteHome(s)
  BY <1>18 DEF DeleteHome
<1>19. CASE AdduserEnds(s)
  BY <1>19 DEF AdduserEnds
<1>20. CASE UserdelScans(s) \/ UserdelEnds(s)
  BY <1>20 DEF UserdelScans, UserdelEnds
<1>21. CASE Stolen(s)
  BY <1>21 DEF Stolen
<1>22. CASE Leave(s)
  BY <1>22 DEF Leave
<1> QED BY <1>1, <1>2, <1>3, <1>4, <1>5, <1>6, <1>7, <1>8, <1>9, <1>10, <1>11,
           <1>12, <1>13, <1>14, <1>15, <1>16, <1>17, <1>18, <1>19, <1>20, <1>21,
           <1>22
        DEF Act, Begin, Step, LoginStep, CreateStep, DeleteStep, HelperRuns

LEMMA SpoiledGrows ==
  ASSUME Typed, NEW s \in Sessions, Act(s), NEW n \in Users, n \in spoiled
  PROVE  n \in spoiled'
<1> USE DEF Start, history, Spoil
<1>1. CASE \E m \in Users : BeginLogin(s, m)
  BY <1>1 DEF BeginLogin
<1>2. CASE \E m \in Users : BeginCreate(s, m)
  BY <1>2 DEF BeginCreate
<1>3. CASE \E m \in Users : BeginDelete(s, m)
  BY <1>3 DEF BeginDelete
<1>4. CASE FindHome(s)
  BY <1>4 DEF FindHome
<1>5. CASE FindUser(s)
  BY <1>5 DEF FindUser, RefuseLogin
<1>6. CASE Become(s)
  BY <1>6 DEF Become, RefuseLogin
<1>7. CASE CheckUser(s)
  BY <1>7 DEF CheckUser
<1>8. CASE CheckHome(s)
  BY <1>8 DEF CheckHome
<1>9. CASE Added(s)
  BY <1>9 DEF Added
<1>10. CASE Mkdir(s)
  BY <1>10 DEF Mkdir
<1>11. CASE GetIds(s)
  BY <1>11 DEF GetIds
<1>12. CASE Chown(s)
  BY <1>12 DEF Chown
<1>13. CASE UndoHome(s)
  BY <1>13 DEF UndoHome, RemoveHome
<1>14. CASE UndoUser(s)
  BY <1>14 DEF UndoUser
<1>15. CASE Undone(s)
  BY <1>15 DEF Undone
<1>16. CASE ForkUserdel(s)
  BY <1>16 DEF ForkUserdel
<1>17. CASE Deleted(s)
  BY <1>17 DEF Deleted
<1>18. CASE DeleteHome(s)
  BY <1>18 DEF DeleteHome
<1>19. CASE AdduserEnds(s)
  BY <1>19 DEF AdduserEnds
<1>20. CASE UserdelScans(s) \/ UserdelEnds(s)
  BY <1>20 DEF UserdelScans, UserdelEnds
<1>21. CASE Stolen(s)
  BY <1>21 DEF Stolen
<1>22. CASE Leave(s)
  BY <1>22 DEF Leave
<1> QED BY <1>1, <1>2, <1>3, <1>4, <1>5, <1>6, <1>7, <1>8, <1>9, <1>10, <1>11,
           <1>12, <1>13, <1>14, <1>15, <1>16, <1>17, <1>18, <1>19, <1>20, <1>21,
           <1>22
        DEF Act, Begin, Step, LoginStep, CreateStep, DeleteStep, HelperRuns

\* userdel runs for a DELETE_USER or for the rollback of a CREATE_USER that
\* has made the account.
LEMMA UserdelCourse ==
  ASSUME Typed, NEW s \in Sessions, Course(s), UserdelEnds(s)
  PROVE  /\ pc[s] = "waitpid" /\ helper[s] = "scanned"
         /\ op[s] = "delete" \/ (op[s] = "create" /\ error[s] /\ "user" \in made[s])
<1>1. helper[s] = "scanned"
  BY DEF UserdelEnds
<1>2. pc[s] = "waitpid"
  BY <1>1 DEF Typed, EachEngaged, Engaged
<1> QED BY <1>1, <1>2 DEF Course

LEMMA UserByKept ==
  ASSUME Typed, OwnerInv, NEW s \in Sessions, Act(s), NEW n \in Users \ spoiled,
         NEW u \in Sessions \ {s}, Creates(u, n), userBy[n] = u
  PROVE  userBy'[n] = u
<1>1. SUFFICES ASSUME userBy'[n] # userBy[n]
               PROVE  FALSE
  OBVIOUS
<1>2. account[n] # None
  BY UserConstants DEF OwnerInv, Recorded
<1>3. UserdelEnds(s) /\ n = Target(s)
  BY <1>1, <1>2, UserByChange
<1>4. op[s] # "delete"
  BY <1>3 DEF OwnerInv, Clean, Alone, Creates, Target
<1>5. Creates(s, n) /\ "user" \in made[s] /\ helper[s] = "scanned"
  BY <1>3, <1>4, UserdelCourse DEF OwnerInv, Creates, Target
<1> QED BY <1>5 DEF OwnerInv, Clean, Owns

LEMMA HomeByKept ==
  ASSUME Typed, OwnerInv, NEW s \in Sessions, Act(s), NEW n \in Users \ spoiled,
         NEW u \in Sessions \ {s}, homeBy[n] = u
  PROVE  homeBy'[n] = u
<1>1. SUFFICES ASSUME homeBy'[n] # homeBy[n]
               PROVE  FALSE
  OBVIOUS
<1>2. home[n] # None
  BY UserConstants DEF OwnerInv, Clean
<1>3. UndoHome(s) /\ "home" \in made[s] /\ n = Target(s)
  BY <1>1, <1>2, HomeByChange
<1>4. Creates(s, n) /\ pc[s] = "undo home"
  BY <1>3 DEF OwnerInv, Course, UndoHome, Creates, Target
<1> QED BY <1>3, <1>4 DEF OwnerInv, Clean, Owns

\* Who works on what changes only at the two ends of a command.
LEMMA CommandChange ==
  ASSUME Typed, NEW s \in Sessions, Act(s)
  PROVE  \/ op'[s] = op[s] /\ name'[s] = name[s]
         \/ Reply(s) /\ op'[s] = None /\ name'[s] = None
         \/ Begin(s) /\ op'[s] = "login"
         \/ \E n \in Users : BeginCreate(s, n) /\ op'[s] = "create" /\ name'[s] = n
         \/ \E n \in Users : BeginDelete(s, n) /\ op'[s] = "delete" /\ name'[s] = n
<1> USE ReplyCommand DEF Typed, LocalsTyped, Start, Begin, locals
<1>1. CASE \E m \in Users : BeginLogin(s, m)
  BY <1>1 DEF BeginLogin
<1>2. CASE \E m \in Users : BeginCreate(s, m)
  BY <1>2 DEF BeginCreate
<1>3. CASE \E m \in Users : BeginDelete(s, m)
  BY <1>3 DEF BeginDelete
<1>4. CASE FindHome(s)
  BY <1>4 DEF FindHome
<1>5. CASE FindUser(s)
  BY <1>5 DEF FindUser, RefuseLogin
<1>6. CASE Become(s)
  BY <1>6 DEF Become, RefuseLogin
<1>7. CASE CheckUser(s)
  BY <1>7 DEF CheckUser
<1>8. CASE CheckHome(s)
  BY <1>8 DEF CheckHome
<1>9. CASE Added(s)
  BY <1>9 DEF Added
<1>10. CASE Mkdir(s)
  BY <1>10 DEF Mkdir
<1>11. CASE GetIds(s)
  BY <1>11 DEF GetIds
<1>12. CASE Chown(s)
  BY <1>12 DEF Chown
<1>13. CASE UndoHome(s)
  BY <1>13 DEF UndoHome
<1>14. CASE UndoUser(s)
  BY <1>14 DEF UndoUser
<1>15. CASE Undone(s)
  BY <1>15 DEF Undone
<1>16. CASE ForkUserdel(s)
  BY <1>16 DEF ForkUserdel
<1>17. CASE Deleted(s)
  BY <1>17 DEF Deleted
<1>18. CASE DeleteHome(s)
  BY <1>18 DEF DeleteHome
<1>19. CASE AdduserEnds(s)
  BY <1>19 DEF AdduserEnds
<1>20. CASE UserdelScans(s) \/ UserdelEnds(s)
  BY <1>20 DEF UserdelScans, UserdelEnds
<1>21. CASE Stolen(s)
  BY <1>21 DEF Stolen
<1>22. CASE Leave(s)
  BY <1>22 DEF Leave
<1> QED BY <1>1, <1>2, <1>3, <1>4, <1>5, <1>6, <1>7, <1>8, <1>9, <1>10, <1>11,
           <1>12, <1>13, <1>14, <1>15, <1>16, <1>17, <1>18, <1>19, <1>20, <1>21,
           <1>22
        DEF Act, Begin, Step, LoginStep, CreateStep, DeleteStep, HelperRuns

LEMMA BeginIdle ==
  ASSUME NEW s \in Sessions, Begin(s), Course(s)
  PROVE  pc[s] = "idle" /\ op[s] = None /\ name[s] = None /\ made[s] = {}
BY DEF Begin, BeginLogin, BeginCreate, BeginDelete, Start, Course

LEMMA RecordedStep ==
  ASSUME Typed, OwnerInv, NEW s \in Sessions, Act(s), NEW n \in Users
  PROVE  Recorded(n)'
<1>0. Recorded(n) /\ Course(s) /\ None \notin Uids /\ None \notin Sessions
  BY UserConstants DEF OwnerInv
<1>1. ASSUME userBy'[n] # None
      PROVE  account'[n] # None
  <2>1. CASE userBy'[n] # userBy[n]
    BY <1>0, <1>1, <2>1, UserByChange
  <2>2. CASE userBy'[n] = userBy[n]
    <3>1. account[n] # None
      BY <1>0, <1>1, <2>2 DEF Recorded
    <3>2. CASE account' = account
      BY <3>1, <3>2
    <3>3. CASE AdduserEnds(s) /\ account[Target(s)] = None
      BY <3>1, <3>3 DEF AdduserEnds, Typed, AccountsTyped
    <3>4. CASE UserdelEnds(s)
      BY <1>1, <3>1, <3>4 DEF UserdelEnds, Typed, AccountsTyped, OwnersTyped
    <3> QED BY <3>2, <3>3, <3>4, AccountsChange
  <2> QED BY <2>1, <2>2
<1>2. ASSUME homeBy'[n] # None
      PROVE  op'[homeBy'[n]] = "create" /\ name'[homeBy'[n]] = n
  <2>1. CASE homeBy'[n] # homeBy[n]
    <3>1. Mkdir(s) /\ n = Target(s) /\ homeBy'[n] = s
      BY <1>2, <2>1, HomeByChange
    <3>2. op[s] = "create" /\ UNCHANGED <<op, name>>
      BY <1>0, <3>1 DEF Mkdir, Course
    <3> QED BY <3>1, <3>2 DEF Target
  <2>2. CASE homeBy'[n] = homeBy[n]
    <3>1. PICK t \in Sessions : t = homeBy[n]
      BY <1>2, <2>2 DEF Typed, OwnersTyped
    <3>2. op[t] = "create" /\ name[t] = n
      BY <1>0, <1>2, <2>2, <3>1 DEF Recorded
    <3>3. CASE t # s
      BY <2>2, <3>1, <3>2, <3>3, OthersLocals
    <3>4. CASE t = s
      <4>1. ~Reply(s)
        BY <1>0, <2>2, <3>1, <3>4, ReplyOwners
      <4>2. ~Begin(s)
        BY <1>0, <3>2, <3>4, BeginIdle, UserConstants
      <4> QED BY <2>2, <3>1, <3>2, <3>4, <4>1, <4>2, CommandChange DEF Begin
    <3> QED BY <3>3, <3>4
  <2> QED BY <2>1, <2>2
<1> QED BY <1>1, <1>2 DEF Recorded

LEMMA AloneKept ==
  ASSUME Typed, OwnerInv, NEW s \in Sessions, Act(s), NEW n \in Users, n \notin spoiled',
         NEW u \in Sessions, Creates(u, n)'
  PROVE  Alone(u)'
<1>1. SUFFICES ASSUME NEW t \in Sessions, name'[t] = n, op'[t] = "delete"
               PROVE  FALSE
  BY DEF Alone, Creates
<1>2. n \notin spoiled /\ Course(s) /\ None \notin Users
  BY SpoiledGrows, UserConstants DEF OwnerInv
<1>3. t # u
  BY <1>1 DEF Creates
<1>4. CASE u # s /\ t # s
  BY <1>1, <1>2, <1>4, OthersLocals DEF Creates, OwnerInv, Clean, Alone
<1>5. CASE t = s
  <2>1. op[u] = "create" /\ name[u] = n
    BY <1>3, <1>5, OthersLocals DEF Creates
  <2>2. CASE op'[s] = op[s] /\ name'[s] = name[s]
    BY <1>1, <1>2, <1>5, <2>1, <2>2 DEF Creates, OwnerInv, Clean, Alone
  <2>3. CASE BeginDelete(s, n)
    BY <1>3, <1>5, <2>1, <2>3 DEF BeginDelete, Overlaps, Spoil
  <2> QED BY <1>1, <1>2, <1>5, <2>2, <2>3, CommandChange
<1>6. CASE u = s
  <2>1. op[t] = "delete" /\ name[t] = n
    BY <1>1, <1>3, <1>6, OthersLocals
  <2>2. CASE op'[s] = op[s] /\ name'[s] = name[s]
    BY <1>1, <1>2, <1>6, <2>1, <2>2 DEF Creates, OwnerInv, Clean, Alone
  <2>3. CASE BeginCreate(s, n)
    BY <1>3, <1>6, <2>1, <2>3 DEF BeginCreate, Overlaps, Spoil
  <2> QED BY <1>1, <1>2, <1>6, <2>2, <2>3, CommandChange DEF Creates
<1> QED BY <1>4, <1>5, <1>6

LEMMA OwnsOther ==
  ASSUME Typed, OwnerInv, NEW s \in Sessions, Act(s), NEW n \in Users \ spoiled,
         NEW u \in Sessions \ {s}, Creates(u, n)
  PROVE  Owns(u, n)'
<1>1. /\ helper'[u] = helper[u] /\ pc'[u] = pc[u]
      /\ made'[u] = made[u] /\ error'[u] = error[u]
  BY OthersControl, OthersLocals
<1>2. Owns(u, n)
  BY DEF OwnerInv, Clean
<1>3. (userBy[n] = u => userBy'[n] = u) /\ (homeBy[n] = u => homeBy'[n] = u)
  BY UserByKept, HomeByKept
<1> QED BY <1>1, <1>2, <1>3 DEF Owns

\* The steps of the CREATE_USER of n itself.
LEMMA OwnsHere ==
  ASSUME Typed, OwnerInv, NEW s \in Sessions, Act(s), NEW n \in Users, n \notin spoiled',
         Creates(s, n), Creates(s, n)'
  PROVE  Owns(s, n)'
<1>0. /\ Course(s) /\ Owns(s, n) /\ Engaged(s) /\ None \notin Users
      /\ Target(s) = n /\ ~Reply(s) /\ n \notin spoiled
  BY SpoiledGrows, ReplyCommand, UserConstants
     DEF OwnerInv, Clean, Typed, EachEngaged, Creates, Target
<1>u. userBy[n] = s /\ ~UserdelEnds(s) => userBy'[n] = s
  BY <1>0, UserByChange
<1>h. homeBy[n] = s /\ ~UndoHome(s) => homeBy'[n] = s
  BY <1>0, HomeByChange
<1>n. pc[s] # "waitpid" => helper[s] = "none"
  BY <1>0 DEF Engaged
<1>1. CASE CheckUser(s)
  <2>1. made'[s] = {} /\ helper'[s] = "none"
    BY <1>0, <1>n, <1>1 DEF CheckUser, Course
  <2> QED BY <2>1 DEF Owns
<1>2. CASE CheckHome(s)
  <2>1. made'[s] = {} /\ helper'[s] \in {"none", "running"}
    BY <1>0, <1>n, <1>2 DEF CheckHome, Course, Fork, Typed, ControlTyped
  <2> QED BY <2>1 DEF Owns
<1>3. CASE Added(s)
  <2>1. made[s] = {} /\ ~error[s] /\ op[s] = "create" /\ pc[s] = "waitpid"
    BY <1>0, <1>3 DEF Added, Adding, Returns, Course
  <2>2. helper'[s] = "none" /\ pc'[s] \in {"mkdir", "undo home"}
    BY <1>3 DEF Added, Returns, Fail, Goto, Typed, ControlTyped
  <2>3. \/ made'[s] = {"user"} /\ helper[s] = "succeeded"
        \/ made'[s] = {}
    BY <1>0, <1>3, <2>1 DEF Added, Returns, Owns, Typed, LocalsTyped
  <2>4. helper[s] = "succeeded" => userBy'[n] = s
    BY <1>0, <1>u, <1>3, <2>1 DEF Owns, Added, UserdelEnds
  <2> QED BY <2>2, <2>3, <2>4 DEF Owns
<1>4. CASE Mkdir(s)
  <2>1. made[s] = {"user"} /\ pc[s] = "mkdir" /\ helper'[s] = "none"
    BY <1>0, <1>n, <1>4 DEF Mkdir, Course
  <2>2. userBy'[n] = s
    BY <1>0, <1>4, <2>1 DEF Owns, Mkdir
  <2>3. made'[s] = made[s] \/ homeBy'[n] = s
    BY <1>0, <1>4 DEF Mkdir, Typed, OwnersTyped
  <2>4. "home" \in made'[s] => homeBy'[n] = s
    BY <2>1, <2>3
  <2> QED BY <2>1, <2>2, <2>4 DEF Owns
<1>5. CASE GetIds(s) \/ (Chown(s) /\ Fail(s) /\ UNCHANGED <<userBy, homeBy>>)
  <2>1. pc[s] \in {"get ids", "chown"} /\ helper'[s] = "none"
    BY <1>n, <1>5 DEF GetIds, Chown
  <2>2. UNCHANGED <<userBy, homeBy>>
    BY <1>5 DEF GetIds, history
  <2>3. userBy'[n] = s /\ homeBy'[n] = s
    BY <1>0, <2>1, <2>2 DEF Owns, Course
  <2> QED BY <2>1, <2>3 DEF Owns
<1>6. CASE Chown(s)
  BY <1>0, <1>5, <1>6 DEF Chown
<1>7. CASE UndoHome(s)
  <2>1. /\ pc[s] = "undo home" /\ pc'[s] = "undo user"
        /\ helper'[s] = "none" /\ made' = made /\ userBy' = userBy
    BY <1>n, <1>7 DEF UndoHome, locals, Goto, Typed, ControlTyped
  <2> QED BY <1>0, <2>1 DEF Owns
<1>8. CASE UndoUser(s)
  <2>1. /\ pc[s] = "undo user" /\ pc'[s] = "waitpid"
        /\ helper'[s] = "running" /\ made' = made /\ userBy' = userBy
    BY <1>0, <1>8 DEF UndoUser, Fork, locals, history, Goto, Typed, ControlTyped
  <2> QED BY <1>0, <2>1 DEF Owns
<1>9. CASE Undone(s)
  BY <1>0, <1>9 DEF Undone
<1>10. CASE AdduserEnds(s)
  <2>1. pc[s] = "waitpid" /\ made[s] = {} /\ made' = made
    BY <1>0, <1>n, <1>10 DEF AdduserEnds, Adding, Course, locals
  <2>2. \/ helper'[s] = "succeeded" /\ userBy'[n] = s
        \/ helper'[s] = "failed"
    BY <1>0, <1>10 DEF AdduserEnds, Typed, ControlTyped, OwnersTyped
  <2> QED BY <2>1, <2>2 DEF Owns
<1>11. CASE UserdelScans(s) \/ UserdelEnds(s)
  <2>1. error[s] /\ pc[s] = "waitpid"
    BY <1>0, <1>n, <1>11, UserdelCourse DEF UserdelScans, Adding, Creates
  <2>2. UNCHANGED <<pc, made, error>>
    BY <1>11 DEF UserdelScans, UserdelEnds, locals
  <2>3. \/ helper'[s] \in {"succeeded", "failed"}
        \/ helper'[s] = "scanned" /\ helper[s] = "running" /\ userBy' = userBy
    BY <1>11 DEF UserdelScans, UserdelEnds, Typed, ControlTyped
  <2> QED BY <1>0, <2>1, <2>2, <2>3 DEF Owns
<1>12. CASE Stolen(s)
  <2>1. error[s]
    BY <1>0, <1>12 DEF Stolen, Adding, Spoil, Creates
  <2>2. pc[s] = "waitpid" /\ UNCHANGED <<pc, made, error>>
    BY <1>n, <1>12 DEF Stolen, locals
  <2>3. helper'[s] = "stolen"
    BY <1>12 DEF Stolen, Typed, ControlTyped
  <2> QED BY <2>1, <2>2, <2>3 DEF Owns
<1>13. CASE Begin(s) \/ Leave(s) \/ LoginStep(s) \/ DeleteStep(s)
  <2>1. CASE pc[s] = "idle"
    BY <1>0, <2>1 DEF Course, Creates
  <2>2. CASE LoginStep(s)
    BY <1>0, <2>2 DEF Course, Creates, LoginStep, FindHome, FindUser, Become
  <2>3. CASE DeleteStep(s)
    BY <1>0, <2>3 DEF Course, Creates, DeleteStep, ForkUserdel, Deleted, DeleteHome
  <2> QED BY <1>0, <1>13, <2>1, <2>2, <2>3, BeginIdle DEF Leave
<1> QED BY <1>1, <1>2, <1>3, <1>4, <1>5, <1>6, <1>7, <1>8, <1>9, <1>10, <1>11,
           <1>12,
           <1>13 DEF Act, Step, CreateStep, HelperRuns

LEMMA HomeChange ==
  ASSUME Typed, NEW s \in Sessions, Act(s), NEW n \in Users, home'[n] # home[n]
  PROVE  n = Target(s) /\ (Mkdir(s) \/ Chown(s) \/ UndoHome(s) \/ DeleteHome(s))
<1>1. Mkdir(s) \/ Chown(s) \/ UndoHome(s) \/ DeleteHome(s)
  BY DEF Act, Begin, Step, LoginStep, CreateStep, DeleteStep, HelperRuns,
     BeginLogin,
         BeginCreate, BeginDelete, Start, FindHome, FindUser, Become, CheckUser,
         CheckHome, Added, GetIds, UndoUser, Undone, ForkUserdel, Deleted,
         AdduserEnds, UserdelScans, UserdelEnds, Stolen, Leave
<1>2. home' = home \/ \E v : home' = [home EXCEPT ![Target(s)] = v]
  BY <1>1 DEF Mkdir, Chown, UndoHome, RemoveHome, DeleteHome
<1> QED BY <1>1, <1>2 DEF Typed, AccountsTyped

LEMMA HomeThere ==
  ASSUME Typed, OwnerInv, NEW s \in Sessions, Act(s), NEW n \in Users, n \notin spoiled',
         homeBy'[n] # None
  PROVE  home'[n] # None
<1>0. Course(s) /\ Clean(n) /\ Recorded(n) /\ None \notin Users \cup Uids \cup Sessions \cup {"root"}
  BY SpoiledGrows, UserConstants DEF OwnerInv
<1>1. CASE homeBy'[n] # homeBy[n]
  <2>1. Mkdir(s) /\ n = Target(s) /\ homeBy'[n] = s
    BY <1>1, HomeByChange
  <2>2. home' = [home EXCEPT ![n] = "root"]
    BY <1>1, <2>1 DEF Mkdir
  <2> QED BY <1>0, <2>2 DEF Typed, AccountsTyped
<1>2. CASE homeBy'[n] = homeBy[n] /\ home'[n] = home[n]
  BY <1>0, <1>2 DEF Clean
<1>3. CASE homeBy'[n] = homeBy[n] /\ home'[n] # home[n]
  <2>1. PICK u \in Sessions : u = homeBy[n] /\ Creates(u, n)
    BY <1>0, <1>3 DEF Typed, OwnersTyped, Recorded, Creates
  <2>2. Alone(u)
    BY <1>0, <2>1 DEF Clean
  <2>3. ~DeleteHome(s)
    BY <1>0, <1>3, <2>1, <2>2 DEF DeleteHome, Course, Alone, Creates, Target,
       Typed, AccountsTyped
  <2>4. ~Mkdir(s)
    BY <1>0, <1>3, HomeChange DEF Clean, Mkdir
  <2>5. ASSUME Chown(s)
        PROVE  FALSE
    <3>1. n = Target(s) /\ Creates(s, n) /\ pc[s] = "chown" /\ "home" \in made[s]
      BY <1>0, <1>3, <2>5, HomeChange DEF Chown, Course, Creates, Target
    <3>2. homeBy[n] = s
      BY <1>0, <3>1 DEF Clean, Owns
    <3>3. Reply(s)
      BY <1>3, <2>5 DEF Chown
    <3> QED BY <1>0, <1>3, <3>2, <3>3, ReplyOwners
  <2>6. ASSUME UndoHome(s)
        PROVE  FALSE
    <3>1. n = Target(s) /\ homeBy' = [homeBy EXCEPT ![Target(s)] = None]
      BY <1>3, <2>6, HomeChange DEF UndoHome, RemoveHome
    <3> QED BY <3>1 DEF Typed, OwnersTyped
  <2> QED BY <1>3, <2>3, <2>4, <2>5, <2>6, HomeChange
<1> QED BY <1>1, <1>2, <1>3

LEMMA OwnerStep ==
  ASSUME Typed, OwnerInv, [Next]_vars
  PROVE  OwnerInv'
<1>1. \A s \in Sessions : Course(s)'
  BY CourseStep DEF OwnerInv
<1>2. CASE \E s \in Sessions : Act(s)
  <2>1. PICK s \in Sessions : Act(s)
    BY <1>2
  <2>2. \A n \in Users : Recorded(n)'
    BY <2>1, RecordedStep
  <2>3. ASSUME NEW n \in Users, n \notin spoiled'
        PROVE  Clean(n)'
    <3>1. n \notin spoiled
      BY <2>1, <2>3, SpoiledGrows
    <3>2. ASSUME NEW u \in Sessions, Creates(u, n)'
          PROVE  Alone(u)' /\ Owns(u, n)'
      <4>1. Alone(u)'
        BY <2>1, <2>3, <3>2, AloneKept
      <4>2. CASE u # s
        <5>1. Creates(u, n)
          BY <2>1, <3>2, <4>2, OthersLocals DEF Creates
        <5> QED BY <2>1, <3>1, <4>1, <4>2, <5>1, OwnsOther
      <4>3. CASE u = s /\ Creates(s, n)
        BY <2>1, <2>3, <3>2, <4>1, <4>3, OwnsHere
      <4>4. CASE u = s /\ ~Creates(s, n)
        <5>1. BeginCreate(s, n)
          BY <2>1, <3>2, <4>4, CommandChange, UserConstants DEF Creates
        <5>2. made'[s] = {} /\ helper'[s] = "none"
          BY <5>1, BeginIdle DEF OwnerInv, Begin, BeginCreate, Start, Typed,
             EachEngaged,
             Engaged
        <5> QED BY <4>4, <4>1, <5>2 DEF Owns
      <4> QED BY <4>2, <4>3, <4>4
    <3>3. homeBy'[n] # None => home'[n] # None
      BY <2>1, <2>3, HomeThere
    <3> QED BY <3>2, <3>3 DEF Clean
  <2> QED BY <1>1, <2>2, <2>3 DEF OwnerInv
<1>3. CASE UNCHANGED vars
  <2>1. UNCHANGED <<account, home, pc, helper, op, name, made, error>>
    BY <1>3 DEF vars, locals
  <2>2. UNCHANGED <<userBy, homeBy, spoiled>>
    BY <1>3 DEF vars, history
  <2>3. ASSUME NEW n \in Users
        PROVE  Recorded(n)'
    BY <2>1, <2>2 DEF OwnerInv, Recorded
  <2>4. ASSUME NEW n \in Users \ spoiled
        PROVE  Clean(n)'
    <3>1. Clean(n)
      BY DEF OwnerInv
    <3>2. ASSUME NEW s \in Sessions
          PROVE  /\ Creates(s, n)' = Creates(s, n) /\ Alone(s)' = Alone(s)
                 /\ Owns(s, n)' = Owns(s, n)
      BY <2>1, <2>2 DEF Creates, Alone, Owns
    <3> QED BY <2>1, <2>2, <3>1, <3>2 DEF Clean
  <2> QED BY <1>1, <2>2, <2>3, <2>4 DEF OwnerInv
<1> QED BY <1>2, <1>3 DEF Next, Act

LEMMA OwnerInvariance == Spec => [](Typed /\ OwnerInv)
<1>1. Init => OwnerInv
  <2>1. Init => \A s \in Sessions : Course(s)
    BY DEF Init, Course
  <2>2. Init => \A n \in Users : Recorded(n) /\ Clean(n)
    BY UserConstants DEF Init, Recorded, Clean, Alone, Owns, Creates
  <2> QED BY <2>1, <2>2 DEF OwnerInv
<1>2. Typed /\ OwnerInv /\ [Next]_vars => Typed' /\ OwnerInv'
  BY TypedStep, OwnerStep
<1> QED BY <1>1, <1>2, TypedInit, PTL DEF Spec

(* However many sessions create, delete and log in at once: the rollback   *)
(* of a CREATE_USER takes away what that call itself has made, unless the  *)
(* user met one of the hazards that nothing provides for.                  *)
THEOREM RollbackOwnHolds == Spec => RollbackOwn
<1>1. ASSUME Typed, OwnerInv, [Next]_vars, NEW n \in Users \ spoiled, NEW s \in Sessions
      PROVE  (UndoesHome(s, n) => homeBy[n] = s) /\ (UndoesUser(s, n) => userBy[n] = s)
  <2>1. Course(s) /\ Clean(n)
    BY <1>1 DEF OwnerInv
  <2>2. ASSUME UndoesHome(s, n)
        PROVE  homeBy[n] = s
    <3>1. PICK t \in Sessions : Act(t)
      BY <1>1, <2>2 DEF Next, Act, vars, UndoesHome
    <3>2. t = s
      BY <1>1, <2>2, <3>1, OthersControl DEF UndoesHome
    <3>3. n = Target(s) /\ UndoHome(s)
      BY <1>1, <2>2, <3>1, <3>2, HomeChange DEF UndoesHome, Mkdir, Chown, DeleteHome
    <3>4. "home" \in made[s]
      BY <2>2, <3>3 DEF UndoHome, UndoesHome
    <3> QED BY <2>1, <2>2, <3>3, <3>4
            DEF UndoesHome, Course, Clean, Creates, Owns, Target
  <2>3. ASSUME UndoesUser(s, n)
        PROVE  userBy[n] = s
    <3>1. PICK t \in Sessions : Act(t)
      BY <1>1, <2>3 DEF Next, Act, vars, UndoesUser
    <3>2. t = s
      BY <1>1, <2>3, <3>1, OthersControl DEF UndoesUser
    <3>3. UserdelEnds(s)
      BY <1>1, <2>3, <3>1, <3>2, AccountsChange DEF UndoesUser, AdduserEnds,
         Typed, AccountsTyped
    <3>4. n = Target(s)
      BY <1>1, <2>3, <3>3 DEF UserdelEnds, UndoesUser, Typed, AccountsTyped
    <3>5. pc[s] = "waitpid" /\ helper[s] = "scanned" /\ "user" \in made[s]
      BY <1>1, <2>1, <2>3, <3>3, UserdelCourse DEF UndoesUser
    <3> QED BY <2>1, <2>3, <3>4, <3>5 DEF UndoesUser, Clean, Creates, Owns, Target
  <2> QED BY <2>2, <2>3
<1>2. Typed /\ OwnerInv /\ [Next]_vars
        => [\A n \in Users \ spoiled : RemovesOnlyOwn(n)]_vars
  BY <1>1 DEF RemovesOnlyOwn
<1> QED BY <1>2, OwnerInvariance, PTL DEF Spec, RollbackOwn

==============================================================================

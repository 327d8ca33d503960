------------------------------- MODULE UserAdmin -------------------------------
(***************************************************************************)
(* LOGIN, CREATE_USER and DELETE_USER: the commands that change who a      *)
(* child of the server is, and who the users are.                          *)
(*                                                                         *)
(* A user is an account of the system and a home directory in the root     *)
(* directory of the server.  Accounts are added and removed by processes   *)
(* that a handler forks (adduser, userdel) and waits for; nothing locks a  *)
(* user name from the first check of a handler to its last step.  The      *)
(* handler of SIGCHLD that a child inherits from the server may reap the   *)
(* forked process before the waitpid of the command does.                  *)
(***************************************************************************)
EXTENDS Naturals, FiniteSets

CONSTANTS
  Sessions,  \* the children of the server
  Users,     \* the valid user names
  Uids,      \* the user ids that adduser gives out; they are recycled
  None,
  SignalFirst  \* whether the SIGCHLD handler may reap before waitpid does

ASSUME UserConstants ==
  /\ SignalFirst \in BOOLEAN
  /\ None \notin Sessions \cup Users \cup Uids \cup {"root", "server"}
  /\ Uids \cap {"root", "server"} = {}

VARIABLES
  account,   \* user -> the uid in the password file, or None
  home,      \* user -> the owner of the home directory, or None
  login,     \* session -> session->username, or None
  euid,      \* session -> effective uid; "server" is the one it starts with
  saved,     \* session -> old_euid
  egid,      \* session -> effective gid
  groups,    \* session -> the user whose supplementary groups it has
  overtaken, \* history: sessions with a login that a userdel has overtaken
  pc,        \* session -> where the handler is
  op,        \* session -> the command
  name,      \* session -> the user it is about
  pwd,       \* session -> pw_uid as getpwnam returned it
  error,     \* session -> the variable error of the handler
  made,      \* session -> userCreated and homeCreated
  helper,    \* session -> the forked adduser or userdel
  userBy,    \* history: the running command that made an account
  homeBy,    \* history: the running command that made a home
  spoiled    \* history: users that met a hazard that is not provided for

groupIds == <<egid, groups>>
identity == <<login, euid, saved, groupIds, overtaken>>
locals   == <<op, name, pwd, error, made>>
history  == <<userBy, homeBy, spoiled>>
vars == <<account, home, identity, pc, locals, helper, history>>

Goto(s, l) == pc' = [pc EXCEPT ![s] = l]
Target(s) == name[s]
Spoil(n) == spoiled' = spoiled \cup {n}

\* elevateToRoot and dropFromRoot.
Elevate(s) ==
  /\ saved' = [saved EXCEPT ![s] = euid[s]]
  /\ euid'  = [euid EXCEPT ![s] = "root"]

Drop(s) == euid' = [euid EXCEPT ![s] = saved[s]]

\* The response is sent and the handler returns.
Reply(s) ==
  /\ Goto(s, "idle")
  /\ saved' = [saved EXCEPT ![s] = None]
  /\ op'    = [op EXCEPT ![s] = None]
  /\ name'  = [name EXCEPT ![s] = None]
  /\ pwd'   = [pwd EXCEPT ![s] = None]
  /\ error' = [error EXCEPT ![s] = FALSE]
  /\ made'  = [made EXCEPT ![s] = {}]
  /\ userBy' = [n \in Users |-> IF userBy[n] = s THEN None ELSE userBy[n]]
  /\ homeBy' = [n \in Users |-> IF homeBy[n] = s THEN None ELSE homeBy[n]]

Start(s, command, n) ==
  /\ pc[s] = "idle"
  /\ op'   = [op EXCEPT ![s] = command]
  /\ name' = [name EXCEPT ![s] = n]
  /\ UNCHANGED <<account, home, login, groupIds, pwd, error, made, helper,
                 userBy, homeBy>>

\* CREATE_USER and DELETE_USER of one user at the same time.
Overlaps(s, command, n) ==
  \E t \in Sessions \ {s} : name[t] = n /\ op[t] \in {"create", "delete"} \ {command}

-----------------------------------------------------------------------------
(* LOGIN.  A session that is logged in already is refused.                 *)

BeginLogin(s, n) ==
  /\ login[s] = None
  /\ Start(s, "login", n)
  /\ Elevate(s)
  /\ Goto(s, "find home")
  /\ UNCHANGED <<overtaken, spoiled>>

\* Privileges are dropped, and loginUser and becomeLoggedUser follow, the
\* latter with privileges again.
FindHome(s) ==
  /\ pc[s] = "find home"
  /\ IF home[Target(s)] = None
     THEN Drop(s) /\ Reply(s) /\ UNCHANGED login
     ELSE /\ login' = [login EXCEPT ![s] = Target(s)]
          /\ Goto(s, "find user")
          /\ UNCHANGED <<euid, saved, locals, userBy, homeBy>>
  /\ UNCHANGED <<account, home, groupIds, overtaken, helper, spoiled>>

\* Variant: a failed LOGIN forgets dropFromRoot.
RefuseAsRoot(s) ==
  /\ login' = [login EXCEPT ![s] = None]
  /\ overtaken' = overtaken \ {s}
  /\ Reply(s)
  /\ UNCHANGED euid

\* becomeLoggedUser failed: the session is rolled back, and the uid.
RefuseLogin(s) ==
  /\ Drop(s)
  /\ login' = [login EXCEPT ![s] = None]
  /\ overtaken' = overtaken \ {s}
  /\ Reply(s)

\* Variant: the result of getpwnam is not tested.
FindUserUnchecked(s) ==
  /\ pc[s] = "find user"
  /\ pwd' = [pwd EXCEPT ![s] = account[Target(s)]]
  /\ Goto(s, "become")
  /\ UNCHANGED <<identity, op, name, error, made, userBy, homeBy, account, home,
                 helper, spoiled>>

\* A userdel of n has made sure that no process is n's, but not ended yet.
Deleting(n) == \E t \in Sessions : helper[t] = "scanned" /\ name[t] = n

\* getpwnam and getgrnam.
FindUser(s) ==
  /\ pc[s] = "find user"
  /\ IF account[Target(s)] = None
     THEN RefuseLogin(s) /\ UNCHANGED groupIds
     ELSE /\ pwd' = [pwd EXCEPT ![s] = account[Target(s)]]
          /\ Goto(s, "become")
          /\ overtaken' = IF Deleting(Target(s)) THEN overtaken \cup {s} ELSE overtaken
          /\ UNCHANGED <<login, euid, saved, groupIds, op, name, error, made,
                         userBy, homeBy>>
  /\ UNCHANGED <<account, home, helper, spoiled>>

\* setegid, initgroups and seteuid(pw_uid), each of which may fail.  What the
\* first two have changed is not put back.
Become(s) ==
  /\ pc[s] = "become"
  /\ \E done \in 0..3 :
       /\ egid'   = IF done >= 1 THEN [egid EXCEPT ![s] = "csapgroup"] ELSE egid
       /\ groups' = IF done >= 2 THEN [groups EXCEPT ![s] = Target(s)] ELSE groups
       /\ IF done = 3
          THEN /\ euid' = [euid EXCEPT ![s] = pwd[s]]
               /\ Reply(s)
               /\ UNCHANGED <<login, overtaken>>
          ELSE RefuseLogin(s)
  /\ UNCHANGED <<account, home, helper, spoiled>>

-----------------------------------------------------------------------------
(* Forked processes.                                                       *)

\* What the process is: userdel, unless the handler is still creating.
Adding(s) == op[s] = "create" /\ ~error[s]

\* userdel refuses a user whose uid some process has.  A child keeps root as
\* its real and saved uid, so only the effective one counts.
Busy(n) == \E s \in Sessions : euid[s] = account[n]

Fork(s) ==
  /\ helper' = [helper EXCEPT ![s] = "running"]
  /\ Goto(s, "waitpid")

Unused == Uids \ {account[n] : n \in Users}

AdduserEnds(s) ==
  /\ helper[s] = "running" /\ Adding(s)
  /\ \/ /\ account[Target(s)] = None
        /\ \E u \in Unused : account' = [account EXCEPT ![Target(s)] = u]
        /\ userBy' = [userBy EXCEPT ![Target(s)] = s]
        /\ helper' = [helper EXCEPT ![s] = "succeeded"]
     \/ helper' = [helper EXCEPT ![s] = "failed"] /\ UNCHANGED <<account, userBy>>
  /\ UNCHANGED <<home, identity, pc, locals, homeBy, spoiled>>

\* userdel looks for processes of the user first, and removes the account
\* later: a LOGIN may have begun before, or begin in between.
UserdelScans(s) ==
  /\ helper[s] = "running" /\ ~Adding(s)
  /\ \/ /\ account[Target(s)] # None /\ ~Busy(Target(s))
        /\ helper' = [helper EXCEPT ![s] = "scanned"]
        /\ overtaken' = overtaken \cup
             {t \in Sessions : login[t] = Target(s) /\ (pc[t] = "become" \/ op[t] = "create")}
        /\ UNCHANGED spoiled
     \/ /\ helper' = [helper EXCEPT ![s] = "failed"]
        /\ Spoil(Target(s))
        /\ UNCHANGED overtaken
  /\ UNCHANGED <<account, home, login, euid, saved, groupIds, pc, locals,
                 userBy, homeBy>>

UserdelEnds(s) ==
  /\ helper[s] = "scanned"
  /\ \/ /\ account[Target(s)] # None
        /\ account' = [account EXCEPT ![Target(s)] = None]
        /\ userBy' = [userBy EXCEPT ![Target(s)] = None]
        /\ helper' = [helper EXCEPT ![s] = "succeeded"]
        /\ UNCHANGED spoiled
     \/ /\ helper' = [helper EXCEPT ![s] = "failed"]
        /\ Spoil(Target(s))
        /\ UNCHANGED <<account, userBy>>
  /\ UNCHANGED <<home, identity, pc, locals, homeBy>>

\* handleChildSignal runs after the process has ended and before the handler
\* calls waitpid.
Stolen(s) ==
  /\ SignalFirst
  /\ helper[s] \in {"succeeded", "failed"}
  /\ helper' = [helper EXCEPT ![s] = "stolen"]
  /\ IF Adding(s) THEN Spoil(Target(s)) ELSE UNCHANGED spoiled
  /\ UNCHANGED <<account, home, identity, pc, locals, userBy, homeBy>>

\* waitpid returns.  If it fails with ECHILD, status is not initialised, and
\* the handler may read anything from it.
Returns(s, success) ==
  /\ pc[s] = "waitpid"
  /\ helper[s] \in {"stolen", IF success THEN "succeeded" ELSE "failed"}
  /\ helper' = [helper EXCEPT ![s] = "none"]

-----------------------------------------------------------------------------
(* CREATE_USER.                                                            *)

Fail(s) ==
  /\ error' = [error EXCEPT ![s] = TRUE]
  /\ Goto(s, "undo home")

BeginCreate(s, n) ==
  /\ Start(s, "create", n)
  /\ Elevate(s)
  /\ Goto(s, "check user")
  /\ UNCHANGED overtaken
  /\ IF Overlaps(s, "create", n) THEN Spoil(n) ELSE UNCHANGED spoiled

CheckUser(s) ==
  /\ pc[s] = "check user"
  /\ IF account[Target(s)] = None THEN Goto(s, "check home") /\ UNCHANGED error
                                  ELSE Fail(s)
  /\ UNCHANGED <<account, home, identity, op, name, pwd, made, helper, history>>

\* The home, and then fork of adduser.
CheckHome(s) ==
  /\ pc[s] = "check home"
  /\ \/ home[Target(s)] = None /\ Fork(s) /\ UNCHANGED error
     \/ Fail(s) /\ UNCHANGED helper
  /\ UNCHANGED <<account, home, identity, op, name, pwd, made, history>>

\* Variant: the exit status of adduser is ignored.
AddedUnchecked(s) ==
  /\ op[s] = "create" /\ ~error[s]
  /\ Returns(s, TRUE) \/ Returns(s, FALSE)
  /\ made' = [made EXCEPT ![s] = {"user"}]
  /\ Goto(s, "mkdir")
  /\ UNCHANGED <<account, home, identity, op, name, pwd, error, history>>

\* Variant: while (waitpid(pid, &status, 0) < 0) {}, which never ends once the
\* signal handler has reaped the process.
AddedRetried(s) ==
  /\ Adding(s) /\ pc[s] = "waitpid"
  /\ \/ helper[s] = "stolen" /\ UNCHANGED <<pc, made, error, helper>>
     \/ /\ helper[s] = "succeeded"
        /\ made' = [made EXCEPT ![s] = {"user"}]
        /\ helper' = [helper EXCEPT ![s] = "none"]
        /\ Goto(s, "mkdir")
        /\ UNCHANGED error
     \/ /\ helper[s] = "failed"
        /\ helper' = [helper EXCEPT ![s] = "none"]
        /\ Fail(s) /\ UNCHANGED made
  /\ UNCHANGED <<account, home, identity, op, name, pwd, history>>

Added(s) ==
  /\ Adding(s)
  /\ \/ /\ Returns(s, TRUE)
        /\ made' = [made EXCEPT ![s] = {"user"}]
        /\ Goto(s, "mkdir")
        /\ UNCHANGED error
     \/ Returns(s, FALSE) /\ Fail(s) /\ UNCHANGED made
  /\ UNCHANGED <<account, home, identity, op, name, pwd, history>>

Mkdir(s) ==
  /\ pc[s] = "mkdir"
  /\ \/ /\ home[Target(s)] = None
        /\ home' = [home EXCEPT ![Target(s)] = "root"]
        /\ homeBy' = [homeBy EXCEPT ![Target(s)] = s]
        /\ made' = [made EXCEPT ![s] = @ \cup {"home"}]
        /\ Goto(s, "get ids")
        /\ UNCHANGED error
     \/ Fail(s) /\ UNCHANGED <<home, homeBy, made>>
  /\ UNCHANGED <<account, identity, op, name, pwd, helper, userBy, spoiled>>

GetIds(s) ==
  /\ pc[s] = "get ids"
  /\ IF account[Target(s)] = None
     THEN Fail(s) /\ UNCHANGED pwd
     ELSE /\ pwd' = [pwd EXCEPT ![s] = account[Target(s)]]
          /\ Goto(s, "chown")
          /\ UNCHANGED error
  /\ UNCHANGED <<account, home, identity, op, name, made, helper, history>>

\* chown and chmod, and without an error the response.
Chown(s) ==
  /\ pc[s] = "chown"
  /\ \/ /\ home[Target(s)] # None
        /\ home' = [home EXCEPT ![Target(s)] = pwd[s]]
        /\ Drop(s)
        /\ Reply(s)
     \/ Fail(s) /\ UNCHANGED <<home, euid, saved, op, name, pwd, made, userBy, homeBy>>
  /\ UNCHANGED <<account, login, groupIds, overtaken, helper, spoiled>>

\* removeRecursive, which can fail half-way and leave the directory.
RemoveHome(s) ==
  \/ /\ home' = [home EXCEPT ![Target(s)] = None]
     /\ homeBy' = [homeBy EXCEPT ![Target(s)] = None]
     /\ UNCHANGED spoiled
  \/ /\ home[Target(s)] # None
     /\ Spoil(Target(s))
     /\ UNCHANGED <<home, homeBy>>

UndoHome(s) ==
  /\ pc[s] = "undo home"
  /\ IF "home" \in made[s] THEN RemoveHome(s) ELSE UNCHANGED <<home, homeBy, spoiled>>
  /\ Goto(s, "undo user")
  /\ UNCHANGED <<account, identity, locals, helper, userBy>>

\* Variant: the account is left.
KeepUser(s) ==
  /\ pc[s] = "undo user"
  /\ Drop(s) /\ Reply(s)
  /\ UNCHANGED <<account, home, login, groupIds, overtaken, helper, spoiled>>

\* fork of userdel, if there is something to undo and fork does not fail.
UndoUser(s) ==
  /\ pc[s] = "undo user"
  /\ \/ /\ "user" \in made[s]
        /\ Fork(s)
        /\ UNCHANGED <<euid, saved, locals, history>>
     \/ /\ Drop(s) /\ Reply(s)
        /\ IF "user" \in made[s] THEN Spoil(Target(s)) ELSE UNCHANGED spoiled
        /\ UNCHANGED helper
  /\ UNCHANGED <<account, home, login, groupIds, overtaken>>

Undone(s) ==
  /\ op[s] = "create" /\ error[s]
  /\ \E success \in BOOLEAN : Returns(s, success)
  /\ Drop(s) /\ Reply(s)
  /\ UNCHANGED <<account, home, login, groupIds, overtaken, spoiled>>

-----------------------------------------------------------------------------
(* DELETE_USER, for sessions that are not logged in.                       *)

\* The user is looked up before anything else.
BeginDelete(s, n) ==
  /\ login[s] = None
  /\ account[n] # None
  /\ Start(s, "delete", n)
  /\ Elevate(s)
  /\ Goto(s, "fork")
  /\ UNCHANGED overtaken
  /\ IF Overlaps(s, "delete", n) THEN Spoil(n) ELSE UNCHANGED spoiled

\* A failed fork is an error, like a failed userdel, but does not end the
\* command.
ForkUserdel(s) ==
  /\ pc[s] = "fork"
  /\ \/ Fork(s) /\ UNCHANGED <<error, spoiled>>
     \/ /\ error' = [error EXCEPT ![s] = TRUE]
        /\ Spoil(Target(s))
        /\ Goto(s, "remove home")
        /\ UNCHANGED helper
  /\ UNCHANGED <<account, home, identity, op, name, pwd, made, userBy, homeBy>>

Deleted(s) ==
  /\ op[s] = "delete"
  /\ \E success \in BOOLEAN :
       Returns(s, success) /\ error' = [error EXCEPT ![s] = ~success]
  /\ Goto(s, "remove home")
  /\ UNCHANGED <<account, home, identity, op, name, pwd, made, history>>

\* The home goes whether or not the account went.
DeleteHome(s) ==
  /\ pc[s] = "remove home"
  /\ \E removed \in BOOLEAN :
       IF removed THEN home' = [home EXCEPT ![Target(s)] = None] /\ UNCHANGED spoiled
       ELSE home[Target(s)] # None /\ UNCHANGED home /\ Spoil(Target(s))
  /\ Drop(s) /\ Reply(s)
  /\ UNCHANGED <<account, login, groupIds, overtaken, helper>>

-----------------------------------------------------------------------------

Init ==
  /\ account = [n \in Users |-> None] /\ home = [n \in Users |-> None]
  /\ login = [s \in Sessions |-> None]
  /\ euid  = [s \in Sessions |-> "server"] /\ saved = [s \in Sessions |-> None]
  /\ egid  = euid /\ groups = euid /\ overtaken = {}
  /\ pc    = [s \in Sessions |-> "idle"]
  /\ op    = [s \in Sessions |-> None] /\ name = op /\ pwd = op
  /\ error = [s \in Sessions |-> FALSE]
  /\ made  = [s \in Sessions |-> {}]
  /\ helper = [s \in Sessions |-> "none"]
  /\ userBy = [n \in Users |-> None] /\ homeBy = userBy
  /\ spoiled = {}

Begin(s) == \E n \in Users : BeginLogin(s, n) \/ BeginCreate(s, n) \/ BeginDelete(s, n)

\* The client leaves between two commands, and another one gets a new child.
Leave(s) ==
  /\ pc[s] = "idle" /\ login[s] # None
  /\ login' = [login EXCEPT ![s] = None]
  /\ euid'  = [euid EXCEPT ![s] = "server"]
  /\ egid'  = [egid EXCEPT ![s] = "server"]
  /\ groups' = [groups EXCEPT ![s] = "server"]
  /\ overtaken' = overtaken \ {s}
  /\ UNCHANGED <<account, home, saved, pc, locals, helper, history>>

LoginStep(s)  == FindHome(s) \/ FindUser(s) \/ Become(s)
CreateStep(s) == \/ CheckUser(s) \/ CheckHome(s) \/ Added(s) \/ Mkdir(s) \/ GetIds(s)
                 \/ Chown(s) \/ UndoHome(s) \/ UndoUser(s) \/ Undone(s)
DeleteStep(s) == ForkUserdel(s) \/ Deleted(s) \/ DeleteHome(s)

Step(s) == LoginStep(s) \/ CreateStep(s) \/ DeleteStep(s)
HelperRuns(s) == AdduserEnds(s) \/ UserdelScans(s) \/ UserdelEnds(s)

Next == \E s \in Sessions : Begin(s) \/ Step(s) \/ HelperRuns(s) \/ Stolen(s) \/ Leave(s)

Spec == Init /\ [][Next]_vars

\* The kernel runs the children, and adduser and userdel come to an end.
FairSpec == Spec /\ \A s \in Sessions : WF_vars(Step(s)) /\ WF_vars(HelperRuns(s))

-----------------------------------------------------------------------------

Identities == Uids \cup {"root", "server"}

(* Every variable keeps its type; in particular no handler goes on with    *)
(* the uid of a user whom getpwnam has not found.                          *)
TypeOK ==
  /\ account \in [Users -> Uids \cup {None}]
  /\ home \in [Users -> Uids \cup {"root", None}]
  /\ login \in [Sessions -> Users \cup {None}]
  /\ euid \in [Sessions -> Identities] /\ saved \in [Sessions -> Identities \cup {None}]
  /\ egid \in [Sessions -> {"server", "csapgroup"}]
  /\ groups \in [Sessions -> Users \cup {"server"}]
  /\ overtaken \subseteq Sessions
  /\ pc \in [Sessions -> {"idle", "find home", "find user", "become",
       "check user", "check home", "mkdir", "get ids", "chown", "undo home",
       "undo user", "fork", "remove home", "waitpid"}]
  /\ op \in [Sessions -> {"login", "create", "delete", None}]
  /\ name \in [Sessions -> Users \cup {None}]
  /\ pwd \in [Sessions -> Uids \cup {None}]
  /\ error \in [Sessions -> BOOLEAN]
  /\ made \in [Sessions -> SUBSET {"user", "home"}]
  /\ helper \in [Sessions -> {"none", "running", "scanned", "succeeded", "failed",
                           "stolen"}]
  /\ userBy \in [Users -> Sessions \cup {None}]
  /\ homeBy \in [Users -> Sessions \cup {None}]
  /\ spoiled \subseteq Users

(* Between two commands a child whose client is logged in is its user: it  *)
(* has his uid, the group of the users and his supplementary groups.  One  *)
(* without a login has the uid that it started with (but not always the    *)
(* groups, which a failed LOGIN leaves changed).  So what elevateToRoot    *)
(* gave is given back on every path, whatever failed.  Only if a userdel   *)
(* looks for processes of the user while his LOGIN is under way or while   *)
(* the session runs CREATE_USER as root, or a LOGIN comes between that     *)
(* look and the removal, may the uid be one that he no longer has.         *)
Identity ==
  \A s \in Sessions : pc[s] = "idle" =>
    IF login[s] = None THEN euid[s] = "server"
    ELSE /\ s \notin overtaken => euid[s] = account[login[s]]
         /\ euid[s] # "root" /\ egid[s] = "csapgroup" /\ groups[s] = login[s]

(* Creating and deleting leave nothing half-done.  For a user that met     *)
(* none of the hazards that the code does not provide for (CREATE_USER and *)
(* DELETE_USER at the same time, a status lost to the SIGCHLD handler, a   *)
(* failed userdel, a directory that could not be removed), the account and *)
(* the home exist together and belong together when no command is at work, *)
(* whatever else failed or went on at the same time.                       *)
AccountsComplete ==
  \A n \in Users \ spoiled :
    (\A s \in Sessions : name[s] # n) => home[n] = account[n]

\* s's rollback removes the home, or the account, of n.
UndoesHome(s, n) == pc[s] = "undo home" /\ pc'[s] # pc[s] /\ home[n] # home'[n]
UndoesUser(s, n) == op[s] = "create" /\ helper'[s] # helper[s]
                    /\ account[n] # None /\ account'[n] = None

RemovesOnlyOwn(n) ==
  \A s \in Sessions : /\ UndoesHome(s, n) => homeBy[n] = s
                      /\ UndoesUser(s, n) => userBy[n] = s

(* A rollback removes what the same call has made and nothing else, as     *)
(* long as no DELETE_USER of that user overlaps and no status is lost.     *)
RollbackOwn == [][\A n \in Users \ spoiled : RemovesOnlyOwn(n)]_vars

(* The comment over the rollback of CREATE_USER, "only what was created    *)
(* here": whatever other commands do meanwhile.                            *)
RollbackOnlyOwn == [][\A n \in Users : RemovesOnlyOwn(n)]_vars

(* LOGIN, CREATE_USER and DELETE_USER come to an end: no waitpid waits for *)
(* a process that the signal handler has reaped.                           *)
HandlersFinish == \A s \in Sessions : pc[s] # "idle" ~> pc[s] = "idle"
=============================================================================

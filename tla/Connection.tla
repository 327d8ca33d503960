------------------------------ MODULE Connection -------------------------------
(***************************************************************************)
(* One connection: the client program, the child of the server that serves *)
(* it, and the bytes under way between them; and the directories that both *)
(* of them think the user is in.                                           *)
(*                                                                         *)
(* Nothing on the wire says what it is: a receiver takes the next bytes    *)
(* for whatever it waits for.  The model keeps the unit in which bytes     *)
(* were sent (a frame) and calls the connection derailed as soon as        *)
(* somebody takes a frame for something else; what happens then depends on *)
(* the contents of files and is not modelled.                              *)
(*                                                                         *)
(* Whether a file command succeeds, and how long it waits for the lock of  *)
(* its file, are left open: that is the matter of FileServer.  Errors of   *)
(* send and recv end the client.                                           *)
(***************************************************************************)
EXTENDS Integers, Sequences, SequencesExt

CONSTANTS
  Users,      \* names of users
  Root,       \* gRootDir, as a sequence of names
  Dirs,       \* the directories that exist, likewise
  Longer,     \* pairs of names, the first of which extends the second
  Args,       \* the arguments of cd
  PathSize,   \* PATH_SIZE, as a number of names
  MaxParts,   \* the array components of normalize_path (256)
  MaxFile,    \* MAX_FILE_SIZE
  None

\* The server has made its root directory, and the home of every user is in it.
\* The names of directories from "/" on are those of entries, not "." or "..".
ASSUME ConnectionConstants ==
  /\ None \notin Users /\ None \notin Dirs
  /\ Root # <<>> /\ Root \in Seq(STRING) /\ Dirs \subseteq Seq(STRING)
  /\ Root \in Dirs /\ \A u \in Users : Append(Root, u) \in Dirs
  /\ \A d \in Dirs : \A i \in 1..Len(d) : d[i] \notin {"", ".", ".."}
  /\ Args \subseteq [abs : BOOLEAN, parts : Seq(STRING)]
  /\ MaxFile \in Nat /\ MaxParts \in Nat \ {0} /\ PathSize \in Nat

VARIABLES
  at,        \* where the client is
  request,   \* the command it has sent
  user,      \* g_username
  shown,     \* g_currentPath
  awaited,   \* the announced size of what the client receives next
  toServer,  \* frames under way
  toClient,
  serving,   \* where the child is
  login,     \* session->username
  cwd,       \* session->currentDir
  expected,  \* the size of what the child receives next
  bg,        \* a background transfer
  fault,     \* history: one side gave up in the middle of an exchange
  derailed   \* history: a frame was taken for something else

clientVars == <<at, request, user, shown, awaited>>
serverVars == <<serving, login, cwd, expected>>
wires      == <<toServer, toClient>>
history    == <<fault, derailed>>
vars == <<clientVars, wires, serverVars, bg, history>>

Sizes == 0..MaxFile + 1   \* of files on the server: WRITE has no limit

-----------------------------------------------------------------------------
(* Paths.                                                                  *)

\* Variant: ".." is dropped like ".".
PushForward(parts, c) ==
  IF Len(parts) = MaxParts \/ c \in {"", ".", ".."} THEN parts ELSE Append(parts, c)

\* One round of the loop of normalize_path, which ends when the array is full.
\* strtok skips empty names.
Push(parts, c) ==
  IF Len(parts) = MaxParts THEN parts
  ELSE CASE c \in {"", "."} -> parts
         [] c = ".." -> IF parts = <<>> THEN parts ELSE Front(parts)
         [] OTHER    -> Append(parts, c)

Normalize(parts) ==
  LET done[i \in 0..Len(parts)] ==
        IF i = 0 THEN <<>> ELSE Push(done[i - 1], parts[i])
  IN  done[Len(parts)]

\* strncmp: the text of p begins with the text of dir.
Begins(p, dir) ==
  LET n == Len(dir) IN
  /\ Len(p) >= n /\ SubSeq(p, 1, n - 1) = SubSeq(dir, 1, n - 1)
  /\ p[n] = dir[n] \/ <<p[n], dir[n]>> \in Longer

\* Variant: no test of the character behind the prefix.
InsideByText(dir, p) == Begins(p, dir)

\* isInsideHome: the text that follows is empty or begins with "/".
IsInside(dir, p) == Begins(p, dir) /\ p[Len(dir)] = dir[Len(dir)]

HomeOf(u) == Append(Root, u)

\* snprintf cuts a path that is too long.  (The cut falls between two names.)
Cut(full) == IF Len(full) <= PathSize THEN full ELSE SubSeq(full, 1, PathSize)

\* resolvePath, in the session of u.  "/" is the home, but any other absolute
\* path ("//", too) starts at the root directory, and is cut if it is too
\* long, where a relative one is refused.
Resolve(u, dir, arg) ==
  LET full == CASE arg.abs /\ arg.parts = <<>> -> HomeOf(u)
                [] arg.abs /\ arg.parts # <<>> -> Cut(Root \o arg.parts)
                [] OTHER -> dir \o arg.parts
      path == Normalize(full)
  IN  IF arg.abs \/ Len(full) <= PathSize
      THEN IF Begins(path, Root) THEN path ELSE None
      ELSE None

-----------------------------------------------------------------------------
(* Frames.                                                                 *)

Message(r)      == [kind |-> "message",  size |-> 0, body |-> r]
Response(n)     == [kind |-> "response", size |-> n, body |-> None]
Number(n)       == [kind |-> "number",   size |-> n, body |-> None]
Bytes(n)        == [kind |-> "bytes",    size |-> n, body |-> None]
Path(p)         == [kind |-> "path",     size |-> 1, body |-> p]
ErrorResponse   == Response(-1)

\* n bytes, of which there are none if n = 0.
Payload(n) == IF n = 0 THEN <<>> ELSE <<Bytes(n)>>

\* sendAll.  What a closed connection is sent is lost.
SendToServer(frames) == toServer' = IF serving = "gone" THEN toServer ELSE toServer \o frames
SendToClient(frames) == toClient' = IF at = "left" THEN toClient ELSE toClient \o frames

\* One side stops in the middle of an exchange (the bound: once).
GiveUp == ~fault /\ fault' = TRUE

TakeAtServer(kind) == toServer # <<>> /\ Head(toServer).kind = kind /\ toServer' = Tail(toServer)
TakeAtClient(kind) == toClient # <<>> /\ Head(toClient).kind = kind /\ toClient' = Tail(toClient)

-----------------------------------------------------------------------------
(* The client.                                                             *)

Command(c) == [cmd |-> c, who |-> None, path |-> None, size |-> 0]
\* "simple" stands for the commands that are answered by a response alone.
Requests ==
  {Command(c) : c \in {"simple", "list", "read", "write", "download", "exit"}}
  \cup {[Command("login") EXCEPT !.who = u] : u \in Users}
  \cup {[Command("cd") EXCEPT !.path = a] : a \in Args}
  \cup {[Command("upload") EXCEPT !.size = n] : n \in 0..MaxFile}

Waiting == at \in {"answer", "payload", "result"}

Ready == at' = "prompt" /\ request' = Command("none") /\ awaited' = 0
Gone  == at' = "left"   /\ request' = Command("none") /\ awaited' = 0
On(l) == at' = l /\ UNCHANGED <<request, awaited>>

\* clientHandleInput sends the command.  Files that cannot be opened or are
\* too large are refused before that.
Send(r) ==
  /\ at = "prompt"
  /\ request' = r
  /\ at' = "answer"
  /\ SendToServer(<<Message(r)>>)
  /\ UNCHANGED <<user, shown, awaited, toClient, serverVars, bg, history>>

Failed ==
  /\ Head(toClient).size < 0
  /\ IF request.cmd = "exit" THEN Gone ELSE Ready
  /\ UNCHANGED <<user, shown, toServer, fault>>

\* Commands that end with the first response.
AnswerOnly ==
  /\ request.cmd \in {"login", "simple", "exit"}
  /\ IF request.cmd = "exit" THEN Gone ELSE Ready
  /\ IF request.cmd = "login" THEN user' = request.who /\ shown' = <<>>
                              ELSE UNCHANGED <<user, shown>>
  /\ UNCHANGED <<toServer, fault>>

\* Variant: a file of exactly the largest size is refused, too.
DownloadRefusesLimit(n) ==
  /\ request.cmd \in {"cd", "list", "read", "download"}
  /\ IF n > 0 /\ ~(request.cmd = "download" /\ n = MaxFile)
     THEN at' = "payload" /\ awaited' = n /\ UNCHANGED request
     ELSE Ready
  /\ UNCHANGED <<user, shown, toServer, fault>>

\* Commands whose response announces n bytes.  A download that is too large,
\* or for which there is no memory, is not received.
AnswerWithPayload(n) ==
  /\ request.cmd \in {"cd", "list", "read", "download"}
  /\ \/ /\ n > 0 /\ (request.cmd = "download" => n <= MaxFile)
        /\ at' = "payload" /\ awaited' = n
        /\ UNCHANGED <<request, fault>>
     \/ n = 0 /\ Ready /\ UNCHANGED fault
     \/ request.cmd = "download" /\ n > 0 /\ Ready /\ GiveUp
  /\ UNCHANGED <<user, shown, toServer>>

\* Commands that send data after the acknowledgement.  An upload for which
\* there is no memory, or that cannot read its file, sends nothing.
Acknowledged ==
  /\ \/ request.cmd = "write" /\ On("text") /\ UNCHANGED <<toServer, fault>>
     \/ /\ request.cmd = "upload" /\ On("result")
        /\ SendToServer(Payload(request.size))
        /\ UNCHANGED fault
     \/ /\ request.cmd = "upload" /\ request.size > 0
        /\ Ready /\ GiveUp
        /\ UNCHANGED toServer
  /\ UNCHANGED <<user, shown>>

TakeAnswer ==
  /\ at = "answer"
  /\ TakeAtClient("response")
  /\ LET n == Head(toClient).size IN
     \/ Failed
     \/ n >= 0 /\ (AnswerOnly \/ AnswerWithPayload(n) \/ Acknowledged)
  /\ UNCHANGED <<serverVars, bg, derailed>>

PayloadKind == IF request.cmd = "cd" THEN "path" ELSE "bytes"

\* Only the payload of cd changes the client: updateCurrentPath.
TakePayload ==
  /\ at = "payload"
  /\ TakeAtClient(PayloadKind)
  /\ Head(toClient).size = awaited
  /\ shown' = IF request.cmd = "cd" THEN Head(toClient).body ELSE shown
  /\ Ready
  /\ UNCHANGED <<user, toServer, serverVars, bg, history>>

\* WRITE: the user ends the text.
SendText ==
  /\ at = "text"
  /\ \E n \in Sizes : SendToServer(<<Number(n)>> \o Payload(n))
  /\ On("result")
  /\ UNCHANGED <<user, shown, toClient, serverVars, bg, history>>

TakeResult ==
  /\ at = "result"
  /\ TakeAtClient("response")
  /\ Ready
  /\ UNCHANGED <<user, shown, toServer, serverVars, bg, history>>

\* The client is killed, its input ends, or a send or recv finds the
\* connection closed.
Leave ==
  /\ at # "left"
  /\ Gone
  /\ toClient' = <<>>
  /\ UNCHANGED <<user, shown, toServer, serverVars, bg, history>>

\* poll, or recvAll, notices that the server is gone.
NoticeEnd ==
  /\ serving = "gone" /\ toClient = <<>> /\ (Waiting \/ at = "prompt")
  /\ Gone
  /\ UNCHANGED <<user, shown, wires, serverVars, bg, history>>

ClientReceives == TakeAnswer \/ TakePayload \/ TakeResult \/ NoticeEnd

-----------------------------------------------------------------------------
(* The child.                                                              *)

Back == serving' = "receive" /\ expected' = 0
Ends == serving' = "gone" /\ expected' = 0

\* LOGIN, and the commands that are answered by a response alone.
Login(r) ==
  /\ r.cmd = "login"
  /\ \/ /\ login = None
        /\ login' = r.who /\ cwd' = HomeOf(r.who)
        /\ SendToClient(<<Response(0)>>)
     \/ SendToClient(<<ErrorResponse>>) /\ UNCHANGED <<login, cwd>>
  /\ Back /\ UNCHANGED fault

Simple(r) ==
  /\ r.cmd \in {"simple", "exit"}
  /\ \/ SendToClient(<<Response(0)>>)
     \/ r.cmd # "exit" /\ SendToClient(<<ErrorResponse>>)
  /\ IF r.cmd = "exit" THEN Ends ELSE Back
  /\ UNCHANGED <<login, cwd, fault>>

\* Every command but LOGIN, CREATE_USER, DELETE_USER and EXIT is refused
\* before the login, and may be refused for other reasons.
Refuse(r) ==
  /\ r.cmd \in {"cd", "list", "read", "write", "upload", "download"}
  /\ r.cmd # "cd" \/ login = None
  /\ SendToClient(<<ErrorResponse>>)
  /\ Back
  /\ UNCHANGED <<login, cwd, fault>>

\* Variant: relative to the root directory.
DisplayFromRoot(u, path) == SubSeq(path, Len(Root) + 1, Len(path))

\* The path relative to the home.
Display(u, path) == SubSeq(path, Len(HomeOf(u)) + 1, Len(path))

\* Variant: currentDir is set before the directory is looked at.
CdEarly(r) ==
  /\ r.cmd = "cd" /\ login # None
  /\ LET path == Resolve(login, cwd, r.path) IN
     IF path = None \/ ~IsInside(HomeOf(login), path)
     THEN SendToClient(<<ErrorResponse>>) /\ UNCHANGED cwd
     ELSE /\ cwd' = path
          /\ SendToClient(IF path \in Dirs
                          THEN <<Response(1), Path(Display(login, path))>>
                          ELSE <<ErrorResponse>>)
  /\ Back
  /\ UNCHANGED <<login, fault>>

\* handleCd; the response announces the path to display.
Cd(r) ==
  /\ r.cmd = "cd" /\ login # None
  /\ LET path == Resolve(login, cwd, r.path) IN
     IF path # None /\ IsInside(HomeOf(login), path) /\ path \in Dirs
     THEN /\ cwd' = path
          /\ SendToClient(<<Response(1), Path(Display(login, path))>>)
     ELSE SendToClient(<<ErrorResponse>>) /\ UNCHANGED cwd
  /\ Back
  /\ UNCHANGED <<login, fault>>

\* LIST always has a text to send.
Announced(command) == IF command = "list" THEN {1} ELSE Sizes

\* READ and DOWNLOAD send the bytes only if there are any.
Provide(r) ==
  /\ r.cmd \in {"list", "read", "download"} /\ login # None
  /\ \E n \in Announced(r.cmd) :
       SendToClient(<<Response(n)>> \o Payload(n))
  /\ Back
  /\ UNCHANGED <<login, cwd, fault>>

\* The acknowledgement of WRITE.
Accept(r) ==
  /\ r.cmd = "write" /\ login # None
  /\ serving' = "number"
  /\ SendToClient(<<Response(0)>>)
  /\ UNCHANGED <<login, cwd, expected, fault>>

Results == {Response(0), ErrorResponse}

\* The acknowledgement of UPLOAD; then malloc, which may fail; an empty file
\* is not waited for.
AcceptUpload(r) ==
  /\ r.cmd = "upload" /\ login # None
  /\ \/ /\ r.size > 0
        /\ serving' = "data" /\ expected' = r.size
        /\ SendToClient(<<Response(0)>>)
        /\ UNCHANGED fault
     \/ /\ r.size > 0
        /\ SendToClient(<<Response(0), ErrorResponse>>)
        /\ Back /\ GiveUp
     \/ /\ r.size = 0
        /\ \E result \in Results : SendToClient(<<Response(0), result>>)
        /\ Back /\ UNCHANGED fault
  /\ UNCHANGED <<login, cwd>>

\* The message stays at the head of toServer until its command is answered.
Process ==
  /\ TakeAtServer("message")
  /\ LET r == Head(toServer).body IN
     \/ Login(r) \/ Simple(r) \/ Refuse(r) \/ Cd(r) \/ Provide(r) \/ Accept(r)
     \/ AcceptUpload(r)
  /\ UNCHANGED <<clientVars, bg, derailed>>

\* receiveMessage and processCommand.
Serve == serving = "receive" /\ Process

\* The commands that work on one file wait for its lock, without a limit.
Locking == {"simple", "read", "write", "upload", "download"}

WaitForLock ==
  /\ serving = "receive" /\ login # None
  /\ toServer # <<>> /\ Head(toServer).kind = "message"
  /\ Head(toServer).body.cmd \in Locking
  /\ serving' = "lock"
  /\ UNCHANGED <<clientVars, wires, login, cwd, expected, bg, history>>

\* The lock is there, or a signal interrupts fcntl: the command goes on, or
\* is refused.
LockEnds == serving = "lock" /\ Process

\* WRITE receives the size, and malloc may fail.
TakeNumber ==
  /\ serving = "number"
  /\ TakeAtServer("number")
  /\ LET n == Head(toServer).size IN
     \/ /\ n > 0 /\ serving' = "data" /\ expected' = n
        /\ UNCHANGED <<toClient, fault>>
     \/ /\ n > 0 /\ Back /\ GiveUp
        /\ SendToClient(<<ErrorResponse>>)
     \/ /\ n = 0 /\ Back /\ UNCHANGED fault
        /\ \E result \in Results : SendToClient(<<result>>)
  /\ UNCHANGED <<clientVars, login, cwd, bg, derailed>>

\* Variant: a failed write is not answered.
TakeDataSilently ==
  /\ serving = "data"
  /\ TakeAtServer("bytes") /\ Head(toServer).size = expected
  /\ Back
  /\ \E frames \in {<<>>, <<Response(0)>>} : SendToClient(frames)
  /\ UNCHANGED <<clientVars, login, cwd, bg, history>>

TakeData ==
  /\ serving = "data"
  /\ TakeAtServer("bytes") /\ Head(toServer).size = expected
  /\ Back
  /\ \E result \in Results : SendToClient(<<result>>)
  /\ UNCHANGED <<clientVars, login, cwd, bg, history>>

\* A signal of the shutdown fails recv: the loop of the child ends, but a
\* command only gives up and answers.
Interrupted ==
  /\ \/ serving = "receive" /\ Ends /\ UNCHANGED <<toClient, fault>>
     \/ /\ serving \in {"number", "data"} /\ Back
        /\ SendToClient(<<ErrorResponse>>)
        /\ GiveUp
  /\ UNCHANGED <<clientVars, toServer, login, cwd, bg, derailed>>

\* A signal fails a send, too, of which the last part is then missing.  No
\* command looks at the result of sendAll.
SendInterrupted ==
  /\ toClient # <<>>
  /\ GiveUp
  /\ LET last == Last(toClient)
         most == IF last.kind = "bytes" THEN last.size - 1 ELSE 1
     IN  \E n \in 0..most : toClient' = Front(toClient) \o Payload(n)
  /\ UNCHANGED <<clientVars, toServer, serverVars, bg, derailed>>

\* The client is gone: recv returns 0, or the answer is a SIGPIPE.  A child
\* that waits for a lock does not notice.
ClientGone ==
  /\ at = "left" /\ serving \notin {"lock", "gone"}
  /\ Ends
  /\ toServer' = <<>>
  /\ UNCHANGED <<clientVars, toClient, login, cwd, bg, history>>

ServerSteps == Serve \/ TakeNumber \/ TakeData \/ ClientGone

-----------------------------------------------------------------------------
(* The wrong frame: bytes that are not what the receiver takes them for.   *)

ClientWants ==
  CASE at \in {"answer", "result"} -> [kind |-> "response", size |-> 0]
    [] at = "payload" -> [kind |-> PayloadKind, size |-> awaited]
    [] OTHER -> [kind |-> None, size |-> 0]

ServerWants ==
  CASE serving = "receive" -> [kind |-> "message", size |-> 0]
    [] serving = "number"  -> [kind |-> "number", size |-> 0]
    [] serving = "data"    -> [kind |-> "bytes", size |-> expected]
    [] OTHER -> [kind |-> None, size |-> 0]

Mistaken(frame, wanted) ==
  \/ frame.kind # wanted.kind
  \/ wanted.kind \in {"bytes", "path"} /\ frame.size # wanted.size

Derail ==
  /\ \/ toClient # <<>> /\ ClientWants.kind # None /\ Mistaken(Head(toClient), ClientWants)
     \/ toServer # <<>> /\ ServerWants.kind # None /\ Mistaken(Head(toServer), ServerWants)
  /\ derailed' = TRUE
  /\ UNCHANGED <<clientVars, wires, serverVars, bg, fault>>

-----------------------------------------------------------------------------
(* A background transfer: a process with a connection and a session of its *)
(* own, which logs in as the user of the moment and starts in his home.    *)

Background(a) ==
  /\ at = "prompt" /\ bg = None /\ user # None /\ ~fault
  /\ LET home == HomeOf(user)
         path == Resolve(user, home, a)
     IN  /\ path # None /\ IsInside(home, path)
         /\ bg' = [owner |-> user, target |-> path,
                     meant |-> Resolve(user, home \o shown, a)]
  /\ UNCHANGED <<clientVars, wires, serverVars, history>>

BackgroundEnds ==
  /\ bg # None
  /\ bg' = None
  /\ UNCHANGED <<clientVars, wires, serverVars, history>>

-----------------------------------------------------------------------------

Init ==
  /\ at = "prompt" /\ request = Command("none") /\ awaited = 0
  /\ user = None /\ shown = <<>>
  /\ toServer = <<>> /\ toClient = <<>>
  /\ serving = "receive" /\ login = None /\ cwd = <<>> /\ expected = 0
  /\ bg = None
  /\ fault = FALSE /\ derailed = FALSE

Next ==
  /\ ~derailed
  /\ \/ \E r \in Requests : Send(r)
     \/ SendText \/ Leave \/ ClientReceives
     \/ ServerSteps \/ WaitForLock \/ LockEnds \/ Interrupted \/ SendInterrupted
     \/ Derail \/ BackgroundEnds \/ \E a \in Args : Background(a)

Spec == Init /\ [][Next]_vars

\* The kernel runs both processes and delivers what was sent.  Nothing is
\* assumed of the user, nor of those who hold the locks.
FairSpec == Spec /\ WF_vars(~derailed /\ ClientReceives) /\ WF_vars(~derailed /\ ServerSteps)

-----------------------------------------------------------------------------

Frames == [kind : {"message", "response", "number", "bytes", "path"}, size : Int,
           body : Requests \cup {None} \cup Seq(STRING)]

(* Every variable keeps its type; in particular, the session is always in  *)
(* a directory that exists, or not logged in.                              *)
TypeOK ==
  /\ at \in {"prompt", "answer", "payload", "text", "result", "left"}
  /\ request \in Requests \cup {Command("none")}
  /\ user \in Users \cup {None} /\ login \in Users \cup {None}
  /\ shown \in Seq(STRING)
  /\ awaited \in Nat /\ expected \in Nat
  /\ toServer \in Seq(Frames) /\ toClient \in Seq(Frames)
  /\ serving \in {"receive", "lock", "number", "data", "gone"}
  /\ cwd \in Dirs \/ (login = None /\ cwd = <<>>)
  /\ fault \in BOOLEAN /\ derailed \in BOOLEAN

Settled == toServer = <<>> /\ toClient = <<>> /\ serving = "receive"

(* The two sides agree on where a message, a response or a payload begins, *)
(* and when the client is ready for a command the child is too, with       *)
(* nothing left on the wire, whatever commands have failed, unless one     *)
(* side gave up after the exchange had been agreed on.                     *)
Synchronised ==
  ~fault => ~derailed /\ (at = "prompt" /\ serving # "gone" => Settled)

(* At the prompt, the user and the directory that the client displays are  *)
(* those of the session on the server.                                     *)
ViewsAgree ==
  ~fault /\ at = "prompt" =>
    user = login /\ (login # None => cwd = HomeOf(login) \o shown)

(* The session never leaves the home of its user, also if a neighbour has  *)
(* a name that begins with the user's; nor does a background transfer.     *)
InsideHome ==
  /\ login # None => IsPrefix(HomeOf(login), cwd)
  /\ bg # None => IsPrefix(HomeOf(bg.owner), bg.target)

\* One step of a walk from directory to directory, as the kernel does it.
StepTo(d, c, e) ==
  CASE c \in {"", "."} -> e = d
    [] c = ".." -> e = IF d = <<>> THEN d ELSE Front(d)
    [] OTHER    -> e = Append(d, c)

Walks(d, parts, e) ==
  \E way \in [0..Len(parts) -> Dirs] :
    /\ way[0] = d /\ way[Len(parts)] = e
    /\ \A i \in 1..Len(parts) : StepTo(way[i - 1], parts[i], way[i])

WalkEnds ==
  [w \in Dirs \X Args |-> {e \in Dirs : Walks(w[1], w[2].parts, e)}]

(* resolvePath, which works on the text alone, arrives where the kernel    *)
(* would, for every relative path that leads from an existing directory to *)
(* another one in the root directory, as long as it fits in the arrays;    *)
(* and "/" is the home, as its comments say.  (They say the same of every  *)
(* "absolute path from client perspective", but the code lets the others   *)
(* start at the root directory.)                                           *)
ResolveIsWalk ==
  login # None => \A a \in Args :
    LET start == IF a.abs THEN HomeOf(login) ELSE cwd
    IN  /\ ~a.abs \/ a.parts = <<>>
        /\ Len(start) + Len(a.parts) <= MaxParts
        /\ Len(start) + Len(a.parts) <= PathSize
        => \A e \in WalkEnds[<<start, a>>] :
             IsPrefix(Root, e) => Resolve(login, cwd, a) = e

(* A client that waits for the server gets its answer, or the connection   *)
(* ends, unless the child comes to wait for the lock of a file, which can  *)
(* last as long as its holder likes.                                       *)
Answered == Waiting ~> ~Waiting \/ fault \/ serving = "lock"

(* README, "The -b option runs the operation in background": the file is   *)
(* the one that the same command would mean without -b.                    *)
BackgroundMeansTheSame ==
  bg # None => bg.target = bg.meant
=============================================================================

--------------------------- MODULE ConnectionProofs ---------------------------
(***************************************************************************)
(* Theorems about Connection, for any users, directories and arguments.    *)
(***************************************************************************)
EXTENDS PathProofs

-----------------------------------------------------------------------------
(* Types.  A message carries a request, the path that answers cd a path.   *)

ToServerFrames == {f \in Frames : f.kind = "message" => f.body \in Requests}
ToClientFrames == {f \in Frames : f.kind = "path" => f.body \in Seq(STRING)}

ClientTyped ==
  /\ at \in {"prompt", "answer", "payload", "text", "result", "left"}
  /\ request \in Requests \cup {Command("none")}
  /\ user \in Users \cup {None} /\ shown \in Seq(STRING) /\ awaited \in Nat

ServerTyped ==
  /\ serving \in {"receive", "lock", "number", "data", "gone"}
  /\ login \in Users \cup {None} /\ expected \in Nat
  /\ cwd \in Dirs \/ (login = None /\ cwd = <<>>)

WiresTyped == toServer \in Seq(ToServerFrames) /\ toClient \in Seq(ToClientFrames)

HistoryTyped == fault \in BOOLEAN /\ derailed \in BOOLEAN

Typed == ClientTyped /\ ServerTyped /\ WiresTyped /\ HistoryTyped

LEMMA SizesAre == MaxFile \in Nat /\ 1 \in Sizes /\ \A n \in Sizes \ {0} : n \in Nat /\ n > 0
<1>1. MaxFile \in Nat
  BY ConnectionConstants
<1> QED BY <1>1 DEF Sizes

LEMMA RequestFacts ==
  ASSUME NEW r \in Requests \cup {Command("none")}
  PROVE  /\ r.cmd = "login" => r.who \in Users
         /\ r.cmd = "cd" => r.path \in Args
         /\ r.size \in 0..MaxFile /\ r.size \in Nat
         /\ r.cmd \in {"none", "simple", "list", "read", "write", "download",
                       "exit", "login", "cd", "upload"}
<1>0. MaxFile \in Nat
  BY ConnectionConstants
<1>1. CASE \E c \in {"simple", "list", "read", "write", "download", "exit", "none"} :
             r = Command(c)
  BY <1>0, <1>1 DEF Command
<1>2. CASE \E u \in Users : r = [Command("login") EXCEPT !.who = u]
  BY <1>0, <1>2 DEF Command
<1>3. CASE \E a \in Args : r = [Command("cd") EXCEPT !.path = a]
  BY <1>0, <1>3 DEF Command
<1>4. CASE \E n \in 0..MaxFile : r = [Command("upload") EXCEPT !.size = n]
  BY <1>0, <1>4 DEF Command
<1> QED BY <1>1, <1>2, <1>3, <1>4 DEF Requests

LEMMA FramesTyped ==
  /\ \A r \in Requests : Message(r) \in ToServerFrames
  /\ \A n \in Nat : /\ Number(n) \in ToServerFrames
                    /\ Bytes(n) \in ToServerFrames /\ Bytes(n) \in ToClientFrames
  /\ \A n \in Int : Response(n) \in ToClientFrames
  /\ \A p \in Seq(STRING) : Path(p) \in ToClientFrames
BY DEF Message, Number, Bytes, Response, Path, ToServerFrames, ToClientFrames, Frames

LEMMA PayloadTyped ==
  ASSUME NEW n \in Nat
  PROVE  Payload(n) \in Seq(ToServerFrames) /\ Payload(n) \in Seq(ToClientFrames)
BY FramesTyped DEF Payload

\* What is sent and what is taken.
LEMMA SendToServerTyped ==
  ASSUME WiresTyped, NEW frames \in Seq(ToServerFrames), SendToServer(frames)
  PROVE  toServer' \in Seq(ToServerFrames)
BY ConcatProperties DEF WiresTyped, SendToServer

LEMMA SendToClientTyped ==
  ASSUME WiresTyped, NEW frames \in Seq(ToClientFrames), SendToClient(frames)
  PROVE  toClient' \in Seq(ToClientFrames)
BY ConcatProperties DEF WiresTyped, SendToClient

LEMMA TakeAtServerTyped ==
  ASSUME WiresTyped, NEW kind, TakeAtServer(kind)
  PROVE  /\ toServer' \in Seq(ToServerFrames)
         /\ Head(toServer) \in ToServerFrames /\ Head(toServer).kind = kind
BY HeadTailProperties DEF WiresTyped, TakeAtServer

LEMMA TakeAtClientTyped ==
  ASSUME WiresTyped, NEW kind, TakeAtClient(kind)
  PROVE  /\ toClient' \in Seq(ToClientFrames)
         /\ Head(toClient) \in ToClientFrames /\ Head(toClient).kind = kind
BY HeadTailProperties DEF WiresTyped, TakeAtClient

LEMMA ClientStepTyped ==
  ASSUME ClientTyped, WiresTyped, [Next]_vars
  PROVE  ClientTyped'
<1> USE DEF ClientTyped
<1>a. Ready \/ Gone \/ (\E l \in {"text", "result"} : On(l)) =>
        /\ at' \in {"prompt", "answer", "payload", "text", "result", "left"}
        /\ request' \in Requests \cup {Command("none")} /\ awaited' \in Nat
  BY DEF Ready, Gone, On
<1>1. ASSUME NEW r \in Requests, Send(r) PROVE ClientTyped'
  BY <1>1 DEF Send
<1>2. CASE TakeAnswer
  <2>1. Head(toClient).size \in Int
    BY <1>2, TakeAtClientTyped DEF TakeAnswer, ToClientFrames, Frames
  <2> DEFINE n == Head(toClient).size
  <2>2. CASE Failed
    BY <2>2, <1>a DEF Failed
  <2>3. CASE AnswerOnly
    BY <2>3, <1>a, RequestFacts, EmptySeq DEF AnswerOnly
  <2>4. CASE AnswerWithPayload(n)
    <3>1. UNCHANGED <<user, shown>>
      BY <2>4 DEF AnswerWithPayload
    <3>2. \/ Ready
          \/ at' = "payload" /\ n > 0 /\ awaited' = n /\ UNCHANGED request
      BY <2>4 DEF AnswerWithPayload
    <3>3. n > 0 => n \in Nat
      BY <2>1
    <3> HIDE DEF n
    <3> QED BY <3>1, <3>2, <3>3, <1>a
  <2>5. CASE Acknowledged
    BY <2>5, <1>a DEF Acknowledged
  <2> QED BY <1>2, <2>2, <2>3, <2>4, <2>5 DEF TakeAnswer
<1>3. CASE TakePayload
  <2>1. request.cmd = "cd" => Head(toClient).body \in Seq(STRING)
    BY <1>3, TakeAtClientTyped DEF TakePayload, PayloadKind, ToClientFrames
  <2> QED BY <1>3, <1>a, <2>1 DEF TakePayload
<1>4. CASE SendText \/ TakeResult \/ Leave \/ NoticeEnd
  BY <1>4, <1>a DEF SendText, TakeResult, Leave, NoticeEnd
<1>5. CASE UNCHANGED clientVars
  BY <1>5 DEF clientVars
<1> QED BY <1>1, <1>2, <1>3, <1>4, <1>5
        DEF Next, ClientReceives, ServerSteps, Serve, WaitForLock, LockEnds, Process,
            TakeNumber, TakeData, ClientGone, Interrupted, SendInterrupted, Derail,
            BackgroundEnds, Background, vars

LEMMA FrontTyped ==
  ASSUME NEW S, NEW s \in Seq(S), s # <<>>
  PROVE  Front(s) \in Seq(S) /\ Last(s) \in S
<1>1. Len(s) \in Nat /\ Len(s) > 0
  BY EmptySeq, LenProperties
<1>2. \A i \in 1..Len(s) : s[i] \in S
  BY ElementOfSeq
<1>3. Len(s) \in 1..Len(s) /\ \A i \in 1..Len(s) - 1 : i \in 1..Len(s)
  BY <1>1
<1>4. \A i \in 1..Len(s) - 1 : s[i] \in S
  BY <1>2, <1>3
<1>5. Len(s) - 1 \in Int
  BY <1>1
<1>6. SubSeq(s, 1, Len(s) - 1) \in Seq(S)
  BY <1>4, <1>5, SubSeqProperties
<1> QED BY <1>2, <1>3, <1>6 DEF Front, Last

\* What the child does with a message.
Handles(r) == \/ Login(r) \/ Simple(r) \/ Refuse(r) \/ Cd(r) \/ Provide(r)
              \/ Accept(r) \/ AcceptUpload(r)

LEMMA HandlesTyped ==
  ASSUME ServerTyped, WiresTyped, NEW r \in Requests, Handles(r)
  PROVE  ServerTyped' /\ toClient' \in Seq(ToClientFrames) /\ (fault' = fault \/ fault' = TRUE)
<1> USE DEF ServerTyped, Back, Ends
<1>0. /\ Response(0) \in ToClientFrames /\ Response(1) \in ToClientFrames
      /\ ErrorResponse \in ToClientFrames
      /\ \A x \in Results : x \in ToClientFrames
  BY FramesTyped DEF ErrorResponse, Results
<1>a. ASSUME NEW x \in ToClientFrames, SendToClient(<<x>>)
      PROVE  toClient' \in Seq(ToClientFrames)
  <2>1. <<x>> \in Seq(ToClientFrames)
    OBVIOUS
  <2> QED BY <1>a, <2>1, SendToClientTyped
<1>b. ASSUME NEW x \in ToClientFrames, NEW y \in ToClientFrames, SendToClient(<<x, y>>)
      PROVE  toClient' \in Seq(ToClientFrames)
  <2>1. <<x, y>> \in Seq(ToClientFrames)
    OBVIOUS
  <2> QED BY <1>b, <2>1, SendToClientTyped
<1>1. CASE Login(r)
  <2>1. r.who \in Users /\ HomeOf(r.who) \in Dirs
    BY <1>1, RequestFacts, ConnectionConstants DEF Login, HomeOf
  <2> QED BY <1>0, <1>a, <1>1, <2>1 DEF Login
<1>2. CASE Simple(r)
  BY <1>0, <1>a, <1>2 DEF Simple
<1>3. CASE Refuse(r)
  BY <1>0, <1>a, <1>3 DEF Refuse
<1>4. CASE Cd(r)
  <2>1. CASE SendToClient(<<ErrorResponse>>) /\ UNCHANGED cwd
    BY <1>0, <1>a, <1>4, <2>1 DEF Cd
  <2>2. CASE \E path \in Dirs : cwd' = path /\ IsInside(HomeOf(login), path) /\
                SendToClient(<<Response(1), Path(Display(login, path))>>)
    <3>1. PICK path \in Dirs : cwd' = path /\ IsInside(HomeOf(login), path) /\
                SendToClient(<<Response(1), Path(Display(login, path))>>)
      BY <2>2
    <3>2. path \in Seq(STRING) /\ HomeOf(login) \in Seq(STRING)
      BY <1>4, ConnectionConstants DEF Cd, HomeOf
    <3>3. Display(login, path) \in Seq(STRING)
      <4>1. Len(HomeOf(login)) \in Nat /\ Len(path) \in Nat
        BY <3>2, LenProperties
      <4>2. \A i \in Len(HomeOf(login)) + 1 .. Len(path) : path[i] \in STRING
        BY <3>2, <4>1, ElementOfSeq
      <4> QED BY <4>1, <4>2, SubSeqProperties DEF Display
    <3>4. Path(Display(login, path)) \in ToClientFrames
      BY <3>3, FramesTyped
    <3> QED BY <1>0, <1>b, <1>4, <3>1, <3>4 DEF Cd
  <2> QED BY <1>4, <2>1, <2>2 DEF Cd
<1>5. CASE Provide(r)
  <2>0. MaxFile \in Nat
    BY ConnectionConstants
  <2>1. PICK n \in Nat : SendToClient(<<Response(n)>> \o Payload(n))
    BY <1>5, <2>0 DEF Provide, Announced, Sizes
  <2>2. <<Response(n)>> \in Seq(ToClientFrames)
    BY FramesTyped
  <2>3. <<Response(n)>> \o Payload(n) \in Seq(ToClientFrames)
    BY <2>2, PayloadTyped, ConcatProperties
  <2> QED BY <1>5, <2>1, <2>3, SendToClientTyped DEF Provide
<1>6. CASE Accept(r)
  BY <1>0, <1>a, <1>6 DEF Accept
<1>7. CASE AcceptUpload(r)
  <2>1. r.size \in Nat
    BY RequestFacts
  <2>2. UNCHANGED <<login, cwd>>
    BY <1>7 DEF AcceptUpload
  <2>3. fault' = fault \/ fault' = TRUE
    BY <1>7, Zenon DEF AcceptUpload, GiveUp
  <2>4. \/ serving' = "receive" /\ expected' = 0
        \/ serving' = "data" /\ expected' = r.size
    BY <1>7, Zenon DEF AcceptUpload
  <2>5. toClient' \in Seq(ToClientFrames)
    BY <1>0, <1>a, <1>b, <1>7, Zenon DEF AcceptUpload
  <2> QED BY <2>1, <2>2, <2>3, <2>4, <2>5
<1> QED BY <1>1, <1>2, <1>3, <1>4, <1>5, <1>6, <1>7 DEF Handles

LEMMA ProcessTyped ==
  ASSUME ServerTyped, WiresTyped, HistoryTyped, Process
  PROVE  ServerTyped' /\ WiresTyped' /\ HistoryTyped'
<1> DEFINE r == Head(toServer).body
<1>1. TakeAtServer("message") /\ Handles(r) /\ derailed' = derailed
  BY DEF Process, Handles
<1>2. r \in Requests /\ toServer' \in Seq(ToServerFrames)
  BY <1>1, TakeAtServerTyped DEF ToServerFrames
<1> HIDE DEF r
<1>3. ServerTyped' /\ toClient' \in Seq(ToClientFrames) /\ (fault' = fault \/ fault' = TRUE)
  BY <1>1, <1>2, HandlesTyped
<1> QED BY <1>1, <1>2, <1>3 DEF WiresTyped, HistoryTyped

LEMMA ServerStepTyped ==
  ASSUME ServerTyped, WiresTyped, HistoryTyped,
         TakeNumber \/ TakeData \/ WaitForLock \/ Interrupted \/ SendInterrupted
           \/ ClientGone
  PROVE  ServerTyped' /\ WiresTyped' /\ HistoryTyped'
<1> USE DEF ServerTyped, HistoryTyped
<1>0. \A x \in Results : x \in ToClientFrames
  BY FramesTyped DEF ErrorResponse, Results
<1>1. ErrorResponse \in Results
  BY DEF Results
<1>2. ASSUME NEW x \in Results, SendToClient(<<x>>)
      PROVE  toClient' \in Seq(ToClientFrames)
  <2>1. <<x>> \in Seq(ToClientFrames)
    BY <1>0
  <2> QED BY <1>2, <2>1, SendToClientTyped
<1>3. UNCHANGED toClient => toClient' \in Seq(ToClientFrames)
  BY DEF WiresTyped
<1>4. CASE TakeNumber
  <2>1. toServer' \in Seq(ToServerFrames) /\ Head(toServer).size \in Int
    BY <1>4, TakeAtServerTyped DEF TakeNumber, ToServerFrames, Frames
  <2>2. toClient' \in Seq(ToClientFrames)
    BY <1>1, <1>2, <1>3, <1>4 DEF TakeNumber
  <2>3. fault' \in BOOLEAN /\ derailed' = derailed
    BY <1>4, Zenon DEF TakeNumber, GiveUp
  <2>4. /\ serving' \in {"receive", "data"} /\ UNCHANGED <<login, cwd>>
        /\ expected' = 0 \/ (Head(toServer).size > 0 /\ expected' = Head(toServer).size)
    BY <1>4 DEF TakeNumber, Back
  <2>5. expected' \in Nat
    BY <2>1, <2>4
  <2>6. ServerTyped'
    BY <2>4, <2>5
  <2> QED BY <2>1, <2>2, <2>3, <2>6 DEF WiresTyped
<1>5. CASE TakeData
  <2>1. toServer' \in Seq(ToServerFrames)
    BY <1>5, TakeAtServerTyped DEF TakeData
  <2>2. toClient' \in Seq(ToClientFrames)
    BY <1>1, <1>2, <1>5 DEF TakeData
  <2>3. ServerTyped' /\ HistoryTyped'
    BY <1>5 DEF TakeData, Back, history
  <2> QED BY <2>1, <2>2, <2>3 DEF WiresTyped
<1>6. CASE Interrupted
  <2>2. toClient' \in Seq(ToClientFrames)
    BY <1>1, <1>2, <1>3, <1>6 DEF Interrupted
  <2>3. fault' \in BOOLEAN /\ derailed' = derailed /\ toServer' = toServer
    BY <1>6, Zenon DEF Interrupted, GiveUp
  <2>4. ServerTyped'
    BY <1>6 DEF Interrupted, Back, Ends
  <2> QED BY <2>2, <2>3, <2>4 DEF WiresTyped
<1>7. CASE ClientGone
  <2>1. <<>> \in Seq(ToServerFrames)
    OBVIOUS
  <2> QED BY <1>7, <2>1 DEF ClientGone, Ends, WiresTyped, history
<1>8. CASE WaitForLock
  BY <1>8 DEF WaitForLock, WiresTyped, wires, history
<1>9. CASE SendInterrupted
  <2>1. toClient \in Seq(ToClientFrames) /\ toClient # <<>>
    BY <1>9 DEF SendInterrupted, WiresTyped
  <2>2. Front(toClient) \in Seq(ToClientFrames) /\ Last(toClient) \in ToClientFrames
    BY <2>1, FrontTyped
  <2>3. PICK n \in Nat : toClient' = Front(toClient) \o Payload(n)
    <3> DEFINE last == Last(toClient)
               most == IF last.kind = "bytes" THEN last.size - 1 ELSE 1
    <3>1. \E n \in 0..most : toClient' = Front(toClient) \o Payload(n)
      BY <1>9, Zenon DEF SendInterrupted
    <3>2. most \in Int
      BY <2>2 DEF ToClientFrames, Frames
    <3> HIDE DEF most
    <3> QED BY <3>1, <3>2
  <2>4. toClient' \in Seq(ToClientFrames)
    BY <2>2, <2>3, PayloadTyped, ConcatProperties
  <2>5. fault' = TRUE /\ UNCHANGED <<toServer, serverVars, derailed>>
    BY <1>9, Zenon DEF SendInterrupted, GiveUp
  <2> QED BY <2>4, <2>5 DEF WiresTyped, serverVars
<1> QED BY <1>4, <1>5, <1>6, <1>7, <1>8, <1>9

\* The client's side of the wires.
LEMMA ClientWiresTyped ==
  ASSUME ClientTyped, WiresTyped, HistoryTyped,
         (\E r \in Requests : Send(r)) \/ SendText \/ Leave \/ ClientReceives
  PROVE  WiresTyped' /\ HistoryTyped'
<1> USE DEF HistoryTyped
<1>1. ASSUME NEW r \in Requests, Send(r)
      PROVE  WiresTyped' /\ HistoryTyped'
  <2>1. <<Message(r)>> \in Seq(ToServerFrames)
    BY FramesTyped
  <2> QED BY <1>1, <2>1, SendToServerTyped DEF Send, WiresTyped, history
<1>2. CASE SendText
  <2>0. MaxFile \in Nat
    BY ConnectionConstants
  <2>1. PICK n \in Nat : SendToServer(<<Number(n)>> \o Payload(n))
    BY <1>2, <2>0 DEF SendText, Sizes
  <2>2. <<Number(n)>> \in Seq(ToServerFrames)
    BY FramesTyped
  <2>3. <<Number(n)>> \o Payload(n) \in Seq(ToServerFrames)
    BY <2>2, PayloadTyped, ConcatProperties
  <2> QED BY <1>2, <2>1, <2>3, SendToServerTyped DEF SendText, WiresTyped, history
<1>3. CASE Leave
  BY <1>3, EmptySeq DEF Leave, WiresTyped, history
<1>4. CASE NoticeEnd
  BY <1>4 DEF NoticeEnd, WiresTyped, history, wires
<1>5. CASE TakePayload \/ TakeResult
  BY <1>5, TakeAtClientTyped DEF TakePayload, TakeResult, WiresTyped, history
<1>6. CASE TakeAnswer
  <2>1. toClient' \in Seq(ToClientFrames) /\ derailed' = derailed
    BY <1>6, TakeAtClientTyped DEF TakeAnswer
  <2>2. \/ toServer' = toServer
        \/ SendToServer(Payload(request.size))
    BY <1>6 DEF TakeAnswer, Failed, AnswerOnly, AnswerWithPayload, Acknowledged
  <2>3. fault' = fault \/ fault' = TRUE
    BY <1>6 DEF TakeAnswer, Failed, AnswerOnly, AnswerWithPayload, Acknowledged, GiveUp
  <2>4. Payload(request.size) \in Seq(ToServerFrames)
    BY RequestFacts, PayloadTyped DEF ClientTyped
  <2> QED BY <2>1, <2>2, <2>3, <2>4, SendToServerTyped DEF WiresTyped
<1> QED BY <1>1, <1>2, <1>3, <1>4, <1>5, <1>6 DEF ClientReceives

LEMMA TypedStep == Typed /\ [Next]_vars => Typed'
<1> SUFFICES ASSUME Typed, [Next]_vars
             PROVE  Typed'
  OBVIOUS
<1> USE DEF Typed
<1>1. ClientTyped'
  BY ClientStepTyped
<1>2. CASE (\E r \in Requests : Send(r)) \/ SendText \/ Leave \/ ClientReceives
  <2>1. UNCHANGED <<serving, login, cwd, expected>>
    BY <1>2 DEF Send, SendText, Leave, ClientReceives, TakeAnswer, TakePayload,
                TakeResult, NoticeEnd, serverVars
  <2> QED BY <1>1, <1>2, <2>1, ClientWiresTyped DEF ServerTyped
<1>3. CASE ServerSteps \/ WaitForLock \/ LockEnds \/ Interrupted \/ SendInterrupted
  BY <1>1, <1>3, ProcessTyped, ServerStepTyped DEF ServerSteps, Serve, LockEnds
<1>4. CASE Derail
  BY <1>1, <1>4 DEF Derail, wires, serverVars, ServerTyped, WiresTyped, HistoryTyped
<1>5. CASE UNCHANGED <<wires, serverVars, history>>
  BY <1>1, <1>5 DEF wires, serverVars, history, ServerTyped, WiresTyped, HistoryTyped
<1> QED BY <1>2, <1>3, <1>4, <1>5 DEF Next, BackgroundEnds, Background, vars

LEMMA TypedInit == Init => Typed
<1> SUFFICES ASSUME Init PROVE Typed
  OBVIOUS
<1> USE DEF Init
<1>1. ClientTyped
  BY EmptySeq DEF ClientTyped
<1>2. ServerTyped
  BY DEF ServerTyped
<1>3. WiresTyped
  BY EmptySeq DEF WiresTyped
<1> QED BY <1>1, <1>2, <1>3 DEF Typed, HistoryTyped

LEMMA TypedInvariance == Spec => []Typed
BY TypedInit, TypedStep, PTL DEF Spec

(* Whatever the users, the directories and the sizes of files: every       *)
(* variable keeps its type, and a session that is logged in is in a        *)
(* directory that exists, because cd changes currentDir last.              *)
THEOREM TypeCorrect == Spec => []TypeOK
<1>1. Typed => TypeOK
  <2>1. ToServerFrames \subseteq Frames /\ ToClientFrames \subseteq Frames
    BY DEF ToServerFrames, ToClientFrames
  <2>2. Seq(ToServerFrames) \subseteq Seq(Frames) /\ Seq(ToClientFrames) \subseteq Seq(Frames)
    BY <2>1, SeqMonotonic
  <2> QED BY <2>2 DEF Typed, ClientTyped, ServerTyped, WiresTyped, HistoryTyped, TypeOK
<1> QED BY <1>1, TypedInvariance, PTL

-----------------------------------------------------------------------------
(* Where the session can be.                                               *)

\* The three steps that move a session or name a target.
LEMMA SessionMoves ==
  ASSUME Typed, [Next]_vars
  PROVE  \/ UNCHANGED <<login, cwd>>
         \/ \E u \in Users : login' = u /\ cwd' = HomeOf(u)
         \/ /\ login \in Users /\ login' = login /\ IsInside(HomeOf(login), cwd')
<1>1. CASE Process
  <2> DEFINE r == Head(toServer).body
  <2>1. TakeAtServer("message") /\ Handles(r)
    BY <1>1 DEF Process, Handles
  <2>2. r \in Requests
    BY <2>1, TakeAtServerTyped DEF Typed, ToServerFrames
  <2> HIDE DEF r
  <2>3. CASE Login(r)
    BY <2>2, <2>3, RequestFacts DEF Login
  <2>4. CASE Cd(r)
    BY <2>4 DEF Cd, Typed, ServerTyped
  <2>5. CASE Simple(r) \/ Refuse(r) \/ Provide(r) \/ Accept(r) \/ AcceptUpload(r)
    BY <2>5 DEF Simple, Refuse, Provide, Accept, AcceptUpload
  <2> QED BY <2>1, <2>3, <2>4, <2>5 DEF Handles
<1>2. CASE ~Process
  BY <1>2 DEF Next, vars, ServerSteps, Serve, LockEnds, WaitForLock, Send, SendText, Leave,
              ClientReceives, TakeAnswer, TakePayload, TakeResult, NoticeEnd, TakeNumber,
              TakeData, ClientGone, Interrupted, SendInterrupted, Derail, BackgroundEnds, Background, serverVars
<1> QED BY <1>1, <1>2

LEMMA InsideHomeStep == Typed /\ InsideHome /\ [Next]_vars => InsideHome'
<1> SUFFICES ASSUME Typed, InsideHome, [Next]_vars
             PROVE  InsideHome'
  OBVIOUS
<1>0. None \notin Users
  BY ConnectionConstants
<1>1. login' # None => IsPrefix(HomeOf(login'), cwd')
  <2>1. CASE UNCHANGED <<login, cwd>>
    BY <2>1 DEF InsideHome
  <2>2. CASE \E u \in Users : login' = u /\ cwd' = HomeOf(u)
    BY <2>2, HomeTyped, PrefixOfItself
  <2>3. CASE login \in Users /\ login' = login /\ IsInside(HomeOf(login), cwd')
    BY <2>3, HomeTyped, InsideIsPrefix
  <2> QED BY <2>1, <2>2, <2>3, SessionMoves
<1>2. bg' # None => IsPrefix(HomeOf(bg'.owner), bg'.target)
  <2>1. CASE \E a \in Args : Background(a)
    <3>1. PICK a \in Args : Background(a)
      BY <2>1
    <3> DEFINE path == Resolve(user, HomeOf(user), a)
    <3>2. /\ user \in Users /\ IsInside(HomeOf(user), path)
          /\ bg'.owner = user /\ bg'.target = path
      BY <3>1 DEF Background, Typed, ClientTyped
    <3> HIDE DEF path
    <3> QED BY <3>2, HomeTyped, InsideIsPrefix
  <2>2. CASE BackgroundEnds
    BY <2>2 DEF BackgroundEnds
  <2>3. CASE UNCHANGED bg
    BY <2>3 DEF InsideHome
  <2> QED BY <2>1, <2>2, <2>3
          DEF Next, vars, ServerSteps, Send, SendText, Leave, ClientReceives, TakeAnswer,
              TakePayload, TakeResult, NoticeEnd, Serve, LockEnds, WaitForLock, Process,
              TakeNumber, TakeData, ClientGone, Interrupted, SendInterrupted, Derail
<1> QED BY <1>1, <1>2 DEF InsideHome

(* No argument of cd, and no file of a background transfer, leads out of   *)
(* the home of the user, whatever directories exist and whatever names     *)
(* extend each other: handleCd sets currentDir only after isInsideHome.    *)
THEOREM InsideHomeHolds == Spec => []InsideHome
<1>1. Init => InsideHome
  BY DEF Init, InsideHome
<1> QED BY <1>1, InsideHomeStep, TypedInvariance, PTL DEF Spec

-----------------------------------------------------------------------------
(* Who may take the next frame.  Exchange says for every place of the      *)
(* client what is under way, and what the child is waiting for.            *)

\* The child alone: what it waits for, or nothing, is under way to it.
ChildServed ==
  \/ serving = "gone"
  \/ /\ serving \in {"receive", "lock"}
     /\ (serving = "receive" /\ toServer = <<>>) \/ \E r \in Requests : toServer = <<Message(r)>>
  \/ /\ serving = "number"
     /\ \/ toServer = <<>> \/ toServer = <<Number(0)>>
        \/ \E n \in Sizes \ {0} : toServer = <<Number(n), Bytes(n)>>
  \/ /\ serving = "data" /\ expected > 0
     /\ toServer = <<>> \/ toServer = <<Bytes(expected)>>

\* The child has answered all that it was sent.
ChildIdle == serving = "gone" \/ (serving = "receive" /\ toServer = <<>>)

\* A complete reply to r.
ReplyTo(r) ==
  \/ toClient = <<ErrorResponse>>
  \/ r.cmd \in {"login", "simple", "exit"} /\ toClient = <<Response(0)>>
  \/ /\ r.cmd = "cd" /\ Len(toClient) = 2
     /\ toClient = <<Response(1), Path(toClient[2].body)>>
  \/ /\ r.cmd \in {"list", "read", "download"}
     /\ \/ toClient = <<Response(0)>>
        \/ \E n \in Sizes \ {0} : toClient = <<Response(n), Bytes(n)>>
  \/ /\ r.cmd = "upload" /\ r.size = 0
     /\ \E x \in Results : toClient = <<Response(0), x>>

\* The acknowledgement of r, after which the child waits for data.
AcknowledgementOf(r) ==
  /\ toClient = <<Response(0)>> /\ toServer = <<>>
  /\ \/ r.cmd = "write" /\ serving = "number"
     \/ r.cmd = "upload" /\ serving = "data" /\ expected = r.size

PayloadReady ==
  /\ request.cmd \in {"cd", "list", "read", "download"}
  /\ Len(toClient) = 1 /\ toClient = <<toClient[1]>>
  /\ toClient[1].kind = PayloadKind /\ toClient[1].size = awaited
  /\ ChildIdle

Exchange ==
  /\ ChildServed
  /\ at = "left"   => toClient = <<>>
  /\ at = "prompt" => toClient = <<>> /\ ChildIdle
  /\ at = "answer" =>
       \/ toClient = <<>> /\ (serving # "gone" => toServer = <<Message(request)>>)
                          /\ serving \in {"receive", "lock", "gone"}
       \/ ReplyTo(request) /\ ChildIdle
       \/ AcknowledgementOf(request)
  /\ at = "payload" => PayloadReady
  /\ at = "text" =>
       request.cmd = "write" /\ toClient = <<>> /\ toServer = <<>> /\ serving = "number"
  /\ at = "result" =>
       \/ toClient = <<>> /\ toServer # <<>> /\ serving \in {"number", "data"}
       \/ ChildIdle /\ \E x \in Results : toClient = <<x>>

InStep == ~fault => ~derailed /\ Exchange

\* Sequences of one and two frames.
LEMMA Tuples ==
  ASSUME NEW a, NEW b
  PROVE  /\ <<a>> # <<>> /\ Head(<<a>>) = a /\ Tail(<<a>>) = <<>> /\ Len(<<a>>) = 1
         /\ <<a, b>> # <<>> /\ Head(<<a, b>>) = a /\ Tail(<<a, b>>) = <<b>>
         /\ Len(<<a, b>>) = 2 /\ <<a>>[1] = a /\ <<a, b>>[2] = b
         /\ <<>> \o <<a>> = <<a>> /\ <<a>> \o <<>> = <<a>>
         /\ <<>> \o <<a, b>> = <<a, b>> /\ <<a>> \o <<b>> = <<a, b>>
<1> DEFINE S == {a, b}
<1>1. <<a>> \in Seq(S) /\ <<b>> \in Seq(S) /\ <<a, b>> \in Seq(S)
  OBVIOUS
<1>2. /\ <<a>> # <<>> /\ Head(<<a>>) = a /\ Tail(<<a>>) = <<>> /\ Len(<<a>>) = 1
      /\ <<a, b>> # <<>> /\ Head(<<a, b>>) = a /\ Tail(<<a, b>>) = <<b>>
      /\ Len(<<a, b>>) = 2 /\ <<a>>[1] = a /\ <<a, b>>[2] = b
  OBVIOUS
<1>3. <<>> \o <<a>> = <<a>> /\ <<a>> \o <<>> = <<a>> /\ <<>> \o <<a, b>> = <<a, b>>
  BY <1>1, ConcatEmptySeq
<1>4. <<a>> \o <<b>> = <<a, b>>
  <2> DEFINE s == <<a>> \o <<b>>
             t == <<a, b>>
  <2>1. /\ s \in Seq(S) /\ Len(s) = Len(<<a>>) + Len(<<b>>)
        /\ \A i \in 1..Len(<<a>>) + Len(<<b>>) :
             s[i] = IF i <= Len(<<a>>) THEN <<a>>[i] ELSE <<b>>[i - Len(<<a>>)]
    BY <1>1, ConcatProperties
  <2>2. Len(<<a>>) = 1 /\ Len(<<b>>) = 1
    OBVIOUS
  <2>3. Len(s) = 2 /\ s[1] = <<a>>[1] /\ s[2] = <<b>>[1]
    <3> HIDE DEF s
    <3> QED BY <2>1, <2>2
  <2>4. s[1] = a /\ s[2] = b
    BY <2>3
  <2>5. t \in Seq(S) /\ Len(t) = 2 /\ t[1] = a /\ t[2] = b
    OBVIOUS
  <2> HIDE DEF s, t
  <2>6. \A i \in 1..Len(s) : s[i] = t[i]
    BY <2>3, <2>4, <2>5
  <2>7. s = t
    BY <2>1, <2>3, <2>5, <2>6, SeqEqual
  <2> QED BY <2>7 DEF s, t
<1> QED BY <1>2, <1>3, <1>4

\* What each frame is.
LEMMA FrameFacts ==
  /\ \A r : Message(r).kind = "message" /\ Message(r).body = r
  /\ \A n : Response(n).kind = "response" /\ Response(n).size = n
  /\ \A n : Number(n).kind = "number" /\ Number(n).size = n
  /\ \A n : Bytes(n).kind = "bytes" /\ Bytes(n).size = n
  /\ \A p : Path(p).kind = "path" /\ Path(p).size = 1 /\ Path(p).body = p
  /\ ErrorResponse.kind = "response" /\ ErrorResponse.size = -1
  /\ \A x \in Results : x.kind = "response"
BY DEF Message, Response, Number, Bytes, Path, ErrorResponse, Results

LEMMA ExchangeInit == Init => Exchange
BY DEF Init, Exchange, ChildServed, ChildIdle

\* Nobody takes a frame for something else.
LEMMA NothingMistaken ==
  ASSUME Exchange, Derail
  PROVE  FALSE
<1>1. CASE toClient # <<>> /\ ClientWants.kind # None /\ Mistaken(Head(toClient), ClientWants)
  <2>1. CASE at = "answer"
    <3>1. Head(toClient).kind = "response"
      BY <1>1, <2>1, Tuples, FrameFacts DEF Exchange, ReplyTo, AcknowledgementOf
    <3>2. ClientWants = [kind |-> "response", size |-> 0]
      BY <2>1 DEF ClientWants
    <3> QED BY <1>1, <3>1, <3>2 DEF Mistaken
  <2>2. CASE at = "result"
    <3>1. Head(toClient).kind = "response"
      BY <1>1, <2>2, Tuples, FrameFacts DEF Exchange
    <3>2. ClientWants = [kind |-> "response", size |-> 0]
      BY <2>2 DEF ClientWants
    <3> QED BY <1>1, <3>1, <3>2 DEF Mistaken
  <2>3. CASE at = "payload"
    <3>1. Head(toClient).kind = PayloadKind /\ Head(toClient).size = awaited
      BY <2>3, Tuples DEF Exchange, PayloadReady
    <3>2. ClientWants = [kind |-> PayloadKind, size |-> awaited]
      BY <2>3 DEF ClientWants
    <3> QED BY <1>1, <3>1, <3>2 DEF Mistaken
  <2>4. CASE at \notin {"answer", "result", "payload"}
    BY <1>1, <2>4 DEF ClientWants
  <2> QED BY <2>1, <2>2, <2>3, <2>4
<1>2. CASE toServer # <<>> /\ ServerWants.kind # None /\ Mistaken(Head(toServer), ServerWants)
  <2>1. CASE serving = "receive"
    <3>1. Head(toServer).kind = "message"
      BY <1>2, <2>1, Tuples, FrameFacts DEF Exchange, ChildServed
    <3>2. ServerWants = [kind |-> "message", size |-> 0]
      BY <2>1 DEF ServerWants
    <3> QED BY <1>2, <3>1, <3>2 DEF Mistaken
  <2>2. CASE serving = "number"
    <3>1. Head(toServer).kind = "number"
      BY <1>2, <2>2, Tuples, FrameFacts DEF Exchange, ChildServed
    <3>2. ServerWants = [kind |-> "number", size |-> 0]
      BY <2>2 DEF ServerWants
    <3> QED BY <1>2, <3>1, <3>2 DEF Mistaken
  <2>3. CASE serving = "data"
    <3>1. Head(toServer).kind = "bytes" /\ Head(toServer).size = expected
      BY <1>2, <2>3, Tuples, FrameFacts DEF Exchange, ChildServed
    <3>2. ServerWants = [kind |-> "bytes", size |-> expected]
      BY <2>3 DEF ServerWants
    <3> QED BY <1>2, <3>1, <3>2 DEF Mistaken
  <2>4. CASE serving \notin {"receive", "number", "data"}
    BY <1>2, <2>4 DEF ServerWants
  <2> QED BY <2>1, <2>2, <2>3, <2>4
<1> QED BY <1>1, <1>2 DEF Derail

\* The client's steps.
LEMMA SendExchange ==
  ASSUME Exchange, NEW r \in Requests, Send(r)
  PROVE  Exchange'
<1>1. /\ at = "prompt" /\ at' = "answer" /\ request' = r
      /\ toClient = <<>> /\ toClient' = <<>>
      /\ UNCHANGED <<serving, expected>> /\ ChildIdle
  BY DEF Send, Exchange, serverVars
<1>2. CASE serving = "gone"
  BY <1>1, <1>2 DEF Exchange, ChildServed
<1>3. CASE serving = "receive"
  <2>1. toServer' = <<Message(r)>>
    BY <1>1, <1>3, Tuples DEF Send, SendToServer, ChildIdle
  <2> QED BY <1>1, <1>3, <2>1 DEF Exchange, ChildServed
<1> QED BY <1>1, <1>2, <1>3 DEF ChildIdle

LEMMA ReadyExchange ==
  ASSUME ChildServed, ChildIdle, toClient' = <<>>, Ready \/ Gone,
         UNCHANGED <<toServer, serving, expected>>
  PROVE  Exchange'
<1>1. ChildServed' /\ ChildIdle'
  BY DEF ChildServed, ChildIdle
<1> QED BY <1>1 DEF Exchange, Ready, Gone

LEMMA TakeAnswerExchange ==
  ASSUME Exchange, TakeAnswer, ~fault'
  PROVE  Exchange'
<1> DEFINE n == Head(toClient).size
<1>0. /\ at = "answer" /\ toClient # <<>> /\ toClient' = Tail(toClient)
      /\ UNCHANGED <<serving, expected>> /\ ChildServed
  BY DEF TakeAnswer, TakeAtClient, Exchange, serverVars
<1>1. CASE ReplyTo(request) /\ ChildIdle
  <2>0. UNCHANGED <<toServer, serving, expected>> /\ toClient' = <<>> /\ (Ready \/ Gone)
          => Exchange'
    BY <1>0, <1>1, ReadyExchange
  <2>1. CASE toClient = <<ErrorResponse>>
    <3>1. n < 0 /\ ~(n >= 0) /\ toClient' = <<>>
      BY <1>0, <2>1, Tuples, FrameFacts
    <3>2. Failed
      BY <3>1 DEF TakeAnswer
    <3> QED BY <1>0, <2>0, <3>1, <3>2 DEF Failed
  <2>2. CASE request.cmd \in {"login", "simple", "exit"} /\ toClient = <<Response(0)>>
    <3>1. n = 0 /\ toClient' = <<>>
      BY <1>0, <2>2, Tuples, FrameFacts
    <3>2. AnswerOnly
      BY <2>2, <3>1 DEF TakeAnswer, Failed, AnswerWithPayload, Acknowledged
    <3> QED BY <1>0, <2>0, <3>1, <3>2 DEF AnswerOnly
  <2>3. CASE /\ request.cmd = "cd" /\ Len(toClient) = 2
             /\ toClient = <<Response(1), Path(toClient[2].body)>>
    <3> DEFINE p == toClient[2].body
    <3>0. toClient = <<Response(1), Path(p)>>
      BY <2>3
    <3> HIDE DEF p
    <3>1. n = 1 /\ toClient' = <<Path(p)>>
      BY <1>0, <3>0, Tuples, FrameFacts
    <3>2. AnswerWithPayload(1) /\ request.cmd = "cd"
      BY <2>3, <3>1 DEF TakeAnswer, Failed, AnswerOnly, Acknowledged
    <3>3. /\ at' = "payload" /\ awaited' = 1 /\ request' = request /\ toServer' = toServer
      BY <3>2 DEF AnswerWithPayload
    <3>4. Len(toClient') = 1 /\ toClient' = <<toClient'[1]>>
          /\ toClient'[1].kind = "path" /\ toClient'[1].size = 1
      BY <3>1, Tuples, FrameFacts
    <3>5. PayloadReady' /\ ChildServed'
      BY <1>0, <1>1, <3>2, <3>3, <3>4 DEF PayloadReady, PayloadKind, ChildServed, ChildIdle
    <3> QED BY <3>3, <3>5 DEF Exchange
  <2>4. CASE request.cmd \in {"list", "read", "download"} /\ toClient = <<Response(0)>>
    <3>1. n = 0 /\ toClient' = <<>>
      BY <1>0, <2>4, Tuples, FrameFacts
    <3>2. AnswerWithPayload(0)
      BY <2>4, <3>1 DEF TakeAnswer, Failed, AnswerOnly, Acknowledged
    <3> QED BY <1>0, <2>0, <3>1, <3>2 DEF AnswerWithPayload
  <2>5. CASE /\ request.cmd \in {"list", "read", "download"}
             /\ \E m \in Sizes \ {0} : toClient = <<Response(m), Bytes(m)>>
    <3>1. PICK m \in Sizes \ {0} : toClient = <<Response(m), Bytes(m)>>
      BY <2>5
    <3>2. n = m /\ toClient' = <<Bytes(m)>> /\ ~(n < 0)
      <4>1. n = m /\ toClient' = <<Bytes(m)>>
        BY <1>0, <3>1, Tuples, FrameFacts
      <4> HIDE DEF n
      <4> QED BY <3>1, <4>1, SizesAre
    <3>3. AnswerWithPayload(m) /\ ~(m = 0)
      BY <2>5, <3>1, <3>2 DEF TakeAnswer, Failed, AnswerOnly, Acknowledged
    <3>4. at' = "payload" /\ awaited' = m /\ request' = request /\ toServer' = toServer
      BY <3>3, Zenon DEF AnswerWithPayload, GiveUp
    <3>5. Len(toClient') = 1 /\ toClient' = <<toClient'[1]>>
          /\ toClient'[1].kind = "bytes" /\ toClient'[1].size = m
      BY <3>2, Tuples, FrameFacts
    <3>6. PayloadReady' /\ ChildServed'
      BY <1>0, <1>1, <2>5, <3>4, <3>5 DEF PayloadReady, PayloadKind, ChildServed, ChildIdle
    <3> QED BY <3>4, <3>6 DEF Exchange
  <2>6. CASE /\ request.cmd = "upload" /\ request.size = 0
             /\ \E x \in Results : toClient = <<Response(0), x>>
    <3>1. PICK x \in Results : toClient = <<Response(0), x>>
      BY <2>6
    <3>2. n = 0 /\ toClient' = <<x>>
      BY <1>0, <3>1, Tuples, FrameFacts
    <3>3. Acknowledged
      BY <2>6, <3>2 DEF TakeAnswer, Failed, AnswerOnly, AnswerWithPayload
    <3>4. On("result") /\ SendToServer(<<>>)
      BY <2>6, <3>3 DEF Acknowledged, Payload
    <3>5. toServer' = toServer
      BY <1>1, <3>4 DEF SendToServer, ChildIdle
    <3> QED BY <1>0, <1>1, <3>2, <3>4, <3>5 DEF On, Exchange, ChildServed, ChildIdle
  <2> QED BY <1>1, <2>1, <2>2, <2>3, <2>4, <2>5, <2>6 DEF ReplyTo
<1>2. CASE AcknowledgementOf(request)
  <2>1. n = 0 /\ toClient' = <<>> /\ toServer = <<>>
    BY <1>0, <1>2, Tuples, FrameFacts DEF AcknowledgementOf
  <2>2. Acknowledged
    BY <1>2, <2>1 DEF AcknowledgementOf, TakeAnswer, Failed, AnswerOnly, AnswerWithPayload
  <2>3. CASE request.cmd = "write" /\ serving = "number"
    <3>1. On("text") /\ toServer' = toServer
      BY <2>2, <2>3 DEF Acknowledged
    <3> QED BY <1>0, <2>1, <2>3, <3>1 DEF On, Exchange, ChildServed
  <2>4. CASE request.cmd = "upload" /\ serving = "data" /\ expected = request.size
    <3>1. expected > 0
      BY <1>0, <2>4 DEF ChildServed
    <3>2. On("result") /\ SendToServer(Payload(request.size))
      BY <2>2, <2>4, Zenon DEF Acknowledged, GiveUp
    <3>3. Payload(request.size) = <<Bytes(expected)>>
      BY <2>4, <3>1 DEF Payload
    <3>4. toServer' = <<Bytes(expected)>>
      BY <2>1, <2>4, <3>2, <3>3, Tuples DEF SendToServer
    <3> QED BY <1>0, <2>1, <2>4, <3>1, <3>2, <3>4, Tuples DEF On, Exchange, ChildServed
  <2> QED BY <1>2, <2>3, <2>4 DEF AcknowledgementOf
<1> QED BY <1>0, <1>1, <1>2 DEF Exchange

LEMMA TakePayloadExchange ==
  ASSUME Exchange, TakePayload
  PROVE  Exchange'
<1>1. toClient = <<toClient[1]>> /\ ChildIdle /\ ChildServed
  BY DEF TakePayload, Exchange, PayloadReady
<1>2. toClient' = <<>>
  BY <1>1, Tuples DEF TakePayload, TakeAtClient
<1> QED BY <1>1, <1>2, ReadyExchange DEF TakePayload, serverVars

LEMMA SendTextExchange ==
  ASSUME Exchange, SendText
  PROVE  Exchange'
<1>1. PICK n \in Sizes : SendToServer(<<Number(n)>> \o Payload(n))
  BY DEF SendText
<1>2. /\ toServer = <<>> /\ toClient = <<>> /\ toClient' = <<>> /\ serving = "number"
      /\ UNCHANGED <<serving, expected>> /\ at' = "result"
  BY DEF SendText, Exchange, On, serverVars
<1>3. CASE n = 0
  <2>1. toServer' = <<Number(0)>>
    BY <1>1, <1>2, <1>3, Tuples DEF SendToServer, Payload
  <2> QED BY <1>2, <2>1, Tuples DEF Exchange, ChildServed
<1>4. CASE n # 0
  <2>1. toServer' = <<Number(n), Bytes(n)>>
    BY <1>1, <1>2, <1>4, Tuples DEF SendToServer, Payload
  <2> QED BY <1>2, <1>4, <2>1, Tuples DEF Exchange, ChildServed
<1> QED BY <1>3, <1>4

LEMMA TakeResultExchange ==
  ASSUME Exchange, TakeResult
  PROVE  Exchange'
<1>1. ChildServed /\ ChildIdle /\ \E x \in Results : toClient = <<x>>
  BY DEF TakeResult, TakeAtClient, Exchange
<1>2. toClient' = <<>>
  BY <1>1, Tuples DEF TakeResult, TakeAtClient
<1> QED BY <1>1, <1>2, ReadyExchange DEF TakeResult, serverVars

LEMMA LeaveExchange ==
  ASSUME Exchange, Leave \/ NoticeEnd
  PROVE  Exchange'
<1>1. toClient' = <<>> /\ at' = "left" /\ UNCHANGED <<toServer, serving, expected>>
  BY DEF Leave, NoticeEnd, Gone, serverVars, wires
<1> QED BY <1>1 DEF Exchange, ChildServed

\* The steps of the child.
LEMMA MessageExpected ==
  ASSUME ClientTyped, Exchange, serving \in {"receive", "lock"}, toServer # <<>>
  PROVE  /\ toClient = <<>>
         /\ \E r \in Requests : /\ toServer = <<Message(r)>>
                                /\ at = "left" \/ (at = "answer" /\ request = r)
<1>1. PICK r \in Requests : toServer = <<Message(r)>>
  BY DEF Exchange, ChildServed
<1>2. CASE at = "answer"
  <2>1. toClient = <<>> /\ toServer = <<Message(request)>>
    BY <1>2 DEF Exchange, ChildIdle, AcknowledgementOf
  <2>2. Message(request) = Message(r)
    BY <1>1, <2>1, Tuples
  <2>3. request = r
    BY <2>2, FrameFacts
  <2> QED BY <1>1, <1>2, <2>1, <2>3
<1>3. CASE at = "left"
  BY <1>1, <1>3 DEF Exchange
<1>4. CASE at \notin {"left", "answer"}
  <2>1. at \notin {"prompt", "payload", "text", "result"}
    BY DEF Exchange, ChildIdle, PayloadReady
  <2> QED BY <1>4, <2>1 DEF ClientTyped
<1> QED BY <1>2, <1>3, <1>4

LEMMA DataExpected ==
  ASSUME ClientTyped, Exchange, serving \in {"number", "data"}, toServer # <<>>
  PROVE  toClient = <<>> /\ at \in {"left", "result"}
<1>1. at \notin {"prompt", "payload", "text"}
  BY DEF Exchange, ChildIdle, PayloadReady
<1>2. at # "answer"
  BY DEF Exchange, ChildIdle, AcknowledgementOf
<1>3. at \in {"left", "result"}
  BY <1>1, <1>2 DEF ClientTyped
<1> QED BY <1>3 DEF Exchange, ChildIdle

\* The answer to a message, which the client has asked for or has left.
LEMMA HandlesExchange ==
  ASSUME NEW r \in Requests, Handles(r),
         toServer' = <<>>, toClient = <<>>,
         at = "left" \/ (at = "answer" /\ request = r),
         UNCHANGED clientVars, ~fault'
  PROVE  Exchange'
<1>0. /\ at' = at /\ request' = request /\ r.size \in 0..MaxFile /\ MaxFile \in Nat
      /\ (\E n \in Sizes \ {0} : n = 1)
  <2>1. r.size \in 0..MaxFile
    BY RequestFacts
  <2> QED BY <2>1, SizesAre DEF clientVars
<1>1. ASSUME NEW x, SendToClient(<<x>>), at # "left"
      PROVE  toClient' = <<x>>
  BY <1>1, Tuples DEF SendToClient
<1>2. ASSUME NEW x, NEW y, SendToClient(<<x, y>>), at # "left"
      PROVE  toClient' = <<x, y>> /\ Len(toClient') = 2 /\ toClient'[2] = y
  BY <1>2, Tuples DEF SendToClient
<1>3. /\ serving' \in {"receive", "gone", "number"} \/ (serving' = "data" /\ expected' > 0)
      /\ at = "left" => toClient' = <<>>
  <2>1. r.size > 0 \/ r.size = 0
    BY <1>0
  <2> QED BY <2>1, Zenon DEF Handles, Login, Simple, Refuse, Cd, Provide, Accept, AcceptUpload,
                      Back, Ends, SendToClient, GiveUp
<1>4. ChildServed'
  BY <1>3 DEF ChildServed
<1>5. CASE at = "left"
  BY <1>0, <1>3, <1>4, <1>5 DEF Exchange
<1>6. CASE at = "answer" /\ request = r
  <2>a. at' = "answer" /\ request' = r /\ at # "left"
    BY <1>0, <1>6
  <2>b. ASSUME serving' \in {"receive", "gone"}, ReplyTo(request)'
        PROVE  Exchange'
    BY <1>4, <2>a, <2>b DEF Exchange, ChildIdle
  <2>c. SendToClient(<<ErrorResponse>>) => ReplyTo(request)'
    BY <1>1, <2>a DEF ReplyTo
  <2>1. CASE Login(r)
    <3>1. /\ serving' = "receive" /\ r.cmd = "login"
          /\ SendToClient(<<Response(0)>>) \/ SendToClient(<<ErrorResponse>>)
      BY <2>1 DEF Login, Back
    <3>2. SendToClient(<<Response(0)>>) => ReplyTo(request)'
      BY <1>1, <2>a, <3>1 DEF ReplyTo
    <3> QED BY <2>b, <2>c, <3>1, <3>2
  <2>2. CASE Simple(r)
    <3>1. /\ serving' \in {"receive", "gone"} /\ r.cmd \in {"simple", "exit"}
          /\ SendToClient(<<Response(0)>>) \/ SendToClient(<<ErrorResponse>>)
      BY <2>2 DEF Simple, Back, Ends
    <3>2. SendToClient(<<Response(0)>>) => ReplyTo(request)'
      BY <1>1, <2>a, <3>1 DEF ReplyTo
    <3> QED BY <2>b, <2>c, <3>1, <3>2
  <2>3. CASE Refuse(r)
    BY <2>b, <2>c, <2>3 DEF Refuse, Back
  <2>4. CASE Cd(r)
    <3>1. /\ serving' = "receive" /\ r.cmd = "cd"
          /\ \/ \E p : SendToClient(<<Response(1), Path(p)>>)
             \/ SendToClient(<<ErrorResponse>>)
      BY <2>4 DEF Cd, Back
    <3>2. ASSUME NEW p, SendToClient(<<Response(1), Path(p)>>)
          PROVE  ReplyTo(request)'
      <4>1. toClient' = <<Response(1), Path(p)>> /\ Len(toClient') = 2 /\ toClient'[2] = Path(p)
        BY <1>2, <2>a, <3>2
      <4>2. toClient'[2].body = p
        BY <4>1, FrameFacts
      <4> QED BY <2>a, <3>1, <4>1, <4>2 DEF ReplyTo
    <3> QED BY <2>b, <2>c, <3>1, <3>2
  <2>5. CASE Provide(r)
    <3>1. /\ serving' = "receive" /\ r.cmd \in {"list", "read", "download"}
          /\ \E n \in Sizes : SendToClient(<<Response(n)>> \o Payload(n))
      BY <1>0, <2>5 DEF Provide, Announced, Back
    <3>2. PICK n \in Sizes : SendToClient(<<Response(n)>> \o Payload(n))
      BY <3>1
    <3>3. CASE n = 0
      <4>1. SendToClient(<<Response(0)>>)
        BY <3>2, <3>3, Tuples DEF Payload
      <4>2. ReplyTo(request)'
        BY <1>1, <2>a, <3>1, <4>1 DEF ReplyTo
      <4> QED BY <2>b, <3>1, <4>2
    <3>4. CASE n # 0
      <4>0. Payload(n) = <<Bytes(n)>>
        BY <3>4 DEF Payload
      <4>1. <<Response(n)>> \o Payload(n) = <<Response(n), Bytes(n)>>
        BY <4>0, Tuples
      <4>3. SendToClient(<<Response(n), Bytes(n)>>)
        BY <3>2, <4>1
      <4>2. ReplyTo(request)'
        BY <1>2, <2>a, <3>1, <3>4, <4>3 DEF ReplyTo
      <4> QED BY <2>b, <3>1, <4>2
    <3> QED BY <3>3, <3>4
  <2>6. CASE Accept(r)
    <3>1. serving' = "number" /\ r.cmd = "write" /\ SendToClient(<<Response(0)>>)
      BY <2>6 DEF Accept
    <3>2. AcknowledgementOf(request)'
      BY <1>1, <2>a, <3>1 DEF AcknowledgementOf
    <3> QED BY <1>4, <2>a, <3>2 DEF Exchange
  <2>7. CASE AcceptUpload(r)
    <3>1. r.cmd = "upload" /\
          \/ serving' = "data" /\ expected' = r.size /\ SendToClient(<<Response(0)>>)
          \/ /\ r.size = 0 /\ serving' = "receive"
             /\ \E x \in Results : SendToClient(<<Response(0), x>>)
      BY <2>7, Zenon DEF AcceptUpload, Back, GiveUp
    <3>2. CASE serving' = "data" /\ expected' = r.size /\ SendToClient(<<Response(0)>>)
      <4>1. AcknowledgementOf(request)'
        BY <1>1, <2>a, <3>1, <3>2 DEF AcknowledgementOf
      <4> QED BY <1>4, <2>a, <4>1 DEF Exchange
    <3>3. CASE /\ r.size = 0 /\ serving' = "receive"
               /\ \E x \in Results : SendToClient(<<Response(0), x>>)
      <4>1. ReplyTo(request)'
        BY <1>2, <2>a, <3>1, <3>3 DEF ReplyTo
      <4> QED BY <2>b, <3>3, <4>1
    <3> QED BY <3>1, <3>2, <3>3
  <2> QED BY <2>1, <2>2, <2>3, <2>4, <2>5, <2>6, <2>7 DEF Handles
<1> QED BY <1>5, <1>6

LEMMA ProcessExchange ==
  ASSUME Typed, Exchange, Serve \/ LockEnds, ~fault'
  PROVE  Exchange'
<1>1. /\ serving \in {"receive", "lock"} /\ toServer # <<>> /\ toServer' = Tail(toServer)
      /\ Handles(Head(toServer).body) /\ UNCHANGED clientVars
  BY DEF Serve, LockEnds, Process, TakeAtServer, Handles
<1>2. toClient = <<>>
  BY <1>1, MessageExpected DEF Typed
<1>3. PICK r \in Requests : /\ toServer = <<Message(r)>>
                            /\ at = "left" \/ (at = "answer" /\ request = r)
  BY <1>1, MessageExpected DEF Typed
<1>4. Head(toServer).body = r /\ toServer' = <<>>
  BY <1>1, <1>3, Tuples, FrameFacts
<1> QED BY <1>1, <1>2, <1>3, <1>4, HandlesExchange

\* The result of a transfer, which the client waits for or has left.
LEMMA ResultExchange ==
  ASSUME NEW x \in Results, SendToClient(<<x>>), Back, toServer' = <<>>,
         toClient = <<>>, at \in {"left", "result"}, UNCHANGED clientVars
  PROVE  Exchange'
<1>1. at' = at /\ serving' = "receive"
  BY DEF clientVars, Back
<1>2. ChildServed' /\ ChildIdle'
  BY <1>1 DEF ChildServed, ChildIdle
<1>3. CASE at = "left"
  BY <1>1, <1>2, <1>3 DEF Exchange, SendToClient
<1>4. CASE at = "result"
  <2>1. toClient' = <<x>>
    BY <1>4, Tuples DEF SendToClient
  <2> QED BY <1>1, <1>2, <1>4, <2>1 DEF Exchange
<1> QED BY <1>3, <1>4

LEMMA TakeNumberExchange ==
  ASSUME Typed, Exchange, TakeNumber, ~fault'
  PROVE  Exchange'
<1>1. /\ serving = "number" /\ toServer # <<>> /\ toServer' = Tail(toServer)
      /\ UNCHANGED clientVars
  BY DEF TakeNumber, TakeAtServer
<1>2. toClient = <<>> /\ at \in {"left", "result"}
  BY <1>1, DataExpected DEF Typed
<1>3. CASE toServer = <<Number(0)>>
  <2>1. Head(toServer).size = 0 /\ toServer' = <<>>
    BY <1>1, <1>3, Tuples, FrameFacts
  <2>2. Back /\ \E x \in Results : SendToClient(<<x>>)
    BY <2>1 DEF TakeNumber
  <2> QED BY <1>1, <1>2, <2>1, <2>2, ResultExchange
<1>4. CASE \E n \in Sizes \ {0} : toServer = <<Number(n), Bytes(n)>>
  <2>1. PICK n \in Sizes \ {0} : toServer = <<Number(n), Bytes(n)>>
    BY <1>4
  <2>2. Head(toServer).size = n /\ toServer' = <<Bytes(n)>>
    BY <1>1, <2>1, Tuples, FrameFacts
  <2>3. n > 0
    BY <2>1, SizesAre
  <2>4. Head(toServer).size # 0
    BY <2>2
  <2>5. serving' = "data" /\ expected' = n /\ UNCHANGED toClient
    BY <2>2, <2>4, Zenon DEF TakeNumber, GiveUp
  <2>6. ChildServed' /\ toServer' # <<>>
    BY <2>2, <2>3, <2>5, Tuples DEF ChildServed
  <2>7. at' = at
    BY <1>1 DEF clientVars
  <2> QED BY <1>2, <2>5, <2>6, <2>7 DEF Exchange
<1> QED BY <1>1, <1>3, <1>4 DEF Exchange, ChildServed

LEMMA TakeDataExchange ==
  ASSUME Typed, Exchange, TakeData
  PROVE  Exchange'
<1>1. /\ serving = "data" /\ toServer # <<>> /\ toServer' = Tail(toServer)
      /\ UNCHANGED clientVars /\ Back /\ \E x \in Results : SendToClient(<<x>>)
  BY DEF TakeData, TakeAtServer
<1>2. toClient = <<>> /\ at \in {"left", "result"}
  BY <1>1, DataExpected DEF Typed
<1>3. toServer = <<Bytes(expected)>>
  BY <1>1 DEF Exchange, ChildServed
<1>4. toServer' = <<>>
  BY <1>1, <1>3, Tuples
<1> QED BY <1>1, <1>2, <1>4, ResultExchange

\* The client is the one that has sent the command, or it has left.
LEMMA WaitForLockExchange ==
  ASSUME Typed, Exchange, WaitForLock
  PROVE  Exchange'
<1>1. /\ serving = "receive" /\ serving' = "lock" /\ toServer # <<>>
      /\ UNCHANGED <<clientVars, wires>>
  BY DEF WaitForLock
<1>2. PICK r \in Requests : /\ toServer = <<Message(r)>>
                            /\ at = "left" \/ (at = "answer" /\ request = r)
  BY <1>1, MessageExpected DEF Typed
<1>3. toClient = <<>>
  BY <1>1, MessageExpected DEF Typed
<1>4. at' = at /\ request' = request /\ toServer' = toServer /\ toClient' = toClient
  BY <1>1 DEF clientVars, wires
<1>5. ChildServed'
  BY <1>1, <1>2, <1>4 DEF ChildServed
<1> QED BY <1>1, <1>2, <1>3, <1>4, <1>5 DEF Exchange

LEMMA EndExchange ==
  ASSUME Exchange, Interrupted \/ ClientGone, ~fault'
  PROVE  Exchange'
<1>1. CASE ClientGone
  BY <1>1 DEF ClientGone, Ends, clientVars, Exchange, ChildServed
<1>2. CASE Interrupted
  <2>1. /\ serving = "receive" /\ serving' = "gone"
        /\ UNCHANGED <<at, request, awaited, toClient, toServer>>
    BY <1>2, Zenon DEF Interrupted, Ends, GiveUp, clientVars
  <2>2. ChildServed' /\ ChildIdle'
    BY <2>1 DEF ChildServed, ChildIdle
  <2>3. at = "answer" => toClient = <<>> \/ ReplyTo(request)
    BY <2>1 DEF Exchange, AcknowledgementOf
  <2>4. ReplyTo(request) => ReplyTo(request)'
    BY <2>1 DEF ReplyTo
  <2>5. PayloadReady => PayloadReady'
    BY <2>1, <2>2 DEF PayloadReady, PayloadKind
  <2> QED BY <2>1, <2>2, <2>3, <2>4, <2>5 DEF Exchange
<1> QED BY <1>1, <1>2

LEMMA QuietExchange ==
  ASSUME Exchange, UNCHANGED <<clientVars, wires, serverVars>>
  PROVE  Exchange'
<1>1. ChildServed' /\ (ChildIdle => ChildIdle')
  BY DEF Exchange, ChildServed, ChildIdle, wires, serverVars
<1>2. ReplyTo(request) => ReplyTo(request)'
  BY DEF ReplyTo, clientVars, wires
<1>3. AcknowledgementOf(request) => AcknowledgementOf(request)'
  BY DEF AcknowledgementOf, clientVars, wires, serverVars
<1>4. PayloadReady => PayloadReady'
  BY <1>1 DEF PayloadReady, PayloadKind, clientVars, wires
<1> QED BY <1>1, <1>2, <1>3, <1>4 DEF Exchange, clientVars, wires, serverVars

LEMMA FaultStays ==
  ASSUME [Next]_vars, ~fault'
  PROVE  ~fault
<1>1. fault' = fault \/ GiveUp
  BY DEF Next, vars, history, ServerSteps, Send, SendText, Leave, ClientReceives, TakeAnswer,
         Failed, AnswerOnly, AnswerWithPayload, Acknowledged, TakePayload, TakeResult,
         NoticeEnd, Serve, LockEnds, WaitForLock, Process, Login, Simple, Refuse, Cd, Provide,
         Accept, AcceptUpload, TakeNumber, TakeData, ClientGone, Interrupted,
         SendInterrupted, Derail, BackgroundEnds, Background
<1> QED BY <1>1, Zenon DEF GiveUp

LEMMA InStepStep == Typed /\ InStep /\ [Next]_vars => InStep'
<1> SUFFICES ASSUME Typed, InStep, [Next]_vars, ~fault'
             PROVE  (~derailed /\ Exchange)'
  BY DEF InStep
<1>1. ~fault /\ ~derailed /\ Exchange
  BY FaultStays DEF InStep
<1>2. ~Derail
  BY <1>1, NothingMistaken
<1>3. derailed' = derailed
  BY <1>2 DEF Next, vars, history, ServerSteps, Send, SendText, Leave, ClientReceives,
              TakeAnswer, TakePayload, TakeResult, NoticeEnd, Serve, LockEnds, WaitForLock,
              Process, TakeNumber, TakeData, ClientGone, Interrupted, SendInterrupted,
              BackgroundEnds, Background
<1>4. Exchange'
  <2>1. CASE \E r \in Requests : Send(r)
    BY <1>1, <2>1, SendExchange
  <2>2. CASE SendText \/ Leave \/ ClientReceives
    BY <1>1, <2>2, SendTextExchange, LeaveExchange, TakeAnswerExchange, TakePayloadExchange,
       TakeResultExchange DEF ClientReceives
  <2>3. CASE ServerSteps \/ WaitForLock \/ LockEnds \/ Interrupted
    BY <1>1, <2>3, ProcessExchange, WaitForLockExchange, TakeNumberExchange,
       TakeDataExchange, EndExchange DEF ServerSteps
  <2>5. ~SendInterrupted
    BY Zenon DEF SendInterrupted, GiveUp
  <2>4. CASE UNCHANGED <<clientVars, wires, serverVars>>
    BY <1>1, <2>4, QuietExchange
  <2> QED BY <1>2, <2>1, <2>2, <2>3, <2>4, <2>5 DEF Next, BackgroundEnds, Background, vars
<1> QED BY <1>1, <1>3, <1>4

LEMMA InStepInvariance == Spec => [](Typed /\ InStep)
<1>1. Init => InStep
  BY ExchangeInit DEF Init, InStep
<1> QED BY <1>1, TypedInit, TypedStep, InStepStep, PTL DEF Spec

(* Whatever commands are sent and fail, with any users and any sizes of    *)
(* files: as long as nobody gives up in the middle of an exchange, no side *)
(* takes a frame for something else, and a client at its prompt has left   *)
(* nothing on the wires.                                                   *)
THEOREM SynchronisedHolds == Spec => []Synchronised
<1>1. InStep => Synchronised
  BY DEF InStep, Exchange, ChildIdle, Synchronised, Settled
<1> QED BY <1>1, InStepInvariance, PTL

-----------------------------------------------------------------------------
(* What the client displays and where the session is.  They differ while   *)
(* the answer to login or cd is under way: then the answer tells what the  *)
(* client is about to display.                                             *)

Displays(p) == user = login /\ (login # None => cwd = HomeOf(login) \o p)
Arrived(p)  == login # None /\ Displays(p)

AnswerAgrees ==
  CASE request.cmd = "login" /\ toClient = <<Response(0)>>
         -> login = request.who /\ cwd = HomeOf(login) \o <<>>
    [] request.cmd = "cd" /\ Len(toClient) = 2 -> Arrived(toClient[2].body)
    [] OTHER -> Displays(shown)

Agreement ==
  /\ at \in {"prompt", "text", "result"} => Displays(shown)
  /\ at = "payload" => IF request.cmd = "cd" THEN Arrived(toClient[1].body)
                                             ELSE Displays(shown)
  /\ at = "answer" => AnswerAgrees

Agreed == ~fault => Agreement

\* A side of the session that does not change.
LEMMA DisplaysKept ==
  ASSUME UNCHANGED <<user, shown, login, cwd>>, Displays(shown)
  PROVE  Displays(shown)'
BY DEF Displays

LEMMA TakeAnswerAgrees ==
  ASSUME Exchange, Agreement, TakeAnswer, ~fault'
  PROVE  Agreement'
<1> DEFINE n == Head(toClient).size
<1>0. /\ at = "answer" /\ toClient # <<>> /\ toClient' = Tail(toClient)
      /\ UNCHANGED <<login, cwd>> /\ AnswerAgrees
      /\ ReplyTo(request) \/ AcknowledgementOf(request)
  BY DEF TakeAnswer, TakeAtClient, Exchange, Agreement, serverVars
<1>1. CASE request.cmd = "login"
  <2>1. toClient = <<Response(0)>> \/ toClient = <<ErrorResponse>>
    BY <1>0, <1>1 DEF ReplyTo, AcknowledgementOf
  <2>2. CASE toClient = <<Response(0)>>
    <3>1. login = request.who /\ cwd = HomeOf(login) \o <<>>
      BY <1>0, <1>1, <2>2 DEF AnswerAgrees
    <3>2. n = 0
      BY <2>2, Tuples, FrameFacts
    <3>3. AnswerOnly
      BY <1>1, <3>2 DEF TakeAnswer, Failed, AnswerWithPayload, Acknowledged
    <3>4. at' = "prompt" /\ user' = request.who /\ shown' = <<>>
      BY <1>1, <3>3 DEF AnswerOnly, Ready
    <3> QED BY <1>0, <3>1, <3>4 DEF Agreement, Displays
  <2>3. CASE toClient = <<ErrorResponse>>
    <3>1. n < 0 /\ ~(n >= 0) /\ toClient # <<Response(0)>>
      <4>1. Head(<<Response(0)>>).size = 0 /\ Head(toClient).size = -1
        BY <2>3, Tuples, FrameFacts
      <4> QED BY <4>1
    <3>2. Failed /\ Displays(shown)
      BY <1>0, <1>1, <3>1 DEF TakeAnswer, AnswerAgrees
    <3>3. at' = "prompt" /\ UNCHANGED <<user, shown>>
      BY <1>1, <3>2 DEF Failed, Ready
    <3> QED BY <1>0, <3>2, <3>3, DisplaysKept DEF Agreement
  <2> QED BY <2>1, <2>2, <2>3
<1>2. CASE request.cmd = "cd" /\ Len(toClient) = 2
  <2> DEFINE p == toClient[2].body
  <2>1. toClient = <<Response(1), Path(p)>>
    <3>1. toClient # <<ErrorResponse>>
      BY <1>2, Tuples
    <3> QED BY <1>0, <1>2, <3>1 DEF ReplyTo, AcknowledgementOf
  <2>2. Arrived(p)
    BY <1>0, <1>2 DEF AnswerAgrees
  <2> HIDE DEF p
  <2>3. n = 1 /\ toClient' = <<Path(p)>>
    BY <1>0, <2>1, Tuples, FrameFacts
  <2>4. toClient'[1].body = p
    BY <2>3, Tuples, FrameFacts
  <2>5. AnswerWithPayload(1)
    BY <1>2, <2>3 DEF TakeAnswer, Failed, AnswerOnly, Acknowledged
  <2>6. at' = "payload" /\ UNCHANGED <<request, user, shown>>
    BY <1>2, <2>5 DEF AnswerWithPayload
  <2>7. Arrived(toClient[1].body)'
    BY <1>0, <2>2, <2>4, <2>6 DEF Arrived, Displays
  <2> QED BY <1>2, <2>6, <2>7 DEF Agreement
<1>3. CASE request.cmd # "login" /\ ~(request.cmd = "cd" /\ Len(toClient) = 2)
  <2>1. Displays(shown)
    BY <1>0, <1>3 DEF AnswerAgrees
  <2>2. UNCHANGED <<user, shown>> /\ at' \in {"prompt", "left", "payload", "text", "result"}
    BY <1>3 DEF TakeAnswer, Failed, AnswerOnly, AnswerWithPayload, Acknowledged, Ready, Gone, On
  <2>3. at' = "payload" => request'.cmd # "cd"
    <3>1. request.cmd = "cd" => at' = "prompt"
      <4>1. SUFFICES ASSUME request.cmd = "cd" PROVE at' = "prompt"
        OBVIOUS
      <4>2. toClient = <<ErrorResponse>>
        BY <1>0, <1>3, <4>1 DEF ReplyTo, AcknowledgementOf
      <4>3. ~(n >= 0)
        BY <4>2, Tuples, FrameFacts
      <4>4. Failed
        BY <4>3 DEF TakeAnswer
      <4> QED BY <4>1, <4>4 DEF Failed, Ready
    <3>2. at' = "payload" => request' = request
      BY DEF TakeAnswer, Failed, AnswerOnly, AnswerWithPayload, Acknowledged, Ready, Gone, On
    <3> QED BY <3>1, <3>2
  <2> QED BY <1>0, <2>1, <2>2, <2>3, DisplaysKept DEF Agreement
<1> QED BY <1>1, <1>2, <1>3

LEMMA ClientAgrees ==
  ASSUME Exchange, Agreement, ~fault',
         (\E r \in Requests : Send(r)) \/ SendText \/ Leave \/ ClientReceives
  PROVE  Agreement'
<1>1. ASSUME NEW r \in Requests, Send(r)
      PROVE  Agreement'
  <2>1. toClient = <<>> /\ Displays(shown)
    BY <1>1 DEF Send, Exchange, Agreement
  <2>2. at' = "answer" /\ UNCHANGED <<toClient, user, shown, login, cwd>>
    BY <1>1 DEF Send, serverVars
  <2>3. toClient' # <<Response(0)>> /\ Len(toClient') # 2
    BY <2>1, <2>2, Tuples
  <2>4. Displays(shown)'
    BY <2>1, <2>2, DisplaysKept
  <2>5. AnswerAgrees'
    BY <2>3, <2>4 DEF AnswerAgrees
  <2> QED BY <2>2, <2>5 DEF Agreement
<1>2. CASE Leave \/ NoticeEnd
  BY <1>2 DEF Leave, NoticeEnd, Gone, Agreement
<1>3. CASE SendText \/ TakeResult
  <2>1. Displays(shown) /\ UNCHANGED <<user, shown, login, cwd>> /\ at' \in {"prompt", "result"}
    BY <1>3 DEF SendText, TakeResult, On, Ready, serverVars, Agreement
  <2> QED BY <2>1, DisplaysKept DEF Agreement
<1>4. CASE TakePayload
  <2>1. /\ at = "payload" /\ at' = "prompt" /\ UNCHANGED <<user, login, cwd>>
        /\ toClient = <<toClient[1]>>
    BY <1>4 DEF TakePayload, Ready, serverVars, Exchange, PayloadReady
  <2>2. Head(toClient) = toClient[1]
    BY <2>1, Tuples
  <2>3. Displays(shown')
    BY <1>4, <2>1, <2>2 DEF TakePayload, Agreement, Arrived
  <2>4. Displays(shown)'
    BY <2>1, <2>3 DEF Displays
  <2> QED BY <2>1, <2>4 DEF Agreement
<1> QED BY <1>1, <1>2, <1>3, <1>4, TakeAnswerAgrees DEF ClientReceives

LEMMA ProcessAgrees ==
  ASSUME Typed, Exchange, Agreement, Serve \/ LockEnds
  PROVE  Agreement'
<1>1. /\ serving \in {"receive", "lock"} /\ toServer # <<>> /\ UNCHANGED <<at, request, user, shown>>
      /\ Handles(Head(toServer).body)
  BY DEF Serve, LockEnds, Process, TakeAtServer, Handles, clientVars
<1>2. toClient = <<>>
  BY <1>1, MessageExpected DEF Typed
<1>3. PICK r \in Requests : /\ toServer = <<Message(r)>>
                            /\ at = "left" \/ (at = "answer" /\ request = r)
  BY <1>1, MessageExpected DEF Typed
<1>4. Handles(r)
  BY <1>1, <1>3, Tuples, FrameFacts
<1>5. CASE at = "left"
  BY <1>1, <1>5 DEF Agreement
<1>6. CASE at = "answer" /\ request = r
  <2>0. at' = "answer" /\ request' = r
    BY <1>1, <1>6
  <2>1. Displays(shown)
    <3>1. toClient # <<Response(0)>> /\ Len(toClient) # 2
      BY <1>2, Tuples
    <3> QED BY <1>6, <3>1 DEF Agreement, AnswerAgrees
  <2>2. ASSUME NEW x, SendToClient(<<x>>)
        PROVE  toClient' = <<x>> /\ Len(toClient') = 1
    BY <1>2, <1>6, <2>2, Tuples DEF SendToClient
  <2>3. ASSUME NEW x, NEW y, SendToClient(<<x, y>>)
        PROVE  Len(toClient') = 2 /\ toClient'[2] = y
    BY <1>2, <1>6, <2>3, Tuples DEF SendToClient
  <2>4. ASSUME SendToClient(<<ErrorResponse>>), UNCHANGED <<login, cwd>>
        PROVE  AnswerAgrees'
    <3>1. toClient' # <<Response(0)>> /\ Len(toClient') # 2
      <4>1. Head(toClient').size = -1 /\ Head(<<Response(0)>>).size = 0 /\ Len(toClient') = 1
        BY <2>2, <2>4, Tuples, FrameFacts
      <4> QED BY <4>1
    <3>2. Displays(shown)'
      BY <1>1, <2>1, <2>4, DisplaysKept
    <3> QED BY <3>1, <3>2 DEF AnswerAgrees
  <2>5. CASE Login(r)
    <3>1. CASE /\ login' = r.who /\ cwd' = HomeOf(r.who) /\ r.cmd = "login"
               /\ SendToClient(<<Response(0)>>)
      <4>1. r.who \in Users
        BY <3>1, RequestFacts
      <4>2. HomeOf(r.who) \o <<>> = HomeOf(r.who)
        BY <4>1, HomeTyped, ConcatEmptySeq
      <4>3. toClient' = <<Response(0)>>
        BY <2>2, <3>1
      <4>4. AnswerAgrees'
        BY <2>0, <3>1, <4>2, <4>3 DEF AnswerAgrees
      <4> QED BY <2>0, <4>4 DEF Agreement
    <3>2. CASE SendToClient(<<ErrorResponse>>) /\ UNCHANGED <<login, cwd>>
      BY <2>0, <2>4, <3>2 DEF Agreement
    <3> QED BY <2>5, <3>1, <3>2 DEF Login
  <2>6. CASE Cd(r)
    <3>1. CASE \E p \in Dirs : /\ cwd' = p /\ IsInside(HomeOf(login), p)
                               /\ SendToClient(<<Response(1), Path(Display(login, p))>>)
      <4>1. PICK p \in Dirs : /\ cwd' = p /\ IsInside(HomeOf(login), p)
                              /\ SendToClient(<<Response(1), Path(Display(login, p))>>)
        BY <3>1
      <4>2. login \in Users /\ login # None /\ login' = login /\ r.cmd = "cd"
        BY <2>6 DEF Cd, Typed, ServerTyped
      <4>3. p = HomeOf(login) \o Display(login, p)
        BY <4>1, <4>2, InsidePath, ConnectionConstants
      <4>4. Len(toClient') = 2 /\ toClient'[2].body = Display(login, p)
        BY <2>3, <4>1, FrameFacts
      <4>5. user' = login /\ user = login
        BY <1>1, <2>1 DEF Displays
      <4>6. Arrived(toClient[2].body)'
        BY <4>1, <4>2, <4>3, <4>4, <4>5 DEF Arrived, Displays
      <4>7. AnswerAgrees'
        BY <2>0, <4>2, <4>4, <4>6 DEF AnswerAgrees
      <4> QED BY <2>0, <4>7 DEF Agreement
    <3>2. CASE SendToClient(<<ErrorResponse>>) /\ UNCHANGED <<login, cwd>>
      BY <2>0, <2>4, <3>2 DEF Agreement
    <3> QED BY <2>6, <3>1, <3>2 DEF Cd
  <2>7. CASE Refuse(r)
    BY <2>0, <2>4, <2>7 DEF Refuse, Agreement
  <2>8. CASE Simple(r) \/ Provide(r) \/ Accept(r) \/ AcceptUpload(r)
    <3>1. r.cmd \notin {"login", "cd"} /\ UNCHANGED <<login, cwd>>
      BY <2>8 DEF Simple, Provide, Accept, AcceptUpload
    <3>2. Displays(shown)'
      BY <1>1, <2>1, <3>1, DisplaysKept
    <3>3. AnswerAgrees'
      BY <2>0, <3>1, <3>2 DEF AnswerAgrees
    <3> QED BY <2>0, <3>3 DEF Agreement
  <2> QED BY <1>4, <2>5, <2>6, <2>7, <2>8 DEF Handles
<1> QED BY <1>3, <1>5, <1>6

LEMMA ServerAgrees ==
  ASSUME Typed, Exchange, Agreement, ~fault',
         TakeNumber \/ TakeData \/ WaitForLock \/ Interrupted \/ ClientGone
  PROVE  Agreement'
<1>1. UNCHANGED <<at, request, user, shown, login, cwd>>
  BY DEF TakeNumber, TakeData, WaitForLock, Interrupted, ClientGone, clientVars
<1>2. UNCHANGED toClient \/ at \in {"left", "result"}
  <2>1. CASE TakeNumber \/ TakeData
    BY <2>1, DataExpected DEF TakeNumber, TakeData, TakeAtServer, Typed
  <2>2. CASE WaitForLock \/ Interrupted \/ ClientGone
    BY <2>2, Zenon DEF WaitForLock, wires, Interrupted, ClientGone, GiveUp
  <2> QED BY <2>1, <2>2
<1>3. Displays(shown) => Displays(shown)'
  BY <1>1, DisplaysKept
<1>4. CASE at \in {"left", "result"}
  BY <1>1, <1>3, <1>4 DEF Agreement
<1>5. CASE UNCHANGED toClient
  BY <1>1, <1>5 DEF Agreement, AnswerAgrees, Arrived, Displays
<1> QED BY <1>2, <1>4, <1>5

LEMMA AgreedStep == Typed /\ InStep /\ Agreed /\ [Next]_vars => Agreed'
<1> SUFFICES ASSUME Typed, InStep, Agreed, [Next]_vars, ~fault'
             PROVE  Agreement'
  BY DEF Agreed
<1>1. Exchange /\ Agreement
  BY FaultStays DEF InStep, Agreed
<1>2. CASE (\E r \in Requests : Send(r)) \/ SendText \/ Leave \/ ClientReceives
  BY <1>1, <1>2, ClientAgrees
<1>3. CASE ServerSteps \/ WaitForLock \/ LockEnds \/ Interrupted
  BY <1>1, <1>3, ProcessAgrees, ServerAgrees DEF ServerSteps
<1>4. CASE UNCHANGED <<clientVars, wires, serverVars>>
  BY <1>1, <1>4 DEF clientVars, wires, serverVars, Agreement, AnswerAgrees, Arrived, Displays
<1>5. ~SendInterrupted
  BY Zenon DEF SendInterrupted, GiveUp
<1> QED BY <1>2, <1>3, <1>4, <1>5 DEF Next, Derail, BackgroundEnds, Background, vars

(* At the prompt the client displays the user and the directory of the     *)
(* session, whatever logins and cds have succeeded and failed: it takes    *)
(* both from the answers, and the answer to cd is the path under the home. *)
THEOREM ViewsAgreeHolds == Spec => []ViewsAgree
<1>1. Init => Agreed
  BY DEF Init, Agreed, Agreement, Displays
<1>2. Agreed => ViewsAgree
  BY DEF Agreed, Agreement, Displays, ViewsAgree
<1> QED BY <1>1, <1>2, AgreedStep, InStepInvariance, PTL DEF Spec

-----------------------------------------------------------------------------

(* Whatever the tree of directories, the arguments and the depth of the    *)
(* session: for a relative path that leads to an existing directory over   *)
(* existing ones, ".." included, resolvePath names that directory, though  *)
(* it never asks the kernel; and "/" is the home.                          *)
THEOREM ResolveIsWalkHolds == Spec => []ResolveIsWalk
<1>1. Typed => ResolveIsWalk
  <2> SUFFICES ASSUME Typed, login # None, NEW a \in Args, ~a.abs \/ a.parts = <<>>
               PROVE  LET start == IF a.abs THEN HomeOf(login) ELSE cwd
                      IN  Len(start) + Len(a.parts) <= MaxParts
                            /\ Len(start) + Len(a.parts) <= PathSize
                          => \A e \in WalkEnds[<<start, a>>] :
                               IsPrefix(Root, e) => Resolve(login, cwd, a) = e
    BY DEF ResolveIsWalk
  <2> DEFINE start == IF a.abs THEN HomeOf(login) ELSE cwd
             full == start \o a.parts
  <2>1. /\ login \in Users /\ cwd \in Dirs /\ Root \in Dirs /\ HomeOf(login) \in Dirs
        /\ a.abs \in BOOLEAN /\ a.parts \in Seq(STRING) /\ None \notin Dirs
        /\ Root \in Seq(STRING) /\ Root # <<>> /\ Dirs \subseteq Seq(STRING)
    BY HomeTyped, ConnectionConstants DEF Typed, ServerTyped
  <2>2. start \in Dirs
    BY <2>1, Zenon
  <2>3. Resolve(login, cwd, a) = IF a.abs \/ Len(full) <= PathSize
                                 THEN IF Begins(Normalize(full), Root) THEN Normalize(full)
                                      ELSE None
                                 ELSE None
    <3>1. CASE a.abs /\ a.parts = <<>>
      <4>1. full = HomeOf(login)
        BY <2>1, <3>1, ConcatEmptySeq
      <4> HIDE DEF full
      <4> QED BY <3>1, <4>1, Zenon DEF Resolve
    <3>2. CASE ~a.abs
      <4>1. full = cwd \o a.parts
        BY <3>2, Zenon
      <4> HIDE DEF full
      <4> QED BY <3>2, <4>1, Zenon DEF Resolve
    <3> QED BY <3>1, <3>2, Zenon
  <2>4. ASSUME Len(start) + Len(a.parts) <= MaxParts, Len(start) + Len(a.parts) <= PathSize,
               NEW e \in WalkEnds[<<start, a>>], IsPrefix(Root, e)
        PROVE  Resolve(login, cwd, a) = e
    <3> HIDE DEF start
    <3>1. e \in Dirs /\ Walks(start, a.parts, e)
      BY <2>2, <2>4, WalkEndsAre
    <3>2. Normalize(full) = e
      BY <2>1, <2>2, <2>4, <3>1, NormalizeWalks
    <3>3. Begins(e, Root)
      BY <2>1, <2>4, <3>1, PrefixBegins
    <3>4. Len(full) = Len(start) + Len(a.parts)
      BY <2>1, <2>2, ConcatProperties
    <3>5. Len(full) <= PathSize
      BY <2>4, <3>4
    <3> HIDE DEF full
    <3> QED BY <2>3, <3>2, <3>3, <3>5, Zenon
  <2> QED BY <2>4, Zenon
<1> QED BY <1>1, TypedInvariance, PTL
=============================================================================

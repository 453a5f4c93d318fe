------------------------------ MODULE Ipc_proofs ------------------------------
(***************************************************************************)
(* Proofs about the pipe connection, for any number of clients, instances   *)
(* and calls: type correctness, that nothing is used after it was freed     *)
(* unless one of the excuses applies, and that a connection is the Rpc the  *)
(* bridge takes it for.                                                     *)
(***************************************************************************)
EXTENDS Ipc, SequenceTheorems, TLAPS

(* Instances.  One that nobody is connected to is empty, and only the acceptor
   waits on it; one that the client has left is not read any more; one that the
   server has closed has no worker that still uses it.                      *)
Ended == {"none", "doomed", "delete", "unlock"}
Leaving == {"delete", "unlock"}
Nobody(p) == \A c \in Clients : pipe[c] # p
Instance(p) ==
  /\ end[p] \in {"none", "listen"} => toServer[p] = <<>>
  /\ end[p] \in {"none", "listen", "hung"} => toClient[p] = <<>> /\ Nobody(p)
  /\ end[p] = "cut" => toServer[p] = <<>>
  /\ end[p] = "listen" => inst = p
  /\ inst = p => end[p] \in {"listen", "open", "hung"}
  /\ wk[p] \notin Ended => end[p] \in {"open", "hung"}
  /\ wk[p] \in Leaving => end[p] \in {"none", "cut"}
Instances ==
  /\ \A p \in Pipes : Instance(p)
  /\ \A c \in Clients : pipe[c] = None <=> pc[c] \in {"new", "gone"}
  /\ acc \in {"accept", "accepted"} => inst # None
  /\ acc = "accepted" => end[inst] \in {"open", "hung"}
  /\ acc \in {"none", "over"} => inst = None

\* A client's requests are on the one instance it has connected to, and no
\* other client's are.
Handling == {"call", "check", "size", "answer", "error"}
On(c, p) == \/ pipe[c] = p
            \/ \E i \in 1..Len(toServer[p]) : toServer[p][i].by = c
            \/ wk[p] \in Handling /\ cur[p].by = c
Owned ==
  /\ \A p \in Pipes : \A i \in 1..Len(toServer[p]) : toServer[p][i].by \in Clients
  /\ \A p \in Pipes : wk[p] \in Handling => cur[p].by \in Clients
  /\ \A p \in Pipes : \A c, d \in Clients : On(c, p) /\ On(d, p) => c = d
  /\ \A c \in Clients : \A p, q \in Pipes : On(c, p) /\ On(c, q) => p = q
  /\ \A c \in Clients : pc[c] = "new" => \A p \in Pipes : ~On(c, p)

\* Has c asked for k, and not only begun to send it?
Asked(c, k) == k <= asked[c] /\ (pc[c] \in {"request", "body"} => k < asked[c])

(* Requests are handled in the order in which they were made, and what is on its
   way to a client is about requests that were handled.                     *)
Bodies(p) == {i \in 1..Len(toServer[p]) : toServer[p][i].is = "body"}
Due(m) == served[m.by] < m.of /\ Asked(m.by, m.of)
Ordered(p) ==
  /\ \A i \in Bodies(p) : Due(toServer[p][i])
  /\ \A i, j \in Bodies(p) : i < j => toServer[p][i].of < toServer[p][j].of
  /\ wk[p] = "call" => /\ Due(cur[p])
                       /\ \A i \in Bodies(p) : cur[p].of < toServer[p][i].of
  /\ wk[p] \in Handling \ {"call"} => cur[p].of <= served[cur[p].by]
Answered(c) == pipe[c] # None =>
  \A i \in 1..Len(toClient[pipe[c]]) : toClient[pipe[c]][i].of <= served[c]
InOrder == /\ \A p \in Pipes : Ordered(p)
           /\ \A c \in Clients : Asked(c, served[c])
           /\ \A c \in Clients : Answered(c)

\* What a client that has not stopped in a reply may find in the pipe.
Of(is, c) == Msg(is, c, asked[c])
Unread(c) ==
  CASE pc[c] = "version" -> {<<>>, <<Msg("version", None, 0)>>}
    [] pc[c] = "size"    -> {<<>>, <<Of("size", c)>>, <<Of("size", c), Of("answer", c)>>,
                             <<Of("zero", c), Of("error", c)>>,
                             <<Of("zero", c), Of("error with text", c), Of("text", c)>>}
    [] pc[c] = "answer"  -> {<<>>, <<Of("answer", c)>>}
    [] pc[c] = "error"   -> {<<>>, <<Of("error", c)>>,
                             <<Of("error with text", c), Of("text", c)>>}
    [] pc[c] = "text"    -> {<<>>, <<Of("text", c)>>}
    [] OTHER             -> {<<>>}

\* Where its worker is, and what the worker has still to read.
AtWork(c, p) ==
  LET s == toServer[p]
      r == toClient[p]
  IN  CASE wk[p] \in {"none", "start", "hello"} ->
             pc[c] = "version" /\ s = <<Msg("hello", c, 0)>> /\ r = <<>>
        [] wk[p] \in {"top", "request"} ->
             \/ pc[c] = "body" /\ s = <<Of("request", c)>>
             \/ pc[c] = "size" /\ s = <<Of("request", c), Of("body", c)>> /\ r = <<>>
             \/ pc[c] # "body" /\ s = <<>>
        [] wk[p] = "body" ->
             /\ r = <<>>
             /\ \/ pc[c] = "body" /\ s = <<>>
                \/ pc[c] = "size" /\ s = <<Of("body", c)>>
        [] wk[p] \in {"call", "check", "size", "error"} ->
             pc[c] = "size" /\ s = <<>> /\ r = <<>> /\ cur[p] = Of("body", c)
        [] wk[p] = "answer" ->
             /\ s = <<>> /\ cur[p] = Of("body", c)
             /\ \/ pc[c] = "size" /\ r = <<Of("size", c)>>
                \/ pc[c] = "answer" /\ r = <<>>
        [] OTHER -> TRUE

Fits(c) == ~half[c] /\ pipe[c] # None =>
  /\ pc[c] # "starved"
  /\ toClient[pipe[c]] \in Unread(c)
  /\ end[pipe[c]] = "open" => AtWork(c, pipe[c])
InStep == \A c \in Clients : Fits(c)

\* The request of a client that has left is in the pipe or with the worker only
\* when it left inside a call.
LeftBehind(p) == end[p] = "hung" =>
  /\ wk[p] \notin Handling \cup {"body"}
  /\ wk[p] \in {"none", "start", "hello", "top", "request"} =>
       \A i \in 1..Len(toServer[p]) : toServer[p][i].is = "hello"
Joining == {"scan", "cancel", "join thread", "gone"}
Excuses ==
  /\ ~excused => \A p \in Pipes : held[p] # "freed" /\ wk[p] # "doomed" /\ LeftBehind(p)
  /\ ~excused /\ serv \in Joining => \A p \in Pipes : wk[p] = "none"
  /\ serv \in {"cancel", "join thread"} => excused /\ target # None
  /\ NoFault

\* Before ipcserver_create there is no acceptor, nor after it has been joined.
NoServer == /\ serv = "none" => acc = "none"
            /\ serv \in Joining => acc = "over"

IInv == TypeOK /\ NoServer /\ Instances /\ Owned /\ InOrder /\ InStep /\ Excuses
-----------------------------------------------------------------------------
\* The types alone, by the thread that writes the variables, ...
ClientTypes ==
  /\ pc \in [Clients -> ClientPlaces] /\ pipe \in [Clients -> Pipes \cup {None}]
  /\ asked \in [Clients -> Nat] /\ \A c \in Clients : asked[c] <= MaxCalls
  /\ result \in [Clients -> {"none", "reply", "wrong", "failed"}]
  /\ half \in [Clients -> BOOLEAN]
PipeTypes ==
  /\ end \in [Pipes -> {"none", "listen", "open", "hung", "cut"}]
  /\ toServer \in [Pipes -> Seq(Messages)] /\ toClient \in [Pipes -> Seq(Messages)]
ServerTypes ==
  /\ serv \in {"none", "up", "closing", "join", "scan", "cancel", "join thread",
               "gone", "killed"}
  /\ target \in Pipes \cup {None} /\ inst \in Pipes \cup {None}
  /\ acc \in {"none", "top", "accept", "accepted", "over"}
  /\ clients \in SUBSET Pipes
  /\ fault \in BOOLEAN /\ excused \in BOOLEAN /\ missed \in BOOLEAN
WorkerTypes ==
  /\ wk \in [Pipes -> WorkerPlaces] /\ var \in [Pipes -> 0..3]
  /\ held \in [Pipes -> {"none", "error", "freed"}] /\ cur \in [Pipes -> Messages]
  /\ served \in [Clients -> Nat]

\* ... and what TypeOK says besides.
Registered ==
  /\ clients \subseteq {p \in Pipes : wk[p] \notin {"none", "unlock"}}
  /\ inst # None => wk[inst] = "none"

\* The type invariant is the conjunction of its parts.
LEMMA Types ==
  TypeOK <=> /\ ClientTypes /\ PipeTypes /\ ServerTypes /\ WorkerTypes /\ Registered
             /\ \A c \in Clients : served[c] <= asked[c]
BY DEF TypeOK, ClientTypes, PipeTypes, ServerTypes, WorkerTypes, Registered

\* The first message of a queue is taken; the others follow.
LEMMA TailOf ==
  ASSUME NEW s \in Seq(Messages), s # <<>>
  PROVE  /\ Tail(s) \in Seq(Messages) /\ Head(s) \in Messages /\ Head(s) = s[1]
         /\ Len(s) \in Nat \ {0} /\ Len(Tail(s)) = Len(s) - 1
         /\ \A i \in 1..Len(Tail(s)) : i + 1 \in 1..Len(s) /\ Tail(s)[i] = s[i + 1]
OBVIOUS

\* A message is added behind the others.
LEMMA AppendTo ==
  ASSUME NEW s \in Seq(Messages), NEW m \in Messages
  PROVE  /\ Append(s, m) \in Seq(Messages) /\ Len(s) \in Nat
         /\ Len(Append(s, m)) = Len(s) + 1 /\ Append(s, m)[Len(s) + 1] = m
         /\ \A i \in 1..Len(s) : Append(s, m)[i] = s[i]
OBVIOUS

\* Some messages are taken.
LEMMA Suffix ==
  ASSUME NEW s \in Seq(Messages), NEW j \in 1..Len(s)
  PROVE  /\ SubSeq(s, j + 1, Len(s)) \in Seq(Messages)
         /\ Len(SubSeq(s, j + 1, Len(s))) = Len(s) - j
         /\ \A i \in 1..(Len(s) - j) : /\ i + j \in 1..Len(s)
                                       /\ SubSeq(s, j + 1, Len(s))[i] = s[i + j]
OBVIOUS

\* A reply is added behind what is there.
LEMMA Concat ==
  ASSUME NEW s \in Seq(Messages), NEW t \in Seq(Messages)
  PROVE  /\ s \o t \in Seq(Messages) /\ Len(s) \in Nat /\ Len(t) \in Nat
         /\ Len(s \o t) = Len(s) + Len(t)
         /\ \A i \in 1..Len(s) : (s \o t)[i] = s[i]
         /\ \A i \in 1..Len(t) : (s \o t)[Len(s) + i] = t[i]
OBVIOUS

\* A message is of the type of messages and has the fields it was made of.
LEMMA MsgType ==
  ASSUME NEW is \in Kinds, NEW by \in Clients \cup {None}, NEW k \in Nat
  PROVE  /\ Msg(is, by, k) \in Messages
         /\ Msg(is, by, k).is = is /\ Msg(is, by, k).by = by /\ Msg(is, by, k).of = k
BY DEF Msg, Messages

\* Only clients write a client's state.
LEMMA ClientTypesStep == ClientTypes /\ [Next]_vars => ClientTypes'
<1>. SUFFICES ASSUME ClientTypes, [Next]_vars PROVE ClientTypes'
  OBVIOUS
<1>1. ASSUME NEW c \in Clients, Connect(c) PROVE ClientTypes'
  BY <1>1 DEF Connect, Goes, Listening, ClientTypes, ClientPlaces, Calling
<1>2. ASSUME NEW c \in Clients, ConnectFails(c) PROVE ClientTypes'
  BY <1>2 DEF ConnectFails, Goes, ClientTypes, ClientPlaces, Calling
<1>3. ASSUME NEW c \in Clients, Version(c) PROVE ClientTypes'
  BY <1>3 DEF Version, Goes, Takes, Arrived, ClientTypes, ClientPlaces, Calling
<1>4. ASSUME NEW c \in Clients, NEW to \in {"new", "gone"}, HandshakeFails(c, to) PROVE ClientTypes'
  BY <1>4 DEF HandshakeFails, Goes, Hang, Broken, Arrived, ClientTypes, ClientPlaces, Calling
<1>5. ASSUME NEW c \in Clients, Call(c) PROVE ClientTypes'
  <2>1. PICK k \in Nat : k = asked[c]
    BY DEF ClientTypes
  <2>2. k + 1 \in Nat /\ k + 1 <= MaxCalls /\ asked' = [asked EXCEPT ![c] = k + 1]
    BY <1>5, <2>1, ConstantsAssumption DEF Call
  <2>. QED  BY <1>5, <2>2 DEF Call, Goes, ClientTypes, ClientPlaces, Calling
<1>6. ASSUME NEW c \in Clients, Send(c) PROVE ClientTypes'
  BY <1>6 DEF Send, Goes, Sends, ClientTypes, ClientPlaces, Calling
<1>7. ASSUME NEW c \in Clients, CallFails(c) PROVE ClientTypes'
  BY <1>7 DEF CallFails, Ends, Goes, Broken, Arrived, Calling, ClientTypes, ClientPlaces,
     Calling
<1>8. ASSUME NEW c \in Clients, Receive(c) PROVE ClientTypes'
  BY <1>8 DEF Receive, Replied, Ends, Goes, Takes, Arrived, Got, Expected, Calling,
     ClientTypes, ClientPlaces, Calling
<1>9. ASSUME NEW c \in Clients, NoMemory(c) PROVE ClientTypes'
  BY <1>9 DEF NoMemory, Ends, Goes, Takes, Arrived, Got, Expected, ClientTypes, ClientPlaces,
     Calling
<1>10. ASSUME NEW c \in Clients, Garbled(c) PROVE ClientTypes'
  BY <1>10 DEF Garbled, Ends, Goes, Arrived, Got, Expected, Calling, ClientTypes,
     ClientPlaces, Calling
<1>11. ASSUME NEW c \in Clients, Leave(c) PROVE ClientTypes'
  BY <1>11 DEF Leave, Goes, Hang, Calling, ClientTypes, ClientPlaces, Calling
<1>12. ASSUME NEW p \in Pipes, 
               Start(p) \/ NoContext(p) \/ Greet(p) \/ Top(p) \/ ReadRequest(p) \/ Handle(p) \/
               Check(p) \/ ReplySize(p) \/ ReplyBody(p) \/ ReplyError(p) \/
               ConnectionFails(p) \/ GrowFails(p) \/ Flush(p) \/
               Disconnect(p) \/ Delete(p) \/ (Release(p) /\ serv # "gone" /\ held[p] # "freed")
        PROVE  ClientTypes'
  <2>1. UNCHANGED cliVars
    BY <1>12 DEF Start, NoContext, Delete, Greet, Top, ReadRequest, Handle, Check, ReplySize, ReplyBody,
       ReplyError, ConnectionFails, GrowFails, Flush, Disconnect, Release, Steps, others
  <2>. QED  BY <2>1 DEF ClientTypes, cliVars
<1>13. CASE AcceptorStops \/ Prepare \/ Connected \/ ConnectsNobody \/
          StartWorker \/ CannotRegister
  <2>1. UNCHANGED cliVars
    BY <1>13 DEF AcceptorStops, Prepare, Connected, ConnectsNobody, StartWorker, CannotRegister
  <2>. QED  BY <2>1 DEF ClientTypes, cliVars
<1>14. CASE CancelAcceptor \/ JoinAcceptor \/ Visit \/ CancelWorker \/
          Joined \/ FreeServer
  <2>1. UNCHANGED cliVars
    BY <1>14 DEF CancelAcceptor, JoinAcceptor, Visit, CancelWorker, Joined,
       FreeServer
  <2>. QED  BY <2>1 DEF ClientTypes, cliVars
<1>15. CASE CreateServer \/ Destroy \/ UNCHANGED vars
  <2>1. UNCHANGED cliVars
    BY <1>15 DEF CreateServer, Destroy, vars
  <2>. QED  BY <2>1 DEF ClientTypes, cliVars
<1>16. CASE Dies
  <2>1. UNCHANGED cliVars
    BY <1>16 DEF Dies
  <2>. QED  BY <2>1 DEF ClientTypes, cliVars
<1>17. CASE Faults
  BY <1>17, <1>16 DEF Faults
<1>18. ASSUME NEW p \in Pipes, Worker(p) PROVE ClientTypes'
  BY <1>18, <1>17, <1>12 DEF Worker, Doomed, Release
<1>19. CASE Acceptor
  BY <1>19, <1>17, <1>13 DEF Acceptor
<1>20. CASE Destroyer
  BY <1>20, <1>17, <1>14 DEF Destroyer, CancelFaults, JoinFaults
<1>21. CASE ClientNext
  BY <1>21, <1>1, <1>2, <1>3, <1>4, <1>5, <1>6, <1>7, <1>8, <1>9, <1>10,
     <1>11 DEF ClientNext, Retry, GiveUp
<1>. QED
  BY <1>16, <1>15, <1>18, <1>19, <1>20, <1>21 DEF Next, ServerNext, Killed

\* Either side closes its end.
LEMMA CloseTypes ==
  ASSUME PipeTypes, NEW p, CloseInstance(p) \/ Hang(p)
  PROVE  PipeTypes'
<1>1. \A q \in Pipes : end[q] \in {"none", "listen", "open", "hung", "cut"}
  BY DEF PipeTypes
<1>2. PICK e \in {"none", "hung", "cut"} : end' = [end EXCEPT ![p] = e]
  BY DEF CloseInstance, Hang, Closed
<1>3. <<>> \in Seq(Messages)
  OBVIOUS
<1>4. toServer' \in [Pipes -> Seq(Messages)] /\ toClient' \in [Pipes -> Seq(Messages)]
  <2>1. CASE CloseInstance(p)
    BY <1>3, <2>1 DEF CloseInstance, PipeTypes
  <2>2. CASE Hang(p)
    BY <1>3, <2>2 DEF Hang, PipeTypes
  <2>. QED  BY <2>1, <2>2
<1>. QED  BY <1>1, <1>2, <1>4 DEF PipeTypes

\* Replies have up to three messages.
LEMMA Short ==
  ASSUME NEW l \in Messages, NEW m \in Messages, NEW n \in Messages
  PROVE  /\ <<l>> \in Seq(Messages) /\ <<l, m>> \in Seq(Messages)
         /\ <<l, m, n>> \in Seq(Messages)
OBVIOUS

\* A message to the client names it and its request.
LEMMA AnswerType ==
  ASSUME WorkerTypes, NEW p \in Pipes, NEW is \in Kinds
  PROVE  /\ Answer(is, p) \in Messages /\ Answer(is, p).is = is
         /\ Answer(is, p).by = cur[p].by /\ Answer(is, p).of = cur[p].of
<1>1. cur[p].by \in Clients \cup {None} /\ cur[p].of \in Nat
  BY DEF WorkerTypes, Messages
<1>. QED  BY <1>1, MsgType DEF Answer

\* What is in a pipe are messages.
LEMMA PipeTypesStep ==
  ClientTypes /\ PipeTypes /\ WorkerTypes /\ Instances /\ [Next]_vars => PipeTypes'
<1>. SUFFICES ASSUME ClientTypes, PipeTypes, WorkerTypes, Instances, [Next]_vars PROVE PipeTypes'
  OBVIOUS
<1>1. ASSUME NEW c \in Clients, Connect(c) PROVE PipeTypes'
  <2>1. <<Msg("hello", c, 0)>> \in Seq(Messages)
    <3>1. Msg("hello", c, 0) \in Messages
      BY MsgType DEF Kinds
    <3>. QED  BY <3>1
  <2>. QED  BY <1>1, <2>1 DEF Connect, PipeTypes
<1>2. ASSUME NEW c \in Clients, Version(c) PROVE PipeTypes'
  <2>1. pipe[c] \in Pipes /\ toClient[pipe[c]] # <<>>
    BY <1>2 DEF Version, Arrived, ClientTypes, Instances, Calling, Expected
  <2>2. Tail(toClient[pipe[c]]) \in Seq(Messages)
    BY <2>1, TailOf DEF PipeTypes
  <2>. QED  BY <1>2, <2>2 DEF Version, Takes, PipeTypes
<1>3. ASSUME NEW c \in Clients, NEW to \in {"new", "gone"}, HandshakeFails(c, to) PROVE PipeTypes'
  BY <1>3 DEF HandshakeFails, Goes, Hang, Broken, Arrived, PipeTypes
<1>4. ASSUME NEW c \in Clients, Send(c) PROVE PipeTypes'
  <2>1. Msg(pc[c], c, asked[c]) \in Messages
    BY <1>4, MsgType DEF Send, ClientTypes, Kinds
  <2>2. pipe[c] \in Pipes
    BY <1>4 DEF Send, ClientTypes, Instances
  <2>3. Append(toServer[pipe[c]], Msg(pc[c], c, asked[c])) \in Seq(Messages)
    BY <2>1, <2>2, AppendTo DEF PipeTypes
  <2>. QED  BY <1>4, <2>3 DEF Send, Sends, PipeTypes
<1>5. ASSUME NEW c \in Clients, Receive(c) PROVE PipeTypes'
  <2>1. pipe[c] \in Pipes /\ toClient[pipe[c]] # <<>>
    BY <1>5 DEF Receive, Arrived, ClientTypes, Instances, Calling, Expected
  <2>2. Tail(toClient[pipe[c]]) \in Seq(Messages)
    BY <2>1, TailOf DEF PipeTypes
  <2>. QED  BY <1>5, <2>2 DEF Receive, Takes, PipeTypes
<1>6. ASSUME NEW c \in Clients, NoMemory(c) PROVE PipeTypes'
  <2>1. pipe[c] \in Pipes /\ toClient[pipe[c]] # <<>>
    BY <1>6 DEF NoMemory, Arrived, ClientTypes, Instances, Calling, Expected
  <2>2. Tail(toClient[pipe[c]]) \in Seq(Messages)
    BY <2>1, TailOf DEF PipeTypes
  <2>. QED  BY <1>6, <2>2 DEF NoMemory, Takes, PipeTypes
<1>7. ASSUME NEW c \in Clients, Garbled(c) PROVE PipeTypes'
  <2>1. pipe[c] \in Pipes
    BY <1>7 DEF Garbled, Calling, ClientTypes, Instances
  <2>2. PICK j \in 1..Len(toClient[pipe[c]]) :
          toClient' = [toClient EXCEPT ![pipe[c]] = SubSeq(@, j + 1, Len(@))]
    BY <1>7 DEF Garbled
  <2>3. SubSeq(toClient[pipe[c]], j + 1, Len(toClient[pipe[c]])) \in Seq(Messages)
    BY <2>1, Suffix DEF PipeTypes
  <2>. QED  BY <1>7, <2>2, <2>3 DEF Garbled, PipeTypes
<1>8. ASSUME NEW c \in Clients, Leave(c) PROVE PipeTypes'
  <2>1. CASE pipe[c] = None
    BY <1>8, <2>1 DEF Leave, PipeTypes, pipeVars
  <2>2. CASE pipe[c] # None
    <3>1. Hang(pipe[c])
      BY <1>8, <2>2 DEF Leave
    <3>. QED  BY <3>1, CloseTypes
  <2>. QED  BY <2>1, <2>2
<1>9. ASSUME NEW c \in Clients, 
               ConnectFails(c) \/ Call(c) \/ CallFails(c)
        PROVE  PipeTypes'
  <2>1. UNCHANGED pipeVars
    BY <1>9 DEF ConnectFails, Call, CallFails, accVars, pipeVars
  <2>. QED  BY <2>1 DEF PipeTypes, pipeVars
<1>10. ASSUME NEW p \in Pipes, Greet(p) PROVE PipeTypes'
  <2>1. Msg("version", None, 0) \in Messages
    BY MsgType DEF Kinds
  <2>2. /\ Append(toClient[p], Msg("version", None, 0)) \in Seq(Messages)
        /\ Tail(toServer[p]) \in Seq(Messages)
    BY <1>10, <2>1, TailOf, AppendTo DEF Greet, Arrives, PipeTypes
  <2>. QED  BY <1>10, <2>2 DEF Greet, PipeTypes
<1>11. ASSUME NEW p \in Pipes, ReadRequest(p) PROVE PipeTypes'
  <2>1. Tail(toServer[p]) \in Seq(Messages)
    BY <1>11, TailOf DEF ReadRequest, Arrives, PipeTypes
  <2>. QED  BY <1>11, <2>1 DEF ReadRequest, PipeTypes
<1>12. ASSUME NEW p \in Pipes, ReplySize(p) PROVE PipeTypes'
  <2>1. <<Answer("size", p)>> \in Seq(Messages)
    <3>1. Answer("size", p) \in Messages
      BY AnswerType DEF Kinds
    <3>. QED  BY <3>1
  <2>2. toClient[p] \o <<Answer("size", p)>> \in Seq(Messages)
    BY <2>1, Concat DEF PipeTypes
  <2>. QED  BY <1>12, <2>2 DEF ReplySize, Writes, PipeTypes
<1>13. ASSUME NEW p \in Pipes, ReplyBody(p) PROVE PipeTypes'
  <2>1. <<Answer("answer", p)>> \in Seq(Messages)
    <3>1. Answer("answer", p) \in Messages
      BY AnswerType DEF Kinds
    <3>. QED  BY <3>1
  <2>2. toClient[p] \o <<Answer("answer", p)>> \in Seq(Messages)
    BY <2>1, Concat DEF PipeTypes
  <2>. QED  BY <1>13, <2>2 DEF ReplyBody, Writes, PipeTypes
<1>14. ASSUME NEW p \in Pipes, ReplyError(p) PROVE PipeTypes'
  <2>1. /\ <<Answer("zero", p), Answer("error", p)>> \in Seq(Messages)
        /\ <<Answer("zero", p), Answer("error with text", p), Answer("text", p)>> \in Seq(Messages)
    <3>1. \A is \in Kinds : Answer(is, p) \in Messages
      BY AnswerType
    <3>2. {"zero", "error", "error with text", "text"} \subseteq Kinds
      BY DEF Kinds
    <3>3. /\ Answer("zero", p) \in Messages /\ Answer("error", p) \in Messages
          /\ Answer("error with text", p) \in Messages /\ Answer("text", p) \in Messages
      BY <3>1, <3>2
    <3>. QED  BY <3>3, Short
  <2>2. \A s \in Seq(Messages) : toClient[p] \o s \in Seq(Messages)
    BY Concat DEF PipeTypes
  <2>. QED  BY <1>14, <2>1, <2>2 DEF ReplyError, ErrorReply, Writes, PipeTypes
<1>15. ASSUME NEW p \in Pipes, Disconnect(p) PROVE PipeTypes'
  BY <1>15 DEF Disconnect, Steps, Closed, PipeTypes
<1>16. ASSUME NEW p \in Pipes, 
               Start(p) \/ NoContext(p) \/ Delete(p) \/ Top(p) \/ Handle(p) \/ Check(p) \/
               ConnectionFails(p) \/ GrowFails(p) \/ Flush(p) \/
               (Release(p) /\ serv # "gone" /\ held[p] # "freed")
        PROVE  PipeTypes'
  <2>1. UNCHANGED pipeVars
    BY <1>16 DEF Start, NoContext, Delete, Top, Handle, Check, ConnectionFails, GrowFails, Flush, Release,
       Steps, others, accVars, pipeVars
  <2>. QED  BY <2>1 DEF PipeTypes, pipeVars
<1>17. CASE AcceptorStops \/ CannotRegister
  <2>1. UNCHANGED pipeVars \/ CloseInstance(inst)
    BY <1>17 DEF AcceptorStops, CannotRegister, Stops
  <2>2. CASE UNCHANGED pipeVars
    BY <2>2 DEF pipeVars, PipeTypes
  <2>3. CASE CloseInstance(inst)
    BY <2>3, CloseTypes
  <2>. QED  BY <2>1, <2>2, <2>3
<1>18. CASE Prepare
  BY <1>18 DEF Prepare, NewInstance, Unused, Closing, PipeTypes
<1>19. CASE ConnectsNobody
  <2>1. CloseInstance(inst)
    BY <1>19 DEF ConnectsNobody, NotConnected
  <2>. QED  BY <2>1, CloseTypes
<1>20. CASE Connected \/ StartWorker
  <2>1. UNCHANGED pipeVars
    BY <1>20 DEF Connected, StartWorker, accVars, pipeVars
  <2>. QED  BY <2>1 DEF PipeTypes, pipeVars
<1>21. CASE CancelAcceptor
  <2>1. UNCHANGED pipeVars \/ CloseInstance(inst)
    BY <1>21 DEF CancelAcceptor, NotConnected
  <2>2. CASE UNCHANGED pipeVars
    BY <2>2 DEF pipeVars, PipeTypes
  <2>3. CASE CloseInstance(inst)
    BY <2>3, CloseTypes
  <2>. QED  BY <2>1, <2>2, <2>3
<1>22. CASE JoinAcceptor \/ Visit \/ CancelWorker \/ Joined \/
          FreeServer
  <2>1. UNCHANGED pipeVars
    BY <1>22 DEF JoinAcceptor, Visit, CancelWorker, Joined, FreeServer, accVars,
       pipeVars
  <2>. QED  BY <2>1 DEF PipeTypes, pipeVars
<1>23. CASE CreateServer
  BY <1>23 DEF CreateServer, NewInstance, Unused, PipeTypes
<1>24. CASE Destroy \/ UNCHANGED vars
  <2>1. UNCHANGED pipeVars
    BY <1>24 DEF Destroy, vars, accVars, pipeVars
  <2>. QED  BY <2>1 DEF PipeTypes, pipeVars
<1>25. CASE Dies
  BY <1>25 DEF Dies, Closed, PipeTypes
<1>26. CASE Faults
  BY <1>26, <1>25 DEF Faults
<1>27. ASSUME NEW p \in Pipes, Worker(p) PROVE PipeTypes'
  BY <1>27, <1>26, <1>10, <1>11, <1>12, <1>13, <1>14, <1>15, <1>16 DEF Worker, Doomed, Release
<1>28. CASE Acceptor
  BY <1>28, <1>26, <1>17, <1>18, <1>19, <1>20 DEF Acceptor
<1>29. CASE Destroyer
  BY <1>29, <1>26, <1>21, <1>22 DEF Destroyer, CancelFaults, JoinFaults
<1>30. CASE ClientNext
  BY <1>30, <1>1, <1>2, <1>3, <1>4, <1>5, <1>6, <1>7, <1>8, <1>9 DEF ClientNext, Retry, GiveUp
<1>. QED
  BY <1>25, <1>23, <1>24, <1>27, <1>28, <1>29, <1>30 DEF Next, ServerNext, Killed

\* The server's own variables.
LEMMA ServerTypesStep == ServerTypes /\ Instances /\ [Next]_vars => ServerTypes'
<1>. SUFFICES ASSUME ServerTypes, Instances, [Next]_vars PROVE ServerTypes'
  OBVIOUS
<1>1. ASSUME NEW c \in Clients, Leave(c) PROVE ServerTypes'
  BY <1>1 DEF Leave, Goes, Hang, Calling, ServerTypes, servVars, accVars
<1>2. ASSUME NEW c \in Clients, 
               Connect(c) \/ ConnectFails(c) \/ Version(c) \/
               (\E to \in {"new", "gone"} : HandshakeFails(c, to)) \/ Call(c) \/
               Send(c) \/ CallFails(c) \/ Receive(c) \/ NoMemory(c) \/
               Garbled(c)
        PROVE  ServerTypes'
  <2>1. UNCHANGED <<servVars, accVars, fault, excused>>
    BY <1>2 DEF Connect, ConnectFails, Version, HandshakeFails, Call, Send, CallFails,
       Receive, NoMemory, Garbled
  <2>. QED  BY <2>1 DEF ServerTypes, servVars, accVars
<1>3. ASSUME NEW p \in Pipes, GrowFails(p) \/ NoContext(p) PROVE ServerTypes'
  BY <1>3 DEF GrowFails, NoContext, Fails, ServerTypes, servVars, accVars
<1>4. ASSUME NEW p \in Pipes, Delete(p) PROVE ServerTypes'
  BY <1>4 DEF Delete, ServerTypes, servVars
<1>5. ASSUME NEW p \in Pipes, 
               Start(p) \/ Greet(p) \/ Top(p) \/ ReadRequest(p) \/ Handle(p) \/
               Check(p) \/ ReplySize(p) \/ ReplyBody(p) \/ ReplyError(p) \/
               ConnectionFails(p) \/ Flush(p) \/ Disconnect(p) \/
               (Release(p) /\ serv # "gone" /\ held[p] # "freed")
        PROVE  ServerTypes'
  <2>1. UNCHANGED <<servVars, accVars, fault, excused>>
    BY <1>5 DEF Start, Greet, Top, ReadRequest, Handle, Check, ReplySize, ReplyBody,
       ReplyError, ConnectionFails, Flush, Disconnect, Release, Steps, others
  <2>. QED  BY <2>1 DEF ServerTypes, servVars, accVars
<1>6. CASE AcceptorStops \/ CannotRegister
  BY <1>6 DEF AcceptorStops, CannotRegister, Stops, ServerTypes, servVars
<1>7. CASE Prepare
  BY <1>7 DEF Prepare, NewInstance, Unused, Closing, ServerTypes, servVars, accVars
<1>8. CASE Connected
  BY <1>8 DEF Connected, ServerTypes, servVars, accVars
<1>9. CASE ConnectsNobody
  BY <1>9 DEF ConnectsNobody, NotConnected, CloseInstance, Closed, ServerTypes, servVars,
     accVars
<1>10. CASE StartWorker
  <2>1. inst \in Pipes
    BY <1>10 DEF StartWorker, ServerTypes, Instances
  <2>. QED  BY <1>10, <2>1 DEF StartWorker, ServerTypes, servVars
<1>11. CASE CancelAcceptor
  BY <1>11 DEF CancelAcceptor, NotConnected, CloseInstance, Closed, ServerTypes, servVars,
     accVars
<1>12. CASE JoinAcceptor
  BY <1>12 DEF JoinAcceptor, ServerTypes, servVars, accVars
<1>13. CASE Visit
  BY <1>13 DEF Visit, ServerTypes, servVars, accVars
<1>14. CASE CancelWorker
  BY <1>14 DEF CancelWorker, Gone, Fails, Reading, Writing, ServerTypes, servVars, accVars
<1>16. CASE Joined
  BY <1>16 DEF Joined, Gone, ServerTypes, servVars, accVars
<1>17. CASE FreeServer
  BY <1>17 DEF FreeServer, ServerTypes, servVars, accVars
<1>18. CASE CreateServer
  BY <1>18 DEF CreateServer, NewInstance, Unused, ServerTypes, servVars, accVars
<1>19. CASE Destroy
  BY <1>19 DEF Destroy, ServerTypes, servVars, accVars
<1>20. CASE UNCHANGED vars
  <2>1. UNCHANGED <<servVars, accVars, fault, excused>>
    BY <1>20 DEF vars
  <2>. QED  BY <2>1 DEF ServerTypes, servVars, accVars
<1>21. ASSUME Dies, fault' \in BOOLEAN, excused' \in BOOLEAN PROVE ServerTypes'
  BY <1>21 DEF Dies, Closed, ServerTypes, servVars, accVars
<1>22. CASE Faults
  BY <1>22, <1>21 DEF Faults, ServerTypes
<1>23. ASSUME NEW p \in Pipes, Worker(p) PROVE ServerTypes'
  BY <1>23, <1>22, <1>3, <1>4, <1>5 DEF Worker, Doomed, Release
<1>24. CASE Acceptor
  BY <1>24, <1>22, <1>6, <1>7, <1>8, <1>9, <1>10 DEF Acceptor
<1>25. CASE Destroyer
  BY <1>25, <1>22, <1>11, <1>12, <1>13, <1>14, <1>16, <1>17 DEF Destroyer,
     CancelFaults, JoinFaults
<1>26. CASE ClientNext
  BY <1>26, <1>1, <1>2 DEF ClientNext, Retry, GiveUp
<1>. QED
  BY <1>21, <1>18, <1>19, <1>20, <1>23, <1>24, <1>25, <1>26 DEF Next, ServerNext, Killed,
     ServerTypes

\* The workers' variables.
LEMMA WorkerTypesStep ==
  WorkerTypes /\ PipeTypes /\ ServerTypes /\ Instances /\ [Next]_vars => WorkerTypes'
<1>. SUFFICES ASSUME WorkerTypes, PipeTypes, ServerTypes, Instances, [Next]_vars PROVE WorkerTypes'
  OBVIOUS
<1>1. ASSUME NEW c \in Clients, 
               Connect(c) \/ ConnectFails(c) \/ Version(c) \/
               (\E to \in {"new", "gone"} : HandshakeFails(c, to)) \/ Call(c) \/
               Send(c) \/ CallFails(c) \/ Receive(c) \/ NoMemory(c) \/
               Garbled(c) \/ Leave(c)
        PROVE  WorkerTypes'
  <2>1. UNCHANGED wkVars
    BY <1>1 DEF Connect, ConnectFails, Version, HandshakeFails, Call, Send, CallFails,
       Receive, NoMemory, Garbled, Leave
  <2>. QED  BY <2>1 DEF WorkerTypes, wkVars
<1>2. ASSUME NEW p \in Pipes, Start(p) \/ NoContext(p) \/ Delete(p) PROVE WorkerTypes'
  BY <1>2 DEF Start, NoContext, Delete, Steps, others, WorkerTypes, WorkerPlaces, Reading, Writing
<1>3. ASSUME NEW p \in Pipes, Greet(p) PROVE WorkerTypes'
  BY <1>3 DEF Greet, Steps, others, Arrives, WorkerTypes, WorkerPlaces, Reading, Writing
<1>4. ASSUME NEW p \in Pipes, Top(p) PROVE WorkerTypes'
  BY <1>4 DEF Top, Steps, others, WorkerTypes, WorkerPlaces, Reading, Writing
<1>5. ASSUME NEW p \in Pipes, ReadRequest(p) PROVE WorkerTypes'
  <2>1. Head(toServer[p]) \in Messages
    BY <1>5, TailOf DEF ReadRequest, Arrives, PipeTypes
  <2>2. PICK to \in WorkerPlaces : wk' = [wk EXCEPT ![p] = to]
    BY <1>5 DEF ReadRequest, Steps, WorkerPlaces, Reading
  <2>. QED  BY <1>5, <2>1, <2>2 DEF ReadRequest, WorkerTypes
<1>6. ASSUME NEW p \in Pipes, Handle(p) PROVE WorkerTypes'
  <2>1. PICK failed \in BOOLEAN :
          /\ held' = [held EXCEPT ![p] = IF failed THEN "error" ELSE "none"]
          /\ var' = [var EXCEPT ![p] = IF failed THEN 2 ELSE 1]
    BY <1>6 DEF Handle
  <2>2. PICK k \in Nat : k = cur[p].of
    BY DEF WorkerTypes, Messages
  <2>3. held' \in [Pipes -> {"none", "error", "freed"}] /\ var' \in [Pipes -> 0..3]
    BY <2>1 DEF WorkerTypes
  <2>. QED  BY <1>6, <2>2, <2>3 DEF Handle, Steps, WorkerTypes, WorkerPlaces
<1>7. ASSUME NEW p \in Pipes, Check(p) PROVE WorkerTypes'
  BY <1>7 DEF Check, Steps, others, WorkerTypes, WorkerPlaces, Reading, Writing
<1>8. ASSUME NEW p \in Pipes, ReplySize(p) PROVE WorkerTypes'
  BY <1>8 DEF ReplySize, Steps, others, Writes, Answer, WorkerTypes, WorkerPlaces, Reading,
     Writing
<1>9. ASSUME NEW p \in Pipes, ReplyBody(p) PROVE WorkerTypes'
  BY <1>9 DEF ReplyBody, Steps, others, Writes, Answer, WorkerTypes, WorkerPlaces, Reading,
     Writing
<1>10. ASSUME NEW p \in Pipes, ReplyError(p) PROVE WorkerTypes'
  BY <1>10 DEF ReplyError, Steps, others, ErrorReply, Writes, Answer, WorkerTypes,
     WorkerPlaces, Reading, Writing
<1>11. ASSUME NEW p \in Pipes, ConnectionFails(p) PROVE WorkerTypes'
  BY <1>11 DEF ConnectionFails, Fails, others, Reading, Writing, Arrives, WorkerTypes,
     WorkerPlaces, Reading, Writing
<1>12. ASSUME NEW p \in Pipes, GrowFails(p) PROVE WorkerTypes'
  BY <1>12 DEF GrowFails, Fails, WorkerTypes, WorkerPlaces, Reading, Writing
<1>13. ASSUME NEW p \in Pipes, Flush(p) PROVE WorkerTypes'
  BY <1>13 DEF Flush, Steps, others, WorkerTypes, WorkerPlaces, Reading, Writing
<1>14. ASSUME NEW p \in Pipes, Disconnect(p) PROVE WorkerTypes'
  BY <1>14 DEF Disconnect, Steps, Closed, WorkerTypes, WorkerPlaces, Reading, Writing
<1>15. ASSUME NEW p \in Pipes, Release(p), serv # "gone", held[p] # "freed" PROVE WorkerTypes'
  <2>1. NoRequest \in Messages
    BY MsgType DEF NoRequest, Kinds
  <2>. QED  BY <1>15, <2>1 DEF Release, Steps, WorkerTypes, WorkerPlaces
<1>16. CASE StartWorker \/ CannotRegister
  BY <1>16 DEF StartWorker, CannotRegister, Closing, WorkerTypes, WorkerPlaces, Reading, Writing
<1>17. CASE AcceptorStops \/ Prepare \/ Connected \/ ConnectsNobody
  <2>1. UNCHANGED wkVars
    BY <1>17 DEF AcceptorStops, Prepare, Connected, ConnectsNobody
  <2>. QED  BY <2>1 DEF WorkerTypes, wkVars
<1>18. CASE CancelWorker
  <2>1. UNCHANGED <<wk, held>> \/ Fails(target)
    BY <1>18 DEF CancelWorker
  <2>2. UNCHANGED <<cur, served>> /\ var' = [var EXCEPT ![target] = 3]
    BY <1>18 DEF CancelWorker
  <2>3. wk' \in [Pipes -> WorkerPlaces] /\ held' \in [Pipes -> {"none", "error", "freed"}]
    BY <2>1 DEF Fails, WorkerTypes, WorkerPlaces
  <2>4. var' \in [Pipes -> 0..3]
    <3>1. var \in [Pipes -> 0..3] /\ 3 \in 0..3
      BY DEF WorkerTypes
    <3>. QED  BY <2>2, <3>1
  <2>. QED  BY <2>2, <2>3, <2>4 DEF WorkerTypes
<1>19. CASE CancelAcceptor \/ JoinAcceptor \/ Visit \/
          Joined \/ FreeServer
  <2>1. UNCHANGED wkVars
    BY <1>19 DEF CancelAcceptor, JoinAcceptor, Visit, Joined, FreeServer
  <2>. QED  BY <2>1 DEF WorkerTypes, wkVars
<1>20. CASE CreateServer \/ Destroy \/ UNCHANGED vars
  <2>1. UNCHANGED wkVars
    BY <1>20 DEF CreateServer, Destroy, vars
  <2>. QED  BY <2>1 DEF WorkerTypes, wkVars
<1>21. CASE Dies
  <2>1. NoRequest \in Messages
    BY MsgType DEF NoRequest, Kinds
  <2>. QED  BY <1>21, <2>1 DEF Dies, WorkerTypes, WorkerPlaces
<1>22. CASE Faults
  BY <1>22, <1>21 DEF Faults
<1>23. ASSUME NEW p \in Pipes, Worker(p) PROVE WorkerTypes'
  BY <1>23, <1>22, <1>2, <1>3, <1>4, <1>5, <1>6, <1>7, <1>8, <1>9, <1>10, <1>11, <1>12,
     <1>13, <1>14, <1>15 DEF Worker, Doomed, Release
<1>24. CASE Acceptor
  BY <1>24, <1>22, <1>16, <1>17 DEF Acceptor
<1>25. CASE Destroyer
  BY <1>25, <1>22, <1>18, <1>19 DEF Destroyer, CancelFaults, JoinFaults
<1>26. CASE ClientNext
  BY <1>26, <1>1 DEF ClientNext, Retry, GiveUp
<1>. QED
  BY <1>21, <1>20, <1>23, <1>24, <1>25, <1>26 DEF Next, ServerNext, Killed


\* A client that is connected has an instance that is, too.
LEMMA PipeOf ==
  ASSUME ClientTypes, PipeTypes, Instances, NEW c \in Clients, pc[c] \notin {"new", "gone"}
  PROVE  pipe[c] \in Pipes /\ end[pipe[c]] \in {"open", "cut"}
<1>1. pipe[c] \in Pipes
  BY DEF ClientTypes, Instances
<1>2. Instance(pipe[c]) /\ end[pipe[c]] \in {"none", "listen", "open", "hung", "cut"}
  BY <1>1 DEF Instances, PipeTypes
<1>. QED  BY <1>1, <1>2 DEF Instance, Nobody

\* The ends of an instance as they are, with less in it or more at work.
LEMMA InstanceFrame ==
  ASSUME NEW q \in Pipes, Instance(q), end'[q] = end[q],
         toServer'[q] = toServer[q] \/ end[q] \in {"open", "hung"},
         toClient'[q] = toClient[q] \/ end[q] \in {"open", "cut"},
         UNCHANGED pipe, inst' = q <=> inst = q,
         wk'[q] \in Ended \/ wk[q] \notin Ended,
         wk'[q] \in Leaving => wk[q] \in Leaving
  PROVE  Instance(q)'
BY DEF Instance, Nobody


\* A client closes its end.
LEMMA HangStep ==
  ASSUME ClientTypes, PipeTypes, ServerTypes, Registered, Owned, Instances,
         NEW c \in Clients, pipe[c] \in Pipes, end[pipe[c]] \in {"open", "cut"},
         Hang(pipe[c]), pipe' = [pipe EXCEPT ![c] = None],
         NEW to \in {"new", "gone"}, pc' = [pc EXCEPT ![c] = to],
         UNCHANGED <<accVars, wkVars>>
  PROVE  Instances' /\ Registered'
<1>1. ASSUME NEW q \in Pipes PROVE Instance(q)'
  <2>1. Instance(q)
    BY DEF Instances
  <2>2. CASE q = pipe[c]
    <3>1. Nobody(q)'
      BY <2>2, ConstantsAssumption DEF Nobody, ClientTypes, Owned, On
    <3>2. /\ end'[q] = IF end[q] = "cut" THEN "none" ELSE "hung"
          /\ toClient'[q] = <<>>
          /\ toServer'[q] = IF end[q] = "cut" THEN <<>> ELSE toServer[q]
      BY <2>2 DEF Hang, PipeTypes
    <3>. QED  BY <2>1, <2>2, <3>1, <3>2 DEF Instance, accVars, wkVars
  <2>3. CASE q # pipe[c]
    <3>1. end'[q] = end[q] /\ toServer'[q] = toServer[q] /\ toClient'[q] = toClient[q]
      BY <2>3 DEF Hang, PipeTypes
    <3>2. Nobody(q) => Nobody(q)'
      BY ConstantsAssumption DEF Nobody, ClientTypes
    <3>. QED  BY <2>1, <3>1, <3>2 DEF Instance, accVars, wkVars
  <2>. QED  BY <2>2, <2>3
<1>2. \A d \in Clients : pipe'[d] = None <=> pc'[d] \in {"new", "gone"}
  BY DEF Instances, ClientTypes
<1>3. acc' = "accepted" => end'[inst'] \in {"open", "hung"}
  <2>1. CASE acc = "accepted"
    <3>1. inst \in Pipes /\ Instance(inst) /\ wk[inst] = "none"
      BY <2>1 DEF Instances, ServerTypes, Registered
    <3>2. CASE inst = pipe[c]
      <4>1. end'[inst] = IF end[inst] = "cut" THEN "none" ELSE "hung"
        BY <3>1, <3>2 DEF Hang, PipeTypes
      <4>. QED  BY <2>1, <3>1, <4>1 DEF Instances, accVars
    <3>3. CASE inst # pipe[c]
      <4>1. end'[inst] = end[inst]
        BY <3>1, <3>3 DEF Hang, PipeTypes
      <4>. QED  BY <2>1, <4>1 DEF Instances, accVars
    <3>. QED  BY <3>2, <3>3
  <2>. QED  BY <2>1 DEF accVars
<1>. QED  BY <1>1, <1>2, <1>3 DEF Instances, Registered, accVars, wkVars

\* The acceptor gives up the instance it holds.
LEMMA CloseStep ==
  ASSUME PipeTypes, ServerTypes, WorkerTypes, Registered, Instances, inst # None, inst' = None,
         CloseInstance(inst), acc' \in {"top", "over"},
         wk' = wk \/ wk' = [wk EXCEPT ![inst] = "doomed"],
         UNCHANGED <<cliVars, clients>>
  PROVE  Instances' /\ Registered'
<1>1. inst \in Pipes /\ wk[inst] = "none"
  BY DEF ServerTypes, Registered
<1>3. /\ wk'[inst] \in {"none", "doomed"}
      /\ \A q \in Pipes : q # inst => wk'[q] = wk[q]
  BY <1>1 DEF WorkerTypes
<1>2. ASSUME NEW q \in Pipes PROVE Instance(q)'
  <2>1. Instance(q) /\ (Nobody(q)' <=> Nobody(q)) /\ toClient' = toClient
    BY DEF Instances, Nobody, cliVars, CloseInstance
  <2>2. CASE q = inst
    <3>1. /\ end'[q] = IF end[q] \in {"open", "cut"} THEN "cut" ELSE "none"
          /\ toServer'[q] = <<>>
      BY <2>2 DEF CloseInstance, Closed, PipeTypes
    <3>. QED  BY <1>1, <1>3, <2>1, <2>2, <3>1, ConstantsAssumption DEF Instance, Ended, Leaving
  <2>3. CASE q # inst
    <3>1. end'[q] = end[q] /\ toServer'[q] = toServer[q]
      BY <2>3 DEF CloseInstance, PipeTypes
    <3>. QED  BY <1>3, <2>1, <2>3, <3>1, ConstantsAssumption DEF Instance
  <2>. QED  BY <2>2, <2>3
<1>4. Registered'
  BY <1>1, <1>3, ConstantsAssumption DEF Registered
<1>. QED  BY <1>2, <1>4, ConstantsAssumption DEF Instances, cliVars

\* Both ends of an instance agree about what it is used for.
LEMMA InstancesStep ==
  ClientTypes /\ PipeTypes /\ ServerTypes /\ WorkerTypes /\ Registered /\ Owned
  /\ NoServer /\ Instances /\ [Next]_vars
    => Instances' /\ Registered'
<1>. SUFFICES ASSUME ClientTypes, PipeTypes, ServerTypes, WorkerTypes,
                         Registered, Owned, NoServer, Instances, [Next]_vars PROVE Instances' /\ Registered'
  OBVIOUS
<1>. USE DEF Ended, Leaving
<1>1. ASSUME NEW c \in Clients, Connect(c) PROVE Instances' /\ Registered'
  <2>1. PICK q \in Listening : /\ end' = [end EXCEPT ![q] = "open"]
                              /\ pipe' = [pipe EXCEPT ![c] = q]
                              /\ toServer' = [toServer EXCEPT ![q] = <<Msg("hello", c, 0)>>]
    BY <1>1 DEF Connect
  <2>2. /\ UNCHANGED <<toClient, accVars, wkVars>> /\ pc[c] = "new"
        /\ pc' = [pc EXCEPT ![c] = "version"] /\ q \in Pipes /\ end[q] = "listen"
    BY <1>1 DEF Connect, Goes, Listening
  <2>3. ASSUME NEW r \in Pipes PROVE Instance(r)'
    <3>1. Instance(r) /\ Instance(q)
      BY <2>2 DEF Instances
    <3>2. CASE r = q
      BY <2>1, <2>2, <3>1, <3>2 DEF Instance, accVars, wkVars, PipeTypes
    <3>3. CASE r # q
      <4>1. Nobody(r) => Nobody(r)'
        BY <2>1, <2>2, <3>3 DEF Nobody, ClientTypes
      <4>2. end'[r] = end[r] /\ toServer'[r] = toServer[r]
        BY <2>1, <3>3 DEF PipeTypes
      <4>. QED  BY <2>2, <3>1, <4>1, <4>2 DEF Instance, accVars, wkVars
    <3>. QED  BY <3>2, <3>3
  <2>4. \A d \in Clients : pipe'[d] = None <=> pc'[d] \in {"new", "gone"}
    BY <2>1, <2>2, ConstantsAssumption DEF Instances, ClientTypes
  <2>5. acc' = "accepted" => end'[inst'] \in {"open", "hung"}
    BY <2>1, <2>2 DEF Instances, accVars, PipeTypes, ServerTypes
  <2>. QED  BY <2>2, <2>3, <2>4, <2>5 DEF Instances, Registered, accVars, wkVars
<1>2. ASSUME NEW c \in Clients, ConnectFails(c) PROVE Instances' /\ Registered'
  <2>1. /\ UNCHANGED <<pipe, pipeVars, accVars, wkVars>> /\ pc[c] = "new"
        /\ pc' = [pc EXCEPT ![c] = "gone"]
    BY <1>2 DEF ConnectFails, Goes
  <2>2. \A d \in Clients : pipe'[d] = None <=> pc'[d] \in {"new", "gone"}
    BY <2>1 DEF Instances, ClientTypes
  <2>. QED  BY <2>1, <2>2 DEF Instances, Instance, Nobody, Registered, pipeVars, accVars, wkVars
<1>3. ASSUME NEW c \in Clients, Version(c) PROVE Instances' /\ Registered'
  <2>1. pc[c] \notin {"new", "gone"}
    BY <1>3 DEF Version, Calling
  <2>2. pipe[c] \in Pipes /\ end[pipe[c]] \in {"open", "cut"}
    BY <2>1, PipeOf
  <2>3. PICK to \in ClientPlaces \ {"new", "gone"} : pc' = [pc EXCEPT ![c] = to]
    BY <1>3 DEF Version, Goes, Takes, Arrived, ClientPlaces, Calling
  <2>4. UNCHANGED <<pipe, end, accVars, wkVars>>
    BY <1>3 DEF Version, pipeVars
  <2>5. ASSUME NEW q \in Pipes PROVE Instance(q)'
    <3>1. Instance(q)
      BY DEF Instances
    <3>2. toServer'[q] = toServer[q] \/ end[q] = "open"
      BY <1>3 DEF Version, Sends, pipeVars
    <3>3. toClient'[q] = toClient[q] \/ end[q] \in {"open", "cut"}
      BY <1>3, <2>2 DEF Version, Takes, PipeTypes, pipeVars
    <3>4. wk'[q] = wk[q] /\ (inst' = q <=> inst = q) /\ end'[q] = end[q]
      BY <2>4 DEF wkVars, accVars
    <3>. QED  BY <2>4, <3>1, <3>2, <3>3, <3>4, InstanceFrame
  <2>6. \A d \in Clients : pipe'[d] = None <=> pc'[d] \in {"new", "gone"}
    BY <2>1, <2>3, <2>4 DEF Instances, ClientTypes
  <2>. QED  BY <2>4, <2>5, <2>6 DEF Instances, Registered, accVars, wkVars
<1>4. ASSUME NEW c \in Clients, NEW to \in {"new", "gone"}, HandshakeFails(c, to) PROVE Instances' /\ Registered'
  <2>1. pipe[c] \in Pipes /\ end[pipe[c]] \in {"open", "cut"}
    BY <1>4, PipeOf DEF HandshakeFails
  <2>2. Hang(pipe[c]) /\ pipe' = [pipe EXCEPT ![c] = None]
    BY <1>4 DEF HandshakeFails
  <2>3. pc' = [pc EXCEPT ![c] = to] /\ UNCHANGED <<accVars, wkVars>>
    BY <1>4 DEF HandshakeFails, Goes
  <2>. QED  BY <2>1, <2>2, <2>3, HangStep
<1>5. ASSUME NEW c \in Clients, Call(c) PROVE Instances' /\ Registered'
  <2>1. pc[c] \notin {"new", "gone"}
    BY <1>5 DEF Call, Calling
  <2>2. pipe[c] \in Pipes /\ end[pipe[c]] \in {"open", "cut"}
    BY <2>1, PipeOf
  <2>3. PICK to \in ClientPlaces \ {"new", "gone"} : pc' = [pc EXCEPT ![c] = to]
    BY <1>5 DEF Call, Goes, ClientPlaces, Calling
  <2>4. UNCHANGED <<pipe, end, accVars, wkVars>>
    BY <1>5 DEF Call, pipeVars
  <2>5. ASSUME NEW q \in Pipes PROVE Instance(q)'
    <3>1. Instance(q)
      BY DEF Instances
    <3>2. toServer'[q] = toServer[q] \/ end[q] = "open"
      BY <1>5 DEF Call, Sends, pipeVars
    <3>3. toClient'[q] = toClient[q] \/ end[q] \in {"open", "cut"}
      BY <1>5, <2>2 DEF Call, Takes, PipeTypes, pipeVars
    <3>4. wk'[q] = wk[q] /\ (inst' = q <=> inst = q) /\ end'[q] = end[q]
      BY <2>4 DEF wkVars, accVars
    <3>. QED  BY <2>4, <3>1, <3>2, <3>3, <3>4, InstanceFrame
  <2>6. \A d \in Clients : pipe'[d] = None <=> pc'[d] \in {"new", "gone"}
    BY <2>1, <2>3, <2>4 DEF Instances, ClientTypes
  <2>. QED  BY <2>4, <2>5, <2>6 DEF Instances, Registered, accVars, wkVars
<1>6. ASSUME NEW c \in Clients, Send(c) PROVE Instances' /\ Registered'
  <2>1. pc[c] \notin {"new", "gone"}
    BY <1>6 DEF Send, Calling
  <2>2. pipe[c] \in Pipes /\ end[pipe[c]] \in {"open", "cut"}
    BY <2>1, PipeOf
  <2>3. PICK to \in ClientPlaces \ {"new", "gone"} : pc' = [pc EXCEPT ![c] = to]
    BY <1>6 DEF Send, Goes, Sends, ClientPlaces, Calling
  <2>4. UNCHANGED <<pipe, end, accVars, wkVars>>
    BY <1>6 DEF Send, pipeVars
  <2>5. ASSUME NEW q \in Pipes PROVE Instance(q)'
    <3>1. Instance(q)
      BY DEF Instances
    <3>2. toServer'[q] = toServer[q] \/ end[q] = "open"
      BY <1>6 DEF Send, Sends, pipeVars
    <3>3. toClient'[q] = toClient[q] \/ end[q] \in {"open", "cut"}
      BY <1>6, <2>2 DEF Send, Takes, PipeTypes, pipeVars
    <3>4. wk'[q] = wk[q] /\ (inst' = q <=> inst = q) /\ end'[q] = end[q]
      BY <2>4 DEF wkVars, accVars
    <3>. QED  BY <2>4, <3>1, <3>2, <3>3, <3>4, InstanceFrame
  <2>6. \A d \in Clients : pipe'[d] = None <=> pc'[d] \in {"new", "gone"}
    BY <2>1, <2>3, <2>4 DEF Instances, ClientTypes
  <2>. QED  BY <2>4, <2>5, <2>6 DEF Instances, Registered, accVars, wkVars
<1>7. ASSUME NEW c \in Clients, CallFails(c) PROVE Instances' /\ Registered'
  <2>1. pc[c] \notin {"new", "gone"}
    BY <1>7 DEF CallFails, Calling
  <2>2. pipe[c] \in Pipes /\ end[pipe[c]] \in {"open", "cut"}
    BY <2>1, PipeOf
  <2>3. PICK to \in ClientPlaces \ {"new", "gone"} : pc' = [pc EXCEPT ![c] = to]
    BY <1>7 DEF CallFails, Ends, Goes, Broken, Arrived, Calling, ClientPlaces
  <2>4. UNCHANGED <<pipe, end, accVars, wkVars>>
    BY <1>7 DEF CallFails, pipeVars
  <2>5. ASSUME NEW q \in Pipes PROVE Instance(q)'
    <3>1. Instance(q)
      BY DEF Instances
    <3>2. toServer'[q] = toServer[q] \/ end[q] = "open"
      BY <1>7 DEF CallFails, Sends, pipeVars
    <3>3. toClient'[q] = toClient[q] \/ end[q] \in {"open", "cut"}
      BY <1>7, <2>2 DEF CallFails, Takes, PipeTypes, pipeVars
    <3>4. wk'[q] = wk[q] /\ (inst' = q <=> inst = q) /\ end'[q] = end[q]
      BY <2>4 DEF wkVars, accVars
    <3>. QED  BY <2>4, <3>1, <3>2, <3>3, <3>4, InstanceFrame
  <2>6. \A d \in Clients : pipe'[d] = None <=> pc'[d] \in {"new", "gone"}
    BY <2>1, <2>3, <2>4 DEF Instances, ClientTypes
  <2>. QED  BY <2>4, <2>5, <2>6 DEF Instances, Registered, accVars, wkVars
<1>8. ASSUME NEW c \in Clients, Receive(c) PROVE Instances' /\ Registered'
  <2>1. pc[c] \notin {"new", "gone"}
    BY <1>8 DEF Receive, Calling
  <2>2. pipe[c] \in Pipes /\ end[pipe[c]] \in {"open", "cut"}
    BY <2>1, PipeOf
  <2>3. PICK to \in ClientPlaces \ {"new", "gone"} : pc' = [pc EXCEPT ![c] = to]
    BY <1>8 DEF Receive, Replied, Ends, Goes, Takes, Arrived, Got, Expected, Calling,
       ClientPlaces
  <2>4. UNCHANGED <<pipe, end, accVars, wkVars>>
    BY <1>8 DEF Receive, pipeVars
  <2>5. ASSUME NEW q \in Pipes PROVE Instance(q)'
    <3>1. Instance(q)
      BY DEF Instances
    <3>2. toServer'[q] = toServer[q] \/ end[q] = "open"
      BY <1>8 DEF Receive, Sends, pipeVars
    <3>3. toClient'[q] = toClient[q] \/ end[q] \in {"open", "cut"}
      BY <1>8, <2>2 DEF Receive, Takes, PipeTypes, pipeVars
    <3>4. wk'[q] = wk[q] /\ (inst' = q <=> inst = q) /\ end'[q] = end[q]
      BY <2>4 DEF wkVars, accVars
    <3>. QED  BY <2>4, <3>1, <3>2, <3>3, <3>4, InstanceFrame
  <2>6. \A d \in Clients : pipe'[d] = None <=> pc'[d] \in {"new", "gone"}
    BY <2>1, <2>3, <2>4 DEF Instances, ClientTypes
  <2>. QED  BY <2>4, <2>5, <2>6 DEF Instances, Registered, accVars, wkVars
<1>9. ASSUME NEW c \in Clients, NoMemory(c) PROVE Instances' /\ Registered'
  <2>1. pc[c] \notin {"new", "gone"}
    BY <1>9 DEF NoMemory, Calling
  <2>2. pipe[c] \in Pipes /\ end[pipe[c]] \in {"open", "cut"}
    BY <2>1, PipeOf
  <2>3. PICK to \in ClientPlaces \ {"new", "gone"} : pc' = [pc EXCEPT ![c] = to]
    BY <1>9 DEF NoMemory, Ends, Goes, Takes, Arrived, Got, Expected, ClientPlaces, Calling
  <2>4. UNCHANGED <<pipe, end, accVars, wkVars>>
    BY <1>9 DEF NoMemory, pipeVars
  <2>5. ASSUME NEW q \in Pipes PROVE Instance(q)'
    <3>1. Instance(q)
      BY DEF Instances
    <3>2. toServer'[q] = toServer[q] \/ end[q] = "open"
      BY <1>9 DEF NoMemory, Sends, pipeVars
    <3>3. toClient'[q] = toClient[q] \/ end[q] \in {"open", "cut"}
      BY <1>9, <2>2 DEF NoMemory, Takes, PipeTypes, pipeVars
    <3>4. wk'[q] = wk[q] /\ (inst' = q <=> inst = q) /\ end'[q] = end[q]
      BY <2>4 DEF wkVars, accVars
    <3>. QED  BY <2>4, <3>1, <3>2, <3>3, <3>4, InstanceFrame
  <2>6. \A d \in Clients : pipe'[d] = None <=> pc'[d] \in {"new", "gone"}
    BY <2>1, <2>3, <2>4 DEF Instances, ClientTypes
  <2>. QED  BY <2>4, <2>5, <2>6 DEF Instances, Registered, accVars, wkVars
<1>10. ASSUME NEW c \in Clients, Garbled(c) PROVE Instances' /\ Registered'
  <2>1. pc[c] \notin {"new", "gone"}
    BY <1>10 DEF Garbled, Calling
  <2>2. pipe[c] \in Pipes /\ end[pipe[c]] \in {"open", "cut"}
    BY <2>1, PipeOf
  <2>3. PICK to \in ClientPlaces \ {"new", "gone"} : pc' = [pc EXCEPT ![c] = to]
    BY <1>10 DEF Garbled, Ends, Goes, Arrived, Got, Expected, Calling, ClientPlaces
  <2>4. UNCHANGED <<pipe, end, accVars, wkVars>>
    BY <1>10 DEF Garbled, pipeVars
  <2>5. ASSUME NEW q \in Pipes PROVE Instance(q)'
    <3>1. Instance(q)
      BY DEF Instances
    <3>2. toServer'[q] = toServer[q] \/ end[q] = "open"
      BY <1>10 DEF Garbled, Sends, pipeVars
    <3>3. toClient'[q] = toClient[q] \/ end[q] \in {"open", "cut"}
      BY <1>10, <2>2 DEF Garbled, Takes, PipeTypes, pipeVars
    <3>4. wk'[q] = wk[q] /\ (inst' = q <=> inst = q) /\ end'[q] = end[q]
      BY <2>4 DEF wkVars, accVars
    <3>. QED  BY <2>4, <3>1, <3>2, <3>3, <3>4, InstanceFrame
  <2>6. \A d \in Clients : pipe'[d] = None <=> pc'[d] \in {"new", "gone"}
    BY <2>1, <2>3, <2>4 DEF Instances, ClientTypes
  <2>. QED  BY <2>4, <2>5, <2>6 DEF Instances, Registered, accVars, wkVars
<1>11. ASSUME NEW c \in Clients, Leave(c) PROVE Instances' /\ Registered'
  <2>1. /\ UNCHANGED <<accVars, wkVars>> /\ pc' = [pc EXCEPT ![c] = "gone"]
        /\ pipe' = [pipe EXCEPT ![c] = None]
    BY <1>11 DEF Leave, Goes
  <2>2. CASE pipe[c] = None
    <3>1. pipe' = pipe /\ UNCHANGED pipeVars
      BY <1>11, <2>1, <2>2 DEF Leave, ClientTypes
    <3>2. \A d \in Clients : pipe'[d] = None <=> pc'[d] \in {"new", "gone"}
      BY <2>1, <2>2 DEF Instances, ClientTypes
    <3>. QED  BY <2>1, <3>1, <3>2
              DEF Instances, Instance, Nobody, Registered, pipeVars, accVars, wkVars
  <2>3. CASE pipe[c] # None
    <3>1. pipe[c] \in Pipes /\ end[pipe[c]] \in {"open", "cut"} /\ Hang(pipe[c])
      BY <1>11, <2>3, PipeOf DEF Leave, Instances
    <3>. QED  BY <2>1, <3>1, HangStep
  <2>. QED  BY <2>2, <2>3
<1>42. ASSUME NEW p \in Pipes, NoContext(p) PROVE Instances' /\ Registered'
  <2>1. /\ wk[p] = "start" /\ wk' = [wk EXCEPT ![p] = "doomed"]
        /\ UNCHANGED <<cliVars, pipeVars, accVars>>
    BY <1>42 DEF NoContext, Steps
  <2>2. ASSUME NEW q \in Pipes PROVE Instance(q)'
    <3>1. Instance(q) /\ wk'[q] = IF q = p THEN "doomed" ELSE wk[q]
      BY <2>1 DEF Instances, WorkerTypes
    <3>. QED  BY <2>1, <3>1 DEF Instance, Nobody, cliVars, pipeVars, accVars
  <2>3. Registered'
    BY <2>1 DEF Registered, WorkerTypes, accVars
  <2>. QED  BY <2>1, <2>2, <2>3 DEF Instances, cliVars, pipeVars, accVars
<1>12. ASSUME NEW p \in Pipes, Start(p) PROVE Instances' /\ Registered'
  <2>1. PICK to \in WorkerPlaces \ Ended : wk' = [wk EXCEPT ![p] = to]
    BY <1>12 DEF Start, Steps, others, WorkerPlaces, Reading, Writing
  <2>2. wk[p] \notin Ended
    BY <1>12 DEF Start, Steps, others
  <2>3. UNCHANGED <<pipe, pc, end, accVars>>
    BY <1>12 DEF Start, Steps, others, cliVars, pipeVars
  <2>4. ASSUME NEW q \in Pipes PROVE Instance(q)'
    <3>1. Instance(q) /\ Instance(p)
      BY DEF Instances
    <3>2. toServer'[q] = toServer[q] \/ q = p
      BY <1>12 DEF Start, Steps, others, pipeVars
    <3>3. toClient'[q] = toClient[q] \/ (q = p /\ end[p] = "open")
      BY <1>12 DEF Start, Steps, others, pipeVars, PipeTypes
    <3>4. /\ wk'[q] \in Ended \/ wk[q] \notin Ended
          /\ wk'[q] \in Leaving => wk[q] \in Leaving
      BY <2>1, <2>2 DEF WorkerTypes
    <3>5. end[q] \in {"open", "hung"} \/ q # p
      BY <2>2, <3>1 DEF Instance
    <3>. QED  BY <2>3, <3>1, <3>2, <3>3, <3>4, <3>5, InstanceFrame DEF accVars
  <2>5. Registered'
    BY <2>1, <2>2, <2>3 DEF Registered, accVars, WorkerTypes
  <2>. QED  BY <2>3, <2>4, <2>5 DEF Instances, accVars
<1>13. ASSUME NEW p \in Pipes, Greet(p) PROVE Instances' /\ Registered'
  <2>1. PICK to \in WorkerPlaces \ Ended : wk' = [wk EXCEPT ![p] = to]
    BY <1>13 DEF Greet, Steps, others, Arrives, WorkerPlaces, Reading, Writing
  <2>2. wk[p] \notin Ended
    BY <1>13 DEF Greet, Steps, others, Arrives
  <2>3. UNCHANGED <<pipe, pc, end, accVars>>
    BY <1>13 DEF Greet, Steps, others, Arrives, cliVars, pipeVars
  <2>4. ASSUME NEW q \in Pipes PROVE Instance(q)'
    <3>1. Instance(q) /\ Instance(p)
      BY DEF Instances
    <3>2. toServer'[q] = toServer[q] \/ q = p
      BY <1>13 DEF Greet, Steps, others, Arrives, pipeVars
    <3>3. toClient'[q] = toClient[q] \/ (q = p /\ end[p] = "open")
      BY <1>13 DEF Greet, Steps, others, Arrives, pipeVars, PipeTypes
    <3>4. /\ wk'[q] \in Ended \/ wk[q] \notin Ended
          /\ wk'[q] \in Leaving => wk[q] \in Leaving
      BY <2>1, <2>2 DEF WorkerTypes
    <3>5. end[q] \in {"open", "hung"} \/ q # p
      BY <2>2, <3>1 DEF Instance
    <3>. QED  BY <2>3, <3>1, <3>2, <3>3, <3>4, <3>5, InstanceFrame DEF accVars
  <2>5. Registered'
    BY <2>1, <2>2, <2>3 DEF Registered, accVars, WorkerTypes
  <2>. QED  BY <2>3, <2>4, <2>5 DEF Instances, accVars
<1>14. ASSUME NEW p \in Pipes, Top(p) PROVE Instances' /\ Registered'
  <2>1. PICK to \in WorkerPlaces \ Ended : wk' = [wk EXCEPT ![p] = to]
    BY <1>14 DEF Top, Steps, others, WorkerPlaces, Reading, Writing
  <2>2. wk[p] \notin Ended
    BY <1>14 DEF Top, Steps, others
  <2>3. UNCHANGED <<pipe, pc, end, accVars>>
    BY <1>14 DEF Top, Steps, others, cliVars, pipeVars
  <2>4. ASSUME NEW q \in Pipes PROVE Instance(q)'
    <3>1. Instance(q) /\ Instance(p)
      BY DEF Instances
    <3>2. toServer'[q] = toServer[q] \/ q = p
      BY <1>14 DEF Top, Steps, others, pipeVars
    <3>3. toClient'[q] = toClient[q] \/ (q = p /\ end[p] = "open")
      BY <1>14 DEF Top, Steps, others, pipeVars, PipeTypes
    <3>4. /\ wk'[q] \in Ended \/ wk[q] \notin Ended
          /\ wk'[q] \in Leaving => wk[q] \in Leaving
      BY <2>1, <2>2 DEF WorkerTypes
    <3>5. end[q] \in {"open", "hung"} \/ q # p
      BY <2>2, <3>1 DEF Instance
    <3>. QED  BY <2>3, <3>1, <3>2, <3>3, <3>4, <3>5, InstanceFrame DEF accVars
  <2>5. Registered'
    BY <2>1, <2>2, <2>3 DEF Registered, accVars, WorkerTypes
  <2>. QED  BY <2>3, <2>4, <2>5 DEF Instances, accVars
<1>15. ASSUME NEW p \in Pipes, ReadRequest(p) PROVE Instances' /\ Registered'
  <2>1. PICK to \in WorkerPlaces \ Ended : wk' = [wk EXCEPT ![p] = to]
    BY <1>15 DEF ReadRequest, Steps, others, Arrives, WorkerPlaces, Reading, Writing
  <2>2. wk[p] \notin Ended
    BY <1>15 DEF ReadRequest, Steps, others, Arrives
  <2>3. UNCHANGED <<pipe, pc, end, accVars>>
    BY <1>15 DEF ReadRequest, Steps, others, Arrives, cliVars, pipeVars
  <2>4. ASSUME NEW q \in Pipes PROVE Instance(q)'
    <3>1. Instance(q) /\ Instance(p)
      BY DEF Instances
    <3>2. toServer'[q] = toServer[q] \/ q = p
      BY <1>15 DEF ReadRequest, Steps, others, Arrives, pipeVars
    <3>3. toClient'[q] = toClient[q] \/ (q = p /\ end[p] = "open")
      BY <1>15 DEF ReadRequest, Steps, others, Arrives, pipeVars, PipeTypes
    <3>4. /\ wk'[q] \in Ended \/ wk[q] \notin Ended
          /\ wk'[q] \in Leaving => wk[q] \in Leaving
      BY <2>1, <2>2 DEF WorkerTypes
    <3>5. end[q] \in {"open", "hung"} \/ q # p
      BY <2>2, <3>1 DEF Instance
    <3>. QED  BY <2>3, <3>1, <3>2, <3>3, <3>4, <3>5, InstanceFrame DEF accVars
  <2>5. Registered'
    BY <2>1, <2>2, <2>3 DEF Registered, accVars, WorkerTypes
  <2>. QED  BY <2>3, <2>4, <2>5 DEF Instances, accVars
<1>16. ASSUME NEW p \in Pipes, Handle(p) PROVE Instances' /\ Registered'
  <2>1. PICK to \in WorkerPlaces \ Ended : wk' = [wk EXCEPT ![p] = to]
    BY <1>16 DEF Handle, Steps, others, WorkerPlaces, Reading, Writing
  <2>2. wk[p] \notin Ended
    BY <1>16 DEF Handle, Steps, others
  <2>3. UNCHANGED <<pipe, pc, end, accVars>>
    BY <1>16 DEF Handle, Steps, others, cliVars, pipeVars
  <2>4. ASSUME NEW q \in Pipes PROVE Instance(q)'
    <3>1. Instance(q) /\ Instance(p)
      BY DEF Instances
    <3>2. toServer'[q] = toServer[q] \/ q = p
      BY <1>16 DEF Handle, Steps, others, pipeVars
    <3>3. toClient'[q] = toClient[q] \/ (q = p /\ end[p] = "open")
      BY <1>16 DEF Handle, Steps, others, pipeVars, PipeTypes
    <3>4. /\ wk'[q] \in Ended \/ wk[q] \notin Ended
          /\ wk'[q] \in Leaving => wk[q] \in Leaving
      BY <2>1, <2>2 DEF WorkerTypes
    <3>5. end[q] \in {"open", "hung"} \/ q # p
      BY <2>2, <3>1 DEF Instance
    <3>. QED  BY <2>3, <3>1, <3>2, <3>3, <3>4, <3>5, InstanceFrame DEF accVars
  <2>5. Registered'
    BY <2>1, <2>2, <2>3 DEF Registered, accVars, WorkerTypes
  <2>. QED  BY <2>3, <2>4, <2>5 DEF Instances, accVars
<1>17. ASSUME NEW p \in Pipes, Check(p) PROVE Instances' /\ Registered'
  <2>1. PICK to \in WorkerPlaces \ Ended : wk' = [wk EXCEPT ![p] = to]
    BY <1>17 DEF Check, Steps, others, WorkerPlaces, Reading, Writing
  <2>2. wk[p] \notin Ended
    BY <1>17 DEF Check, Steps, others
  <2>3. UNCHANGED <<pipe, pc, end, accVars>>
    BY <1>17 DEF Check, Steps, others, cliVars, pipeVars
  <2>4. ASSUME NEW q \in Pipes PROVE Instance(q)'
    <3>1. Instance(q) /\ Instance(p)
      BY DEF Instances
    <3>2. toServer'[q] = toServer[q] \/ q = p
      BY <1>17 DEF Check, Steps, others, pipeVars
    <3>3. toClient'[q] = toClient[q] \/ (q = p /\ end[p] = "open")
      BY <1>17 DEF Check, Steps, others, pipeVars, PipeTypes
    <3>4. /\ wk'[q] \in Ended \/ wk[q] \notin Ended
          /\ wk'[q] \in Leaving => wk[q] \in Leaving
      BY <2>1, <2>2 DEF WorkerTypes
    <3>5. end[q] \in {"open", "hung"} \/ q # p
      BY <2>2, <3>1 DEF Instance
    <3>. QED  BY <2>3, <3>1, <3>2, <3>3, <3>4, <3>5, InstanceFrame DEF accVars
  <2>5. Registered'
    BY <2>1, <2>2, <2>3 DEF Registered, accVars, WorkerTypes
  <2>. QED  BY <2>3, <2>4, <2>5 DEF Instances, accVars
<1>18. ASSUME NEW p \in Pipes, ReplySize(p) PROVE Instances' /\ Registered'
  <2>1. PICK to \in WorkerPlaces \ Ended : wk' = [wk EXCEPT ![p] = to]
    BY <1>18 DEF ReplySize, Steps, others, Writes, Answer, WorkerPlaces, Reading, Writing
  <2>2. wk[p] \notin Ended
    BY <1>18 DEF ReplySize, Steps, others, Writes, Answer
  <2>3. UNCHANGED <<pipe, pc, end, accVars>>
    BY <1>18 DEF ReplySize, Steps, others, Writes, Answer, cliVars, pipeVars
  <2>4. ASSUME NEW q \in Pipes PROVE Instance(q)'
    <3>1. Instance(q) /\ Instance(p)
      BY DEF Instances
    <3>2. toServer'[q] = toServer[q] \/ q = p
      BY <1>18 DEF ReplySize, Steps, others, Writes, Answer, pipeVars
    <3>3. toClient'[q] = toClient[q] \/ (q = p /\ end[p] = "open")
      BY <1>18 DEF ReplySize, Steps, others, Writes, Answer, pipeVars, PipeTypes
    <3>4. /\ wk'[q] \in Ended \/ wk[q] \notin Ended
          /\ wk'[q] \in Leaving => wk[q] \in Leaving
      BY <2>1, <2>2 DEF WorkerTypes
    <3>5. end[q] \in {"open", "hung"} \/ q # p
      BY <2>2, <3>1 DEF Instance
    <3>. QED  BY <2>3, <3>1, <3>2, <3>3, <3>4, <3>5, InstanceFrame DEF accVars
  <2>5. Registered'
    BY <2>1, <2>2, <2>3 DEF Registered, accVars, WorkerTypes
  <2>. QED  BY <2>3, <2>4, <2>5 DEF Instances, accVars
<1>19. ASSUME NEW p \in Pipes, ReplyBody(p) PROVE Instances' /\ Registered'
  <2>1. PICK to \in WorkerPlaces \ Ended : wk' = [wk EXCEPT ![p] = to]
    BY <1>19 DEF ReplyBody, Steps, others, Writes, Answer, WorkerPlaces, Reading, Writing
  <2>2. wk[p] \notin Ended
    BY <1>19 DEF ReplyBody, Steps, others, Writes, Answer
  <2>3. UNCHANGED <<pipe, pc, end, accVars>>
    BY <1>19 DEF ReplyBody, Steps, others, Writes, Answer, cliVars, pipeVars
  <2>4. ASSUME NEW q \in Pipes PROVE Instance(q)'
    <3>1. Instance(q) /\ Instance(p)
      BY DEF Instances
    <3>2. toServer'[q] = toServer[q] \/ q = p
      BY <1>19 DEF ReplyBody, Steps, others, Writes, Answer, pipeVars
    <3>3. toClient'[q] = toClient[q] \/ (q = p /\ end[p] = "open")
      BY <1>19 DEF ReplyBody, Steps, others, Writes, Answer, pipeVars, PipeTypes
    <3>4. /\ wk'[q] \in Ended \/ wk[q] \notin Ended
          /\ wk'[q] \in Leaving => wk[q] \in Leaving
      BY <2>1, <2>2 DEF WorkerTypes
    <3>5. end[q] \in {"open", "hung"} \/ q # p
      BY <2>2, <3>1 DEF Instance
    <3>. QED  BY <2>3, <3>1, <3>2, <3>3, <3>4, <3>5, InstanceFrame DEF accVars
  <2>5. Registered'
    BY <2>1, <2>2, <2>3 DEF Registered, accVars, WorkerTypes
  <2>. QED  BY <2>3, <2>4, <2>5 DEF Instances, accVars
<1>20. ASSUME NEW p \in Pipes, ReplyError(p) PROVE Instances' /\ Registered'
  <2>1. PICK to \in WorkerPlaces \ Ended : wk' = [wk EXCEPT ![p] = to]
    BY <1>20 DEF ReplyError, Steps, others, ErrorReply, Writes, Answer, WorkerPlaces,
       Reading, Writing
  <2>2. wk[p] \notin Ended
    BY <1>20 DEF ReplyError, Steps, others, ErrorReply, Writes, Answer
  <2>3. UNCHANGED <<pipe, pc, end, accVars>>
    BY <1>20 DEF ReplyError, Steps, others, ErrorReply, Writes, Answer, cliVars, pipeVars
  <2>4. ASSUME NEW q \in Pipes PROVE Instance(q)'
    <3>1. Instance(q) /\ Instance(p)
      BY DEF Instances
    <3>2. toServer'[q] = toServer[q] \/ q = p
      BY <1>20 DEF ReplyError, Steps, others, ErrorReply, Writes, Answer, pipeVars
    <3>3. toClient'[q] = toClient[q] \/ (q = p /\ end[p] = "open")
      BY <1>20 DEF ReplyError, Steps, others, ErrorReply, Writes, Answer, pipeVars, PipeTypes
    <3>4. /\ wk'[q] \in Ended \/ wk[q] \notin Ended
          /\ wk'[q] \in Leaving => wk[q] \in Leaving
      BY <2>1, <2>2 DEF WorkerTypes
    <3>5. end[q] \in {"open", "hung"} \/ q # p
      BY <2>2, <3>1 DEF Instance
    <3>. QED  BY <2>3, <3>1, <3>2, <3>3, <3>4, <3>5, InstanceFrame DEF accVars
  <2>5. Registered'
    BY <2>1, <2>2, <2>3 DEF Registered, accVars, WorkerTypes
  <2>. QED  BY <2>3, <2>4, <2>5 DEF Instances, accVars
<1>21. ASSUME NEW p \in Pipes, ConnectionFails(p) PROVE Instances' /\ Registered'
  <2>1. PICK to \in WorkerPlaces \ Ended : wk' = [wk EXCEPT ![p] = to]
    BY <1>21 DEF ConnectionFails, Fails, others, Reading, Writing, Arrives, WorkerPlaces
  <2>2. wk[p] \notin Ended
    BY <1>21 DEF ConnectionFails, Fails, others, Reading, Writing, Arrives
  <2>3. UNCHANGED <<pipe, pc, end, accVars>>
    BY <1>21 DEF ConnectionFails, Fails, others, Reading, Writing, Arrives, cliVars, pipeVars
  <2>4. ASSUME NEW q \in Pipes PROVE Instance(q)'
    <3>1. Instance(q) /\ Instance(p)
      BY DEF Instances
    <3>2. toServer'[q] = toServer[q] \/ q = p
      BY <1>21 DEF ConnectionFails, Fails, others, Reading, Writing, Arrives, pipeVars
    <3>3. toClient'[q] = toClient[q] \/ (q = p /\ end[p] = "open")
      BY <1>21 DEF ConnectionFails, Fails, others, Reading, Writing, Arrives, pipeVars,
         PipeTypes
    <3>4. /\ wk'[q] \in Ended \/ wk[q] \notin Ended
          /\ wk'[q] \in Leaving => wk[q] \in Leaving
      BY <2>1, <2>2 DEF WorkerTypes
    <3>5. end[q] \in {"open", "hung"} \/ q # p
      BY <2>2, <3>1 DEF Instance
    <3>. QED  BY <2>3, <3>1, <3>2, <3>3, <3>4, <3>5, InstanceFrame DEF accVars
  <2>5. Registered'
    BY <2>1, <2>2, <2>3 DEF Registered, accVars, WorkerTypes
  <2>. QED  BY <2>3, <2>4, <2>5 DEF Instances, accVars
<1>22. ASSUME NEW p \in Pipes, GrowFails(p) PROVE Instances' /\ Registered'
  <2>1. PICK to \in WorkerPlaces \ Ended : wk' = [wk EXCEPT ![p] = to]
    BY <1>22 DEF GrowFails, Fails, WorkerPlaces, Reading, Writing
  <2>2. wk[p] \notin Ended
    BY <1>22 DEF GrowFails, Fails
  <2>3. UNCHANGED <<pipe, pc, end, accVars>>
    BY <1>22 DEF GrowFails, Fails, cliVars, pipeVars
  <2>4. ASSUME NEW q \in Pipes PROVE Instance(q)'
    <3>1. Instance(q) /\ Instance(p)
      BY DEF Instances
    <3>2. toServer'[q] = toServer[q] \/ q = p
      BY <1>22 DEF GrowFails, Fails, pipeVars
    <3>3. toClient'[q] = toClient[q] \/ (q = p /\ end[p] = "open")
      BY <1>22 DEF GrowFails, Fails, pipeVars, PipeTypes
    <3>4. /\ wk'[q] \in Ended \/ wk[q] \notin Ended
          /\ wk'[q] \in Leaving => wk[q] \in Leaving
      BY <2>1, <2>2 DEF WorkerTypes
    <3>5. end[q] \in {"open", "hung"} \/ q # p
      BY <2>2, <3>1 DEF Instance
    <3>. QED  BY <2>3, <3>1, <3>2, <3>3, <3>4, <3>5, InstanceFrame DEF accVars
  <2>5. Registered'
    BY <2>1, <2>2, <2>3 DEF Registered, accVars, WorkerTypes
  <2>. QED  BY <2>3, <2>4, <2>5 DEF Instances, accVars
<1>23. ASSUME NEW p \in Pipes, Flush(p) PROVE Instances' /\ Registered'
  <2>1. PICK to \in WorkerPlaces \ Ended : wk' = [wk EXCEPT ![p] = to]
    BY <1>23 DEF Flush, Steps, others, WorkerPlaces, Reading, Writing
  <2>2. wk[p] \notin Ended
    BY <1>23 DEF Flush, Steps, others
  <2>3. UNCHANGED <<pipe, pc, end, accVars>>
    BY <1>23 DEF Flush, Steps, others, cliVars, pipeVars
  <2>4. ASSUME NEW q \in Pipes PROVE Instance(q)'
    <3>1. Instance(q) /\ Instance(p)
      BY DEF Instances
    <3>2. toServer'[q] = toServer[q] \/ q = p
      BY <1>23 DEF Flush, Steps, others, pipeVars
    <3>3. toClient'[q] = toClient[q] \/ (q = p /\ end[p] = "open")
      BY <1>23 DEF Flush, Steps, others, pipeVars, PipeTypes
    <3>4. /\ wk'[q] \in Ended \/ wk[q] \notin Ended
          /\ wk'[q] \in Leaving => wk[q] \in Leaving
      BY <2>1, <2>2 DEF WorkerTypes
    <3>5. end[q] \in {"open", "hung"} \/ q # p
      BY <2>2, <3>1 DEF Instance
    <3>. QED  BY <2>3, <3>1, <3>2, <3>3, <3>4, <3>5, InstanceFrame DEF accVars
  <2>5. Registered'
    BY <2>1, <2>2, <2>3 DEF Registered, accVars, WorkerTypes
  <2>. QED  BY <2>3, <2>4, <2>5 DEF Instances, accVars
<1>24. ASSUME NEW p \in Pipes, Disconnect(p) PROVE Instances' /\ Registered'
  <2>1. /\ wk[p] = "leave" /\ wk' = [wk EXCEPT ![p] = "delete"]
        /\ UNCHANGED <<cliVars, acc, inst, clients>>
    BY <1>24 DEF Disconnect, Steps, others, accVars
  <2>2. /\ end' = [end EXCEPT ![p] = Closed(end[p])]
        /\ toServer' = [toServer EXCEPT ![p] = <<>>] /\ toClient' = [toClient EXCEPT ![p] = <<>>]
    BY <1>24 DEF Disconnect
  <2>3. inst # p
    BY <2>1, ConstantsAssumption DEF Registered
  <2>4. ASSUME NEW q \in Pipes PROVE Instance(q)'
    <3>1. Instance(q) /\ (Nobody(q)' <=> Nobody(q))
      BY <2>1 DEF Instances, Nobody, cliVars
    <3>2. CASE q = p
      <4>1. /\ end'[q] = IF end[q] \in {"open", "cut"} THEN "cut" ELSE "none"
            /\ toServer'[q] = <<>> /\ toClient'[q] = <<>> /\ wk'[q] = "delete"
        BY <2>1, <2>2, <3>2 DEF Closed, PipeTypes, WorkerTypes
      <4>. QED  BY <2>1, <2>3, <3>1, <3>2, <4>1 DEF Instance
    <3>3. CASE q # p
      <4>1. /\ end'[q] = end[q] /\ toServer'[q] = toServer[q]
            /\ toClient'[q] = toClient[q] /\ wk'[q] = wk[q]
        BY <2>1, <2>2, <3>3 DEF PipeTypes, WorkerTypes
      <4>. QED  BY <2>1, <3>1, <4>1 DEF Instance
    <3>. QED  BY <3>2, <3>3
  <2>5. acc' = "accepted" => end'[inst'] \in {"open", "hung"}
    BY <2>1, <2>2, <2>3 DEF Instances, PipeTypes, ServerTypes
  <2>6. Registered'
    BY <2>1, <2>3 DEF Registered, WorkerTypes
  <2>. QED  BY <2>1, <2>4, <2>5, <2>6 DEF Instances, cliVars
<1>43. ASSUME NEW p \in Pipes, Delete(p) PROVE Instances' /\ Registered'
  <2>1. /\ wk[p] = "delete" /\ wk' = [wk EXCEPT ![p] = "unlock"] /\ clients' = clients \ {p}
        /\ UNCHANGED <<cliVars, pipeVars, acc, inst>>
    BY <1>43 DEF Delete, Steps
  <2>2. ASSUME NEW q \in Pipes PROVE Instance(q)'
    <3>1. Instance(q) /\ wk'[q] = IF q = p THEN "unlock" ELSE wk[q]
      BY <2>1 DEF Instances, WorkerTypes
    <3>. QED  BY <2>1, <3>1 DEF Instance, Nobody, cliVars, pipeVars
  <2>3. Registered'
    BY <2>1 DEF Registered, WorkerTypes
  <2>. QED  BY <2>1, <2>2, <2>3 DEF Instances, cliVars, pipeVars
<1>25. ASSUME NEW p \in Pipes, Release(p), serv # "gone", held[p] # "freed" PROVE Instances' /\ Registered'
  <2>1. /\ wk[p] = "unlock" /\ wk' = [wk EXCEPT ![p] = "none"]
        /\ UNCHANGED <<cliVars, pipeVars, accVars>>
    BY <1>25 DEF Release, Steps, others
  <2>2. ASSUME NEW q \in Pipes PROVE Instance(q)'
    <3>1. Instance(q) /\ wk'[q] = IF q = p THEN "none" ELSE wk[q]
      BY <2>1 DEF Instances, WorkerTypes
    <3>. QED  BY <2>1, <3>1 DEF Instance, Nobody, cliVars, pipeVars, accVars
  <2>3. Registered'
    BY <2>1 DEF Registered, WorkerTypes, accVars
  <2>. QED  BY <2>1, <2>2, <2>3 DEF Instances, cliVars, pipeVars, accVars
<1>26. CASE AcceptorStops
  <2>1. acc' = "over" /\ inst' = None /\ UNCHANGED <<cliVars, clients, wkVars>>
    BY <1>26 DEF AcceptorStops, Stops
  <2>2. CASE inst = None
    <3>1. UNCHANGED pipeVars
      BY <1>26, <2>2 DEF AcceptorStops, Stops
    <3>. QED  BY <2>1, <2>2, <3>1
              DEF Instances, Instance, Nobody, Registered, pipeVars, cliVars, wkVars
  <2>3. CASE inst # None
    <3>1. CloseInstance(inst)
      BY <1>26, <2>3 DEF AcceptorStops, Stops
    <3>. QED  BY <2>1, <2>3, <3>1, CloseStep DEF wkVars
  <2>. QED  BY <2>2, <2>3
<1>44. CASE CannotRegister
  <2>1. acc' = "over" /\ inst' = None /\ inst # None /\ UNCHANGED <<cliVars, clients>>
    BY <1>44 DEF CannotRegister, Stops, Instances
  <2>2. CloseInstance(inst) /\ wk' = [wk EXCEPT ![inst] = "doomed"]
    BY <1>44, <2>1 DEF CannotRegister, Stops
  <2>. QED  BY <2>1, <2>2, CloseStep
<1>27. CASE Prepare
  <2>1. /\ acc' = "accept" /\ (inst = None \/ UNCHANGED <<inst, end>>)
        /\ UNCHANGED <<cliVars, toServer, toClient, clients, wkVars>>
    BY <1>27 DEF Prepare
  <2>2. CASE NewInstance
    <3>1. PICK q \in Unused : inst' = q /\ end' = [end EXCEPT ![q] = "listen"]
      BY <2>2 DEF NewInstance
    <3>2. q \in Pipes /\ end[q] = "none" /\ wk[q] = "none"
      BY <3>1 DEF Unused
    <3>3. ASSUME NEW r \in Pipes PROVE Instance(r)'
      <4>1. Instance(r) /\ Instance(q) /\ (Nobody(r)' <=> Nobody(r))
        BY <2>1, <3>2 DEF Instances, Nobody, cliVars
      <4>2. end'[r] = IF r = q THEN "listen" ELSE end[r]
        BY <3>1, <3>2 DEF PipeTypes
      <4>. QED  BY <2>1, <3>1, <3>2, <4>1, <4>2, ConstantsAssumption DEF Instance, wkVars
    <3>. QED  BY <2>1, <3>1, <3>2, <3>3, ConstantsAssumption DEF Instances, Registered,
       cliVars, wkVars
  <2>3. CASE inst # None /\ UNCHANGED <<inst, end>>
    BY <2>1, <2>3 DEF Instances, Instance, Nobody, Registered, cliVars, wkVars
  <2>. QED  BY <1>27, <2>2, <2>3 DEF Prepare
<1>28. CASE Connected
  <2>1. /\ acc' = "accepted" /\ end[inst] \in {"open", "hung"} /\ inst # None
        /\ UNCHANGED <<cliVars, pipeVars, inst, clients, wkVars>>
    BY <1>28 DEF Connected, Instances
  <2>. QED  BY <2>1 DEF Instances, Instance, Nobody, Registered, cliVars, pipeVars, wkVars
<1>29. CASE ConnectsNobody
  <2>1. /\ acc' = "top" /\ inst # None /\ inst' = None /\ CloseInstance(inst)
        /\ UNCHANGED <<cliVars, clients, wkVars>>
    BY <1>29 DEF ConnectsNobody, NotConnected, Instances
  <2>. QED  BY <2>1, CloseStep DEF wkVars
<1>30. CASE StartWorker
  <2>1. inst \in Pipes /\ end[inst] \in {"open", "hung"}
    BY <1>30 DEF StartWorker, Instances, ServerTypes
  <2>2. /\ wk' = [wk EXCEPT ![inst] = "start"] /\ clients' = clients \cup {inst}
        /\ acc' = "top" /\ inst' = None /\ UNCHANGED <<cliVars, pipeVars>>
    BY <1>30 DEF StartWorker
  <2>3. ASSUME NEW q \in Pipes PROVE Instance(q)'
    <3>1. Instance(q) /\ (Nobody(q)' <=> Nobody(q))
      BY <2>2 DEF Instances, Nobody, cliVars
    <3>2. wk'[q] = IF q = inst THEN "start" ELSE wk[q]
      BY <2>1, <2>2 DEF WorkerTypes
    <3>. QED  BY <2>1, <2>2, <3>1, <3>2, ConstantsAssumption DEF Instance, pipeVars
  <2>4. Registered'
    BY <2>1, <2>2 DEF Registered, WorkerTypes
  <2>. QED  BY <2>2, <2>3, <2>4 DEF Instances, cliVars
<1>31. CASE CancelAcceptor
  <2>1. UNCHANGED <<cliVars, clients, wkVars>>
    BY <1>31 DEF CancelAcceptor
  <2>2. CASE acc = "accept" /\ NotConnected
    <3>1. acc' = "top" /\ inst # None /\ inst' = None /\ CloseInstance(inst)
      BY <2>2 DEF NotConnected, Instances
    <3>. QED  BY <2>1, <3>1, CloseStep DEF wkVars
  <2>3. CASE UNCHANGED <<acc, inst, pipeVars>>
    BY <2>1, <2>3 DEF Instances, Instance, Nobody, Registered, pipeVars, cliVars, wkVars
  <2>. QED  BY <1>31, <2>2, <2>3 DEF CancelAcceptor
<1>32. CASE CancelWorker
  <2>1. UNCHANGED <<cliVars, pipeVars, accVars>>
    BY <1>32 DEF CancelWorker
  <2>2. CASE UNCHANGED wk
    BY <2>1, <2>2 DEF Instances, Instance, Nobody, Registered, cliVars, pipeVars, accVars
  <2>3. CASE /\ wk' = [wk EXCEPT ![target] = "leave"]
             /\ wk[target] \in Reading \cup Writing \cup {"flush"}
    <3>1. wk[target] \notin Ended
      BY <2>3 DEF Reading, Writing
    <3>2. \A q \in Pipes : wk'[q] \in Ended <=> wk[q] \in Ended
      BY <2>3, <3>1 DEF WorkerTypes
    <3>3. \A q \in Pipes : /\ (wk'[q] = "none" <=> wk[q] = "none")
                          /\ (wk'[q] = "unlock" <=> wk[q] = "unlock")
                          /\ (wk'[q] \in Leaving <=> wk[q] \in Leaving)
      BY <2>3, <3>1 DEF WorkerTypes, WorkerPlaces, Reading, Writing
    <3>4. ASSUME NEW q \in Pipes PROVE Instance(q)'
      BY <2>1, <3>2, <3>3 DEF Instances, Instance, Nobody, cliVars, pipeVars, accVars
    <3>. QED  BY <2>1, <3>2, <3>3, <3>4
              DEF Instances, Registered, cliVars, pipeVars, accVars, ServerTypes
  <2>. QED  BY <1>32, <2>2, <2>3 DEF CancelWorker, Fails
<1>33. CASE JoinAcceptor \/ Visit \/ Joined \/ FreeServer
  <2>1. UNCHANGED <<cliVars, pipeVars, accVars, wkVars>>
    BY <1>33 DEF JoinAcceptor, Visit, Joined, FreeServer, wkVars
  <2>. QED  BY <2>1 DEF Instances, Instance, Nobody, Registered, cliVars, pipeVars, accVars,
     wkVars
<1>34. CASE CreateServer
  <2>1. /\ acc' = "top" /\ (inst = None \/ UNCHANGED <<inst, end>>)
        /\ UNCHANGED <<cliVars, toServer, toClient, clients, wkVars>>
    BY <1>34 DEF CreateServer, NoServer, Instances
  <2>2. CASE NewInstance
    <3>1. PICK q \in Unused : inst' = q /\ end' = [end EXCEPT ![q] = "listen"]
      BY <2>2 DEF NewInstance
    <3>2. q \in Pipes /\ end[q] = "none" /\ wk[q] = "none"
      BY <3>1 DEF Unused
    <3>3. ASSUME NEW r \in Pipes PROVE Instance(r)'
      <4>1. Instance(r) /\ Instance(q) /\ (Nobody(r)' <=> Nobody(r))
        BY <2>1, <3>2 DEF Instances, Nobody, cliVars
      <4>2. end'[r] = IF r = q THEN "listen" ELSE end[r]
        BY <3>1, <3>2 DEF PipeTypes
      <4>. QED  BY <2>1, <3>1, <3>2, <4>1, <4>2, ConstantsAssumption DEF Instance, wkVars
    <3>. QED  BY <2>1, <3>1, <3>2, <3>3, ConstantsAssumption DEF Instances, Registered,
       cliVars, wkVars
  <2>. QED  BY <1>34, <2>2 DEF CreateServer
<1>35. CASE Destroy \/ UNCHANGED vars
  <2>1. UNCHANGED <<cliVars, pipeVars, accVars, wkVars>>
    BY <1>35 DEF Destroy, vars, wkVars
  <2>. QED  BY <2>1 DEF Instances, Instance, Nobody, Registered, cliVars, pipeVars, accVars,
     wkVars
<1>36. CASE Dies
  <2>1. /\ UNCHANGED <<cliVars, toClient>> /\ clients' = {} /\ inst' = None /\ acc' = "none"
        /\ \A q \in Pipes : /\ wk'[q] = "none" /\ toServer'[q] = <<>>
                            /\ end'[q] = IF end[q] \in {"open", "cut"} THEN "cut" ELSE "none"
    BY <1>36 DEF Dies, Closed
  <2>2. ASSUME NEW q \in Pipes PROVE Instance(q)'
    <3>1. Instance(q) /\ (Nobody(q)' <=> Nobody(q)) /\ end[q] \in {"none", "listen", "open", "hung", "cut"}
      BY <2>1 DEF Instances, Nobody, cliVars, PipeTypes
    <3>. QED  BY <2>1, <3>1, ConstantsAssumption DEF Instance
  <2>. QED  BY <2>1, <2>2 DEF Instances, Registered, cliVars
<1>37. CASE Faults
  BY <1>37, <1>36 DEF Faults
<1>38. ASSUME NEW p \in Pipes, Worker(p) PROVE Instances' /\ Registered'
  BY <1>38, <1>37, <1>12, <1>13, <1>14, <1>15, <1>16, <1>17, <1>18, <1>19, <1>20, <1>21,
     <1>22, <1>23, <1>24, <1>25, <1>42, <1>43 DEF Worker, Doomed, Release
<1>39. CASE Acceptor
  BY <1>39, <1>37, <1>26, <1>27, <1>28, <1>29, <1>30, <1>44 DEF Acceptor
<1>40. CASE Destroyer
  BY <1>40, <1>37, <1>31, <1>32, <1>33 DEF Destroyer, CancelFaults, JoinFaults
<1>41. CASE ClientNext
  BY <1>41, <1>1, <1>2, <1>3, <1>4, <1>5, <1>6, <1>7, <1>8, <1>9, <1>10,
     <1>11 DEF ClientNext, Retry, GiveUp
<1>. QED
  BY <1>36, <1>34, <1>35, <1>38, <1>39, <1>40, <1>41 DEF Next, ServerNext, Killed

\* There is no acceptor as long as there is no server.
LEMMA NoServerStep == ServerTypes /\ NoServer /\ [Next]_vars => NoServer'
<1>. SUFFICES ASSUME ServerTypes, NoServer, [Next]_vars PROVE NoServer'
  OBVIOUS
<1>1. ASSUME NEW c \in Clients, 
               Connect(c) \/ ConnectFails(c) \/ Version(c) \/
               (\E to \in {"new", "gone"} : HandshakeFails(c, to)) \/ Call(c) \/
               Send(c) \/ CallFails(c) \/ Receive(c) \/ NoMemory(c) \/
               Garbled(c) \/ Leave(c)
        PROVE  NoServer'
  <2>1. UNCHANGED <<serv, acc>>
    BY <1>1 DEF Connect, ConnectFails, Version, HandshakeFails, Call, Send, CallFails,
       Receive, NoMemory, Garbled, Leave, servVars, accVars
  <2>. QED  BY <2>1 DEF NoServer
<1>2. ASSUME NEW p \in Pipes, 
               Start(p) \/ NoContext(p) \/ Delete(p) \/ Greet(p) \/ Top(p) \/ ReadRequest(p) \/ Handle(p) \/
               Check(p) \/ ReplySize(p) \/ ReplyBody(p) \/ ReplyError(p) \/
               ConnectionFails(p) \/ GrowFails(p) \/ Flush(p) \/
               Disconnect(p) \/ (Release(p) /\ serv # "gone" /\ held[p] # "freed")
        PROVE  NoServer'
  <2>1. UNCHANGED <<serv, acc>>
    BY <1>2 DEF Start, NoContext, Delete, Greet, Top, ReadRequest, Handle, Check, ReplySize, ReplyBody,
       ReplyError, ConnectionFails, GrowFails, Flush, Disconnect, Release, Steps, others,
       servVars, accVars
  <2>. QED  BY <2>1 DEF NoServer
<1>3. CASE AcceptorStops \/ CannotRegister
  BY <1>3 DEF AcceptorStops, CannotRegister, Stops, Closing, NoServer, Joining, servVars
<1>4. CASE Prepare
  BY <1>4 DEF Prepare, NewInstance, Unused, Closing, NoServer, Joining, servVars
<1>5. CASE Connected
  BY <1>5 DEF Connected, NoServer, Joining, servVars
<1>6. CASE ConnectsNobody
  BY <1>6 DEF ConnectsNobody, NotConnected, CloseInstance, Closed, NoServer, Joining, servVars
<1>7. CASE StartWorker
  BY <1>7 DEF StartWorker, Closing, NoServer, Joining, servVars
<1>8. CASE CancelAcceptor
  BY <1>8 DEF CancelAcceptor, NotConnected, CloseInstance, Closed, NoServer, Joining, servVars
<1>9. CASE JoinAcceptor
  BY <1>9 DEF JoinAcceptor, NoServer, Joining, servVars, accVars
<1>10. CASE Visit
  BY <1>10 DEF Visit, NoServer, Joining, servVars, accVars
<1>11. CASE CancelWorker
  BY <1>11 DEF CancelWorker, Gone, Fails, Reading, Writing, NoServer, Joining, servVars, accVars
<1>13. CASE Joined
  BY <1>13 DEF Joined, Gone, NoServer, Joining, servVars, accVars
<1>14. CASE FreeServer
  BY <1>14 DEF FreeServer, NoServer, Joining, servVars, accVars
<1>15. CASE CreateServer
  BY <1>15 DEF CreateServer, NewInstance, Unused, NoServer, Joining, servVars
<1>16. CASE Destroy
  BY <1>16 DEF Destroy, NoServer, Joining, servVars
<1>17. CASE UNCHANGED vars
  <2>1. UNCHANGED <<serv, acc>>
    BY <1>17 DEF vars, servVars, accVars
  <2>. QED  BY <2>1 DEF NoServer
<1>18. CASE Dies
  BY <1>18 DEF Dies, Closed, NoServer, Joining, servVars
<1>19. CASE Faults
  BY <1>19, <1>18 DEF Faults
<1>20. ASSUME NEW p \in Pipes, Worker(p) PROVE NoServer'
  BY <1>20, <1>19, <1>2 DEF Worker, Doomed, Release
<1>21. CASE Acceptor
  BY <1>21, <1>19, <1>3, <1>4, <1>5, <1>6, <1>7 DEF Acceptor
<1>22. CASE Destroyer
  BY <1>22, <1>19, <1>8, <1>9, <1>10, <1>11, <1>13, <1>14 DEF Destroyer, CancelFaults,
     JoinFaults
<1>23. CASE ClientNext
  BY <1>23, <1>1 DEF ClientNext, Retry, GiveUp
<1>. QED
  BY <1>18, <1>15, <1>16, <1>17, <1>20, <1>21, <1>22, <1>23 DEF Next, ServerNext, Killed


\* Queues, handlers and connections end, and others take nothing from them.
QueuesEnd == \A q \in Pipes : toServer'[q] \in {toServer[q], <<>>}
HandlersEnd == \A q \in Pipes : wk'[q] \in Handling => wk[q] \in Handling /\ cur'[q] = cur[q]
ClientsEnd == \A d \in Clients : /\ pipe'[d] \in {pipe[d], None}
                                 /\ pc'[d] = "new" => pc[d] = "new"
\* Where nobody joins an instance, its messages stay those of the client on it.
LEMMA OwnedShrinks ==
  ASSUME Owned,
         \A c \in Clients : \A p \in Pipes : On(c, p)' => On(c, p),
         \A p \in Pipes : \A i \in 1..Len(toServer'[p]) : toServer'[p][i].by \in Clients,
         \A p \in Pipes : wk'[p] \in Handling => cur'[p].by \in Clients,
         \A c \in Clients : pc'[c] = "new" => pc[c] = "new"
  PROVE  Owned'
BY DEF Owned

\* A step that only takes away leaves every instance to its client.
LEMMA OwnedFrame ==
  ASSUME Owned, QueuesEnd, HandlersEnd, ClientsEnd
  PROVE  Owned'
<1>1. \A c \in Clients : \A p \in Pipes : On(c, p)' => On(c, p)
  <2>. SUFFICES ASSUME NEW c \in Clients, NEW p \in Pipes, On(c, p)' PROVE On(c, p)
    OBVIOUS
  <2>1. CASE pipe'[c] = p
    BY <2>1, ConstantsAssumption DEF ClientsEnd, On
  <2>2. CASE \E i \in 1..Len(toServer'[p]) : toServer'[p][i].by = c
    BY <2>2 DEF QueuesEnd, On
  <2>3. CASE wk'[p] \in Handling /\ cur'[p].by = c
    BY <2>3 DEF HandlersEnd, On
  <2>. QED  BY <2>1, <2>2, <2>3 DEF On
<1>2. \A p \in Pipes : \A i \in 1..Len(toServer'[p]) : toServer'[p][i].by \in Clients
  BY DEF QueuesEnd, Owned
<1>3. \A p \in Pipes : wk'[p] \in Handling => cur'[p].by \in Clients
  BY DEF HandlersEnd, Owned
<1>4. \A c \in Clients : pc'[c] = "new" => pc[c] = "new"
  BY DEF ClientsEnd
<1>. QED  BY <1>1, <1>2, <1>3, <1>4, OwnedShrinks

\* A worker takes the next message; what it is to handle is that message.
LEMMA OwnedTakes ==
  ASSUME Owned, PipeTypes, WorkerTypes, NEW p \in Pipes, toServer[p] # <<>>,
         toServer' = [toServer EXCEPT ![p] = Tail(toServer[p])],
         NEW to, wk' = [wk EXCEPT ![p] = to], UNCHANGED <<pc, pipe>>,
         \A q \in Pipes : q # p => cur'[q] = cur[q],
         to \in Handling => cur'[p] = Head(toServer[p])
  PROVE  Owned'
<1>. DEFINE s == toServer[p]
<1>1. /\ Head(s) = s[1] /\ Len(s) \in Nat \ {0} /\ Len(Tail(s)) = Len(s) - 1
      /\ \A i \in 1..Len(Tail(s)) : i + 1 \in 1..Len(s) /\ Tail(s)[i] = s[i + 1]
  BY TailOf DEF PipeTypes
<1>2. toServer'[p] = Tail(s) /\ \A q \in Pipes : q # p => toServer'[q] = toServer[q]
  BY DEF PipeTypes
<1>3. wk'[p] = to /\ \A q \in Pipes : q # p => wk'[q] = wk[q]
  BY DEF WorkerTypes
<1>4. 1 \in 1..Len(s)
  BY <1>1
<1>. HIDE DEF s
<1>5. ASSUME NEW c \in Clients, NEW q \in Pipes, On(c, q)' PROVE On(c, q)
  <2>1. CASE q # p
    BY <1>2, <1>3, <1>5, <2>1 DEF On
  <2>2. CASE q = p
    <3>1. CASE pipe'[c] = p
      BY <2>2, <3>1 DEF On
    <3>2. CASE \E i \in 1..Len(toServer'[p]) : toServer'[p][i].by = c
      <4>1. PICK i \in 1..Len(Tail(s)) : Tail(s)[i].by = c
        BY <1>2, <3>2
      <4>2. PICK j \in 1..Len(s) : s[j] = Tail(s)[i]
        BY <1>1, <4>1
      <4>. QED  BY <2>2, <4>1, <4>2 DEF On, s
    <3>3. CASE wk'[p] \in Handling /\ cur'[p].by = c
      <4>1. s[1].by = c
        BY <1>1, <1>3, <3>3 DEF s
      <4>. QED  BY <1>4, <2>2, <4>1 DEF On, s
    <3>. QED  BY <1>5, <2>2, <3>1, <3>2, <3>3 DEF On
  <2>. QED  BY <2>1, <2>2
<1>6. ASSUME NEW q \in Pipes, NEW i \in 1..Len(toServer'[q]) PROVE toServer'[q][i].by \in Clients
  <2>1. CASE q # p
    BY <1>2, <1>6, <2>1 DEF Owned
  <2>2. CASE q = p
    <3>1. PICK j \in 1..Len(s) : s[j] = Tail(s)[i]
      BY <1>1, <1>2, <1>6, <2>2
    <3>. QED  BY <1>2, <2>2, <3>1 DEF Owned, s
  <2>. QED  BY <2>1, <2>2
<1>7. ASSUME NEW q \in Pipes, wk'[q] \in Handling PROVE cur'[q].by \in Clients
  BY <1>1, <1>3, <1>4, <1>7 DEF Owned, s
<1>8. \A c \in Clients : pc'[c] = "new" => pc[c] = "new"
  OBVIOUS
<1>. QED  BY <1>5, <1>6, <1>7, <1>8, OwnedShrinks

\* A client's requests stay where they are.
LEMMA OwnedStep ==
  ClientTypes /\ PipeTypes /\ ServerTypes /\ WorkerTypes /\ Instances /\ Owned /\ [Next]_vars
    => Owned'
<1>. SUFFICES ASSUME ClientTypes, PipeTypes, ServerTypes, WorkerTypes,
                         Instances, Owned, [Next]_vars PROVE Owned'
  OBVIOUS
<1>1. ASSUME NEW c \in Clients, Connect(c) PROVE Owned'
  <2>1. PICK q \in Pipes : /\ end[q] = "listen" /\ pipe' = [pipe EXCEPT ![c] = q]
                         /\ toServer' = [toServer EXCEPT ![q] = <<Msg("hello", c, 0)>>]
    BY <1>1 DEF Connect, Listening
  <2>2. /\ UNCHANGED wkVars /\ pc[c] = "new" /\ pc' = [pc EXCEPT ![c] = "version"]
    BY <1>1 DEF Connect, Goes
  <2>3. toServer[q] = <<>> /\ Nobody(q) /\ wk[q] \in Ended
    BY <2>1 DEF Instances, Instance
  <2>4. \A d \in Clients : ~ On(d, q)
    BY <2>3 DEF On, Nobody, Handling, Ended
  <2>5. \A r \in Pipes : ~ On(c, r)
    BY <2>2 DEF Owned
  <2>6. ASSUME NEW d \in Clients, NEW r \in Pipes
        PROVE  On(d, r)' <=> (On(d, r) \/ (d = c /\ r = q))
    <3>1. r # q => toServer'[r] = toServer[r]
      BY <2>1 DEF PipeTypes
    <3>2. toServer'[q] = <<Msg("hello", c, 0)>>
      BY <2>1 DEF PipeTypes
    <3>3. \A i \in 1..Len(toServer'[q]) : toServer'[q][i].by = c
      BY <3>2 DEF Msg
    <3>4. pipe'[d] = IF d = c THEN q ELSE pipe[d]
      BY <2>1 DEF ClientTypes
    <3>5. CASE r = q
      BY <2>2, <2>3, <2>4, <3>3, <3>4, <3>5 DEF On, wkVars, Handling
    <3>6. CASE r # q
      BY <2>2, <2>5, <3>1, <3>4, <3>6 DEF On, wkVars
    <3>. QED  BY <3>5, <3>6
  <2>7. \A r \in Pipes : \A i \in 1..Len(toServer'[r]) : toServer'[r][i].by \in Clients
    <3>1. toServer'[q] = <<Msg("hello", c, 0)>> /\ \A r \in Pipes : r # q => toServer'[r] = toServer[r]
      BY <2>1 DEF PipeTypes
    <3>2. \A i \in 1..Len(toServer'[q]) : toServer'[q][i].by = c
      BY <3>1 DEF Msg
    <3>. QED  BY <3>1, <3>2 DEF Owned
  <2>8. \A r \in Pipes : wk'[r] \in Handling => cur'[r].by \in Clients
    BY <2>2 DEF Owned, wkVars
  <2>9. \A d \in Clients : pc'[d] = "new" => pc[d] = "new" /\ d # c
    BY <2>2 DEF ClientTypes
  <2>10. \A r \in Pipes : \A d, e \in Clients : On(d, r)' /\ On(e, r)' => d = e
    BY <2>4, <2>6 DEF Owned
  <2>11. \A d \in Clients : \A r, s \in Pipes : On(d, r)' /\ On(d, s)' => r = s
    BY <2>5, <2>6 DEF Owned
  <2>12. \A d \in Clients : pc'[d] = "new" => \A r \in Pipes : ~ On(d, r)'
    BY <2>6, <2>9 DEF Owned
  <2>. QED  BY <2>7, <2>8, <2>10, <2>11, <2>12 DEF Owned
<1>2. ASSUME NEW c \in Clients, ConnectFails(c) PROVE Owned'
  <2>1. QueuesEnd
    BY <1>2 DEF ConnectFails, Goes, QueuesEnd, pipeVars, PipeTypes
  <2>2. HandlersEnd
    BY <1>2 DEF ConnectFails, Goes, HandlersEnd, wkVars, WorkerTypes, Handling
  <2>3. ClientsEnd
    BY <1>2 DEF ConnectFails, Goes, ClientsEnd, cliVars, ClientTypes
  <2>. QED  BY <2>1, <2>2, <2>3, OwnedFrame
<1>3. ASSUME NEW c \in Clients, Version(c) PROVE Owned'
  <2>1. QueuesEnd
    BY <1>3 DEF Version, Goes, Takes, Arrived, QueuesEnd, pipeVars, PipeTypes
  <2>2. HandlersEnd
    BY <1>3 DEF Version, Goes, Takes, Arrived, HandlersEnd, wkVars, WorkerTypes, Handling
  <2>3. ClientsEnd
    BY <1>3 DEF Version, Goes, Takes, Arrived, ClientsEnd, cliVars, ClientTypes
  <2>. QED  BY <2>1, <2>2, <2>3, OwnedFrame
<1>4. ASSUME NEW c \in Clients, NEW to \in {"new", "gone"}, HandshakeFails(c, to) PROVE Owned'
  <2>1. /\ UNCHANGED wkVars /\ pc' = [pc EXCEPT ![c] = to] /\ pipe' = [pipe EXCEPT ![c] = None]
        /\ pipe[c] \in Pipes /\ end[pipe[c]] = "cut" /\ Hang(pipe[c])
    BY <1>4, PipeOf DEF HandshakeFails, Goes, Broken
  <2>2. wk[pipe[c]] \in Ended /\ toServer[pipe[c]] = <<>>
    BY <2>1 DEF Instances, Instance
  <2>3. QueuesEnd
    BY <2>1 DEF QueuesEnd, Hang, PipeTypes
  <2>4. \A q \in Pipes : ~ On(c, q)'
    <3>. SUFFICES ASSUME NEW q \in Pipes, On(c, q)' PROVE FALSE
      OBVIOUS
    <3>1. pipe'[c] # q
      BY <2>1, ConstantsAssumption DEF ClientTypes
    <3>2. On(c, q)
      BY <2>1, <2>3, <3>1 DEF On, QueuesEnd, wkVars
    <3>3. q = pipe[c]
      BY <2>1, <3>2 DEF Owned, On
    <3>. QED  BY <2>1, <2>2, <2>3, <3>1, <3>3 DEF On, QueuesEnd, wkVars, Handling, Ended
  <2>5. ASSUME NEW d \in Clients, NEW q \in Pipes, On(d, q)' PROVE On(d, q)
    <3>1. pipe'[d] = pipe[d] \/ d = c
      BY <2>1 DEF ClientTypes
    <3>. QED  BY <2>1, <2>3, <2>4, <2>5, <3>1 DEF On, QueuesEnd, wkVars
  <2>6. \A q \in Pipes : \A i \in 1..Len(toServer'[q]) : toServer'[q][i].by \in Clients
    BY <2>3 DEF QueuesEnd, Owned
  <2>7. \A q \in Pipes : wk'[q] \in Handling => cur'[q].by \in Clients
    BY <2>1 DEF Owned, wkVars
  <2>8. \A d \in Clients : pc'[d] = "new" => pc[d] = "new" \/ d = c
    BY <2>1 DEF ClientTypes
  <2>. QED  BY <2>4, <2>5, <2>6, <2>7, <2>8 DEF Owned
<1>5. ASSUME NEW c \in Clients, Call(c) PROVE Owned'
  <2>1. QueuesEnd
    BY <1>5 DEF Call, Goes, QueuesEnd, pipeVars, PipeTypes
  <2>2. HandlersEnd
    BY <1>5 DEF Call, Goes, HandlersEnd, wkVars, WorkerTypes, Handling
  <2>3. ClientsEnd
    BY <1>5 DEF Call, Goes, ClientsEnd, cliVars, ClientTypes
  <2>. QED  BY <2>1, <2>2, <2>3, OwnedFrame
<1>6. ASSUME NEW c \in Clients, Send(c) PROVE Owned'
  <2>1. /\ UNCHANGED <<pipe, wkVars>>
        /\ pc' = [pc EXCEPT ![c] = IF @ = "request" THEN "body" ELSE "size"]
        /\ toServer' = [toServer EXCEPT ![pipe[c]] = Append(@, Msg(pc[c], c, asked[c]))]
        /\ pipe[c] \in Pipes
    BY <1>6, PipeOf DEF Send, Goes, Sends
  <2>2. PICK m \in Messages : /\ m.by = c
                            /\ toServer' = [toServer EXCEPT ![pipe[c]] = Append(@, m)]
    <3>1. pc[c] \in Kinds /\ asked[c] \in Nat
      BY <1>6 DEF Send, Kinds, ClientTypes
    <3>2. Msg(pc[c], c, asked[c]) \in Messages /\ Msg(pc[c], c, asked[c]).by = c
      BY <3>1, MsgType
    <3>. QED  BY <2>1, <3>2
  <2>3. /\ toServer'[pipe[c]] = Append(toServer[pipe[c]], m)
        /\ \A q \in Pipes : q # pipe[c] => toServer'[q] = toServer[q]
    BY <2>1, <2>2 DEF PipeTypes
  <2>4. ASSUME NEW q \in Pipes, NEW i \in 1..Len(toServer'[q])
        PROVE  \/ i \in 1..Len(toServer[q]) /\ toServer'[q][i] = toServer[q][i]
               \/ q = pipe[c] /\ toServer'[q][i].by = c
    <3>1. CASE q # pipe[c]
      BY <2>3, <2>4, <3>1
    <3>2. CASE q = pipe[c]
      <4>1. /\ Len(Append(toServer[q], m)) = Len(toServer[q]) + 1 /\ Len(toServer[q]) \in Nat
            /\ Append(toServer[q], m)[Len(toServer[q]) + 1] = m
            /\ \A j \in 1..Len(toServer[q]) : Append(toServer[q], m)[j] = toServer[q][j]
        BY <2>2, AppendTo DEF PipeTypes
      <4>2. i \in 1..Len(toServer[q]) \/ i = Len(toServer[q]) + 1
        BY <2>3, <2>4, <3>2, <4>1
      <4>. QED  BY <2>2, <2>3, <3>2, <4>1, <4>2
    <3>. QED  BY <3>1, <3>2
  <2>5. ASSUME NEW d \in Clients, NEW q \in Pipes, On(d, q)' PROVE On(d, q)
    BY <2>1, <2>4, <2>5 DEF On, wkVars
  <2>6. \A q \in Pipes : \A i \in 1..Len(toServer'[q]) : toServer'[q][i].by \in Clients
    BY <2>4 DEF Owned
  <2>7. \A q \in Pipes : wk'[q] \in Handling => cur'[q].by \in Clients
    BY <2>1 DEF Owned, wkVars
  <2>8. \A d \in Clients : pc'[d] = "new" => pc[d] = "new"
    BY <2>1 DEF ClientTypes
  <2>. QED  BY <2>5, <2>6, <2>7, <2>8, OwnedShrinks
<1>7. ASSUME NEW c \in Clients, CallFails(c) PROVE Owned'
  <2>1. QueuesEnd
    BY <1>7 DEF CallFails, Ends, Goes, Broken, Arrived, Calling, QueuesEnd, pipeVars, PipeTypes
  <2>2. HandlersEnd
    BY <1>7 DEF CallFails, Ends, Goes, Broken, Arrived, Calling, HandlersEnd, wkVars,
       WorkerTypes, Handling
  <2>3. ClientsEnd
    BY <1>7 DEF CallFails, Ends, Goes, Broken, Arrived, Calling, ClientsEnd, cliVars,
       ClientTypes
  <2>. QED  BY <2>1, <2>2, <2>3, OwnedFrame
<1>8. ASSUME NEW c \in Clients, Receive(c) PROVE Owned'
  <2>1. QueuesEnd
    BY <1>8 DEF Receive, Replied, Ends, Goes, Takes, Arrived, Got, Expected, Calling,
       QueuesEnd, pipeVars, PipeTypes
  <2>2. HandlersEnd
    BY <1>8 DEF Receive, Replied, Ends, Goes, Takes, Arrived, Got, Expected, Calling,
       HandlersEnd, wkVars, WorkerTypes, Handling
  <2>3. ClientsEnd
    BY <1>8 DEF Receive, Replied, Ends, Goes, Takes, Arrived, Got, Expected, Calling,
       ClientsEnd, cliVars, ClientTypes
  <2>. QED  BY <2>1, <2>2, <2>3, OwnedFrame
<1>9. ASSUME NEW c \in Clients, NoMemory(c) PROVE Owned'
  <2>1. QueuesEnd
    BY <1>9 DEF NoMemory, Ends, Goes, Takes, Arrived, Got, Expected, QueuesEnd, pipeVars,
       PipeTypes
  <2>2. HandlersEnd
    BY <1>9 DEF NoMemory, Ends, Goes, Takes, Arrived, Got, Expected, HandlersEnd, wkVars,
       WorkerTypes, Handling
  <2>3. ClientsEnd
    BY <1>9 DEF NoMemory, Ends, Goes, Takes, Arrived, Got, Expected, ClientsEnd, cliVars,
       ClientTypes
  <2>. QED  BY <2>1, <2>2, <2>3, OwnedFrame
<1>10. ASSUME NEW c \in Clients, Garbled(c) PROVE Owned'
  <2>1. QueuesEnd
    BY <1>10 DEF Garbled, Ends, Goes, Arrived, Got, Expected, Calling, QueuesEnd, pipeVars,
       PipeTypes
  <2>2. HandlersEnd
    BY <1>10 DEF Garbled, Ends, Goes, Arrived, Got, Expected, Calling, HandlersEnd, wkVars,
       WorkerTypes, Handling
  <2>3. ClientsEnd
    BY <1>10 DEF Garbled, Ends, Goes, Arrived, Got, Expected, Calling, ClientsEnd, cliVars,
       ClientTypes
  <2>. QED  BY <2>1, <2>2, <2>3, OwnedFrame
<1>11. ASSUME NEW c \in Clients, Leave(c) PROVE Owned'
  <2>1. QueuesEnd
    BY <1>11 DEF Leave, Goes, Hang, Calling, QueuesEnd, pipeVars, PipeTypes
  <2>2. HandlersEnd
    BY <1>11 DEF Leave, Goes, Hang, Calling, HandlersEnd, wkVars, WorkerTypes, Handling
  <2>3. ClientsEnd
    BY <1>11 DEF Leave, Goes, Hang, Calling, ClientsEnd, cliVars, ClientTypes
  <2>. QED  BY <2>1, <2>2, <2>3, OwnedFrame
<1>12. ASSUME NEW p \in Pipes, Start(p) PROVE Owned'
  <2>1. QueuesEnd
    BY <1>12 DEF Start, Steps, others, QueuesEnd, pipeVars, PipeTypes
  <2>2. HandlersEnd
    BY <1>12 DEF Start, Steps, others, HandlersEnd, wkVars, WorkerTypes, Handling
  <2>3. ClientsEnd
    BY <1>12 DEF Start, Steps, others, ClientsEnd, cliVars, ClientTypes
  <2>. QED  BY <2>1, <2>2, <2>3, OwnedFrame
<1>13. ASSUME NEW p \in Pipes, Greet(p) PROVE Owned'
  <2>1. /\ toServer[p] # <<>> /\ toServer' = [toServer EXCEPT ![p] = Tail(toServer[p])]
        /\ wk' = [wk EXCEPT ![p] = "top"] /\ UNCHANGED <<pc, pipe, cur>>
    BY <1>13 DEF Greet, Arrives, Steps, others, cliVars
  <2>2. "top" \notin Handling
    BY DEF Handling
  <2>. QED  BY <2>1, <2>2, OwnedTakes
<1>14. ASSUME NEW p \in Pipes, Top(p) PROVE Owned'
  <2>1. QueuesEnd
    BY <1>14 DEF Top, Steps, others, QueuesEnd, pipeVars, PipeTypes
  <2>2. HandlersEnd
    BY <1>14 DEF Top, Steps, others, HandlersEnd, wkVars, WorkerTypes, Handling
  <2>3. ClientsEnd
    BY <1>14 DEF Top, Steps, others, ClientsEnd, cliVars, ClientTypes
  <2>. QED  BY <2>1, <2>2, <2>3, OwnedFrame
<1>15. ASSUME NEW p \in Pipes, ReadRequest(p) PROVE Owned'
  <2>1. PICK to : wk' = [wk EXCEPT ![p] = to]
    BY <1>15 DEF ReadRequest, Steps
  <2>2. /\ toServer[p] # <<>> /\ toServer' = [toServer EXCEPT ![p] = Tail(toServer[p])]
        /\ UNCHANGED <<pc, pipe>> /\ cur' = [cur EXCEPT ![p] = Head(toServer[p])]
    BY <1>15 DEF ReadRequest, Arrives, others, cliVars
  <2>3. cur'[p] = Head(toServer[p]) /\ \A q \in Pipes : q # p => cur'[q] = cur[q]
    BY <2>2 DEF WorkerTypes
  <2>. QED  BY <2>1, <2>2, <2>3, OwnedTakes
<1>16. ASSUME NEW p \in Pipes, Handle(p) PROVE Owned'
  <2>1. QueuesEnd
    BY <1>16 DEF Handle, Steps, others, QueuesEnd, pipeVars, PipeTypes
  <2>2. HandlersEnd
    BY <1>16 DEF Handle, Steps, others, HandlersEnd, wkVars, WorkerTypes, Handling
  <2>3. ClientsEnd
    BY <1>16 DEF Handle, Steps, others, ClientsEnd, cliVars, ClientTypes
  <2>. QED  BY <2>1, <2>2, <2>3, OwnedFrame
<1>17. ASSUME NEW p \in Pipes, Check(p) PROVE Owned'
  <2>1. QueuesEnd
    BY <1>17 DEF Check, Steps, others, QueuesEnd, pipeVars, PipeTypes
  <2>2. HandlersEnd
    BY <1>17 DEF Check, Steps, others, HandlersEnd, wkVars, WorkerTypes, Handling
  <2>3. ClientsEnd
    BY <1>17 DEF Check, Steps, others, ClientsEnd, cliVars, ClientTypes
  <2>. QED  BY <2>1, <2>2, <2>3, OwnedFrame
<1>18. ASSUME NEW p \in Pipes, ReplySize(p) PROVE Owned'
  <2>1. QueuesEnd
    BY <1>18 DEF ReplySize, Steps, others, Writes, Answer, QueuesEnd, pipeVars, PipeTypes
  <2>2. HandlersEnd
    BY <1>18 DEF ReplySize, Steps, others, Writes, Answer, HandlersEnd, wkVars, WorkerTypes,
       Handling
  <2>3. ClientsEnd
    BY <1>18 DEF ReplySize, Steps, others, Writes, Answer, ClientsEnd, cliVars, ClientTypes
  <2>. QED  BY <2>1, <2>2, <2>3, OwnedFrame
<1>19. ASSUME NEW p \in Pipes, ReplyBody(p) PROVE Owned'
  <2>1. QueuesEnd
    BY <1>19 DEF ReplyBody, Steps, others, Writes, Answer, QueuesEnd, pipeVars, PipeTypes
  <2>2. HandlersEnd
    BY <1>19 DEF ReplyBody, Steps, others, Writes, Answer, HandlersEnd, wkVars, WorkerTypes,
       Handling
  <2>3. ClientsEnd
    BY <1>19 DEF ReplyBody, Steps, others, Writes, Answer, ClientsEnd, cliVars, ClientTypes
  <2>. QED  BY <2>1, <2>2, <2>3, OwnedFrame
<1>20. ASSUME NEW p \in Pipes, ReplyError(p) PROVE Owned'
  <2>1. QueuesEnd
    BY <1>20 DEF ReplyError, Steps, others, ErrorReply, Writes, Answer, QueuesEnd, pipeVars,
       PipeTypes
  <2>2. HandlersEnd
    BY <1>20 DEF ReplyError, Steps, others, ErrorReply, Writes, Answer, HandlersEnd, wkVars,
       WorkerTypes, Handling
  <2>3. ClientsEnd
    BY <1>20 DEF ReplyError, Steps, others, ErrorReply, Writes, Answer, ClientsEnd, cliVars,
       ClientTypes
  <2>. QED  BY <2>1, <2>2, <2>3, OwnedFrame
<1>21. ASSUME NEW p \in Pipes, ConnectionFails(p) PROVE Owned'
  <2>1. QueuesEnd
    BY <1>21 DEF ConnectionFails, Fails, others, Reading, Writing, Arrives, QueuesEnd,
       pipeVars, PipeTypes
  <2>2. HandlersEnd
    BY <1>21 DEF ConnectionFails, Fails, others, Reading, Writing, Arrives, HandlersEnd,
       wkVars, WorkerTypes, Handling
  <2>3. ClientsEnd
    BY <1>21 DEF ConnectionFails, Fails, others, Reading, Writing, Arrives, ClientsEnd,
       cliVars, ClientTypes
  <2>. QED  BY <2>1, <2>2, <2>3, OwnedFrame
<1>22. ASSUME NEW p \in Pipes, GrowFails(p) PROVE Owned'
  <2>1. QueuesEnd
    BY <1>22 DEF GrowFails, Fails, QueuesEnd, pipeVars, PipeTypes
  <2>2. HandlersEnd
    BY <1>22 DEF GrowFails, Fails, HandlersEnd, wkVars, WorkerTypes, Handling
  <2>3. ClientsEnd
    BY <1>22 DEF GrowFails, Fails, ClientsEnd, cliVars, ClientTypes
  <2>. QED  BY <2>1, <2>2, <2>3, OwnedFrame
<1>23. ASSUME NEW p \in Pipes, Flush(p) PROVE Owned'
  <2>1. QueuesEnd
    BY <1>23 DEF Flush, Steps, others, QueuesEnd, pipeVars, PipeTypes
  <2>2. HandlersEnd
    BY <1>23 DEF Flush, Steps, others, HandlersEnd, wkVars, WorkerTypes, Handling
  <2>3. ClientsEnd
    BY <1>23 DEF Flush, Steps, others, ClientsEnd, cliVars, ClientTypes
  <2>. QED  BY <2>1, <2>2, <2>3, OwnedFrame
<1>24. ASSUME NEW p \in Pipes, Disconnect(p) PROVE Owned'
  <2>1. QueuesEnd
    BY <1>24 DEF Disconnect, Steps, others, Closed, QueuesEnd, pipeVars, PipeTypes
  <2>2. HandlersEnd
    BY <1>24 DEF Disconnect, Steps, others, Closed, HandlersEnd, wkVars, WorkerTypes, Handling
  <2>3. ClientsEnd
    BY <1>24 DEF Disconnect, Steps, others, Closed, ClientsEnd, cliVars, ClientTypes
  <2>. QED  BY <2>1, <2>2, <2>3, OwnedFrame
<1>41. ASSUME NEW p \in Pipes, NoContext(p) PROVE Owned'
  <2>1. QueuesEnd
    BY <1>41 DEF NoContext, Steps, QueuesEnd, pipeVars, PipeTypes
  <2>2. HandlersEnd
    BY <1>41 DEF NoContext, Steps, HandlersEnd, wkVars, WorkerTypes, Handling
  <2>3. ClientsEnd
    BY <1>41 DEF NoContext, Steps, ClientsEnd, cliVars, ClientTypes
  <2>. QED  BY <2>1, <2>2, <2>3, OwnedFrame
<1>40. ASSUME NEW p \in Pipes, Delete(p) PROVE Owned'
  <2>1. QueuesEnd
    BY <1>40 DEF Delete, Steps, QueuesEnd, pipeVars, PipeTypes
  <2>2. HandlersEnd
    BY <1>40 DEF Delete, Steps, HandlersEnd, wkVars, WorkerTypes, Handling
  <2>3. ClientsEnd
    BY <1>40 DEF Delete, Steps, ClientsEnd, cliVars, ClientTypes
  <2>. QED  BY <2>1, <2>2, <2>3, OwnedFrame
<1>25. ASSUME NEW p \in Pipes, Release(p), serv # "gone", held[p] # "freed" PROVE Owned'
  <2>1. QueuesEnd
    BY <1>25 DEF Release, Steps, others, QueuesEnd, pipeVars, PipeTypes
  <2>2. HandlersEnd
    BY <1>25 DEF Release, Steps, others, HandlersEnd, wkVars, WorkerTypes, Handling
  <2>3. ClientsEnd
    BY <1>25 DEF Release, Steps, others, ClientsEnd, cliVars, ClientTypes
  <2>. QED  BY <2>1, <2>2, <2>3, OwnedFrame
<1>26. CASE AcceptorStops
  <2>1. QueuesEnd
    BY <1>26 DEF AcceptorStops, Stops, CloseInstance, Closed, Closing, QueuesEnd, pipeVars,
       PipeTypes
  <2>2. HandlersEnd
    BY <1>26 DEF AcceptorStops, Stops, CloseInstance, Closed, Closing, HandlersEnd, wkVars,
       WorkerTypes, Handling
  <2>3. ClientsEnd
    BY <1>26 DEF AcceptorStops, Stops, CloseInstance, Closed, Closing, ClientsEnd, cliVars,
       ClientTypes
  <2>. QED  BY <2>1, <2>2, <2>3, OwnedFrame
<1>42. CASE CannotRegister
  <2>1. QueuesEnd
    BY <1>42 DEF CannotRegister, Stops, CloseInstance, Closed, Closing, QueuesEnd, pipeVars,
       PipeTypes
  <2>2. HandlersEnd
    BY <1>42 DEF CannotRegister, Stops, CloseInstance, Closed, Closing, HandlersEnd, wkVars,
       WorkerTypes, Handling
  <2>3. ClientsEnd
    BY <1>42 DEF CannotRegister, Stops, CloseInstance, Closed, Closing, ClientsEnd, cliVars,
       ClientTypes
  <2>. QED  BY <2>1, <2>2, <2>3, OwnedFrame
<1>27. CASE ConnectsNobody
  <2>1. QueuesEnd
    BY <1>27 DEF ConnectsNobody, NotConnected, CloseInstance, Closed, QueuesEnd, pipeVars,
       PipeTypes
  <2>2. HandlersEnd
    BY <1>27 DEF ConnectsNobody, NotConnected, CloseInstance, Closed, HandlersEnd, wkVars,
       WorkerTypes, Handling
  <2>3. ClientsEnd
    BY <1>27 DEF ConnectsNobody, NotConnected, CloseInstance, Closed, ClientsEnd, cliVars,
       ClientTypes
  <2>. QED  BY <2>1, <2>2, <2>3, OwnedFrame
<1>28. CASE StartWorker
  <2>1. QueuesEnd
    BY <1>28 DEF StartWorker, Closing, QueuesEnd, pipeVars, PipeTypes
  <2>2. HandlersEnd
    BY <1>28 DEF StartWorker, Closing, HandlersEnd, wkVars, WorkerTypes, Handling
  <2>3. ClientsEnd
    BY <1>28 DEF StartWorker, Closing, ClientsEnd, cliVars, ClientTypes
  <2>. QED  BY <2>1, <2>2, <2>3, OwnedFrame
<1>29. CASE Prepare \/ Connected
  <2>1. UNCHANGED <<cliVars, toServer, wk, cur>>
    BY <1>29 DEF Prepare, Connected, pipeVars, wkVars
  <2>. QED  BY <2>1 DEF Owned, On, cliVars
<1>30. CASE CancelAcceptor
  <2>1. QueuesEnd
    BY <1>30 DEF CancelAcceptor, NotConnected, CloseInstance, Closed, QueuesEnd, pipeVars,
       PipeTypes
  <2>2. HandlersEnd
    BY <1>30 DEF CancelAcceptor, NotConnected, CloseInstance, Closed, HandlersEnd, wkVars,
       WorkerTypes, Handling
  <2>3. ClientsEnd
    BY <1>30 DEF CancelAcceptor, NotConnected, CloseInstance, Closed, ClientsEnd, cliVars,
       ClientTypes
  <2>. QED  BY <2>1, <2>2, <2>3, OwnedFrame
<1>31. CASE CancelWorker
  <2>1. QueuesEnd
    BY <1>31 DEF CancelWorker, Gone, Fails, Reading, Writing, QueuesEnd, pipeVars, PipeTypes
  <2>2. HandlersEnd
    BY <1>31 DEF CancelWorker, Gone, Fails, Reading, Writing, HandlersEnd, wkVars,
       WorkerTypes, Handling
  <2>3. ClientsEnd
    BY <1>31 DEF CancelWorker, Gone, Fails, Reading, Writing, ClientsEnd, cliVars, ClientTypes
  <2>. QED  BY <2>1, <2>2, <2>3, OwnedFrame
<1>32. CASE JoinAcceptor \/ Visit \/ Joined \/ FreeServer
  <2>1. UNCHANGED <<cliVars, toServer, wk, cur>>
    BY <1>32 DEF JoinAcceptor, Visit, Joined, FreeServer, pipeVars, wkVars
  <2>. QED  BY <2>1 DEF Owned, On, cliVars
<1>33. CASE CreateServer \/ Destroy \/ UNCHANGED vars
  <2>1. UNCHANGED <<cliVars, toServer, wk, cur>>
    BY <1>33 DEF CreateServer, Destroy, vars, pipeVars, wkVars
  <2>. QED  BY <2>1 DEF Owned, On, cliVars
<1>34. CASE Dies
  <2>1. QueuesEnd
    BY <1>34 DEF Dies, Closed, QueuesEnd, pipeVars, PipeTypes
  <2>2. HandlersEnd
    BY <1>34 DEF Dies, Closed, HandlersEnd, wkVars, WorkerTypes, Handling
  <2>3. ClientsEnd
    BY <1>34 DEF Dies, Closed, ClientsEnd, cliVars, ClientTypes
  <2>. QED  BY <2>1, <2>2, <2>3, OwnedFrame
<1>35. CASE Faults
  BY <1>35, <1>34 DEF Faults
<1>36. ASSUME NEW p \in Pipes, Worker(p) PROVE Owned'
  BY <1>36, <1>35, <1>12, <1>13, <1>14, <1>15, <1>16, <1>17, <1>18, <1>19, <1>20, <1>21,
     <1>22, <1>23, <1>24, <1>25, <1>40, <1>41 DEF Worker, Doomed, Release
<1>37. CASE Acceptor
  BY <1>37, <1>35, <1>26, <1>27, <1>28, <1>29, <1>42 DEF Acceptor
<1>38. CASE Destroyer
  BY <1>38, <1>35, <1>30, <1>31, <1>32 DEF Destroyer, CancelFaults, JoinFaults
<1>39. CASE ClientNext
  BY <1>39, <1>1, <1>2, <1>3, <1>4, <1>5, <1>6, <1>7, <1>8, <1>9, <1>10,
     <1>11 DEF ClientNext, Retry, GiveUp
<1>. QED
  BY <1>34, <1>33, <1>36, <1>37, <1>38, <1>39 DEF Next, ServerNext, Killed

\* What has been asked stays asked.
AskedStays == \A c \in Clients : \A k \in Nat : Asked(c, k) => Asked(c, k)'

\* No step takes back a call that was made.
LEMMA AskedStep == ClientTypes /\ [Next]_vars => AskedStays
<1>. SUFFICES ASSUME ClientTypes, [Next]_vars PROVE AskedStays
  OBVIOUS
<1>1. ASSUME NEW c \in Clients, Connect(c) PROVE AskedStays
  <2>1. UNCHANGED asked /\ \A d \in Clients : pc'[d] \in {"request", "body"} => pc[d] \in {"request", "body"}
    BY <1>1 DEF Connect, Goes, Listening, ClientTypes
  <2>. QED  BY <2>1 DEF AskedStays, Asked, ClientTypes
<1>2. ASSUME NEW c \in Clients, ConnectFails(c) PROVE AskedStays
  <2>1. UNCHANGED asked /\ \A d \in Clients : pc'[d] \in {"request", "body"} => pc[d] \in {"request", "body"}
    BY <1>2 DEF ConnectFails, Goes, ClientTypes
  <2>. QED  BY <2>1 DEF AskedStays, Asked, ClientTypes
<1>3. ASSUME NEW c \in Clients, Version(c) PROVE AskedStays
  <2>1. UNCHANGED asked /\ \A d \in Clients : pc'[d] \in {"request", "body"} => pc[d] \in {"request", "body"}
    BY <1>3 DEF Version, Goes, Takes, Arrived, ClientTypes
  <2>. QED  BY <2>1 DEF AskedStays, Asked, ClientTypes
<1>4. ASSUME NEW c \in Clients, NEW to \in {"new", "gone"}, HandshakeFails(c, to) PROVE AskedStays
  <2>1. UNCHANGED asked /\ \A d \in Clients : pc'[d] \in {"request", "body"} => pc[d] \in {"request", "body"}
    BY <1>4 DEF HandshakeFails, Goes, Hang, Broken, Arrived, ClientTypes
  <2>. QED  BY <2>1 DEF AskedStays, Asked, ClientTypes
<1>5. ASSUME NEW c \in Clients, Call(c) PROVE AskedStays
  <2>1. PICK k \in Nat : k = asked[c]
    BY DEF ClientTypes
  <2>2. asked' = [asked EXCEPT ![c] = k + 1] /\ pc' = [pc EXCEPT ![c] = "request"]
    BY <1>5, <2>1 DEF Call, Goes
  <2>3. ASSUME NEW d \in Clients, NEW j \in Nat, Asked(d, j) PROVE Asked(d, j)'
    <3>1. CASE d = c
      <4>1. j <= k /\ asked'[d] = k + 1
        BY <2>1, <2>2, <2>3, <3>1 DEF Asked, ClientTypes
      <4>. QED  BY <4>1 DEF Asked
    <3>2. CASE d # c
      BY <2>2, <2>3, <3>2 DEF Asked, ClientTypes
    <3>. QED  BY <3>1, <3>2
  <2>. QED  BY <2>3 DEF AskedStays
<1>6. ASSUME NEW c \in Clients, Send(c) PROVE AskedStays
  <2>1. UNCHANGED asked /\ \A d \in Clients : pc'[d] \in {"request", "body"} => pc[d] \in {"request", "body"}
    BY <1>6 DEF Send, Goes, Sends, ClientTypes
  <2>. QED  BY <2>1 DEF AskedStays, Asked, ClientTypes
<1>7. ASSUME NEW c \in Clients, CallFails(c) PROVE AskedStays
  <2>1. UNCHANGED asked /\ \A d \in Clients : pc'[d] \in {"request", "body"} => pc[d] \in {"request", "body"}
    BY <1>7 DEF CallFails, Ends, Goes, Broken, Arrived, Calling, ClientTypes
  <2>. QED  BY <2>1 DEF AskedStays, Asked, ClientTypes
<1>8. ASSUME NEW c \in Clients, Receive(c) PROVE AskedStays
  <2>1. UNCHANGED asked /\ \A d \in Clients : pc'[d] \in {"request", "body"} => pc[d] \in {"request", "body"}
    BY <1>8 DEF Receive, Replied, Ends, Goes, Takes, Arrived, Got, Expected, Calling,
       ClientTypes
  <2>. QED  BY <2>1 DEF AskedStays, Asked, ClientTypes
<1>9. ASSUME NEW c \in Clients, NoMemory(c) PROVE AskedStays
  <2>1. UNCHANGED asked /\ \A d \in Clients : pc'[d] \in {"request", "body"} => pc[d] \in {"request", "body"}
    BY <1>9 DEF NoMemory, Ends, Goes, Takes, Arrived, Got, Expected, ClientTypes
  <2>. QED  BY <2>1 DEF AskedStays, Asked, ClientTypes
<1>10. ASSUME NEW c \in Clients, Garbled(c) PROVE AskedStays
  <2>1. UNCHANGED asked /\ \A d \in Clients : pc'[d] \in {"request", "body"} => pc[d] \in {"request", "body"}
    BY <1>10 DEF Garbled, Ends, Goes, Arrived, Got, Expected, Calling, ClientTypes
  <2>. QED  BY <2>1 DEF AskedStays, Asked, ClientTypes
<1>11. ASSUME NEW c \in Clients, Leave(c) PROVE AskedStays
  <2>1. UNCHANGED asked /\ \A d \in Clients : pc'[d] \in {"request", "body"} => pc[d] \in {"request", "body"}
    BY <1>11 DEF Leave, Goes, Hang, Calling, ClientTypes
  <2>. QED  BY <2>1 DEF AskedStays, Asked, ClientTypes
<1>12. ASSUME NEW p \in Pipes, 
               Start(p) \/ NoContext(p) \/ Delete(p) \/ Greet(p) \/ Top(p) \/ ReadRequest(p) \/ Handle(p) \/
               Check(p) \/ ReplySize(p) \/ ReplyBody(p) \/ ReplyError(p) \/
               ConnectionFails(p) \/ GrowFails(p) \/ Flush(p) \/
               Disconnect(p) \/ (Release(p) /\ serv # "gone" /\ held[p] # "freed")
        PROVE  AskedStays
  <2>1. UNCHANGED cliVars
    BY <1>12 DEF Start, NoContext, Delete, Greet, Top, ReadRequest, Handle, Check, ReplySize, ReplyBody,
       ReplyError, ConnectionFails, GrowFails, Flush, Disconnect, Release, Steps, others
  <2>. QED  BY <2>1 DEF AskedStays, Asked, cliVars
<1>13. CASE AcceptorStops \/ Prepare \/ Connected \/ ConnectsNobody \/
          StartWorker \/ CannotRegister
  <2>1. UNCHANGED cliVars
    BY <1>13 DEF AcceptorStops, Prepare, Connected, ConnectsNobody, StartWorker, CannotRegister
  <2>. QED  BY <2>1 DEF AskedStays, Asked, cliVars
<1>14. CASE CancelAcceptor \/ JoinAcceptor \/ Visit \/ CancelWorker \/
          Joined \/ FreeServer
  <2>1. UNCHANGED cliVars
    BY <1>14 DEF CancelAcceptor, JoinAcceptor, Visit, CancelWorker, Joined,
       FreeServer
  <2>. QED  BY <2>1 DEF AskedStays, Asked, cliVars
<1>15. CASE CreateServer \/ Destroy \/ UNCHANGED vars
  <2>1. UNCHANGED cliVars
    BY <1>15 DEF CreateServer, Destroy, vars
  <2>. QED  BY <2>1 DEF AskedStays, Asked, cliVars
<1>16. CASE Dies
  <2>1. UNCHANGED cliVars
    BY <1>16 DEF Dies
  <2>. QED  BY <2>1 DEF AskedStays, Asked, cliVars
<1>17. CASE Faults
  BY <1>17, <1>16 DEF Faults
<1>18. ASSUME NEW p \in Pipes, Worker(p) PROVE AskedStays
  BY <1>18, <1>17, <1>12 DEF Worker, Doomed, Release
<1>19. CASE Acceptor
  BY <1>19, <1>17, <1>13 DEF Acceptor
<1>20. CASE Destroyer
  BY <1>20, <1>17, <1>14 DEF Destroyer, CancelFaults, JoinFaults
<1>21. CASE ClientNext
  BY <1>21, <1>1, <1>2, <1>3, <1>4, <1>5, <1>6, <1>7, <1>8, <1>9, <1>10,
     <1>11 DEF ClientNext, Retry, GiveUp
<1>. QED
  BY <1>16, <1>15, <1>18, <1>19, <1>20, <1>21 DEF Next, ServerNext, Killed

\* A worker's progress with a request, unless it takes or has handled one.
ProgressStays == \A q \in Pipes :
  /\ wk'[q] = "call" => wk[q] = "call" /\ cur'[q] = cur[q]
  /\ wk'[q] \in Handling \ {"call"} => wk[q] \in Handling \ {"call"} /\ cur'[q] = cur[q]

\* Requests stay in order in a queue that is left alone or emptied.
LEMMA OrderedFrame ==
  ASSUME PipeTypes, WorkerTypes, Owned, AskedStays, UNCHANGED served, NEW q \in Pipes, Ordered(q),
         toServer'[q] \in {toServer[q], <<>>}, ProgressStays
  PROVE  Ordered(q)'
<1>1. ASSUME NEW m \in Messages, m.by \in Clients, Due(m) PROVE Due(m)'
  BY <1>1 DEF Due, AskedStays, Messages
<1>2. Bodies(q)' \subseteq Bodies(q) /\ \A i \in Bodies(q)' : toServer'[q][i] = toServer[q][i]
  BY DEF Bodies
<1>3. \A i \in Bodies(q) : toServer[q][i] \in Messages /\ toServer[q][i].by \in Clients
  BY DEF Bodies, PipeTypes, Owned
<1>4. wk[q] \in Handling => cur[q] \in Messages /\ cur[q].by \in Clients
  BY DEF WorkerTypes, Owned
<1>5. \A i \in Bodies(q)' : Due(toServer[q][i])'
  BY <1>1, <1>2, <1>3 DEF Ordered
<1>6. \A i, j \in Bodies(q)' : i < j => toServer'[q][i].of < toServer'[q][j].of
  BY <1>2 DEF Ordered
<1>7. wk'[q] = "call" => /\ Due(cur[q])'
                         /\ \A i \in Bodies(q)' : cur'[q].of < toServer'[q][i].of
  BY <1>1, <1>2, <1>4 DEF Ordered, ProgressStays, Handling
<1>8. wk'[q] \in Handling \ {"call"} => cur'[q].of <= served'[cur'[q].by]
  BY DEF Ordered, ProgressStays
<1>. QED  BY <1>5, <1>6, <1>7, <1>8 DEF Ordered

Queues == /\ \A p \in Pipes : Ordered(p)
          /\ \A c \in Clients : Asked(c, served[c])

\* So they do in all queues when each is.
LEMMA QueuesFrame ==
  ASSUME PipeTypes, WorkerTypes, Owned, Queues, AskedStays, UNCHANGED served, QueuesEnd, ProgressStays
  PROVE  Queues'
<1>1. \A q \in Pipes : Ordered(q)'
  BY OrderedFrame DEF Queues, QueuesEnd
<1>2. \A c \in Clients : Asked(c, served[c])'
  BY DEF Queues, AskedStays, WorkerTypes
<1>. QED  BY <1>1, <1>2 DEF Queues

\* A worker takes the next message, and handles it when it is the request's body.
LEMMA QueuesTake ==
  ASSUME PipeTypes, WorkerTypes, Owned, Queues, AskedStays, UNCHANGED served,
         NEW p \in Pipes, toServer[p] # <<>>, wk[p] \notin Handling,
         toServer' = [toServer EXCEPT ![p] = Tail(toServer[p])],
         NEW to, wk' = [wk EXCEPT ![p] = to],
         \A q \in Pipes : q # p => cur'[q] = cur[q],
         to \in Handling =>
           to = "call" /\ Head(toServer[p]).is = "body" /\ cur'[p] = Head(toServer[p])
  PROVE  Queues'
<1>. DEFINE s == toServer[p]
<1>1. /\ Head(s) = s[1] /\ Len(s) \in Nat \ {0} /\ Len(Tail(s)) = Len(s) - 1
      /\ \A i \in 1..Len(Tail(s)) : i + 1 \in 1..Len(s) /\ Tail(s)[i] = s[i + 1]
  BY TailOf DEF PipeTypes
<1>2. toServer'[p] = Tail(s) /\ wk'[p] = to
  BY DEF PipeTypes, WorkerTypes
<1>3. ASSUME NEW q \in Pipes, q # p PROVE Ordered(q)'
  <2>1. toServer'[q] = toServer[q] /\ wk'[q] = wk[q] /\ cur'[q] = cur[q]
    BY <1>3 DEF PipeTypes, WorkerTypes
  <2>2. ASSUME NEW m \in Messages, m.by \in Clients, Due(m) PROVE Due(m)'
    BY <2>2 DEF Due, AskedStays, Messages
  <2>3. Bodies(q)' = Bodies(q)
    BY <2>1 DEF Bodies
  <2>4. \A i \in Bodies(q) : toServer[q][i] \in Messages /\ toServer[q][i].by \in Clients
    BY DEF Bodies, PipeTypes, Owned
  <2>5. wk[q] \in Handling => cur[q] \in Messages /\ cur[q].by \in Clients
    BY DEF WorkerTypes, Owned
  <2>6. Ordered(q)
    BY DEF Queues
  <2>. QED  BY <2>1, <2>2, <2>3, <2>4, <2>5, <2>6 DEF Ordered, Handling
<1>4. Ordered(p)'
  <2>1. ASSUME NEW m \in Messages, m.by \in Clients, Due(m) PROVE Due(m)'
    BY <2>1 DEF Due, AskedStays, Messages
  <2>2. \A i \in 1..Len(s) : s[i] \in Messages /\ s[i].by \in Clients
    BY DEF PipeTypes, Owned
  <2>3. /\ \A i \in 1..Len(s) : s[i].is = "body" => Due(s[i])
        /\ \A i, j \in 1..Len(s) : s[i].is = "body" /\ s[j].is = "body" /\ i < j => s[i].of < s[j].of
    BY DEF Queues, Ordered, Bodies
  <2>4. Bodies(p)' = {i \in 1..Len(Tail(s)) : Tail(s)[i].is = "body"}
    BY <1>2 DEF Bodies
  <2>. HIDE DEF s
  <2>5. ASSUME NEW i \in Bodies(p)'
        PROVE  /\ i \in Nat \ {0} /\ i + 1 \in 1..Len(s) /\ s[i + 1].is = "body"
               /\ toServer'[p][i] = s[i + 1]
    BY <1>1, <1>2, <2>4, <2>5
  <2>6. \A i \in Bodies(p)' : Due(toServer[p][i])'
    BY <2>1, <2>2, <2>3, <2>5
  <2>7. ASSUME NEW i \in Bodies(p)', NEW j \in Bodies(p)', i < j
        PROVE  toServer'[p][i].of < toServer'[p][j].of
    <3>1. i + 1 < j + 1
      BY <2>5, <2>7
    <3>. QED  BY <2>3, <2>5, <3>1
  <2>8. ASSUME wk'[p] \in Handling
        PROVE  /\ wk'[p] = "call" /\ Due(cur[p])'
               /\ \A i \in Bodies(p)' : cur'[p].of < toServer'[p][i].of
    <3>1. wk'[p] = "call" /\ s[1].is = "body" /\ cur'[p] = s[1]
      BY <1>1, <1>2, <2>8 DEF s
    <3>2. 1 \in 1..Len(s)
      BY <1>1
    <3>3. Due(cur[p])'
      BY <2>1, <2>2, <2>3, <3>1, <3>2
    <3>4. ASSUME NEW i \in Bodies(p)' PROVE cur'[p].of < toServer'[p][i].of
      <4>1. 1 < i + 1
        BY <2>5
      <4>. QED  BY <2>3, <2>5, <3>1, <3>2, <4>1
    <3>. QED  BY <3>1, <3>3, <3>4
  <2>. QED  BY <2>6, <2>7, <2>8 DEF Ordered, Handling
<1>5. \A c \in Clients : Asked(c, served[c])'
  BY DEF Queues, AskedStays, WorkerTypes
<1>. QED  BY <1>3, <1>4, <1>5 DEF Queues

\* Requests are handled in their order, each at most once.
LEMMA QueuesStep ==
  ClientTypes /\ PipeTypes /\ ServerTypes /\ WorkerTypes /\ Instances /\ Owned /\ Queues /\ [Next]_vars
    => Queues'
<1>. SUFFICES ASSUME ClientTypes, PipeTypes, ServerTypes, WorkerTypes,
                         Instances, Owned, Queues, [Next]_vars PROVE Queues'
  OBVIOUS
<1>. AskedStays
  BY AskedStep
<1>1. ASSUME NEW c \in Clients, Connect(c) PROVE Queues'
  <2>1. PICK q \in Pipes : toServer' = [toServer EXCEPT ![q] = <<Msg("hello", c, 0)>>]
    BY <1>1 DEF Connect, Listening
  <2>2. UNCHANGED wkVars /\ ProgressStays
    BY <1>1 DEF Connect, ProgressStays, wkVars
  <2>3. ASSUME NEW r \in Pipes PROVE Ordered(r)'
    <3>1. CASE r # q
      <4>1. toServer'[r] \in {toServer[r], <<>>} /\ Ordered(r) /\ UNCHANGED served
        BY <2>1, <2>2, <3>1 DEF PipeTypes, Queues, wkVars
      <4>. QED  BY <2>2, <4>1, OrderedFrame
    <3>2. CASE r = q
      <4>1. toServer'[r] = <<Msg("hello", c, 0)>>
        BY <2>1, <3>2 DEF PipeTypes
      <4>2. Bodies(r)' = {}
        BY <4>1 DEF Bodies, Msg
      <4>3. wk[r] \in Handling => cur[r] \in Messages /\ cur[r].by \in Clients
        BY DEF WorkerTypes, Owned
      <4>4. ASSUME NEW m \in Messages, m.by \in Clients, Due(m) PROVE Due(m)'
        BY <2>2, <4>4 DEF Due, AskedStays, Messages, wkVars
      <4>. QED  BY <2>2, <4>2, <4>3, <4>4 DEF Ordered, Queues, wkVars, Handling
    <3>. QED  BY <3>1, <3>2
  <2>4. \A d \in Clients : Asked(d, served[d])'
    BY <2>2 DEF Queues, AskedStays, WorkerTypes, wkVars
  <2>. QED  BY <2>3, <2>4 DEF Queues
<1>2. ASSUME NEW c \in Clients, ConnectFails(c) PROVE Queues'
  <2>1. QueuesEnd
    BY <1>2 DEF ConnectFails, Goes, QueuesEnd, pipeVars, PipeTypes
  <2>2. ProgressStays
    BY <1>2 DEF ConnectFails, Goes, ProgressStays, wkVars, WorkerTypes, Handling
  <2>3. UNCHANGED served
    BY <1>2 DEF ConnectFails, Goes, wkVars
  <2>. QED  BY <2>1, <2>2, <2>3, QueuesFrame
<1>3. ASSUME NEW c \in Clients, Version(c) PROVE Queues'
  <2>1. QueuesEnd
    BY <1>3 DEF Version, Goes, Takes, Arrived, QueuesEnd, pipeVars, PipeTypes
  <2>2. ProgressStays
    BY <1>3 DEF Version, Goes, Takes, Arrived, ProgressStays, wkVars, WorkerTypes, Handling
  <2>3. UNCHANGED served
    BY <1>3 DEF Version, Goes, Takes, Arrived, wkVars
  <2>. QED  BY <2>1, <2>2, <2>3, QueuesFrame
<1>4. ASSUME NEW c \in Clients, NEW to \in {"new", "gone"}, HandshakeFails(c, to) PROVE Queues'
  <2>1. QueuesEnd
    BY <1>4 DEF HandshakeFails, Goes, Hang, Broken, Arrived, QueuesEnd, pipeVars, PipeTypes
  <2>2. ProgressStays
    BY <1>4 DEF HandshakeFails, Goes, Hang, Broken, Arrived, ProgressStays, wkVars,
       WorkerTypes, Handling
  <2>3. UNCHANGED served
    BY <1>4 DEF HandshakeFails, Goes, Hang, Broken, Arrived, wkVars
  <2>. QED  BY <2>1, <2>2, <2>3, QueuesFrame
<1>5. ASSUME NEW c \in Clients, Call(c) PROVE Queues'
  <2>1. QueuesEnd
    BY <1>5 DEF Call, Goes, QueuesEnd, pipeVars, PipeTypes
  <2>2. ProgressStays
    BY <1>5 DEF Call, Goes, ProgressStays, wkVars, WorkerTypes, Handling
  <2>3. UNCHANGED served
    BY <1>5 DEF Call, Goes, wkVars
  <2>. QED  BY <2>1, <2>2, <2>3, QueuesFrame
<1>6. ASSUME NEW c \in Clients, Send(c) PROVE Queues'
  <2>1. /\ UNCHANGED <<wkVars, asked>> /\ pipe[c] \in Pipes /\ pc[c] \in {"request", "body"}
        /\ pc' = [pc EXCEPT ![c] = IF @ = "request" THEN "body" ELSE "size"]
    BY <1>6, PipeOf DEF Send, Goes
  <2>2. PICK m \in Messages : /\ m.is = pc[c] /\ m.by = c /\ m.of = asked[c]
                            /\ toServer' = [toServer EXCEPT ![pipe[c]] = Append(@, m)]
    <3>1. pc[c] \in Kinds /\ asked[c] \in Nat
      BY <2>1 DEF Kinds, ClientTypes
    <3>2. LET m == Msg(pc[c], c, asked[c])
          IN  m \in Messages /\ m.is = pc[c] /\ m.by = c /\ m.of = asked[c]
      BY <3>1, MsgType
    <3>3. toServer' = [toServer EXCEPT ![pipe[c]] = Append(@, Msg(pc[c], c, asked[c]))]
      BY <1>6 DEF Send, Sends
    <3>. QED  BY <3>2, <3>3
  <2>3. ProgressStays /\ UNCHANGED served
    BY <2>1 DEF ProgressStays, wkVars
  <2>4. ASSUME NEW q \in Pipes, q # pipe[c] PROVE Ordered(q)'
    <3>1. toServer'[q] \in {toServer[q], <<>>} /\ Ordered(q)
      BY <2>2, <2>4 DEF PipeTypes, Queues
    <3>. QED  BY <2>3, <3>1, OrderedFrame
  <2>5. ASSUME NEW p \in Pipes, p = pipe[c] PROVE Ordered(p)'
    <3>. DEFINE s == toServer[p]
               n == Len(s) + 1
    <3>1. /\ Len(Append(s, m)) = n /\ Len(s) \in Nat /\ Append(s, m)[n] = m
          /\ \A j \in 1..Len(s) : Append(s, m)[j] = s[j]
      BY <2>1, <2>2, AppendTo DEF PipeTypes
    <3>2. toServer'[p] = Append(s, m)
      BY <2>2, <2>5 DEF PipeTypes
    <3>3. ASSUME NEW x \in Messages, x.by = c, Due(x) PROVE Due(x)' /\ x.of < m.of
      <4>1. x.of < m.of
        BY <2>1, <2>2, <3>3 DEF Due, Asked
      <4>2. Due(x)'
        BY <2>3, <3>3 DEF Due, AskedStays, Messages
      <4>. QED  BY <4>1, <4>2
    <3>4. \A i \in 1..Len(s) : s[i] \in Messages /\ s[i].by = c
      BY <2>1, <2>5 DEF PipeTypes, Owned, On
    <3>5. wk[p] \in Handling => cur[p] \in Messages /\ cur[p].by = c
      BY <2>1, <2>5 DEF WorkerTypes, Owned, On
    <3>6. /\ \A i \in 1..Len(s) : s[i].is = "body" => Due(s[i])
          /\ \A i, j \in 1..Len(s) : s[i].is = "body" /\ s[j].is = "body" /\ i < j => s[i].of < s[j].of
          /\ wk[p] = "call" => /\ Due(cur[p])
                               /\ \A i \in 1..Len(s) : s[i].is = "body" => cur[p].of < s[i].of
          /\ wk[p] \in Handling \ {"call"} => cur[p].of <= served[cur[p].by]
      BY <2>1 DEF Queues, Ordered, Bodies
    <3>7. m.is = "body" => Due(m)'
      <4>1. m.is = "body" => pc'[c] = "size" /\ asked'[c] = asked[c]
        BY <2>1, <2>2 DEF ClientTypes
      <4>2. served'[c] < asked[c]
        BY <2>1, <2>3 DEF Queues, Asked
      <4>3. asked[c] \in Nat
        BY DEF ClientTypes
      <4>. QED  BY <2>2, <4>1, <4>2, <4>3 DEF Due, Asked
    <3>8. wk'[p] = wk[p] /\ cur'[p] = cur[p] /\ served' = served
      BY <2>1 DEF wkVars
    <3>9. Bodies(p)' = {i \in 1..n : Append(s, m)[i].is = "body"}
      BY <3>1, <3>2 DEF Bodies
    <3>. HIDE DEF s
    <3>10. \A i \in Bodies(p)' : /\ toServer'[p][i] \in Messages /\ Due(toServer[p][i])'
                                 /\ \/ /\ i \in 1..Len(s) /\ toServer'[p][i] = s[i]
                                       /\ s[i].is = "body" /\ s[i].of < m.of
                                    \/ i = n /\ toServer'[p][i] = m
      BY <2>2, <3>1, <3>2, <3>3, <3>4, <3>6, <3>7, <3>9
    <3>11. \A i, j \in Bodies(p)' : i < j => toServer'[p][i].of < toServer'[p][j].of
      BY <3>1, <3>6, <3>10
    <3>12. wk'[p] = "call" => /\ Due(cur[p])'
                             /\ \A i \in Bodies(p)' : cur'[p].of < toServer'[p][i].of
      BY <3>3, <3>5, <3>6, <3>8, <3>10 DEF Handling
    <3>. QED  BY <3>6, <3>8, <3>10, <3>11, <3>12 DEF Ordered
  <2>6. \A d \in Clients : Asked(d, served[d])'
    BY <2>3 DEF Queues, AskedStays, WorkerTypes
  <2>. QED  BY <2>4, <2>5, <2>6 DEF Queues
<1>7. ASSUME NEW c \in Clients, CallFails(c) PROVE Queues'
  <2>1. QueuesEnd
    BY <1>7 DEF CallFails, Ends, Goes, Broken, Arrived, Calling, QueuesEnd, pipeVars, PipeTypes
  <2>2. ProgressStays
    BY <1>7 DEF CallFails, Ends, Goes, Broken, Arrived, Calling, ProgressStays, wkVars,
       WorkerTypes, Handling
  <2>3. UNCHANGED served
    BY <1>7 DEF CallFails, Ends, Goes, Broken, Arrived, Calling, wkVars
  <2>. QED  BY <2>1, <2>2, <2>3, QueuesFrame
<1>8. ASSUME NEW c \in Clients, Receive(c) PROVE Queues'
  <2>1. QueuesEnd
    BY <1>8 DEF Receive, Replied, Ends, Goes, Takes, Arrived, Got, Expected, Calling,
       QueuesEnd, pipeVars, PipeTypes
  <2>2. ProgressStays
    BY <1>8 DEF Receive, Replied, Ends, Goes, Takes, Arrived, Got, Expected, Calling,
       ProgressStays, wkVars, WorkerTypes, Handling
  <2>3. UNCHANGED served
    BY <1>8 DEF Receive, Replied, Ends, Goes, Takes, Arrived, Got, Expected, Calling, wkVars
  <2>. QED  BY <2>1, <2>2, <2>3, QueuesFrame
<1>9. ASSUME NEW c \in Clients, NoMemory(c) PROVE Queues'
  <2>1. QueuesEnd
    BY <1>9 DEF NoMemory, Ends, Goes, Takes, Arrived, Got, Expected, QueuesEnd, pipeVars,
       PipeTypes
  <2>2. ProgressStays
    BY <1>9 DEF NoMemory, Ends, Goes, Takes, Arrived, Got, Expected, ProgressStays, wkVars,
       WorkerTypes, Handling
  <2>3. UNCHANGED served
    BY <1>9 DEF NoMemory, Ends, Goes, Takes, Arrived, Got, Expected, wkVars
  <2>. QED  BY <2>1, <2>2, <2>3, QueuesFrame
<1>10. ASSUME NEW c \in Clients, Garbled(c) PROVE Queues'
  <2>1. QueuesEnd
    BY <1>10 DEF Garbled, Ends, Goes, Arrived, Got, Expected, Calling, QueuesEnd, pipeVars,
       PipeTypes
  <2>2. ProgressStays
    BY <1>10 DEF Garbled, Ends, Goes, Arrived, Got, Expected, Calling, ProgressStays, wkVars,
       WorkerTypes, Handling
  <2>3. UNCHANGED served
    BY <1>10 DEF Garbled, Ends, Goes, Arrived, Got, Expected, Calling, wkVars
  <2>. QED  BY <2>1, <2>2, <2>3, QueuesFrame
<1>11. ASSUME NEW c \in Clients, Leave(c) PROVE Queues'
  <2>1. QueuesEnd
    BY <1>11 DEF Leave, Goes, Hang, Calling, QueuesEnd, pipeVars, PipeTypes
  <2>2. ProgressStays
    BY <1>11 DEF Leave, Goes, Hang, Calling, ProgressStays, wkVars, WorkerTypes, Handling
  <2>3. UNCHANGED served
    BY <1>11 DEF Leave, Goes, Hang, Calling, wkVars
  <2>. QED  BY <2>1, <2>2, <2>3, QueuesFrame
<1>12. ASSUME NEW p \in Pipes, Start(p) PROVE Queues'
  <2>1. QueuesEnd
    BY <1>12 DEF Start, Steps, others, QueuesEnd, pipeVars, PipeTypes
  <2>2. ProgressStays
    BY <1>12 DEF Start, Steps, others, ProgressStays, wkVars, WorkerTypes, Handling
  <2>3. UNCHANGED served
    BY <1>12 DEF Start, Steps, others, wkVars
  <2>. QED  BY <2>1, <2>2, <2>3, QueuesFrame
<1>13. ASSUME NEW p \in Pipes, Greet(p) PROVE Queues'
  <2>1. /\ toServer[p] # <<>> /\ toServer' = [toServer EXCEPT ![p] = Tail(toServer[p])]
        /\ wk' = [wk EXCEPT ![p] = "top"] /\ wk[p] = "hello" /\ UNCHANGED <<cur, served>>
    BY <1>13 DEF Greet, Arrives, Steps
  <2>2. "top" \notin Handling /\ "hello" \notin Handling
    BY DEF Handling
  <2>. QED  BY <2>1, <2>2, QueuesTake
<1>14. ASSUME NEW p \in Pipes, Top(p) PROVE Queues'
  <2>1. QueuesEnd
    BY <1>14 DEF Top, Steps, others, QueuesEnd, pipeVars, PipeTypes
  <2>2. ProgressStays
    BY <1>14 DEF Top, Steps, others, ProgressStays, wkVars, WorkerTypes, Handling
  <2>3. UNCHANGED served
    BY <1>14 DEF Top, Steps, others, wkVars
  <2>. QED  BY <2>1, <2>2, <2>3, QueuesFrame
<1>15. ASSUME NEW p \in Pipes, ReadRequest(p) PROVE Queues'
  <2>1. PICK to \in {"body", "call"} :
          /\ wk' = [wk EXCEPT ![p] = to] /\ wk[p] \in {"request", "body"}
          /\ to = "call" => wk[p] = "body"
    BY <1>15 DEF ReadRequest, Steps
  <2>2. /\ toServer[p] # <<>> /\ toServer' = [toServer EXCEPT ![p] = Tail(toServer[p])]
        /\ UNCHANGED served /\ cur' = [cur EXCEPT ![p] = Head(toServer[p])]
        /\ Head(toServer[p]).is = wk[p]
    BY <1>15 DEF ReadRequest, Arrives
  <2>3. cur'[p] = Head(toServer[p]) /\ \A q \in Pipes : q # p => cur'[q] = cur[q]
    BY <2>2 DEF WorkerTypes
  <2>4. wk[p] \notin Handling /\ (to \in Handling => to = "call")
    BY <2>1 DEF Handling
  <2>. QED  BY <2>1, <2>2, <2>3, <2>4, QueuesTake
<1>16. ASSUME NEW p \in Pipes, Handle(p) PROVE Queues'
  <2>. DEFINE c == cur[p].by
  <2>1. /\ wk[p] = "call" /\ wk' = [wk EXCEPT ![p] = "check"]
        /\ served' = [served EXCEPT ![c] = cur[p].of]
        /\ UNCHANGED <<pipeVars, cur, pc, asked>>
    BY <1>16 DEF Handle, Steps, others, cliVars
  <2>2. c \in Clients /\ Due(cur[p]) /\ On(c, p)
    BY <2>1 DEF Owned, Queues, Ordered, Handling, On
  <2>3. ASSUME NEW d \in Clients PROVE served'[d] = IF d = c THEN cur[p].of ELSE served[d]
    BY <2>1 DEF WorkerTypes
  <2>4. ASSUME NEW m, m.by \in Clients, Due(m), m.by = c => cur[p].of < m.of PROVE Due(m)'
    BY <2>1, <2>3, <2>4 DEF Due, Asked
  <2>5. ASSUME NEW q \in Pipes PROVE Ordered(q)'
    <3>1. Bodies(q)' = Bodies(q) /\ toServer' = toServer /\ Ordered(q) /\ Ordered(p)
      BY <2>1 DEF Bodies, pipeVars, Queues
    <3>2. \A i \in Bodies(q) : toServer[q][i].by \in Clients /\ On(toServer[q][i].by, q)
      BY DEF Bodies, Owned, On
    <3>3. \A i \in Bodies(q) : toServer[q][i].by = c => cur[p].of < toServer[q][i].of
      BY <2>1, <2>2, <3>1, <3>2 DEF Owned, Ordered
    <3>4. \A i \in Bodies(q) : Due(toServer[q][i])'
      BY <2>4, <3>1, <3>2, <3>3 DEF Ordered
    <3>5. CASE q = p
      <4>1. wk'[q] = "check" /\ cur'[q] = cur[q] /\ cur[q].of \in Nat
        BY <2>1, <3>5 DEF WorkerTypes, Messages
      <4>2. served'[c] = cur[q].of
        BY <2>2, <2>3, <3>5
      <4>. QED  BY <3>1, <3>4, <3>5, <4>1, <4>2 DEF Ordered
    <3>6. CASE q # p
      <4>1. wk'[q] = wk[q] /\ cur'[q] = cur[q]
        BY <2>1, <3>6 DEF WorkerTypes
      <4>2. wk[q] \in Handling => cur[q].by \in Clients /\ cur[q].by # c
        BY <2>2, <3>6 DEF Owned, On
      <4>3. wk[q] \in Handling => served'[cur[q].by] = served[cur[q].by]
        BY <2>3, <4>2
      <4>4. wk[q] = "call" => Due(cur[q])'
        BY <2>1, <2>4, <3>1, <4>1, <4>2 DEF Ordered, Handling
      <4>. QED  BY <3>1, <3>4, <4>1, <4>3, <4>4 DEF Ordered
    <3>. QED  BY <3>5, <3>6
  <2>6. ASSUME NEW d \in Clients PROVE Asked(d, served[d])'
    <3>1. Asked(d, served'[d])
      BY <2>2, <2>3 DEF Queues, Due
    <3>. QED  BY <2>1, <3>1 DEF Asked
  <2>. QED  BY <2>5, <2>6 DEF Queues
<1>17. ASSUME NEW p \in Pipes, Check(p) PROVE Queues'
  <2>1. QueuesEnd
    BY <1>17 DEF Check, Steps, others, QueuesEnd, pipeVars, PipeTypes
  <2>2. ProgressStays
    BY <1>17 DEF Check, Steps, others, ProgressStays, wkVars, WorkerTypes, Handling
  <2>3. UNCHANGED served
    BY <1>17 DEF Check, Steps, others, wkVars
  <2>. QED  BY <2>1, <2>2, <2>3, QueuesFrame
<1>18. ASSUME NEW p \in Pipes, ReplySize(p) PROVE Queues'
  <2>1. QueuesEnd
    BY <1>18 DEF ReplySize, Steps, others, Writes, Answer, QueuesEnd, pipeVars, PipeTypes
  <2>2. ProgressStays
    BY <1>18 DEF ReplySize, Steps, others, Writes, Answer, ProgressStays, wkVars,
       WorkerTypes, Handling
  <2>3. UNCHANGED served
    BY <1>18 DEF ReplySize, Steps, others, Writes, Answer, wkVars
  <2>. QED  BY <2>1, <2>2, <2>3, QueuesFrame
<1>19. ASSUME NEW p \in Pipes, ReplyBody(p) PROVE Queues'
  <2>1. QueuesEnd
    BY <1>19 DEF ReplyBody, Steps, others, Writes, Answer, QueuesEnd, pipeVars, PipeTypes
  <2>2. ProgressStays
    BY <1>19 DEF ReplyBody, Steps, others, Writes, Answer, ProgressStays, wkVars,
       WorkerTypes, Handling
  <2>3. UNCHANGED served
    BY <1>19 DEF ReplyBody, Steps, others, Writes, Answer, wkVars
  <2>. QED  BY <2>1, <2>2, <2>3, QueuesFrame
<1>20. ASSUME NEW p \in Pipes, ReplyError(p) PROVE Queues'
  <2>1. QueuesEnd
    BY <1>20 DEF ReplyError, Steps, others, ErrorReply, Writes, Answer, QueuesEnd, pipeVars,
       PipeTypes
  <2>2. ProgressStays
    BY <1>20 DEF ReplyError, Steps, others, ErrorReply, Writes, Answer, ProgressStays,
       wkVars, WorkerTypes, Handling
  <2>3. UNCHANGED served
    BY <1>20 DEF ReplyError, Steps, others, ErrorReply, Writes, Answer, wkVars
  <2>. QED  BY <2>1, <2>2, <2>3, QueuesFrame
<1>21. ASSUME NEW p \in Pipes, ConnectionFails(p) PROVE Queues'
  <2>1. QueuesEnd
    BY <1>21 DEF ConnectionFails, Fails, others, Reading, Writing, Arrives, QueuesEnd,
       pipeVars, PipeTypes
  <2>2. ProgressStays
    BY <1>21 DEF ConnectionFails, Fails, others, Reading, Writing, Arrives, ProgressStays,
       wkVars, WorkerTypes, Handling
  <2>3. UNCHANGED served
    BY <1>21 DEF ConnectionFails, Fails, others, Reading, Writing, Arrives, wkVars
  <2>. QED  BY <2>1, <2>2, <2>3, QueuesFrame
<1>22. ASSUME NEW p \in Pipes, GrowFails(p) PROVE Queues'
  <2>1. QueuesEnd
    BY <1>22 DEF GrowFails, Fails, QueuesEnd, pipeVars, PipeTypes
  <2>2. ProgressStays
    BY <1>22 DEF GrowFails, Fails, ProgressStays, wkVars, WorkerTypes, Handling
  <2>3. UNCHANGED served
    BY <1>22 DEF GrowFails, Fails, wkVars
  <2>. QED  BY <2>1, <2>2, <2>3, QueuesFrame
<1>23. ASSUME NEW p \in Pipes, Flush(p) PROVE Queues'
  <2>1. QueuesEnd
    BY <1>23 DEF Flush, Steps, others, QueuesEnd, pipeVars, PipeTypes
  <2>2. ProgressStays
    BY <1>23 DEF Flush, Steps, others, ProgressStays, wkVars, WorkerTypes, Handling
  <2>3. UNCHANGED served
    BY <1>23 DEF Flush, Steps, others, wkVars
  <2>. QED  BY <2>1, <2>2, <2>3, QueuesFrame
<1>24. ASSUME NEW p \in Pipes, Disconnect(p) PROVE Queues'
  <2>1. QueuesEnd
    BY <1>24 DEF Disconnect, Steps, others, Closed, QueuesEnd, pipeVars, PipeTypes
  <2>2. ProgressStays
    BY <1>24 DEF Disconnect, Steps, others, Closed, ProgressStays, wkVars, WorkerTypes, Handling
  <2>3. UNCHANGED served
    BY <1>24 DEF Disconnect, Steps, others, Closed, wkVars
  <2>. QED  BY <2>1, <2>2, <2>3, QueuesFrame
<1>41. ASSUME NEW p \in Pipes, NoContext(p) PROVE Queues'
  <2>1. QueuesEnd
    BY <1>41 DEF NoContext, Steps, QueuesEnd, pipeVars, PipeTypes
  <2>2. ProgressStays
    BY <1>41 DEF NoContext, Steps, ProgressStays, wkVars, WorkerTypes, Handling
  <2>3. UNCHANGED served
    BY <1>41 DEF NoContext, Steps, wkVars
  <2>. QED  BY <2>1, <2>2, <2>3, QueuesFrame
<1>40. ASSUME NEW p \in Pipes, Delete(p) PROVE Queues'
  <2>1. QueuesEnd
    BY <1>40 DEF Delete, Steps, QueuesEnd, pipeVars, PipeTypes
  <2>2. ProgressStays
    BY <1>40 DEF Delete, Steps, ProgressStays, wkVars, WorkerTypes, Handling
  <2>3. UNCHANGED served
    BY <1>40 DEF Delete, Steps, wkVars
  <2>. QED  BY <2>1, <2>2, <2>3, QueuesFrame
<1>25. ASSUME NEW p \in Pipes, Release(p), serv # "gone", held[p] # "freed" PROVE Queues'
  <2>1. QueuesEnd
    BY <1>25 DEF Release, Steps, others, QueuesEnd, pipeVars, PipeTypes
  <2>2. ProgressStays
    BY <1>25 DEF Release, Steps, others, ProgressStays, wkVars, WorkerTypes, Handling
  <2>3. UNCHANGED served
    BY <1>25 DEF Release, Steps, others, wkVars
  <2>. QED  BY <2>1, <2>2, <2>3, QueuesFrame
<1>26. CASE AcceptorStops
  <2>1. QueuesEnd
    BY <1>26 DEF AcceptorStops, Stops, CloseInstance, Closed, Closing, QueuesEnd, pipeVars,
       PipeTypes
  <2>2. ProgressStays
    BY <1>26 DEF AcceptorStops, Stops, CloseInstance, Closed, Closing, ProgressStays, wkVars,
       WorkerTypes, Handling
  <2>3. UNCHANGED served
    BY <1>26 DEF AcceptorStops, Stops, CloseInstance, Closed, Closing, wkVars
  <2>. QED  BY <2>1, <2>2, <2>3, QueuesFrame
<1>42. CASE CannotRegister
  <2>1. QueuesEnd
    BY <1>42 DEF CannotRegister, Stops, CloseInstance, Closed, Closing, QueuesEnd, pipeVars,
       PipeTypes
  <2>2. ProgressStays
    BY <1>42 DEF CannotRegister, Stops, CloseInstance, Closed, Closing, ProgressStays, wkVars,
       WorkerTypes, Handling
  <2>3. UNCHANGED served
    BY <1>42 DEF CannotRegister, Stops, CloseInstance, Closed, Closing, wkVars
  <2>. QED  BY <2>1, <2>2, <2>3, QueuesFrame
<1>27. CASE ConnectsNobody
  <2>1. QueuesEnd
    BY <1>27 DEF ConnectsNobody, NotConnected, CloseInstance, Closed, QueuesEnd, pipeVars,
       PipeTypes
  <2>2. ProgressStays
    BY <1>27 DEF ConnectsNobody, NotConnected, CloseInstance, Closed, ProgressStays, wkVars,
       WorkerTypes, Handling
  <2>3. UNCHANGED served
    BY <1>27 DEF ConnectsNobody, NotConnected, CloseInstance, Closed, wkVars
  <2>. QED  BY <2>1, <2>2, <2>3, QueuesFrame
<1>28. CASE StartWorker
  <2>1. QueuesEnd
    BY <1>28 DEF StartWorker, Closing, QueuesEnd, pipeVars, PipeTypes
  <2>2. ProgressStays
    BY <1>28 DEF StartWorker, Closing, ProgressStays, wkVars, WorkerTypes, Handling
  <2>3. UNCHANGED served
    BY <1>28 DEF StartWorker, Closing, wkVars
  <2>. QED  BY <2>1, <2>2, <2>3, QueuesFrame
<1>29. CASE Prepare \/ Connected
  <2>1. UNCHANGED <<cliVars, toServer, wkVars>>
    BY <1>29 DEF Prepare, Connected, pipeVars, wkVars
  <2>2. QueuesEnd /\ ProgressStays /\ UNCHANGED served
    BY <2>1 DEF QueuesEnd, ProgressStays, wkVars
  <2>. QED  BY <2>2, QueuesFrame
<1>30. CASE CancelAcceptor
  <2>1. QueuesEnd
    BY <1>30 DEF CancelAcceptor, NotConnected, CloseInstance, Closed, QueuesEnd, pipeVars,
       PipeTypes
  <2>2. ProgressStays
    BY <1>30 DEF CancelAcceptor, NotConnected, CloseInstance, Closed, ProgressStays, wkVars,
       WorkerTypes, Handling
  <2>3. UNCHANGED served
    BY <1>30 DEF CancelAcceptor, NotConnected, CloseInstance, Closed, wkVars
  <2>. QED  BY <2>1, <2>2, <2>3, QueuesFrame
<1>31. CASE CancelWorker
  <2>1. QueuesEnd
    BY <1>31 DEF CancelWorker, Gone, Fails, Reading, Writing, QueuesEnd, pipeVars, PipeTypes
  <2>2. ProgressStays
    BY <1>31 DEF CancelWorker, Gone, Fails, Reading, Writing, ProgressStays, wkVars,
       WorkerTypes, Handling
  <2>3. UNCHANGED served
    BY <1>31 DEF CancelWorker, Gone, Fails, Reading, Writing, wkVars
  <2>. QED  BY <2>1, <2>2, <2>3, QueuesFrame
<1>32. CASE JoinAcceptor \/ Visit \/ Joined \/ FreeServer
  <2>1. UNCHANGED <<cliVars, toServer, wkVars>>
    BY <1>32 DEF JoinAcceptor, Visit, Joined, FreeServer, pipeVars, wkVars
  <2>2. QueuesEnd /\ ProgressStays /\ UNCHANGED served
    BY <2>1 DEF QueuesEnd, ProgressStays, wkVars
  <2>. QED  BY <2>2, QueuesFrame
<1>33. CASE CreateServer \/ Destroy \/ UNCHANGED vars
  <2>1. UNCHANGED <<cliVars, toServer, wkVars>>
    BY <1>33 DEF CreateServer, Destroy, vars, pipeVars, wkVars
  <2>2. QueuesEnd /\ ProgressStays /\ UNCHANGED served
    BY <2>1 DEF QueuesEnd, ProgressStays, wkVars
  <2>. QED  BY <2>2, QueuesFrame
<1>34. CASE Dies
  <2>1. QueuesEnd
    BY <1>34 DEF Dies, Closed, QueuesEnd, pipeVars, PipeTypes
  <2>2. ProgressStays
    BY <1>34 DEF Dies, Closed, ProgressStays, wkVars, WorkerTypes, Handling
  <2>3. UNCHANGED served
    BY <1>34 DEF Dies, Closed, wkVars
  <2>. QED  BY <2>1, <2>2, <2>3, QueuesFrame
<1>35. CASE Faults
  BY <1>35, <1>34 DEF Faults
<1>36. ASSUME NEW p \in Pipes, Worker(p) PROVE Queues'
  BY <1>36, <1>35, <1>12, <1>13, <1>14, <1>15, <1>16, <1>17, <1>18, <1>19, <1>20, <1>21,
     <1>22, <1>23, <1>24, <1>25, <1>40, <1>41 DEF Worker, Doomed, Release
<1>37. CASE Acceptor
  BY <1>37, <1>35, <1>26, <1>27, <1>28, <1>29, <1>42 DEF Acceptor
<1>38. CASE Destroyer
  BY <1>38, <1>35, <1>30, <1>31, <1>32 DEF Destroyer, CancelFaults, JoinFaults
<1>39. CASE ClientNext
  BY <1>39, <1>1, <1>2, <1>3, <1>4, <1>5, <1>6, <1>7, <1>8, <1>9, <1>10,
     <1>11 DEF ClientNext, Retry, GiveUp
<1>. QED
  BY <1>34, <1>33, <1>36, <1>37, <1>38, <1>39 DEF Next, ServerNext, Killed

\* What is on its way to a client afterwards was so before, or is about a request
\* of its that was handled.
Replies == \A c \in Clients : Answered(c)
OnlyAnswers == \A q \in Pipes : \A i \in 1..Len(toClient'[q]) :
  \/ \E j \in 1..Len(toClient[q]) : toClient'[q][i] = toClient[q][j]
  \/ \A d \in Clients : pipe[d] = q => toClient'[q][i].of <= served[d]
ServedGrows == \A d \in Clients : served[d] <= served'[d]

\* The replies stay right when only answers to what was served are added.
LEMMA AnsweredFrame ==
  ASSUME ClientTypes, PipeTypes, PipeTypes', WorkerTypes, WorkerTypes', Replies,
         OnlyAnswers, ServedGrows, \A d \in Clients : pipe'[d] \in {pipe[d], None}
  PROVE  Replies'
<1>. SUFFICES ASSUME NEW c \in Clients, pipe'[c] # None, NEW i \in 1..Len(toClient'[pipe'[c]])
              PROVE  toClient'[pipe'[c]][i].of <= served'[c]
  BY DEF Replies, Answered
<1>1. PICK q \in Pipes : q = pipe'[c] /\ q = pipe[c]
  BY DEF ClientTypes
<1>2. toClient'[q][i] \in Messages /\ served[c] \in Nat /\ served'[c] \in Nat /\ served[c] <= served'[c]
  BY <1>1 DEF PipeTypes, WorkerTypes, ServedGrows
<1>3. toClient'[q][i].of \in Nat
  BY <1>2 DEF Messages
<1>4. toClient'[q][i].of <= served[c]
  <2>1. CASE \E j \in 1..Len(toClient[q]) : toClient'[q][i] = toClient[q][j]
    BY <1>1, <2>1, ConstantsAssumption DEF Replies, Answered
  <2>2. CASE \A d \in Clients : pipe[d] = q => toClient'[q][i].of <= served[d]
    BY <1>1, <2>2
  <2>. QED  BY <1>1, <2>1, <2>2 DEF OnlyAnswers
<1>. QED  BY <1>1, <1>2, <1>3, <1>4

\* Nothing is written.
LEMMA NothingWritten ==
  ASSUME \A q \in Pipes : toClient'[q] \in {toClient[q], <<>>}
  PROVE  OnlyAnswers
BY DEF OnlyAnswers

\* One queue changes.
LEMMA OneQueue ==
  ASSUME NEW p \in Pipes,
         \A q \in Pipes : q # p => toClient'[q] = toClient[q],
         \A i \in 1..Len(toClient'[p]) :
           \/ \E j \in 1..Len(toClient[p]) : toClient'[p][i] = toClient[p][j]
           \/ \A d \in Clients : pipe[d] = p => toClient'[p][i].of <= served[d]
  PROVE  OnlyAnswers
<1>. SUFFICES ASSUME NEW q \in Pipes, NEW i \in 1..Len(toClient'[q])
              PROVE  \/ \E j \in 1..Len(toClient[q]) : toClient'[q][i] = toClient[q][j]
                     \/ \A d \in Clients : pipe[d] = q => toClient'[q][i].of <= served[d]
  BY DEF OnlyAnswers
<1>. QED  OBVIOUS

\* A client reads the next message.
LEMMA OneRead ==
  ASSUME PipeTypes, NEW p \in Pipes, toClient[p] # <<>>,
         toClient' = [toClient EXCEPT ![p] = Tail(toClient[p])]
  PROVE  OnlyAnswers
<1>. DEFINE s == toClient[p]
<1>1. \A i \in 1..Len(Tail(s)) : i + 1 \in 1..Len(s) /\ Tail(s)[i] = s[i + 1]
  BY TailOf DEF PipeTypes
<1>2. toClient'[p] = Tail(s) /\ \A q \in Pipes : q # p => toClient'[q] = toClient[q]
  BY DEF PipeTypes
<1>3. \A i \in 1..Len(toClient'[p]) : \E j \in 1..Len(toClient[p]) : toClient'[p][i] = toClient[p][j]
  BY <1>1, <1>2
<1>4. \A q \in Pipes : q # p => toClient'[q] = toClient[q]
  BY <1>2
<1>. QED  BY <1>3, <1>4, OneQueue

\* A worker writes its reply.
LEMMA ReplyWritten ==
  ASSUME PipeTypes, WorkerTypes, Owned, Queues, NEW p \in Pipes, wk[p] \in Handling \ {"call"},
         NEW t \in Seq(Messages), toClient' = [toClient EXCEPT ![p] = @ \o t],
         \A i \in 1..Len(t) : t[i].of = cur[p].of
  PROVE  OnlyAnswers
<1>. DEFINE s == toClient[p]
<1>1. /\ Len(s) \in Nat /\ Len(t) \in Nat /\ Len(s \o t) = Len(s) + Len(t)
      /\ \A i \in 1..Len(s) : (s \o t)[i] = s[i]
      /\ \A i \in 1..Len(t) : (s \o t)[Len(s) + i] = t[i]
  BY Concat DEF PipeTypes
<1>2. toClient'[p] = s \o t /\ \A q \in Pipes : q # p => toClient'[q] = toClient[q]
  BY DEF PipeTypes
<1>3. \A d \in Clients : pipe[d] = p => cur[p].of <= served[d]
  BY DEF Owned, On, Queues, Ordered
<1>4. \A i \in 1..Len(s \o t) : \/ i \in 1..Len(s) /\ (s \o t)[i] = s[i]
                                \/ (s \o t)[i].of = cur[p].of
  <2>. SUFFICES ASSUME NEW i \in 1..Len(s \o t), i \notin 1..Len(s)
                PROVE  (s \o t)[i].of = cur[p].of
    BY <1>1
  <2>1. PICK j \in 1..Len(t) : i = Len(s) + j
    <3>1. i - Len(s) \in 1..Len(t) /\ i = Len(s) + (i - Len(s))
      BY <1>1
    <3>. QED  BY <3>1
  <2>. QED  BY <1>1, <2>1
<1>. HIDE DEF s
<1>5. ASSUME NEW i \in 1..Len(toClient'[p])
      PROVE  \/ \E j \in 1..Len(s) : toClient'[p][i] = s[j]
             \/ \A d \in Clients : pipe[d] = p => toClient'[p][i].of <= served[d]
  <2>1. CASE i \in 1..Len(s) /\ (s \o t)[i] = s[i]
    BY <1>2, <2>1
  <2>2. CASE (s \o t)[i].of = cur[p].of
    BY <1>2, <1>3, <2>2
  <2>. QED  BY <1>2, <1>4, <1>5, <2>1, <2>2
<1>. QED  BY <1>2, <1>5, OneQueue DEF s

\* A client is told only about requests that were handled.
LEMMA RepliesStep ==
  ClientTypes /\ PipeTypes /\ ServerTypes /\ WorkerTypes /\ Instances /\ Owned
  /\ Queues /\ Replies /\ [Next]_vars /\ PipeTypes' /\ WorkerTypes'
    => Replies'
<1>. SUFFICES ASSUME ClientTypes, PipeTypes, ServerTypes, WorkerTypes, Instances,
                         Owned, Queues, Replies, PipeTypes', WorkerTypes', [Next]_vars PROVE Replies'
  OBVIOUS
<1>1. ASSUME NEW c \in Clients, Connect(c) PROVE Replies'
  <2>1. PICK q \in Pipes : end[q] = "listen" /\ pipe' = [pipe EXCEPT ![c] = q]
    BY <1>1 DEF Connect, Listening
  <2>2. UNCHANGED <<toClient, wkVars>>
    BY <1>1 DEF Connect
  <2>3. toClient[q] = <<>>
    BY <2>1 DEF Instances, Instance
  <2>4. Answered(c)'
    BY <2>1, <2>2, <2>3 DEF Answered, ClientTypes
  <2>5. ASSUME NEW d \in Clients, d # c PROVE Answered(d)'
    <3>1. pipe'[d] = pipe[d]
      BY <2>1, <2>5 DEF ClientTypes
    <3>. QED  BY <2>2, <3>1 DEF Answered, Replies, wkVars
  <2>. QED  BY <2>4, <2>5 DEF Replies
<1>2. ASSUME NEW c \in Clients, Version(c) PROVE Replies'
  <2>1. pipe[c] \in Pipes
    BY <1>2, PipeOf DEF Version, Calling
  <2>2. toClient[pipe[c]] # <<>> /\ toClient' = [toClient EXCEPT ![pipe[c]] = Tail(toClient[pipe[c]])]
    BY <1>2 DEF Version, Arrived, Takes
  <2>3. OnlyAnswers
    BY <2>1, <2>2, OneRead
  <2>7. UNCHANGED served
    BY <1>2 DEF Version, wkVars
  <2>8. ServedGrows
    BY <2>7 DEF ServedGrows, WorkerTypes
  <2>9. \A d \in Clients : pipe'[d] \in {pipe[d], None}
    BY <1>2 DEF Version, others, cliVars, ClientTypes
  <2>. QED  BY <2>3, <2>8, <2>9, AnsweredFrame
<1>3. ASSUME NEW c \in Clients, NEW to \in {"new", "gone"}, HandshakeFails(c, to) PROVE Replies'
  <2>1. UNCHANGED pipeVars \/ Hang(pipe[c])
    BY <1>3 DEF HandshakeFails
  <2>2. OnlyAnswers
    BY <2>1, NothingWritten DEF Hang, pipeVars, PipeTypes
  <2>7. UNCHANGED served
    BY <1>3 DEF HandshakeFails, wkVars
  <2>8. ServedGrows
    BY <2>7 DEF ServedGrows, WorkerTypes
  <2>9. \A d \in Clients : pipe'[d] \in {pipe[d], None}
    BY <1>3 DEF HandshakeFails, others, cliVars, ClientTypes
  <2>. QED  BY <2>2, <2>8, <2>9, AnsweredFrame
<1>4. ASSUME NEW c \in Clients, Receive(c) PROVE Replies'
  <2>1. pipe[c] \in Pipes
    BY <1>4, PipeOf DEF Receive, Calling
  <2>2. toClient[pipe[c]] # <<>> /\ toClient' = [toClient EXCEPT ![pipe[c]] = Tail(toClient[pipe[c]])]
    BY <1>4 DEF Receive, Arrived, Takes
  <2>3. OnlyAnswers
    BY <2>1, <2>2, OneRead
  <2>7. UNCHANGED served
    BY <1>4 DEF Receive, wkVars
  <2>8. ServedGrows
    BY <2>7 DEF ServedGrows, WorkerTypes
  <2>9. \A d \in Clients : pipe'[d] \in {pipe[d], None}
    BY <1>4 DEF Receive, others, cliVars, ClientTypes
  <2>. QED  BY <2>3, <2>8, <2>9, AnsweredFrame
<1>5. ASSUME NEW c \in Clients, NoMemory(c) PROVE Replies'
  <2>1. pipe[c] \in Pipes
    BY <1>5, PipeOf DEF NoMemory, Calling
  <2>2. toClient[pipe[c]] # <<>> /\ toClient' = [toClient EXCEPT ![pipe[c]] = Tail(toClient[pipe[c]])]
    BY <1>5 DEF NoMemory, Arrived, Takes
  <2>3. OnlyAnswers
    BY <2>1, <2>2, OneRead
  <2>7. UNCHANGED served
    BY <1>5 DEF NoMemory, wkVars
  <2>8. ServedGrows
    BY <2>7 DEF ServedGrows, WorkerTypes
  <2>9. \A d \in Clients : pipe'[d] \in {pipe[d], None}
    BY <1>5 DEF NoMemory, others, cliVars, ClientTypes
  <2>. QED  BY <2>3, <2>8, <2>9, AnsweredFrame
<1>6. ASSUME NEW c \in Clients, Garbled(c) PROVE Replies'
  <2>1. pipe[c] \in Pipes
    BY <1>6, PipeOf DEF Garbled, Calling
  <2>2. PICK j \in 1..Len(toClient[pipe[c]]) :
          toClient' = [toClient EXCEPT ![pipe[c]] = SubSeq(@, j + 1, Len(@))]
    BY <1>6 DEF Garbled
  <2>3. PICK s \in Seq(Messages) : s = toClient[pipe[c]] /\ j \in 1..Len(s)
    BY <2>1, <2>2 DEF PipeTypes
  <2>4. /\ toClient'[pipe[c]] = SubSeq(s, j + 1, Len(s))
        /\ \A q \in Pipes : q # pipe[c] => toClient'[q] = toClient[q]
    BY <2>1, <2>2, <2>3 DEF PipeTypes
  <2>5. /\ Len(SubSeq(s, j + 1, Len(s))) = Len(s) - j
        /\ \A i \in 1..(Len(s) - j) : i + j \in 1..Len(s) /\ SubSeq(s, j + 1, Len(s))[i] = s[i + j]
    BY <2>3, Suffix
  <2>6. \A i \in 1..Len(toClient'[pipe[c]]) : \E k \in 1..Len(s) : toClient'[pipe[c]][i] = s[k]
    BY <2>4, <2>5
  <2>77. OnlyAnswers
    BY <2>1, <2>3, <2>4, <2>6, OneQueue
  <2>7. UNCHANGED served
    BY <1>6 DEF Garbled, wkVars
  <2>8. ServedGrows
    BY <2>7 DEF ServedGrows, WorkerTypes
  <2>9. \A d \in Clients : pipe'[d] \in {pipe[d], None}
    BY <1>6 DEF Garbled, others, cliVars, ClientTypes
  <2>. QED  BY <2>77, <2>8, <2>9, AnsweredFrame
<1>7. ASSUME NEW c \in Clients, Leave(c) PROVE Replies'
  <2>1. UNCHANGED pipeVars \/ Hang(pipe[c])
    BY <1>7 DEF Leave
  <2>2. OnlyAnswers
    BY <2>1, NothingWritten DEF Hang, pipeVars, PipeTypes
  <2>7. UNCHANGED served
    BY <1>7 DEF Leave, wkVars
  <2>8. ServedGrows
    BY <2>7 DEF ServedGrows, WorkerTypes
  <2>9. \A d \in Clients : pipe'[d] \in {pipe[d], None}
    BY <1>7 DEF Leave, others, cliVars, ClientTypes
  <2>. QED  BY <2>2, <2>8, <2>9, AnsweredFrame
<1>8. ASSUME NEW c \in Clients, 
               ConnectFails(c) \/ Call(c) \/ Send(c) \/ CallFails(c)
        PROVE  Replies'
  <2>1. UNCHANGED <<pipe, toClient, served>>
    BY <1>8 DEF ConnectFails, Call, Send, CallFails, cliVars, pipeVars, wkVars, Stops,
       CloseInstance, NotConnected
  <2>. QED  BY <2>1 DEF Replies, Answered
<1>9. ASSUME NEW p \in Pipes, Greet(p) PROVE Replies'
  <2>1. PICK m \in Messages : m.of = 0 /\ toClient' = [toClient EXCEPT ![p] = Append(@, m)]
    <3>1. "version" \in Kinds /\ None \in Clients \cup {None}
      BY DEF Kinds
    <3>2. Msg("version", None, 0) \in Messages /\ Msg("version", None, 0).of = 0
      BY <3>1, MsgType
    <3>. QED  BY <1>9, <3>2 DEF Greet
  <2>2. /\ toClient'[p] = Append(toClient[p], m)
        /\ \A q \in Pipes : q # p => toClient'[q] = toClient[q]
    BY <2>1 DEF PipeTypes
  <2>3. PICK s \in Seq(Messages) : s = toClient[p]
    BY DEF PipeTypes
  <2>4. /\ Len(s) \in Nat /\ Len(Append(s, m)) = Len(s) + 1 /\ Append(s, m)[Len(s) + 1] = m
        /\ \A i \in 1..Len(s) : Append(s, m)[i] = s[i]
    BY AppendTo
  <2>5. \A i \in 1..Len(Append(s, m)) : \/ i \in 1..Len(s) /\ Append(s, m)[i] = s[i]
                                       \/ Append(s, m)[i] = m
    BY <2>4
  <2>6. \A d \in Clients : m.of <= served[d]
    BY <2>1 DEF WorkerTypes
  <2>77. OnlyAnswers
    BY <2>2, <2>3, <2>5, <2>6, OneQueue
  <2>7. UNCHANGED served
    BY <1>9 DEF Greet, wkVars
  <2>8. ServedGrows
    BY <2>7 DEF ServedGrows, WorkerTypes
  <2>9. \A d \in Clients : pipe'[d] \in {pipe[d], None}
    BY <1>9 DEF Greet, others, cliVars, ClientTypes
  <2>. QED  BY <2>77, <2>8, <2>9, AnsweredFrame
<1>10. ASSUME NEW p \in Pipes, Handle(p) PROVE Replies'
  <2>1. /\ wk[p] = "call" /\ served' = [served EXCEPT ![cur[p].by] = cur[p].of]
        /\ UNCHANGED <<pipeVars, pipe>>
    BY <1>10 DEF Handle, Steps, others, cliVars
  <2>2. Due(cur[p]) /\ cur[p] \in Messages
    BY <2>1 DEF Queues, Ordered, WorkerTypes
  <2>3. \A d \in Clients : served'[d] = served[d] \/ (served'[d] = cur[p].of /\ d = cur[p].by)
    BY <2>1 DEF WorkerTypes
  <2>4. ServedGrows
    BY <2>2, <2>3 DEF ServedGrows, Due, WorkerTypes, Messages
  <2>5. OnlyAnswers
    BY <2>1, NothingWritten DEF pipeVars
  <2>. QED  BY <2>1, <2>4, <2>5, AnsweredFrame
<1>11. ASSUME NEW p \in Pipes, ReplySize(p) PROVE Replies'
  <2>1. Answer("size", p) \in Messages /\ Answer("size", p).of = cur[p].of
    BY AnswerType DEF Kinds
  <2>2. /\ toClient' = [toClient EXCEPT ![p] = @ \o <<Answer("size", p)>>]
        /\ wk[p] \in Handling \ {"call"}
    BY <1>11 DEF ReplySize, Writes, Steps, Handling
  <2>3. PICK t \in Seq(Messages) : /\ toClient' = [toClient EXCEPT ![p] = @ \o t]
                                 /\ \A j \in 1..Len(t) : t[j].of = cur[p].of
    <3>1. /\ <<Answer("size", p)>> \in Seq(Messages)
          /\ \A j \in 1..Len(<<Answer("size", p)>>) : <<Answer("size", p)>>[j].of = cur[p].of
      BY <2>1, Short
    <3>. QED  BY <2>2, <3>1
  <2>4. OnlyAnswers
    BY <2>2, <2>3, ReplyWritten
  <2>7. UNCHANGED served
    BY <1>11 DEF ReplySize, wkVars
  <2>8. ServedGrows
    BY <2>7 DEF ServedGrows, WorkerTypes
  <2>9. \A d \in Clients : pipe'[d] \in {pipe[d], None}
    BY <1>11 DEF ReplySize, others, cliVars, ClientTypes
  <2>. QED  BY <2>4, <2>8, <2>9, AnsweredFrame
<1>12. ASSUME NEW p \in Pipes, ReplyBody(p) PROVE Replies'
  <2>1. Answer("answer", p) \in Messages /\ Answer("answer", p).of = cur[p].of
    BY AnswerType DEF Kinds
  <2>2. /\ toClient' = [toClient EXCEPT ![p] = @ \o <<Answer("answer", p)>>]
        /\ wk[p] \in Handling \ {"call"}
    BY <1>12 DEF ReplyBody, Writes, Steps, Handling
  <2>3. PICK t \in Seq(Messages) : /\ toClient' = [toClient EXCEPT ![p] = @ \o t]
                                 /\ \A j \in 1..Len(t) : t[j].of = cur[p].of
    <3>1. /\ <<Answer("answer", p)>> \in Seq(Messages)
          /\ \A j \in 1..Len(<<Answer("answer", p)>>) : <<Answer("answer", p)>>[j].of = cur[p].of
      BY <2>1, Short
    <3>. QED  BY <2>2, <3>1
  <2>4. OnlyAnswers
    BY <2>2, <2>3, ReplyWritten
  <2>7. UNCHANGED served
    BY <1>12 DEF ReplyBody, wkVars
  <2>8. ServedGrows
    BY <2>7 DEF ServedGrows, WorkerTypes
  <2>9. \A d \in Clients : pipe'[d] \in {pipe[d], None}
    BY <1>12 DEF ReplyBody, others, cliVars, ClientTypes
  <2>. QED  BY <2>4, <2>8, <2>9, AnsweredFrame
<1>13. ASSUME NEW p \in Pipes, ReplyError(p) PROVE Replies'
  <2>1. \A is \in Kinds : Answer(is, p) \in Messages /\ Answer(is, p).of = cur[p].of
    BY AnswerType
  <2>2. PICK k, l, m \in Messages :
          /\ k.of = cur[p].of /\ l.of = cur[p].of /\ m.of = cur[p].of
          /\ \/ toClient' = [toClient EXCEPT ![p] = @ \o <<k, l>>]
             \/ toClient' = [toClient EXCEPT ![p] = @ \o <<k, l, m>>]
    BY <1>13, <2>1 DEF ReplyError, ErrorReply, Writes, Kinds
  <2>3. wk[p] \in Handling \ {"call"}
    BY <1>13 DEF ReplyError, Steps, Handling
  <2>4. PICK t \in Seq(Messages) : /\ toClient' = [toClient EXCEPT ![p] = @ \o t]
                                 /\ \A j \in 1..Len(t) : t[j].of = cur[p].of
    <3>1. <<k, l>> \in Seq(Messages) /\ \A i \in 1..Len(<<k, l>>) : <<k, l>>[i].of = cur[p].of
      BY <2>2, Short
    <3>2. <<k, l, m>> \in Seq(Messages) /\ \A i \in 1..Len(<<k, l, m>>) : <<k, l, m>>[i].of = cur[p].of
      BY <2>2, Short
    <3>. QED  BY <2>2, <3>1, <3>2
  <2>5. OnlyAnswers
    BY <2>3, <2>4, ReplyWritten
  <2>7. UNCHANGED served
    BY <1>13 DEF ReplyError, wkVars
  <2>8. ServedGrows
    BY <2>7 DEF ServedGrows, WorkerTypes
  <2>9. \A d \in Clients : pipe'[d] \in {pipe[d], None}
    BY <1>13 DEF ReplyError, others, cliVars, ClientTypes
  <2>. QED  BY <2>5, <2>8, <2>9, AnsweredFrame
<1>14. ASSUME NEW p \in Pipes, Disconnect(p) PROVE Replies'
  <2>1. OnlyAnswers
    BY <1>14, NothingWritten DEF Disconnect, Steps, others, Closed, pipeVars, PipeTypes
  <2>2. ServedGrows
    BY <1>14 DEF Disconnect, Steps, others, Closed, ServedGrows, wkVars, WorkerTypes
  <2>3. \A d \in Clients : pipe'[d] \in {pipe[d], None}
    BY <1>14 DEF Disconnect, Steps, others, Closed, cliVars, ClientTypes
  <2>. QED  BY <2>1, <2>2, <2>3, AnsweredFrame
<1>15. ASSUME NEW p \in Pipes, 
               Start(p) \/ NoContext(p) \/ Delete(p) \/ Top(p) \/ ReadRequest(p) \/ Check(p) \/
               ConnectionFails(p) \/ GrowFails(p) \/ Flush(p) \/
               (Release(p) /\ serv # "gone" /\ held[p] # "freed")
        PROVE  Replies'
  <2>1. UNCHANGED <<pipe, toClient, served>>
    BY <1>15 DEF Start, NoContext, Delete, Top, ReadRequest, Check, ConnectionFails, GrowFails, Flush, Release,
       Steps, others, cliVars, pipeVars, wkVars, Stops, CloseInstance, NotConnected
  <2>. QED  BY <2>1 DEF Replies, Answered
<1>16. CASE AcceptorStops \/ Prepare \/ Connected \/ ConnectsNobody \/
          StartWorker \/ CannotRegister
  <2>1. UNCHANGED <<pipe, toClient, served>>
    BY <1>16 DEF AcceptorStops, Prepare, Connected, ConnectsNobody, StartWorker, CannotRegister, cliVars,
       pipeVars, wkVars, Stops, CloseInstance, NotConnected
  <2>. QED  BY <2>1 DEF Replies, Answered
<1>17. CASE CancelAcceptor \/ JoinAcceptor \/ Visit \/ CancelWorker \/
          Joined \/ FreeServer
  <2>1. UNCHANGED <<pipe, toClient, served>>
    BY <1>17 DEF CancelAcceptor, JoinAcceptor, Visit, CancelWorker, Joined,
       FreeServer, cliVars, pipeVars, wkVars, Stops, CloseInstance, NotConnected
  <2>. QED  BY <2>1 DEF Replies, Answered
<1>18. CASE CreateServer \/ Destroy \/ UNCHANGED vars
  <2>1. UNCHANGED <<pipe, toClient, served>>
    BY <1>18 DEF CreateServer, Destroy, vars, cliVars, pipeVars, wkVars, Stops,
       CloseInstance, NotConnected
  <2>. QED  BY <2>1 DEF Replies, Answered
<1>19. CASE Dies
  <2>1. UNCHANGED <<pipe, toClient, served>>
    BY <1>19 DEF Dies, cliVars, pipeVars, wkVars, Stops, CloseInstance, NotConnected
  <2>. QED  BY <2>1 DEF Replies, Answered
<1>20. CASE Faults
  BY <1>20, <1>19 DEF Faults
<1>21. ASSUME NEW p \in Pipes, Worker(p) PROVE Replies'
  BY <1>21, <1>20, <1>9, <1>10, <1>11, <1>12, <1>13, <1>14, <1>15 DEF Worker, Doomed, Release
<1>22. CASE Acceptor
  BY <1>22, <1>20, <1>16 DEF Acceptor
<1>23. CASE Destroyer
  BY <1>23, <1>20, <1>17 DEF Destroyer, CancelFaults, JoinFaults
<1>24. CASE ClientNext
  BY <1>24, <1>1, <1>2, <1>3, <1>4, <1>5, <1>6, <1>7, <1>8 DEF ClientNext, Retry, GiveUp
<1>. QED
  BY <1>19, <1>18, <1>21, <1>22, <1>23, <1>24 DEF Next, ServerNext, Killed

\* An instance whose client does not notice: what it may read and, while the
\* connection lasts, what the worker has to do are the same.
SameWork(v, w) == \/ v = w
                  \/ w \in {"flush", "leave", "doomed", "delete", "unlock"}
                  \/ v \in {"none", "start", "hello"} /\ w \in {"none", "start", "hello"}
                  \/ v \in {"top", "request"} /\ w \in {"top", "request"}
                  \/ /\ v \in {"call", "check", "size", "error"}
                     /\ w \in {"call", "check", "size", "error"}
Quiet(p) ==
  /\ toClient'[p] \in {toClient[p], <<>>}
  /\ end'[p] = "open" => /\ end[p] = "open" /\ SameWork(wk[p], wk'[p])
                         /\ toServer'[p] = toServer[p] /\ toClient'[p] = toClient[p]
                         /\ cur'[p] = cur[p]
Still(d) == /\ pc'[d] = pc[d] /\ asked'[d] = asked[d] /\ half'[d] = half[d]
            /\ pipe'[d] = pipe[d]

\* A connection may have nothing to read.
LEMMA NothingToRead == ASSUME NEW c PROVE <<>> \in Unread(c)
BY DEF Unread

\* What a client has read and has to read fit while both stay as they are.
LEMMA FitsFrame ==
  ASSUME NEW d \in Clients, Fits(d), Still(d), pipe[d] # None => Quiet(pipe[d])
  PROVE  Fits(d)'
<1>. SUFFICES ASSUME ~half[d], pipe[d] # None, Quiet(pipe[d])
              PROVE  /\ pc'[d] # "starved"
                     /\ toClient'[pipe[d]] \in Unread(d)'
                     /\ end'[pipe[d]] = "open" => AtWork(d, pipe[d])'
  BY DEF Fits, Still
<1>1. Unread(d)' = Unread(d)
  BY DEF Unread, Of, Still
<1>2. toClient'[pipe[d]] \in Unread(d)'
  BY <1>1, NothingToRead DEF Fits, Quiet
<1>3. ASSUME end'[pipe[d]] = "open" PROVE AtWork(d, pipe[d])'
  <2>. PICK p : p = pipe[d]
    OBVIOUS
  <2>1. /\ AtWork(d, p) /\ SameWork(wk[p], wk'[p]) /\ toServer'[p] = toServer[p]
        /\ toClient'[p] = toClient[p] /\ cur'[p] = cur[p]
    BY <1>3 DEF Quiet, Fits
  <2>2. pc'[d] = pc[d] /\ asked'[d] = asked[d]
    BY DEF Still
  <2>3. AtWork(d, p)'
    BY <2>1, <2>2 DEF AtWork, SameWork, Of
  <2>. QED  BY <2>3 DEF Still
<1>. QED  BY <1>2, <1>3 DEF Fits, Still

\* A client and its instance, nobody else.
LEMMA ClientOnly ==
  ASSUME ClientTypes, Owned, InStep, NEW c \in Clients,
         \A q \in Pipes : q # pipe[c] => Quiet(q),
         \A d \in Clients : d # c => Still(d),
         Fits(c)'
  PROVE  InStep'
<1>. SUFFICES ASSUME NEW d \in Clients, d # c PROVE Fits(d)'
  BY DEF InStep
<1>1. pipe[d] # None => pipe[d] \in Pipes /\ pipe[d] # pipe[c]
  BY DEF ClientTypes, Owned, On
<1>2. Fits(d) /\ Still(d) /\ (pipe[d] # None => Quiet(pipe[d]))
  BY <1>1 DEF InStep
<1>. QED  BY <1>2, FitsFrame

\* A worker and the client of its instance.
LEMMA WorkerOnly ==
  ASSUME ClientTypes, InStep, NEW p \in Pipes,
         \A q \in Pipes : q # p => Quiet(q),
         \A d \in Clients : Still(d),
         \/ Quiet(p)
         \/ \A d \in Clients : pipe[d] = p => Fits(d)'
  PROVE  InStep'
<1>. SUFFICES ASSUME NEW d \in Clients PROVE Fits(d)'
  BY DEF InStep
<1>1. pipe[d] # None => pipe[d] \in Pipes
  BY DEF ClientTypes
<1>2. Fits(d) /\ Still(d)
  BY DEF InStep
<1>3. CASE pipe[d] # None => Quiet(pipe[d])
  BY <1>2, <1>3, FitsFrame
<1>4. CASE pipe[d] = p /\ \A e \in Clients : pipe[e] = p => Fits(e)'
  BY <1>4
<1>. QED  BY <1>1, <1>3, <1>4

\* No client does anything, and no worker or only one that has nothing more to
\* do with its client.
LEMMA AllQuiet ==
  ASSUME ClientTypes, InStep, \A q \in Pipes : Quiet(q), UNCHANGED cliVars
  PROVE  InStep'
<1>. SUFFICES ASSUME NEW d \in Clients PROVE Fits(d)'
  BY DEF InStep
<1>1. Fits(d) /\ Still(d) /\ (pipe[d] # None => Quiet(pipe[d]))
  BY DEF InStep, Still, cliVars, ClientTypes
<1>. QED  BY <1>1, FitsFrame

\* Queues of one, two and three messages.
LEMMA One ==
  ASSUME NEW a
  PROVE  /\ Head(<<a>>) = a /\ Tail(<<a>>) = <<>>
         /\ Append(<<>>, a) = <<a>> /\ <<>> \o <<a>> = <<a>>
<1>1. Head(<<a>>) = a /\ Tail(<<a>>) = <<>>
  OBVIOUS
<1>2. Append(<<>>, a) = <<a>>
  OBVIOUS
<1>3. <<>> \o <<a>> = <<a>>
  OBVIOUS
<1>. QED  BY <1>1, <1>2, <1>3

\* A queue of two messages.
LEMMA Two ==
  ASSUME NEW a, NEW b
  PROVE  /\ Head(<<a, b>>) = a /\ Tail(<<a, b>>) = <<b>>
         /\ Append(<<a>>, b) = <<a, b>>
         /\ <<a>> \o <<b>> = <<a, b>> /\ <<>> \o <<a, b>> = <<a, b>>
<1>1. Head(<<a, b>>) = a
  OBVIOUS
<1>2. Tail(<<a, b>>) = <<b>>
  OBVIOUS
<1>3. Append(<<a>>, b) = <<a, b>>
  <2>. DEFINE S == {a, b}
  <2>1. <<a>> \in Seq(S) /\ <<b>> \in Seq(S) /\ <<a, b>> \in Seq(S)
    OBVIOUS
  <2>2. /\ Append(<<a>>, b) \in Seq(S) /\ Len(Append(<<a>>, b)) = 2
        /\ Append(<<a>>, b)[1] = a /\ Append(<<a>>, b)[2] = b
    BY <2>1
  <2>3. Len(<<a, b>>) = 2 /\ <<a, b>>[1] = a /\ <<a, b>>[2] = b
    OBVIOUS
  <2>4. \A i \in 1..2 : i = 1 \/ i = 2
    OBVIOUS
  <2>. QED  BY <2>1, <2>2, <2>3, <2>4, SeqEqual
<1>4. <<a>> \o <<b>> = <<a, b>>
  <2>. DEFINE S == {a, b}
  <2>1. <<a>> \in Seq(S) /\ <<b>> \in Seq(S) /\ <<a, b>> \in Seq(S)
    OBVIOUS
  <2>2. /\ <<a>> \o <<b>> \in Seq(S) /\ Len(<<a>> \o <<b>>) = 2
        /\ (<<a>> \o <<b>>)[1] = a /\ (<<a>> \o <<b>>)[2] = b
    BY <2>1
  <2>3. Len(<<a, b>>) = 2 /\ <<a, b>>[1] = a /\ <<a, b>>[2] = b
    OBVIOUS
  <2>4. \A i \in 1..2 : i = 1 \/ i = 2
    OBVIOUS
  <2>. QED  BY <2>1, <2>2, <2>3, <2>4, SeqEqual
<1>5. <<>> \o <<a, b>> = <<a, b>>
  OBVIOUS
<1>. QED  BY <1>1, <1>2, <1>3, <1>4, <1>5

\* A queue of three messages.
LEMMA Three ==
  ASSUME NEW a, NEW b, NEW c
  PROVE  /\ Head(<<a, b, c>>) = a /\ Tail(<<a, b, c>>) = <<b, c>>
         /\ <<>> \o <<a, b, c>> = <<a, b, c>>
<1>1. Head(<<a, b, c>>) = a
  OBVIOUS
<1>2. Tail(<<a, b, c>>) = <<b, c>>
  OBVIOUS
<1>3. <<>> \o <<a, b, c>> = <<a, b, c>>
  OBVIOUS
<1>. QED  BY <1>1, <1>2, <1>3

\* Only a client that has stopped in a reply finds something that it does not expect.
LEMMA GarbledHalf ==
  ASSUME ClientTypes, PipeTypes, WorkerTypes, Instances, InStep, NEW c \in Clients, Garbled(c)
  PROVE  half[c]
<1>. SUFFICES ASSUME ~half[c] PROVE FALSE
  OBVIOUS
<1>1. pipe[c] \in Pipes
  BY PipeOf DEF Garbled, Calling
<1>2. PICK r : r = toClient[pipe[c]]
  OBVIOUS
<1>3. pc[c] # "starved" /\ r \in Unread(c)
  BY <1>1, <1>2, ConstantsAssumption DEF InStep, Fits
<1>4. /\ pc[c] \in Calling \ {"request", "body"} /\ r # <<>> /\ Head(r).is \notin Expected(c)
  BY <1>2 DEF Garbled, Arrived, Got
<1>5. PICK S, A, Z, E, F, T :
        /\ S = Of("size", c) /\ A = Of("answer", c) /\ Z = Of("zero", c)
        /\ E = Of("error", c) /\ F = Of("error with text", c) /\ T = Of("text", c)
  OBVIOUS
<1>6. /\ S.is = "size" /\ A.is = "answer" /\ Z.is = "zero" /\ E.is = "error"
      /\ F.is = "error with text" /\ T.is = "text"
  BY <1>5 DEF Of, Msg
<1>7. \/ pc[c] = "size" /\ r \in {<<S>>, <<S, A>>, <<Z, E>>, <<Z, F, T>>}
      \/ pc[c] = "answer" /\ r = <<A>>
      \/ pc[c] = "error" /\ r \in {<<E>>, <<F, T>>}
      \/ pc[c] = "text" /\ r = <<T>>
  BY <1>3, <1>4, <1>5 DEF Unread, Calling
<1>8. \/ pc[c] = "size" /\ Head(r) \in {S, Z}
      \/ pc[c] = "answer" /\ Head(r) = A
      \/ pc[c] = "error" /\ Head(r) \in {E, F}
      \/ pc[c] = "text" /\ Head(r) = T
  BY <1>7, One, Two, Three
<1>. QED  BY <1>4, <1>6, <1>8 DEF Expected

\* Otherwise the next message is about the call that it is in.
LEMMA NextIsOwn ==
  ASSUME ClientTypes, PipeTypes, Instances, InStep, NEW c \in Clients, pc[c] \in Calling,
         Arrived(c), ~half[c]
  PROVE  Got(c).of = asked[c]
<1>1. pipe[c] \in Pipes
  BY PipeOf DEF Calling
<1>2. PICK r : r = toClient[pipe[c]]
  OBVIOUS
<1>3. pc[c] # "starved" /\ r \in Unread(c) /\ r # <<>>
  BY <1>1, <1>2, ConstantsAssumption DEF InStep, Fits, Arrived
<1>4. PICK S, A, Z, E, F, T :
        /\ S = Of("size", c) /\ A = Of("answer", c) /\ Z = Of("zero", c)
        /\ E = Of("error", c) /\ F = Of("error with text", c) /\ T = Of("text", c)
  OBVIOUS
<1>5. /\ S.of = asked[c] /\ A.of = asked[c] /\ Z.of = asked[c] /\ E.of = asked[c]
      /\ F.of = asked[c] /\ T.of = asked[c]
  BY <1>4 DEF Of, Msg
<1>6. r \in {<<S>>, <<S, A>>, <<Z, E>>, <<Z, F, T>>, <<A>>, <<E>>, <<F, T>>, <<T>>}
  BY <1>3, <1>4 DEF Unread, Calling
<1>7. Head(r) \in {S, A, Z, E, F, T}
  BY <1>6, One, Two, Three
<1>. QED  BY <1>2, <1>5, <1>7 DEF Got

\* A client and its worker keep in step.
LEMMA InStepStep ==
  ClientTypes /\ PipeTypes /\ ServerTypes /\ WorkerTypes /\ Registered /\ Instances
  /\ Owned /\ InStep /\ [Next]_vars
    => InStep'
<1>. SUFFICES ASSUME ClientTypes, PipeTypes, ServerTypes, WorkerTypes,
                         Registered, Instances, Owned, InStep, [Next]_vars PROVE InStep'
  OBVIOUS
<1>1. ASSUME NEW c \in Clients, Connect(c) PROVE InStep'
  <2>1. PICK p \in Pipes : /\ end[p] = "listen" /\ pipe' = [pipe EXCEPT ![c] = p]
                         /\ end' = [end EXCEPT ![p] = "open"]
                         /\ toServer' = [toServer EXCEPT ![p] = <<Msg("hello", c, 0)>>]
    BY <1>1 DEF Connect, Listening
  <2>2. /\ UNCHANGED <<asked, half, toClient, wkVars>> /\ pc' = [pc EXCEPT ![c] = "version"]
    BY <1>1 DEF Connect, Goes
  <2>3. toClient[p] = <<>> /\ Nobody(p) /\ wk[p] = "none"
    BY <2>1, ConstantsAssumption DEF Instances, Instance, Registered
  <2>4. /\ pipe'[c] = p /\ pc'[c] = "version" /\ toClient'[p] = <<>> /\ wk'[p] = "none"
        /\ toServer'[p] = <<Msg("hello", c, 0)>>
    BY <2>1, <2>2, <2>3 DEF ClientTypes, PipeTypes, wkVars
  <2>5. AtWork(c, p)'
    BY <2>4 DEF AtWork
  <2>6. Fits(c)'
    BY <2>4, <2>5 DEF Fits, Unread
  <2>. SUFFICES ASSUME NEW d \in Clients, d # c PROVE Fits(d)'
    BY <2>6 DEF InStep
  <2>7. Still(d) /\ Fits(d) /\ (pipe[d] # None => pipe[d] \in Pipes /\ pipe[d] # p)
    BY <2>1, <2>2, <2>3 DEF Still, ClientTypes, InStep, Nobody
  <2>8. pipe[d] # None => Quiet(pipe[d])
    BY <2>1, <2>2, <2>7 DEF Quiet, SameWork, PipeTypes, wkVars
  <2>. QED  BY <2>7, <2>8, FitsFrame
<1>2. ASSUME NEW c \in Clients, ConnectFails(c) PROVE InStep'
  <2>1. pipe'[c] = None
    BY <1>2 DEF ConnectFails, Goes, ClientTypes, Instances
  <2>90. Fits(c)'
    BY <2>1 DEF Fits
  <2>91. \A q \in Pipes : q # pipe[c] => Quiet(q)
    BY <1>2 DEF ConnectFails, Goes, Quiet, SameWork, pipeVars, wkVars, PipeTypes
  <2>92. \A d \in Clients : d # c => Still(d)
    BY <1>2 DEF ConnectFails, Goes, Still, ClientTypes
  <2>. QED  BY <2>90, <2>91, <2>92, ClientOnly
<1>3. ASSUME NEW c \in Clients, Version(c) PROVE InStep'
  <2>1. pipe[c] \in Pipes /\ end[pipe[c]] \in {"open", "cut"}
    BY <1>3, PipeOf DEF Version, Calling
  <2>2. PICK p, s, r, w, m :
          /\ p \in Pipes /\ p = pipe[c] /\ s = toServer[p] /\ r = toClient[p] /\ w = wk[p] /\ m = cur[p]
    BY <2>1
  <2>3. /\ pipe'[c] = p /\ wk'[p] = w /\ cur'[p] = m /\ end'[p] = end[p] /\ half'[c] = half[c]
    BY <1>3, <2>2 DEF Version, pipeVars, wkVars
  <2>4. ASSUME ~half[c] PROVE r \in Unread(c) /\ (end[p] = "open" => AtWork(c, p))
    BY <2>2, <2>4, ConstantsAssumption DEF InStep, Fits
  <2>5. /\ pc[c] = "version" /\ r # <<>> /\ toClient'[p] = Tail(r) /\ toServer'[p] = s
        /\ pc'[c] = "idle" /\ asked'[c] = asked[c]
    BY <1>3, <2>2 DEF Version, Arrived, Takes, Goes, PipeTypes, ClientTypes
  <2>90. Fits(c)'
    <3>. SUFFICES ASSUME ~half[c] PROVE Fits(c)'
      BY <2>3 DEF Fits
    <3>1. r = <<Msg("version", None, 0)>> /\ Tail(r) = <<>>
      BY <2>4, <2>5, One DEF Unread
    <3>2. ASSUME end[p] = "open" PROVE AtWork(c, p)'
      BY <2>2, <2>3, <2>4, <2>5, <3>2 DEF AtWork
    <3>. QED  BY <2>3, <2>5, <3>1, <3>2 DEF Fits, Unread
  <2>91. \A q \in Pipes : q # pipe[c] => Quiet(q)
    BY <1>3 DEF Version, Goes, Takes, Arrived, Quiet, SameWork, pipeVars, wkVars, PipeTypes
  <2>92. \A d \in Clients : d # c => Still(d)
    BY <1>3 DEF Version, Goes, Takes, Arrived, Still, ClientTypes
  <2>. QED  BY <2>90, <2>91, <2>92, ClientOnly
<1>4. ASSUME NEW c \in Clients, NEW to \in {"new", "gone"}, HandshakeFails(c, to) PROVE InStep'
  <2>1. pipe'[c] = None
    BY <1>4 DEF HandshakeFails, Goes, Hang, Broken, Arrived, ClientTypes, Instances
  <2>90. Fits(c)'
    BY <2>1 DEF Fits
  <2>91. \A q \in Pipes : q # pipe[c] => Quiet(q)
    BY <1>4 DEF HandshakeFails, Goes, Hang, Broken, Arrived, Quiet, SameWork, pipeVars,
       wkVars, PipeTypes
  <2>92. \A d \in Clients : d # c => Still(d)
    BY <1>4 DEF HandshakeFails, Goes, Hang, Broken, Arrived, Still, ClientTypes
  <2>. QED  BY <2>90, <2>91, <2>92, ClientOnly
<1>5. ASSUME NEW c \in Clients, Call(c) PROVE InStep'
  <2>1. pipe[c] \in Pipes /\ end[pipe[c]] \in {"open", "cut"}
    BY <1>5, PipeOf DEF Call, Calling
  <2>2. PICK p, s, r, w, m :
          /\ p \in Pipes /\ p = pipe[c] /\ s = toServer[p] /\ r = toClient[p] /\ w = wk[p] /\ m = cur[p]
    BY <2>1
  <2>3. /\ pipe'[c] = p /\ wk'[p] = w /\ cur'[p] = m /\ end'[p] = end[p] /\ half'[c] = half[c]
    BY <1>5, <2>2 DEF Call, pipeVars, wkVars
  <2>4. ASSUME ~half[c] PROVE r \in Unread(c) /\ (end[p] = "open" => AtWork(c, p))
    BY <2>2, <2>4, ConstantsAssumption DEF InStep, Fits
  <2>5. /\ pc[c] = "idle" /\ toClient'[p] = r /\ toServer'[p] = s /\ pc'[c] = "request"
    BY <1>5, <2>2 DEF Call, Goes, pipeVars, ClientTypes
  <2>90. Fits(c)'
    <3>. SUFFICES ASSUME ~half[c] PROVE Fits(c)'
      BY <2>3 DEF Fits
    <3>1. r = <<>>
      BY <2>4, <2>5 DEF Unread
    <3>2. ASSUME end[p] = "open" PROVE AtWork(c, p)'
      BY <2>2, <2>3, <2>4, <2>5, <3>2 DEF AtWork
    <3>. QED  BY <2>3, <2>5, <3>1, <3>2 DEF Fits, Unread
  <2>91. \A q \in Pipes : q # pipe[c] => Quiet(q)
    BY <1>5 DEF Call, Goes, Quiet, SameWork, pipeVars, wkVars, PipeTypes
  <2>92. \A d \in Clients : d # c => Still(d)
    BY <1>5 DEF Call, Goes, Still, ClientTypes
  <2>. QED  BY <2>90, <2>91, <2>92, ClientOnly
<1>6. ASSUME NEW c \in Clients, Send(c) PROVE InStep'
  <2>1. pipe[c] \in Pipes /\ end[pipe[c]] \in {"open", "cut"}
    BY <1>6, PipeOf DEF Send, Calling
  <2>2. PICK p, s, r, w, m :
          /\ p \in Pipes /\ p = pipe[c] /\ s = toServer[p] /\ r = toClient[p] /\ w = wk[p] /\ m = cur[p]
    BY <2>1
  <2>3. /\ pipe'[c] = p /\ wk'[p] = w /\ cur'[p] = m /\ end'[p] = end[p] /\ half'[c] = half[c]
    BY <1>6, <2>2 DEF Send, pipeVars, wkVars
  <2>4. ASSUME ~half[c] PROVE r \in Unread(c) /\ (end[p] = "open" => AtWork(c, p))
    BY <2>2, <2>4, ConstantsAssumption DEF InStep, Fits
  <2>5. /\ pc[c] \in {"request", "body"} /\ toClient'[p] = r
        /\ toServer'[p] = Append(s, Of(pc[c], c)) /\ asked'[c] = asked[c]
        /\ pc'[c] = IF pc[c] = "request" THEN "body" ELSE "size"
    BY <1>6, <2>2 DEF Send, Sends, Goes, PipeTypes, ClientTypes, Of
  <2>90. Fits(c)'
    <3>. SUFFICES ASSUME ~half[c] PROVE Fits(c)'
      BY <2>3 DEF Fits
    <3>1. r = <<>>
      BY <2>4, <2>5 DEF Unread
    <3>2. Of("request", c)' = Of("request", c) /\ Of("body", c)' = Of("body", c)
      BY <2>5 DEF Of
    <3>0. w \in {"none", "start", "hello", "top", "request", "body", "call", "check", "size", "error",
                "answer", "flush", "leave", "doomed", "delete", "unlock"}
      BY <2>2 DEF WorkerTypes, WorkerPlaces, Reading, Writing
    <3>3. ASSUME end[p] = "open" PROVE AtWork(c, p)'
      <4>1. CASE pc[c] = "request"
        <5>0. w \in {"top", "request", "flush", "leave", "doomed", "delete", "unlock"}
          BY <2>2, <2>4, <2>5, <3>0, <3>3, <4>1 DEF AtWork
        <5>1. w \in {"top", "request"} => s = <<>>
          BY <2>2, <2>4, <2>5, <3>3, <4>1 DEF AtWork
        <5>2. w \in {"top", "request"} => toServer'[p] = <<Of("request", c)>>
          BY <2>5, <4>1, <5>1, One
        <5>. QED  BY <2>3, <2>5, <3>2, <4>1, <5>0, <5>2 DEF AtWork
      <4>2. CASE pc[c] = "body"
        <5>1. \/ s = <<Of("request", c)>> /\ w \in {"top", "request"}
              \/ s = <<>> /\ w = "body"
              \/ w \in {"flush", "leave", "doomed", "delete", "unlock"}
          BY <2>2, <2>4, <2>5, <3>0, <3>3, <4>2 DEF AtWork
        <5>2. CASE s = <<Of("request", c)>> /\ w \in {"top", "request"}
          <6>1. toServer'[p] = <<Of("request", c), Of("body", c)>>
            <7>1. Append(<<Of("request", c)>>, Of("body", c)) = <<Of("request", c), Of("body", c)>>
              BY Two
            <7>. QED  BY <2>5, <4>2, <5>2, <7>1
          <6>. QED  BY <2>3, <2>5, <3>1, <3>2, <4>2, <5>2, <6>1 DEF AtWork
        <5>3. CASE s = <<>> /\ w = "body"
          <6>1. toServer'[p] = <<Of("body", c)>>
            BY <2>5, <4>2, <5>3, One, Two
          <6>. QED  BY <2>3, <2>5, <3>1, <3>2, <4>2, <5>3, <6>1 DEF AtWork
        <5>4. CASE w \in {"flush", "leave", "doomed", "delete", "unlock"}
          BY <2>3, <5>4 DEF AtWork
        <5>. QED  BY <5>1, <5>2, <5>3, <5>4
      <4>. QED  BY <2>5, <4>1, <4>2
    <3>. QED  BY <2>3, <2>5, <3>1, <3>3 DEF Fits, Unread
  <2>91. \A q \in Pipes : q # pipe[c] => Quiet(q)
    BY <1>6 DEF Send, Goes, Sends, Quiet, SameWork, pipeVars, wkVars, PipeTypes
  <2>92. \A d \in Clients : d # c => Still(d)
    BY <1>6 DEF Send, Goes, Sends, Still, ClientTypes
  <2>. QED  BY <2>90, <2>91, <2>92, ClientOnly
<1>7. ASSUME NEW c \in Clients, CallFails(c) PROVE InStep'
  <2>1. pipe[c] \in Pipes /\ end[pipe[c]] \in {"open", "cut"}
    BY <1>7, PipeOf DEF CallFails, Calling
  <2>2. PICK p, s, r, w, m :
          /\ p \in Pipes /\ p = pipe[c] /\ s = toServer[p] /\ r = toClient[p] /\ w = wk[p] /\ m = cur[p]
    BY <2>1
  <2>3. /\ pipe'[c] = p /\ wk'[p] = w /\ cur'[p] = m /\ end'[p] = end[p] /\ half'[c] = half[c]
    BY <1>7, <2>2 DEF CallFails, pipeVars, wkVars
  <2>4. ASSUME ~half[c] PROVE r \in Unread(c) /\ (end[p] = "open" => AtWork(c, p))
    BY <2>2, <2>4, ConstantsAssumption DEF InStep, Fits
  <2>5. /\ end[p] = "cut" /\ toClient'[p] = r /\ pc'[c] = "idle" /\ pc[c] \in Calling
        /\ r # <<>> => pc[c] \in {"request", "body"}
    BY <1>7, <2>2 DEF CallFails, Broken, Arrived, Ends, Goes, pipeVars, ClientTypes
  <2>90. Fits(c)'
    <3>. SUFFICES ASSUME ~half[c] PROVE Fits(c)'
      BY <2>3 DEF Fits
    <3>1. r = <<>>
      BY <2>4, <2>5 DEF Unread
    <3>. QED  BY <2>3, <2>5, <3>1 DEF Fits, Unread
  <2>91. \A q \in Pipes : q # pipe[c] => Quiet(q)
    BY <1>7 DEF CallFails, Ends, Goes, Broken, Arrived, Calling, Quiet, SameWork, pipeVars,
       wkVars, PipeTypes
  <2>92. \A d \in Clients : d # c => Still(d)
    BY <1>7 DEF CallFails, Ends, Goes, Broken, Arrived, Calling, Still, ClientTypes
  <2>. QED  BY <2>90, <2>91, <2>92, ClientOnly
<1>8. ASSUME NEW c \in Clients, Receive(c) PROVE InStep'
  <2>1. pipe[c] \in Pipes /\ end[pipe[c]] \in {"open", "cut"}
    BY <1>8, PipeOf DEF Receive, Calling
  <2>2. PICK p, s, r, w, m :
          /\ p \in Pipes /\ p = pipe[c] /\ s = toServer[p] /\ r = toClient[p] /\ w = wk[p] /\ m = cur[p]
    BY <2>1
  <2>3. /\ pipe'[c] = p /\ wk'[p] = w /\ cur'[p] = m /\ end'[p] = end[p] /\ half'[c] = half[c]
    BY <1>8, <2>2 DEF Receive, pipeVars, wkVars
  <2>4. ASSUME ~half[c] PROVE r \in Unread(c) /\ (end[p] = "open" => AtWork(c, p))
    BY <2>2, <2>4, ConstantsAssumption DEF InStep, Fits
  <2>5. /\ pc[c] \in Calling /\ r # <<>> /\ Head(r).is \in Expected(c)
        /\ toClient'[p] = Tail(r) /\ toServer'[p] = s /\ asked'[c] = asked[c]
        /\ pc'[c] = CASE Head(r).is = "size" -> "answer"
                      [] Head(r).is = "zero" -> "error"
                      [] Head(r).is = "error with text" -> "text"
                      [] OTHER -> "idle"
    BY <1>8, <2>2 DEF Receive, Arrived, Got, Takes, Replied, Ends, Goes, PipeTypes, ClientTypes
  <2>90. Fits(c)'
    <3>. SUFFICES ASSUME ~half[c] PROVE Fits(c)'
      BY <2>3 DEF Fits
    <3>1. PICK S, A, Z, E, F, T :
            /\ S = Of("size", c) /\ A = Of("answer", c) /\ Z = Of("zero", c)
            /\ E = Of("error", c) /\ F = Of("error with text", c) /\ T = Of("text", c)
      OBVIOUS
    <3>2. /\ S.is = "size" /\ A.is = "answer" /\ Z.is = "zero" /\ E.is = "error"
          /\ F.is = "error with text" /\ T.is = "text"
      BY <3>1 DEF Of, Msg
    <3>3. /\ S = Of("size", c)' /\ A = Of("answer", c)' /\ Z = Of("zero", c)'
          /\ E = Of("error", c)' /\ F = Of("error with text", c)' /\ T = Of("text", c)'
      BY <2>5, <3>1 DEF Of
    <3>4. \/ pc[c] = "size" /\ r \in {<<S>>, <<S, A>>, <<Z, E>>, <<Z, F, T>>}
          \/ pc[c] = "answer" /\ r = <<A>>
          \/ pc[c] = "error" /\ r \in {<<E>>, <<F, T>>}
          \/ pc[c] = "text" /\ r = <<T>>
      BY <2>4, <2>5, <3>1 DEF Unread, Calling
    <3>5. \/ pc[c] = "size" /\ r = <<S>> /\ pc'[c] = "answer" /\ toClient'[p] = <<>>
          \/ pc[c] = "size" /\ r = <<S, A>> /\ pc'[c] = "answer" /\ toClient'[p] = <<A>>
          \/ pc[c] = "size" /\ r = <<Z, E>> /\ pc'[c] = "error" /\ toClient'[p] = <<E>>
          \/ pc[c] = "size" /\ r = <<Z, F, T>> /\ pc'[c] = "error" /\ toClient'[p] = <<F, T>>
          \/ pc[c] \in {"answer", "error", "text"} /\ pc'[c] = "idle" /\ toClient'[p] = <<>>
          \/ pc[c] = "error" /\ pc'[c] = "text" /\ toClient'[p] = <<T>>
      <4>1. CASE pc[c] = "size" /\ r = <<S>>
        BY <2>5, <3>2, <4>1, One, Two
      <4>2. CASE pc[c] = "size" /\ r = <<S, A>>
        <5>1. Head(<<S, A>>) = S /\ Tail(<<S, A>>) = <<A>>
          BY Two
        <5>. QED  BY <2>5, <3>2, <4>2, <5>1
      <4>3. CASE pc[c] = "size" /\ r = <<Z, E>>
        <5>1. Head(<<Z, E>>) = Z /\ Tail(<<Z, E>>) = <<E>>
          BY Two
        <5>. QED  BY <2>5, <3>2, <4>3, <5>1
      <4>4. CASE pc[c] = "size" /\ r = <<Z, F, T>>
        <5>1. Head(<<Z, F, T>>) = Z /\ Tail(<<Z, F, T>>) = <<F, T>>
          BY Three
        <5>. QED  BY <2>5, <3>2, <4>4, <5>1
      <4>5. CASE pc[c] = "answer" /\ r = <<A>>
        BY <2>5, <3>2, <4>5, One, Two
      <4>6. CASE pc[c] = "error" /\ r = <<E>>
        BY <2>5, <3>2, <4>6, One, Two
      <4>7. CASE pc[c] = "error" /\ r = <<F, T>>
        <5>1. Head(<<F, T>>) = F /\ Tail(<<F, T>>) = <<T>>
          BY Two
        <5>. QED  BY <2>5, <3>2, <4>7, <5>1
      <4>8. CASE pc[c] = "text" /\ r = <<T>>
        BY <2>5, <3>2, <4>8, One, Two
      <4>. QED  BY <3>4, <4>1, <4>2, <4>3, <4>4, <4>5, <4>6, <4>7, <4>8
    <3>6. pc'[c] # "starved" /\ toClient'[p] \in Unread(c)'
      BY <3>3, <3>5 DEF Unread
    <3>7. ASSUME end[p] = "open" PROVE AtWork(c, p)'
      <4>0. w \in {"none", "start", "hello", "top", "request", "body", "call", "check", "size", "error",
                  "answer", "flush", "leave", "doomed", "delete", "unlock"}
        BY <2>2 DEF WorkerTypes, WorkerPlaces, Reading, Writing
      <4>1. \/ w \in {"top", "request"} /\ s = <<>>
            \/ /\ w = "answer" /\ s = <<>> /\ m = Of("body", c)
               /\ pc[c] = "size" /\ r = <<S>>
            \/ w \in {"flush", "leave", "doomed", "delete", "unlock"}
        BY <2>2, <2>4, <2>5, <3>1, <3>4, <3>7, <4>0 DEF AtWork
      <4>2. CASE w \in {"top", "request"} /\ s = <<>>
        BY <2>3, <2>5, <3>5, <4>2 DEF AtWork
      <4>3. CASE /\ w = "answer" /\ s = <<>> /\ m = Of("body", c)
                 /\ pc[c] = "size" /\ r = <<S>>
        <5>1. pc'[c] = "answer" /\ toClient'[p] = <<>>
          BY <2>5, <3>2, <4>3, One
        <5>2. m = Of("body", c)'
          BY <2>5, <4>3 DEF Of
        <5>. QED  BY <2>3, <2>5, <4>3, <5>1, <5>2 DEF AtWork
      <4>4. CASE w \in {"flush", "leave", "doomed", "delete", "unlock"}
        BY <2>3, <4>4 DEF AtWork
      <4>. QED  BY <4>1, <4>2, <4>3, <4>4
    <3>. QED  BY <2>3, <3>6, <3>7 DEF Fits
  <2>91. \A q \in Pipes : q # pipe[c] => Quiet(q)
    BY <1>8 DEF Receive, Replied, Ends, Goes, Takes, Arrived, Got, Expected, Calling, Quiet,
       SameWork, pipeVars, wkVars, PipeTypes
  <2>92. \A d \in Clients : d # c => Still(d)
    BY <1>8 DEF Receive, Replied, Ends, Goes, Takes, Arrived, Got, Expected, Calling, Still,
       ClientTypes
  <2>. QED  BY <2>90, <2>91, <2>92, ClientOnly
<1>9. ASSUME NEW c \in Clients, NoMemory(c) PROVE InStep'
  <2>90. Fits(c)'
    BY <1>9 DEF NoMemory, Fits, ClientTypes
  <2>91. \A q \in Pipes : q # pipe[c] => Quiet(q)
    BY <1>9 DEF NoMemory, Ends, Goes, Takes, Arrived, Got, Expected, Quiet, SameWork,
       pipeVars, wkVars, PipeTypes
  <2>92. \A d \in Clients : d # c => Still(d)
    BY <1>9 DEF NoMemory, Ends, Goes, Takes, Arrived, Got, Expected, Still, ClientTypes
  <2>. QED  BY <2>90, <2>91, <2>92, ClientOnly
<1>10. ASSUME NEW c \in Clients, Garbled(c) PROVE InStep'
  <2>1. half[c] /\ half'[c] = half[c]
    BY <1>10, GarbledHalf DEF Garbled
  <2>90. Fits(c)'
    BY <2>1 DEF Fits
  <2>91. \A q \in Pipes : q # pipe[c] => Quiet(q)
    BY <1>10 DEF Garbled, Ends, Goes, Arrived, Got, Expected, Calling, Quiet, SameWork,
       pipeVars, wkVars, PipeTypes
  <2>92. \A d \in Clients : d # c => Still(d)
    BY <1>10 DEF Garbled, Ends, Goes, Arrived, Got, Expected, Calling, Still, ClientTypes
  <2>. QED  BY <2>90, <2>91, <2>92, ClientOnly
<1>11. ASSUME NEW c \in Clients, Leave(c) PROVE InStep'
  <2>1. pipe'[c] = None
    BY <1>11 DEF Leave, Goes, Hang, Calling, ClientTypes, Instances
  <2>90. Fits(c)'
    BY <2>1 DEF Fits
  <2>91. \A q \in Pipes : q # pipe[c] => Quiet(q)
    BY <1>11 DEF Leave, Goes, Hang, Calling, Quiet, SameWork, pipeVars, wkVars, PipeTypes
  <2>92. \A d \in Clients : d # c => Still(d)
    BY <1>11 DEF Leave, Goes, Hang, Calling, Still, ClientTypes
  <2>. QED  BY <2>90, <2>91, <2>92, ClientOnly
<1>12. ASSUME NEW p \in Pipes, Start(p) PROVE InStep'
  <2>1. UNCHANGED cliVars
    BY <1>12 DEF Start, Steps, others, cliVars
  <2>2. ASSUME NEW q \in Pipes PROVE Quiet(q)
    BY <1>12 DEF Start, Steps, others, Quiet, SameWork, pipeVars, wkVars, PipeTypes, WorkerTypes
  <2>. QED  BY <2>1, <2>2, AllQuiet
<1>13. ASSUME NEW p \in Pipes, Greet(p) PROVE InStep'
  <2>1. PICK s, r, w, m : s = toServer[p] /\ r = toClient[p] /\ w = wk[p] /\ m = cur[p]
    OBVIOUS
  <2>91. \A q \in Pipes : q # p => Quiet(q)
    BY <1>13 DEF Greet, Steps, others, Arrives, Quiet, SameWork, pipeVars, wkVars, PipeTypes,
       WorkerTypes
  <2>92. \A d \in Clients : Still(d)
    BY <1>13 DEF Greet, Steps, others, Arrives, Still, cliVars
  <2>2. /\ end[p] = "open" /\ w = "hello" /\ wk'[p] = "top" /\ end'[p] = end[p]
        /\ toServer'[p] = Tail(s) /\ toClient'[p] = Append(r, Msg("version", None, 0))
    BY <1>13, <2>1 DEF Greet, Steps, Arrives, PipeTypes, WorkerTypes, pipeVars
  <2>90. ASSUME NEW d \in Clients, pipe[d] = p PROVE Fits(d)'
    <3>. SUFFICES ASSUME ~half[d] PROVE Fits(d)'
      BY <2>92, <2>90 DEF Fits, Still
    <3>1. /\ r \in Unread(d) /\ AtWork(d, p)
      BY <2>1, <2>2, <2>90, ConstantsAssumption DEF InStep, Fits
    <3>2. pipe'[d] = p /\ pc'[d] = pc[d] /\ asked'[d] = asked[d]
      BY <2>92, <2>90 DEF Still
    <3>3. PICK S, A, Z, E, F, T, B, Q :
            /\ S = Of("size", d) /\ A = Of("answer", d) /\ Z = Of("zero", d)
            /\ E = Of("error", d) /\ F = Of("error with text", d) /\ T = Of("text", d)
            /\ B = Of("body", d) /\ Q = Of("request", d)
      OBVIOUS
    <3>4. /\ S = Of("size", d)' /\ A = Of("answer", d)' /\ Z = Of("zero", d)'
          /\ E = Of("error", d)' /\ F = Of("error with text", d)' /\ T = Of("text", d)'
          /\ B = Of("body", d)' /\ Q = Of("request", d)'
      BY <3>2, <3>3 DEF Of
    <3>5. pc[d] = "version" /\ s = <<Msg("hello", d, 0)>> /\ r = <<>>
      BY <2>1, <2>2, <3>1 DEF AtWork
    <3>6. toServer'[p] = <<>> /\ toClient'[p] = <<Msg("version", None, 0)>>
      BY <2>2, <3>5, One, Two
    <3>. QED  BY <2>2, <3>2, <3>4, <3>5, <3>6 DEF Fits, Unread, AtWork
  <2>. QED  BY <2>90, <2>91, <2>92, WorkerOnly
<1>14. ASSUME NEW p \in Pipes, Top(p) PROVE InStep'
  <2>1. UNCHANGED cliVars
    BY <1>14 DEF Top, Steps, others, cliVars
  <2>2. ASSUME NEW q \in Pipes PROVE Quiet(q)
    BY <1>14 DEF Top, Steps, others, Quiet, SameWork, pipeVars, wkVars, PipeTypes, WorkerTypes
  <2>. QED  BY <2>1, <2>2, AllQuiet
<1>15. ASSUME NEW p \in Pipes, ReadRequest(p) PROVE InStep'
  <2>1. PICK s, r, w, m : s = toServer[p] /\ r = toClient[p] /\ w = wk[p] /\ m = cur[p]
    OBVIOUS
  <2>91. \A q \in Pipes : q # p => Quiet(q)
    BY <1>15 DEF ReadRequest, Steps, others, Arrives, Quiet, SameWork, pipeVars, wkVars,
       PipeTypes, WorkerTypes
  <2>92. \A d \in Clients : Still(d)
    BY <1>15 DEF ReadRequest, Steps, others, Arrives, Still, cliVars
  <2>3. CASE end[p] # "open"
    <3>1. Quiet(p)
      BY <1>15, <2>3 DEF ReadRequest, Quiet
    <3>. QED  BY <2>91, <2>92, <3>1, WorkerOnly
  <2>4. ASSUME end[p] = "open" PROVE \A d \in Clients : pipe[d] = p => Fits(d)'
    <3>. SUFFICES ASSUME NEW d \in Clients, pipe[d] = p PROVE Fits(d)'
      OBVIOUS
    <3>. SUFFICES ASSUME ~half[d] PROVE Fits(d)'
      BY <2>92 DEF Fits, Still
    <3>1. /\ w \in {"request", "body"} /\ end'[p] = end[p] /\ s # <<>> /\ Head(s).is = w
          /\ wk'[p] = IF w = "request" THEN "body" ELSE "call"
          /\ toServer'[p] = Tail(s) /\ toClient'[p] = r /\ cur'[p] = Head(s)
      BY <1>15, <2>1 DEF ReadRequest, Steps, Arrives, PipeTypes, WorkerTypes
    <3>2. /\ r \in Unread(d) /\ AtWork(d, p)
      BY <2>1, <2>4, ConstantsAssumption DEF InStep, Fits
    <3>3. pipe'[d] = p /\ pc'[d] = pc[d] /\ asked'[d] = asked[d]
      BY <2>92 DEF Still
    <3>4. PICK B, Q : /\ B = Of("body", d) /\ Q = Of("request", d)
                      /\ B = Of("body", d)' /\ Q = Of("request", d)'
      BY <3>3 DEF Of
    <3>5. pc'[d] # "starved" /\ toClient'[p] \in Unread(d)'
      <4>1. Unread(d)' = Unread(d)
        BY <3>3 DEF Unread, Of
      <4>2. pc[d] # "starved"
        BY ConstantsAssumption DEF InStep, Fits
      <4>. QED  BY <3>1, <3>2, <3>3, <4>1, <4>2
    <3>6. CASE w = "request"
      <4>1. \/ pc[d] = "body" /\ s = <<Q>> /\ r = <<>>
            \/ pc[d] = "size" /\ s = <<Q, B>> /\ r = <<>>
        BY <2>1, <3>1, <3>2, <3>4, <3>6 DEF AtWork, Unread
      <4>2. \/ pc[d] = "body" /\ Tail(s) = <<>> /\ r = <<>>
            \/ pc[d] = "size" /\ Tail(s) = <<B>> /\ r = <<>>
        <5>1. Tail(<<Q, B>>) = <<B>> /\ Tail(<<Q>>) = <<>>
          BY One, Two
        <5>. QED  BY <4>1, <5>1
      <4>3. AtWork(d, p)'
        BY <3>1, <3>3, <3>4, <3>6, <4>2 DEF AtWork
      <4>. QED  BY <3>3, <3>5, <4>3 DEF Fits
    <3>7. CASE w = "body"
      <4>1. pc[d] = "size" /\ s = <<B>> /\ r = <<>>
        BY <2>1, <3>1, <3>2, <3>4, <3>7 DEF AtWork
      <4>2. Tail(s) = <<>> /\ Head(s) = B
        BY <4>1, One
      <4>3. AtWork(d, p)'
        BY <3>1, <3>3, <3>4, <3>7, <4>1, <4>2 DEF AtWork
      <4>. QED  BY <3>3, <3>5, <4>3 DEF Fits
    <3>. QED  BY <3>1, <3>6, <3>7
  <2>. QED  BY <2>3, <2>4, <2>91, <2>92, WorkerOnly
<1>16. ASSUME NEW p \in Pipes, Handle(p) PROVE InStep'
  <2>1. UNCHANGED cliVars
    BY <1>16 DEF Handle, Steps, others, cliVars
  <2>2. ASSUME NEW q \in Pipes PROVE Quiet(q)
    BY <1>16 DEF Handle, Steps, others, Quiet, SameWork, pipeVars, wkVars, PipeTypes,
       WorkerTypes
  <2>. QED  BY <2>1, <2>2, AllQuiet
<1>17. ASSUME NEW p \in Pipes, Check(p) PROVE InStep'
  <2>1. UNCHANGED cliVars
    BY <1>17 DEF Check, Steps, others, cliVars
  <2>2. ASSUME NEW q \in Pipes PROVE Quiet(q)
    BY <1>17 DEF Check, Steps, others, Quiet, SameWork, pipeVars, wkVars, PipeTypes, WorkerTypes
  <2>. QED  BY <2>1, <2>2, AllQuiet
<1>18. ASSUME NEW p \in Pipes, ReplySize(p) PROVE InStep'
  <2>1. PICK s, r, w, m : s = toServer[p] /\ r = toClient[p] /\ w = wk[p] /\ m = cur[p]
    OBVIOUS
  <2>91. \A q \in Pipes : q # p => Quiet(q)
    BY <1>18 DEF ReplySize, Steps, others, Writes, Answer, Quiet, SameWork, pipeVars, wkVars,
       PipeTypes, WorkerTypes
  <2>92. \A d \in Clients : Still(d)
    BY <1>18 DEF ReplySize, Steps, others, Writes, Answer, Still, cliVars
  <2>2. /\ end[p] = "open" /\ w = "size" /\ wk'[p] = "answer" /\ end'[p] = end[p]
        /\ toServer'[p] = s /\ toClient'[p] = r \o <<Msg("size", m.by, m.of)>> /\ cur'[p] = m
    BY <1>18, <2>1 DEF ReplySize, Steps, Writes, Answer, PipeTypes, WorkerTypes, pipeVars
  <2>90. ASSUME NEW d \in Clients, pipe[d] = p PROVE Fits(d)'
    <3>. SUFFICES ASSUME ~half[d] PROVE Fits(d)'
      BY <2>92, <2>90 DEF Fits, Still
    <3>1. /\ r \in Unread(d) /\ AtWork(d, p)
      BY <2>1, <2>2, <2>90, ConstantsAssumption DEF InStep, Fits
    <3>2. pipe'[d] = p /\ pc'[d] = pc[d] /\ asked'[d] = asked[d]
      BY <2>92, <2>90 DEF Still
    <3>3. PICK S, A, Z, E, F, T, B, Q :
            /\ S = Of("size", d) /\ A = Of("answer", d) /\ Z = Of("zero", d)
            /\ E = Of("error", d) /\ F = Of("error with text", d) /\ T = Of("text", d)
            /\ B = Of("body", d) /\ Q = Of("request", d)
      OBVIOUS
    <3>4. /\ S = Of("size", d)' /\ A = Of("answer", d)' /\ Z = Of("zero", d)'
          /\ E = Of("error", d)' /\ F = Of("error with text", d)' /\ T = Of("text", d)'
          /\ B = Of("body", d)' /\ Q = Of("request", d)'
      BY <3>2, <3>3 DEF Of
    <3>5. /\ pc[d] = "size" /\ s = <<>> /\ r = <<>> /\ m = B
      BY <2>1, <2>2, <3>1, <3>3 DEF AtWork
    <3>6. Msg("size", m.by, m.of) = S
      BY <3>3, <3>5 DEF Of, Msg
    <3>7. toClient'[p] = <<S>>
      BY <2>2, <3>5, <3>6, One, Two
    <3>. QED  BY <2>2, <3>2, <3>4, <3>5, <3>7 DEF Fits, Unread, AtWork
  <2>. QED  BY <2>90, <2>91, <2>92, WorkerOnly
<1>19. ASSUME NEW p \in Pipes, ReplyBody(p) PROVE InStep'
  <2>1. PICK s, r, w, m : s = toServer[p] /\ r = toClient[p] /\ w = wk[p] /\ m = cur[p]
    OBVIOUS
  <2>91. \A q \in Pipes : q # p => Quiet(q)
    BY <1>19 DEF ReplyBody, Steps, others, Writes, Answer, Quiet, SameWork, pipeVars, wkVars,
       PipeTypes, WorkerTypes
  <2>92. \A d \in Clients : Still(d)
    BY <1>19 DEF ReplyBody, Steps, others, Writes, Answer, Still, cliVars
  <2>2. /\ end[p] = "open" /\ w = "answer" /\ wk'[p] = "top" /\ end'[p] = end[p]
        /\ toServer'[p] = s /\ toClient'[p] = r \o <<Msg("answer", m.by, m.of)>>
    BY <1>19, <2>1 DEF ReplyBody, Steps, Writes, Answer, PipeTypes, WorkerTypes, pipeVars
  <2>90. ASSUME NEW d \in Clients, pipe[d] = p PROVE Fits(d)'
    <3>. SUFFICES ASSUME ~half[d] PROVE Fits(d)'
      BY <2>92, <2>90 DEF Fits, Still
    <3>1. /\ r \in Unread(d) /\ AtWork(d, p)
      BY <2>1, <2>2, <2>90, ConstantsAssumption DEF InStep, Fits
    <3>2. pipe'[d] = p /\ pc'[d] = pc[d] /\ asked'[d] = asked[d]
      BY <2>92, <2>90 DEF Still
    <3>3. PICK S, A, Z, E, F, T, B, Q :
            /\ S = Of("size", d) /\ A = Of("answer", d) /\ Z = Of("zero", d)
            /\ E = Of("error", d) /\ F = Of("error with text", d) /\ T = Of("text", d)
            /\ B = Of("body", d) /\ Q = Of("request", d)
      OBVIOUS
    <3>4. /\ S = Of("size", d)' /\ A = Of("answer", d)' /\ Z = Of("zero", d)'
          /\ E = Of("error", d)' /\ F = Of("error with text", d)' /\ T = Of("text", d)'
          /\ B = Of("body", d)' /\ Q = Of("request", d)'
      BY <3>2, <3>3 DEF Of
    <3>5. /\ s = <<>> /\ m = B
          /\ (pc[d] = "size" /\ r = <<S>>) \/ (pc[d] = "answer" /\ r = <<>>)
      BY <2>1, <2>2, <3>1, <3>3 DEF AtWork
    <3>6. Msg("answer", m.by, m.of) = A
      BY <3>3, <3>5 DEF Of, Msg
    <3>7. \/ pc[d] = "size" /\ toClient'[p] = <<S, A>>
          \/ pc[d] = "answer" /\ toClient'[p] = <<A>>
      <4>1. <<S>> \o <<A>> = <<S, A>> /\ <<>> \o <<A>> = <<A>>
        BY One, Two
      <4>. QED  BY <2>2, <3>5, <3>6, <4>1
    <3>. QED  BY <2>2, <3>2, <3>4, <3>5, <3>7 DEF Fits, Unread, AtWork
  <2>. QED  BY <2>90, <2>91, <2>92, WorkerOnly
<1>20. ASSUME NEW p \in Pipes, ReplyError(p) PROVE InStep'
  <2>1. PICK s, r, w, m : s = toServer[p] /\ r = toClient[p] /\ w = wk[p] /\ m = cur[p]
    OBVIOUS
  <2>91. \A q \in Pipes : q # p => Quiet(q)
    BY <1>20 DEF ReplyError, Steps, others, ErrorReply, Writes, Answer, Quiet, SameWork,
       pipeVars, wkVars, PipeTypes, WorkerTypes
  <2>92. \A d \in Clients : Still(d)
    BY <1>20 DEF ReplyError, Steps, others, ErrorReply, Writes, Answer, Still, cliVars
  <2>2. /\ end[p] = "open" /\ w = "error" /\ wk'[p] = "top" /\ end'[p] = end[p]
        /\ toServer'[p] = s
        /\ LET X(is) == Msg(is, m.by, m.of)
           IN  \/ toClient'[p] = r \o <<X("zero"), X("error")>>
               \/ toClient'[p] = r \o <<X("zero"), X("error with text"), X("text")>>
    BY <1>20, <2>1 DEF ReplyError, Steps, ErrorReply, Writes, Answer, PipeTypes, WorkerTypes,
       pipeVars
  <2>90. ASSUME NEW d \in Clients, pipe[d] = p PROVE Fits(d)'
    <3>. SUFFICES ASSUME ~half[d] PROVE Fits(d)'
      BY <2>92, <2>90 DEF Fits, Still
    <3>1. /\ r \in Unread(d) /\ AtWork(d, p)
      BY <2>1, <2>2, <2>90, ConstantsAssumption DEF InStep, Fits
    <3>2. pipe'[d] = p /\ pc'[d] = pc[d] /\ asked'[d] = asked[d]
      BY <2>92, <2>90 DEF Still
    <3>3. PICK S, A, Z, E, F, T, B, Q :
            /\ S = Of("size", d) /\ A = Of("answer", d) /\ Z = Of("zero", d)
            /\ E = Of("error", d) /\ F = Of("error with text", d) /\ T = Of("text", d)
            /\ B = Of("body", d) /\ Q = Of("request", d)
      OBVIOUS
    <3>4. /\ S = Of("size", d)' /\ A = Of("answer", d)' /\ Z = Of("zero", d)'
          /\ E = Of("error", d)' /\ F = Of("error with text", d)' /\ T = Of("text", d)'
          /\ B = Of("body", d)' /\ Q = Of("request", d)'
      BY <3>2, <3>3 DEF Of
    <3>5. /\ pc[d] = "size" /\ s = <<>> /\ r = <<>> /\ m = B
      BY <2>1, <2>2, <3>1, <3>3 DEF AtWork
    <3>6. /\ Msg("zero", m.by, m.of) = Z /\ Msg("error", m.by, m.of) = E
          /\ Msg("error with text", m.by, m.of) = F /\ Msg("text", m.by, m.of) = T
      BY <3>3, <3>5 DEF Of, Msg
    <3>7. toClient'[p] = <<Z, E>> \/ toClient'[p] = <<Z, F, T>>
      <4>1. <<>> \o <<Z, E>> = <<Z, E>> /\ <<>> \o <<Z, F, T>> = <<Z, F, T>>
        BY Two, Three
      <4>. QED  BY <2>2, <3>5, <3>6, <4>1
    <3>. QED  BY <2>2, <3>2, <3>4, <3>5, <3>7 DEF Fits, Unread, AtWork
  <2>. QED  BY <2>90, <2>91, <2>92, WorkerOnly
<1>21. ASSUME NEW p \in Pipes, ConnectionFails(p) PROVE InStep'
  <2>1. UNCHANGED cliVars
    BY <1>21 DEF ConnectionFails, Fails, others, Reading, Writing, Arrives, cliVars
  <2>2. ASSUME NEW q \in Pipes PROVE Quiet(q)
    BY <1>21 DEF ConnectionFails, Fails, others, Reading, Writing, Arrives, Quiet, SameWork,
       pipeVars, wkVars, PipeTypes, WorkerTypes
  <2>. QED  BY <2>1, <2>2, AllQuiet
<1>22. ASSUME NEW p \in Pipes, GrowFails(p) PROVE InStep'
  <2>1. UNCHANGED cliVars
    BY <1>22 DEF GrowFails, Fails, cliVars
  <2>2. ASSUME NEW q \in Pipes PROVE Quiet(q)
    BY <1>22 DEF GrowFails, Fails, Quiet, SameWork, pipeVars, wkVars, PipeTypes, WorkerTypes
  <2>. QED  BY <2>1, <2>2, AllQuiet
<1>23. ASSUME NEW p \in Pipes, Flush(p) PROVE InStep'
  <2>1. UNCHANGED cliVars
    BY <1>23 DEF Flush, Steps, others, cliVars
  <2>2. ASSUME NEW q \in Pipes PROVE Quiet(q)
    BY <1>23 DEF Flush, Steps, others, Quiet, SameWork, pipeVars, wkVars, PipeTypes, WorkerTypes
  <2>. QED  BY <2>1, <2>2, AllQuiet
<1>24. ASSUME NEW p \in Pipes, Disconnect(p) PROVE InStep'
  <2>1. UNCHANGED cliVars
    BY <1>24 DEF Disconnect, Steps, others, cliVars
  <2>2. ASSUME NEW q \in Pipes PROVE Quiet(q)
    BY <1>24 DEF Disconnect, Steps, Closed, Quiet, SameWork, pipeVars, wkVars, PipeTypes,
       WorkerTypes
  <2>. QED  BY <2>1, <2>2, AllQuiet
<1>43. ASSUME NEW p \in Pipes, NoContext(p) PROVE InStep'
  <2>1. UNCHANGED cliVars
    BY <1>43 DEF NoContext, cliVars
  <2>2. ASSUME NEW q \in Pipes PROVE Quiet(q)
    BY <1>43 DEF NoContext, Steps, Quiet, SameWork, pipeVars, wkVars, PipeTypes,
       WorkerTypes
  <2>. QED  BY <2>1, <2>2, AllQuiet
<1>42. ASSUME NEW p \in Pipes, Delete(p) PROVE InStep'
  <2>1. UNCHANGED cliVars
    BY <1>42 DEF Delete, cliVars
  <2>2. ASSUME NEW q \in Pipes PROVE Quiet(q)
    BY <1>42 DEF Delete, Steps, Quiet, SameWork, pipeVars, wkVars, PipeTypes,
       WorkerTypes
  <2>. QED  BY <2>1, <2>2, AllQuiet
<1>25. ASSUME NEW p \in Pipes, Release(p), serv # "gone", held[p] # "freed" PROVE InStep'
  <2>1. /\ wk[p] = "unlock" /\ wk' = [wk EXCEPT ![p] = "none"]
        /\ cur' = [cur EXCEPT ![p] = NoRequest] /\ UNCHANGED <<cliVars, pipeVars>>
    BY <1>25 DEF Release, Steps, others
  <2>2. end[p] # "open"
    BY <2>1 DEF Instances, Instance, Leaving
  <2>3. ASSUME NEW q \in Pipes PROVE Quiet(q)
    BY <2>1, <2>2 DEF Quiet, SameWork, pipeVars, WorkerTypes
  <2>. QED  BY <2>1, <2>3, AllQuiet
<1>26. CASE AcceptorStops
  <2>1. UNCHANGED cliVars
    BY <1>26 DEF AcceptorStops, Stops, CloseInstance, Closed, Closing, cliVars
  <2>2. ASSUME NEW q \in Pipes PROVE Quiet(q)
    BY <1>26 DEF AcceptorStops, Stops, CloseInstance, Closed, Closing, Quiet, SameWork,
       pipeVars, wkVars, PipeTypes, WorkerTypes
  <2>. QED  BY <2>1, <2>2, AllQuiet
<1>44. CASE CannotRegister
  <2>1. UNCHANGED cliVars
    BY <1>44 DEF CannotRegister, Stops, CloseInstance, Closed, Closing, cliVars
  <2>2. ASSUME NEW q \in Pipes PROVE Quiet(q)
    BY <1>44 DEF CannotRegister, Stops, CloseInstance, Closed, Closing, Quiet, SameWork,
       pipeVars, wkVars, PipeTypes, WorkerTypes
  <2>. QED  BY <2>1, <2>2, AllQuiet
<1>27. CASE Prepare
  <2>1. UNCHANGED cliVars
    BY <1>27 DEF Prepare, NewInstance, Unused, Closing, cliVars
  <2>2. ASSUME NEW q \in Pipes PROVE Quiet(q)
    BY <1>27 DEF Prepare, NewInstance, Unused, Closing, Quiet, SameWork, pipeVars, wkVars,
       PipeTypes, WorkerTypes
  <2>. QED  BY <2>1, <2>2, AllQuiet
<1>28. CASE ConnectsNobody
  <2>1. UNCHANGED cliVars
    BY <1>28 DEF ConnectsNobody, NotConnected, CloseInstance, Closed, cliVars
  <2>2. ASSUME NEW q \in Pipes PROVE Quiet(q)
    BY <1>28 DEF ConnectsNobody, NotConnected, CloseInstance, Closed, Quiet, SameWork,
       pipeVars, wkVars, PipeTypes, WorkerTypes
  <2>. QED  BY <2>1, <2>2, AllQuiet
<1>29. CASE StartWorker
  <2>1. /\ inst \in Pipes /\ wk[inst] = "none" /\ wk' = [wk EXCEPT ![inst] = "start"]
        /\ UNCHANGED <<cliVars, pipeVars, cur>>
    BY <1>29 DEF StartWorker, Instances, ServerTypes, Registered
  <2>2. ASSUME NEW q \in Pipes PROVE Quiet(q)
    BY <2>1 DEF Quiet, SameWork, pipeVars, WorkerTypes
  <2>. QED  BY <2>1, <2>2, AllQuiet
<1>30. CASE Connected
  <2>1. UNCHANGED <<cliVars, pipeVars, wk, cur>>
    BY <1>30 DEF Connected, wkVars
  <2>2. ASSUME NEW q \in Pipes PROVE Quiet(q)
    BY <2>1 DEF Quiet, SameWork, pipeVars
  <2>. QED  BY <2>1, <2>2, AllQuiet
<1>31. CASE CancelAcceptor
  <2>1. UNCHANGED cliVars
    BY <1>31 DEF CancelAcceptor, NotConnected, CloseInstance, Closed, cliVars
  <2>2. ASSUME NEW q \in Pipes PROVE Quiet(q)
    BY <1>31 DEF CancelAcceptor, NotConnected, CloseInstance, Closed, Quiet, SameWork,
       pipeVars, wkVars, PipeTypes, WorkerTypes
  <2>. QED  BY <2>1, <2>2, AllQuiet
<1>32. CASE CancelWorker
  <2>1. UNCHANGED cliVars
    BY <1>32 DEF CancelWorker, Gone, Fails, Reading, Writing, cliVars
  <2>2. ASSUME NEW q \in Pipes PROVE Quiet(q)
    BY <1>32 DEF CancelWorker, Gone, Fails, Reading, Writing, Quiet, SameWork, pipeVars,
       wkVars, PipeTypes, WorkerTypes
  <2>. QED  BY <2>1, <2>2, AllQuiet
<1>33. CASE JoinAcceptor \/ Visit \/ Joined \/ FreeServer
  <2>1. UNCHANGED <<cliVars, pipeVars, wk, cur>>
    BY <1>33 DEF JoinAcceptor, Visit, Joined, FreeServer, wkVars
  <2>2. ASSUME NEW q \in Pipes PROVE Quiet(q)
    BY <2>1 DEF Quiet, SameWork, pipeVars
  <2>. QED  BY <2>1, <2>2, AllQuiet
<1>34. CASE CreateServer
  <2>1. UNCHANGED cliVars
    BY <1>34 DEF CreateServer, NewInstance, Unused, cliVars
  <2>2. ASSUME NEW q \in Pipes PROVE Quiet(q)
    BY <1>34 DEF CreateServer, NewInstance, Unused, Quiet, SameWork, pipeVars, wkVars,
       PipeTypes, WorkerTypes
  <2>. QED  BY <2>1, <2>2, AllQuiet
<1>35. CASE Destroy \/ UNCHANGED vars
  <2>1. UNCHANGED <<cliVars, pipeVars, wk, cur>>
    BY <1>35 DEF Destroy, vars, wkVars
  <2>2. ASSUME NEW q \in Pipes PROVE Quiet(q)
    BY <2>1 DEF Quiet, SameWork, pipeVars
  <2>. QED  BY <2>1, <2>2, AllQuiet
<1>36. CASE Dies
  <2>1. UNCHANGED cliVars
    BY <1>36 DEF Dies, Closed, cliVars
  <2>2. ASSUME NEW q \in Pipes PROVE Quiet(q)
    BY <1>36 DEF Dies, Closed, Quiet, SameWork, pipeVars, wkVars, PipeTypes, WorkerTypes
  <2>. QED  BY <2>1, <2>2, AllQuiet
<1>37. CASE Faults
  BY <1>37, <1>36 DEF Faults
<1>38. ASSUME NEW p \in Pipes, Worker(p) PROVE InStep'
  BY <1>38, <1>37, <1>12, <1>13, <1>14, <1>15, <1>16, <1>17, <1>18, <1>19, <1>20, <1>21,
     <1>22, <1>23, <1>24, <1>25, <1>42, <1>43 DEF Worker, Doomed, Release
<1>39. CASE Acceptor
  BY <1>39, <1>37, <1>26, <1>27, <1>28, <1>29, <1>30, <1>44 DEF Acceptor
<1>40. CASE Destroyer
  BY <1>40, <1>37, <1>31, <1>32, <1>33 DEF Destroyer, CancelFaults, JoinFaults
<1>41. CASE ClientNext
  BY <1>41, <1>1, <1>2, <1>3, <1>4, <1>5, <1>6, <1>7, <1>8, <1>9, <1>10,
     <1>11 DEF ClientNext, Retry, GiveUp
<1>. QED
  BY <1>36, <1>34, <1>35, <1>38, <1>39, <1>40, <1>41 DEF Next, ServerNext, Killed

\* What the excuses say, one by one.
Cancels == serv \in {"cancel", "join thread"} => excused /\ target # None
NoWorker == ~excused /\ serv \in Joining => \A p \in Pipes : wk[p] = "none"
Left == ~excused => \A p \in Pipes : held[p] # "freed" /\ wk[p] # "doomed" /\ LeftBehind(p)

\* ipcserver_destroy visits a worker only with an excuse.
LEMMA CancelsStep ==
  ServerTypes /\ Registered /\ Cancels /\ NoWorker /\ [Next]_vars => Cancels'
<1>. SUFFICES ASSUME ServerTypes, Registered, Cancels, NoWorker, [Next]_vars PROVE Cancels'
  OBVIOUS
<1>1. ASSUME NEW c \in Clients, Leave(c) PROVE Cancels'
  BY <1>1 DEF Leave, Goes, Hang, Calling, Cancels, servVars
<1>2. ASSUME NEW c \in Clients, 
               Connect(c) \/ ConnectFails(c) \/ Version(c) \/
               (\E to \in {"new", "gone"} : HandshakeFails(c, to)) \/ Call(c) \/
               Send(c) \/ CallFails(c) \/ Receive(c) \/ NoMemory(c) \/
               Garbled(c)
        PROVE  Cancels'
  <2>1. UNCHANGED <<serv, target, excused>>
    BY <1>2 DEF Connect, ConnectFails, Version, HandshakeFails, Call, Send, CallFails,
       Receive, NoMemory, Garbled, servVars
  <2>. QED  BY <2>1 DEF Cancels
<1>3. ASSUME NEW p \in Pipes, GrowFails(p) \/ NoContext(p) PROVE Cancels'
  BY <1>3 DEF GrowFails, NoContext, Fails, Cancels, servVars
<1>4. ASSUME NEW p \in Pipes, 
               Start(p) \/ Greet(p) \/ Top(p) \/ ReadRequest(p) \/ Handle(p) \/
               Check(p) \/ ReplySize(p) \/ ReplyBody(p) \/ ReplyError(p) \/
               ConnectionFails(p) \/ Flush(p) \/ Disconnect(p) \/ Delete(p) \/
               (Release(p) /\ serv # "gone" /\ held[p] # "freed")
        PROVE  Cancels'
  <2>1. UNCHANGED <<serv, target, excused>>
    BY <1>4 DEF Start, Greet, Top, ReadRequest, Handle, Check, ReplySize, ReplyBody,
       ReplyError, ConnectionFails, Flush, Disconnect, Delete, Release, Steps, others, servVars
  <2>. QED  BY <2>1 DEF Cancels
<1>5. CASE AcceptorStops \/ Prepare \/ Connected \/ ConnectsNobody \/
          StartWorker
  <2>1. UNCHANGED <<serv, target, excused>>
    BY <1>5 DEF AcceptorStops, Prepare, Connected, ConnectsNobody, StartWorker, servVars
  <2>. QED  BY <2>1 DEF Cancels
<1>22. CASE CannotRegister
  BY <1>22 DEF CannotRegister, Cancels, servVars
<1>6. CASE CancelAcceptor
  BY <1>6 DEF CancelAcceptor, NotConnected, CloseInstance, Closed, Cancels, servVars
<1>7. CASE JoinAcceptor
  BY <1>7 DEF JoinAcceptor, Cancels, servVars
<1>8. CASE Visit
  <2>1. PICK p \in Pipes : target' = p /\ wk[p] # "none"
    BY <1>8 DEF Visit, Registered
  <2>2. excused /\ excused' = excused
    BY <1>8, <2>1 DEF Visit, NoWorker, Joining
  <2>. QED  BY <2>1, <2>2, ConstantsAssumption DEF Cancels
<1>9. CASE CancelWorker
  BY <1>9 DEF CancelWorker, Gone, Fails, Reading, Writing, Cancels, servVars
<1>11. CASE Joined
  BY <1>11 DEF Joined, Gone, Cancels, servVars
<1>12. CASE FreeServer
  BY <1>12 DEF FreeServer, Cancels, servVars
<1>13. CASE CreateServer
  BY <1>13 DEF CreateServer, NewInstance, Unused, Cancels, servVars
<1>14. CASE Destroy
  BY <1>14 DEF Destroy, Cancels, servVars
<1>15. CASE UNCHANGED vars
  <2>1. UNCHANGED <<serv, target, excused>>
    BY <1>15 DEF vars, servVars
  <2>. QED  BY <2>1 DEF Cancels
<1>16. CASE Dies
  BY <1>16 DEF Dies, Closed, Cancels, servVars
<1>17. CASE Faults
  BY <1>17, <1>16 DEF Faults
<1>18. ASSUME NEW p \in Pipes, Worker(p) PROVE Cancels'
  BY <1>18, <1>17, <1>3, <1>4 DEF Worker, Doomed, Release
<1>19. CASE Acceptor
  BY <1>19, <1>17, <1>5, <1>22 DEF Acceptor
<1>20. CASE Destroyer
  BY <1>20, <1>17, <1>6, <1>7, <1>8, <1>9, <1>11, <1>12 DEF Destroyer, CancelFaults,
     JoinFaults
<1>21. CASE ClientNext
  BY <1>21, <1>1, <1>2 DEF ClientNext, Retry, GiveUp
<1>. QED
  BY <1>16, <1>13, <1>14, <1>15, <1>18, <1>19, <1>20, <1>21 DEF Next, ServerNext, Killed

\* Without an excuse no worker is left when the acceptor has been joined, and none
\* is started any more.
LEMMA NoWorkerStep ==
  ServerTypes /\ NoServer /\ Cancels /\ NoWorker /\ [Next]_vars => NoWorker'
<1>. SUFFICES ASSUME ServerTypes, NoServer, Cancels, NoWorker, [Next]_vars,
                     ~excused', serv' \in Joining
              PROVE  \A p \in Pipes : wk'[p] = "none"
  BY DEF NoWorker
<1>1. ASSUME excused => excused', serv' = serv, wk' = wk PROVE \A p \in Pipes : wk'[p] = "none"
  BY <1>1 DEF NoWorker
<1>2. CASE ClientNext
  <2>. PICK c \in Clients :
         \/ Connect(c) \/ ConnectFails(c) \/ Version(c) \/ Retry(c) \/ GiveUp(c)
         \/ Call(c) \/ Send(c) \/ CallFails(c) \/ Receive(c) \/ NoMemory(c) \/ Garbled(c)
         \/ Leave(c)
    BY <1>2 DEF ClientNext
  <2>1. UNCHANGED <<serv, wk>>
    BY DEF Connect, ConnectFails, Version, Retry, GiveUp, HandshakeFails, Call, Send,
       CallFails, Receive, NoMemory, Garbled, Leave, servVars, wkVars
  <2>2. excused => excused'
    BY DEF Connect, ConnectFails, Version, Retry, GiveUp, HandshakeFails, Call, Send,
       CallFails, Receive, NoMemory, Garbled, Leave
  <2>. QED  BY <1>1, <2>1, <2>2
<1>3. ~Dies
  BY DEF Dies, Joining
<1>4. ASSUME NEW p \in Pipes, Worker(p) PROVE FALSE
  <2>1. (excused => excused') /\ serv' = serv /\ wk[p] # "none"
    BY <1>3, <1>4 DEF Worker, Start, NoContext, Doomed, Faults, Greet, Top, ReadRequest,
       Handle, Check, ReplySize, ReplyBody, ReplyError, ConnectionFails, GrowFails, Flush,
       Disconnect, Delete, Release, Steps, others, servVars, Reading, Writing
  <2>. QED  BY <2>1 DEF NoWorker
<1>5. CASE Acceptor
  <2>1. serv' = serv /\ acc # "over"
    BY <1>5 DEF Acceptor, AcceptorStops, Prepare, Connected, ConnectsNobody, StartWorker,
       CannotRegister, servVars
  <2>. QED  BY <2>1 DEF NoServer
<1>6. CASE Destroyer
  <2>1. CASE JoinAcceptor
    BY <2>1 DEF JoinAcceptor, wkVars
  <2>2. CASE Visit \/ Joined \/ FreeServer
    <3>1. serv \in Joining /\ UNCHANGED <<wk, excused>>
      BY <2>2 DEF Visit, Joined, FreeServer, Joining, wkVars
    <3>. QED  BY <3>1 DEF NoWorker
  <2>3. ~CancelWorker
    <3>1. CancelWorker => serv = "cancel" /\ excused' = excused
      BY DEF CancelWorker
    <3>. QED  BY <3>1 DEF Cancels
  <2>4. ~CancelAcceptor
    BY DEF CancelAcceptor, Joining
  <2>. QED  BY <1>3, <1>6, <2>1, <2>2, <2>3, <2>4 DEF Destroyer, CancelFaults, JoinFaults,
     Faults
<1>7. CASE UNCHANGED vars
  BY <1>1, <1>7 DEF vars, servVars, wkVars
<1>8. ~CreateServer /\ ~Destroy
  BY DEF CreateServer, Destroy, Joining
<1>. QED
  BY <1>2, <1>3, <1>4, <1>5, <1>6, <1>7, <1>8 DEF Next, ServerNext, Killed

\* The server faults only when it has an excuse.
LEMMA NoFaultStep ==
  ServerTypes /\ Cancels /\ NoWorker /\ Left /\ NoFault /\ [Next]_vars => NoFault'
<1>. SUFFICES ASSUME ServerTypes, Cancels, NoWorker, Left, NoFault, [Next]_vars PROVE NoFault'
  OBVIOUS
<1>. serv \in {"cancel", "join thread"} => excused
  BY DEF Cancels
<1>. \A p \in Pipes : held[p] = "freed" \/ wk[p] = "doomed" => excused
  BY DEF Left
<1>. \A p \in Pipes : wk[p] = "unlock" /\ serv = "gone" => excused
  BY DEF NoWorker, Joining
<1>1. ASSUME NEW c \in Clients, Leave(c) PROVE NoFault'
  BY <1>1 DEF Leave, Goes, Hang, Calling, NoFault, ServerTypes
<1>2. ASSUME NEW c \in Clients, 
               Connect(c) \/ ConnectFails(c) \/ Version(c) \/
               (\E to \in {"new", "gone"} : HandshakeFails(c, to)) \/ Call(c) \/
               Send(c) \/ CallFails(c) \/ Receive(c) \/ NoMemory(c) \/
               Garbled(c)
        PROVE  NoFault'
  <2>1. UNCHANGED <<fault, excused>>
    BY <1>2 DEF Connect, ConnectFails, Version, HandshakeFails, Call, Send, CallFails,
       Receive, NoMemory, Garbled, vars
  <2>. QED  BY <2>1 DEF NoFault
<1>3. ASSUME NEW p \in Pipes, GrowFails(p) \/ NoContext(p) PROVE NoFault'
  BY <1>3 DEF GrowFails, NoContext, Fails, NoFault, ServerTypes
<1>4. ASSUME NEW p \in Pipes, 
               Start(p) \/ Greet(p) \/ Top(p) \/ ReadRequest(p) \/ Handle(p) \/
               Check(p) \/ ReplySize(p) \/ ReplyBody(p) \/ ReplyError(p) \/
               ConnectionFails(p) \/ Flush(p) \/ Disconnect(p) \/ Delete(p) \/
               (Release(p) /\ serv # "gone" /\ held[p] # "freed")
        PROVE  NoFault'
  <2>1. UNCHANGED <<fault, excused>>
    BY <1>4 DEF Start, Greet, Top, ReadRequest, Handle, Check, ReplySize, ReplyBody,
       ReplyError, ConnectionFails, Flush, Disconnect, Delete, Release, Steps, others, vars
  <2>. QED  BY <2>1 DEF NoFault
<1>5. CASE AcceptorStops \/ Prepare \/ Connected \/ ConnectsNobody \/
          StartWorker
  <2>1. UNCHANGED <<fault, excused>>
    BY <1>5 DEF AcceptorStops, Prepare, Connected, ConnectsNobody, StartWorker, vars
  <2>. QED  BY <2>1 DEF NoFault
<1>6. CASE JoinAcceptor \/ CannotRegister
  BY <1>6 DEF JoinAcceptor, CannotRegister, NoFault, ServerTypes
<1>7. CASE CancelAcceptor \/ Visit \/ CancelWorker \/
          Joined \/ FreeServer
  <2>1. UNCHANGED <<fault, excused>>
    BY <1>7 DEF CancelAcceptor, Visit, CancelWorker, Joined, FreeServer, vars
  <2>. QED  BY <2>1 DEF NoFault
<1>8. CASE CreateServer \/ Destroy \/ UNCHANGED vars
  <2>1. UNCHANGED <<fault, excused>>
    BY <1>8 DEF CreateServer, Destroy, vars, vars
  <2>. QED  BY <2>1 DEF NoFault
<1>9. ASSUME Dies, UNCHANGED <<fault, excused>> PROVE NoFault'
  BY <1>9 DEF Dies, Closed, NoFault, ServerTypes
<1>10. ASSUME Faults, excused PROVE NoFault'
  BY <1>10 DEF Faults, NoFault
<1>11. ASSUME NEW p \in Pipes, Worker(p) PROVE NoFault'
  BY <1>11, <1>10, <1>3, <1>4 DEF Worker, Doomed, Release
<1>12. CASE Acceptor
  BY <1>12, <1>5, <1>6 DEF Acceptor
<1>13. CASE Destroyer
  BY <1>13, <1>10, <1>6, <1>7 DEF Destroyer, CancelFaults, JoinFaults
<1>14. CASE ClientNext
  BY <1>14, <1>1, <1>2 DEF ClientNext, Retry, GiveUp
<1>. QED
  BY <1>9, <1>8, <1>11, <1>12, <1>13, <1>14 DEF Next, ServerNext, Killed

\* What was not left behind is not now, when the worker only gets on.
LeftStays(q) ==
  /\ held'[q] = "freed" => held[q] = "freed"
  /\ wk'[q] = "doomed" => wk[q] = "doomed"
  /\ end'[q] = "hung" =>
       /\ end[q] = "hung" /\ toServer'[q] = toServer[q]
       /\ \/ wk'[q] = wk[q]
          \/ wk'[q] \in {"flush", "leave", "delete", "unlock"}
          \/ /\ wk[q] \in {"none", "start", "hello", "top", "request"}
             /\ wk'[q] \in {"none", "start", "hello", "top", "request"}

\* What is left behind stays so while the instances do.
LEMMA LeftFrame ==
  ASSUME Left, excused => excused', \A q \in Pipes : LeftStays(q)
  PROVE  Left'
<1>. SUFFICES ASSUME ~excused', NEW q \in Pipes PROVE held'[q] # "freed" /\ wk'[q] # "doomed" /\ LeftBehind(q)'
  BY DEF Left
<1>1. held[q] # "freed" /\ wk[q] # "doomed" /\ LeftBehind(q) /\ LeftStays(q)
  BY DEF Left
<1>. QED  BY <1>1 DEF LeftBehind, LeftStays, Handling

\* An error that is freed is forgotten, and nothing is left behind, without an excuse.
LEMMA LeftStep ==
  ClientTypes /\ PipeTypes /\ ServerTypes /\ WorkerTypes /\ Registered /\ Instances
  /\ Owned /\ InStep /\ Cancels /\ Left /\ [Next]_vars
    => Left'
<1>. SUFFICES ASSUME ClientTypes, PipeTypes, ServerTypes, WorkerTypes,
                         Registered, Instances, Owned, InStep, Cancels, Left, [Next]_vars PROVE Left'
  OBVIOUS
<1>1. ASSUME NEW c \in Clients, Connect(c) PROVE Left'
  <2>1. excused => excused'
    BY <1>1 DEF Connect, Goes, Listening, ServerTypes
  <2>2. ASSUME NEW q \in Pipes PROVE LeftStays(q)
    BY <1>1 DEF Connect, Goes, Listening, LeftStays, pipeVars, wkVars, PipeTypes, WorkerTypes
  <2>. QED  BY <2>1, <2>2, LeftFrame
<1>2. ASSUME NEW c \in Clients, NEW to \in {"new", "gone"}, HandshakeFails(c, to) PROVE Left'
  <2>1. Hang(pipe[c]) /\ end[pipe[c]] = "cut" /\ UNCHANGED <<wkVars, excused>>
    BY <1>2 DEF HandshakeFails, Broken
  <2>2. ASSUME NEW q \in Pipes PROVE LeftStays(q)
    BY <2>1 DEF LeftStays, Hang, PipeTypes, wkVars
  <2>. QED  BY <2>1, <2>2, LeftFrame
<1>3. ASSUME NEW c \in Clients, Send(c) PROVE Left'
  <2>1. excused => excused'
    BY <1>3 DEF Send, Goes, Sends, ServerTypes
  <2>2. ASSUME NEW q \in Pipes PROVE LeftStays(q)
    BY <1>3 DEF Send, Goes, Sends, LeftStays, pipeVars, wkVars, PipeTypes, WorkerTypes
  <2>. QED  BY <2>1, <2>2, LeftFrame
<1>4. ASSUME NEW c \in Clients, Leave(c) PROVE Left'
  <2>. SUFFICES ASSUME ~excused, ~half[c], pc[c] \notin Calling PROVE Left'
    BY <1>4 DEF Leave, Left
  <2>1. UNCHANGED <<wkVars>> /\ (UNCHANGED pipeVars \/ Hang(pipe[c]))
    BY <1>4 DEF Leave
  <2>2. CASE pipe[c] = None
    <3>1. UNCHANGED <<pipeVars, wkVars>>
      BY <1>4, <2>2 DEF Leave
    <3>2. \A q \in Pipes : LeftStays(q)
      BY <3>1 DEF LeftStays, pipeVars, wkVars
    <3>. QED  BY <3>2, LeftFrame
  <2>3. CASE pipe[c] # None
    <3>1. pc[c] \in {"version", "idle"}
      BY <2>3 DEF Instances, ClientTypes, ClientPlaces
    <3>2. PICK p \in Pipes : p = pipe[c] /\ end[p] \in {"open", "cut"}
      BY <3>1, PipeOf
    <3>3. UNCHANGED wkVars /\ Hang(p)
      BY <1>4, <2>3, <3>2 DEF Leave
    <3>4. ASSUME NEW q \in Pipes, q # p PROVE held'[q] # "freed" /\ wk'[q] # "doomed" /\ LeftBehind(q)'
      <4>1. held[q] # "freed" /\ wk[q] # "doomed" /\ LeftBehind(q)
        BY DEF Left
      <4>. QED  BY <3>3, <3>4, <4>1 DEF LeftBehind, Hang, wkVars, PipeTypes
    <3>5. held'[p] # "freed" /\ wk'[p] # "doomed"
      BY <3>3 DEF Left, wkVars
    <3>6. LeftBehind(p)'
      <4>. SUFFICES ASSUME end'[p] = "hung" PROVE LeftBehind(p)'
        BY DEF LeftBehind
      <4>1. end[p] = "open" /\ toServer'[p] = toServer[p] /\ wk'[p] = wk[p]
        BY <3>2, <3>3 DEF Hang, PipeTypes, wkVars
      <4>2. AtWork(c, p)
        BY <3>2, <4>1, ConstantsAssumption DEF InStep, Fits
      <4>3. /\ wk[p] \notin Handling \cup {"body"}
            /\ wk[p] \in {"none", "start", "hello", "top", "request"} =>
                 toServer[p] \in {<<>>, <<Msg("hello", c, 0)>>}
        BY <3>1, <4>2 DEF AtWork, Handling
      <4>4. \A i \in 1..Len(<<Msg("hello", c, 0)>>) : <<Msg("hello", c, 0)>>[i].is = "hello"
        BY DEF Msg
      <4>. QED  BY <4>1, <4>3, <4>4 DEF LeftBehind
    <3>. QED  BY <3>4, <3>5, <3>6 DEF Left
  <2>. QED  BY <2>2, <2>3
<1>5. ASSUME NEW c \in Clients, 
               ConnectFails(c) \/ Version(c) \/ Call(c) \/ CallFails(c) \/
               Receive(c) \/ NoMemory(c) \/ Garbled(c)
        PROVE  Left'
  <2>1. UNCHANGED <<end, toServer, wk, held, excused>>
    BY <1>5 DEF ConnectFails, Version, Call, CallFails, Receive, NoMemory, Garbled, pipeVars,
       wkVars
  <2>2. ASSUME NEW q \in Pipes PROVE LeftStays(q)
    BY <2>1 DEF LeftStays
  <2>. QED  BY <2>1, <2>2, LeftFrame
<1>6. ASSUME NEW p \in Pipes, Start(p) PROVE Left'
  <2>1. excused => excused'
    BY <1>6 DEF Start, Steps, others, ServerTypes
  <2>2. ASSUME NEW q \in Pipes PROVE LeftStays(q)
    BY <1>6 DEF Start, Steps, others, LeftStays, pipeVars, wkVars, PipeTypes, WorkerTypes
  <2>. QED  BY <2>1, <2>2, LeftFrame
<1>7. ASSUME NEW p \in Pipes, Greet(p) PROVE Left'
  <2>1. excused => excused'
    BY <1>7 DEF Greet, Steps, others, Arrives, ServerTypes
  <2>2. ASSUME NEW q \in Pipes PROVE LeftStays(q)
    BY <1>7 DEF Greet, Steps, others, Arrives, LeftStays, pipeVars, wkVars, PipeTypes,
       WorkerTypes
  <2>. QED  BY <2>1, <2>2, LeftFrame
<1>8. ASSUME NEW p \in Pipes, Top(p) PROVE Left'
  <2>1. excused => excused'
    BY <1>8 DEF Top, Steps, others, ServerTypes
  <2>2. ASSUME NEW q \in Pipes PROVE LeftStays(q)
    BY <1>8 DEF Top, Steps, others, LeftStays, pipeVars, wkVars, PipeTypes, WorkerTypes
  <2>. QED  BY <2>1, <2>2, LeftFrame
<1>9. ASSUME NEW p \in Pipes, ReadRequest(p) PROVE Left'
  <2>. SUFFICES ASSUME ~excused PROVE Left'
    BY <1>9 DEF ReadRequest, others, Left
  <2>1. held[p] # "freed" /\ LeftBehind(p)
    BY DEF Left
  <2>2. end[p] # "hung"
    <3>. SUFFICES ASSUME end[p] = "hung" PROVE FALSE
      OBVIOUS
    <3>1. toServer[p] # <<>> /\ Head(toServer[p]).is # "hello" /\ wk[p] \in {"request", "body"}
      BY <1>9 DEF ReadRequest, Arrives
    <3>2. 1 \in 1..Len(toServer[p]) /\ Head(toServer[p]) = toServer[p][1]
      BY <3>1, TailOf DEF PipeTypes
    <3>. QED  BY <2>1, <3>1, <3>2 DEF LeftBehind
  <2>3. ASSUME NEW q \in Pipes PROVE LeftStays(q)
    BY <1>9, <2>1, <2>2 DEF ReadRequest, Steps, others, Arrives, LeftStays, pipeVars, wkVars,
       PipeTypes, WorkerTypes
  <2>. QED  BY <2>3, LeftFrame
<1>10. ASSUME NEW p \in Pipes, Handle(p) PROVE Left'
  <2>. SUFFICES ASSUME ~excused PROVE Left'
    BY <1>10 DEF Handle, others, Left
  <2>1. held[p] # "freed" /\ LeftBehind(p)
    BY DEF Left
  <2>2. end[p] # "hung"
    BY <1>10, <2>1 DEF Handle, Steps, LeftBehind, Handling
  <2>3. ASSUME NEW q \in Pipes PROVE LeftStays(q)
    BY <1>10, <2>1, <2>2 DEF Handle, Steps, others, LeftStays, pipeVars, wkVars, PipeTypes,
       WorkerTypes
  <2>. QED  BY <2>3, LeftFrame
<1>11. ASSUME NEW p \in Pipes, Check(p) PROVE Left'
  <2>. SUFFICES ASSUME ~excused PROVE Left'
    BY <1>11 DEF Check, others, Left
  <2>1. held[p] # "freed" /\ LeftBehind(p)
    BY DEF Left
  <2>2. end[p] # "hung"
    BY <1>11, <2>1 DEF Check, Steps, LeftBehind, Handling
  <2>3. ASSUME NEW q \in Pipes PROVE LeftStays(q)
    BY <1>11, <2>1, <2>2 DEF Check, Steps, others, LeftStays, pipeVars, wkVars, PipeTypes,
       WorkerTypes
  <2>. QED  BY <2>3, LeftFrame
<1>12. ASSUME NEW p \in Pipes, ReplySize(p) PROVE Left'
  <2>. SUFFICES ASSUME ~excused PROVE Left'
    BY <1>12 DEF ReplySize, others, Left
  <2>1. held[p] # "freed" /\ LeftBehind(p)
    BY DEF Left
  <2>2. end[p] # "hung"
    BY <1>12, <2>1 DEF ReplySize, Steps, LeftBehind, Handling
  <2>3. ASSUME NEW q \in Pipes PROVE LeftStays(q)
    BY <1>12, <2>1, <2>2 DEF ReplySize, Steps, others, Writes, Answer, LeftStays, pipeVars,
       wkVars, PipeTypes, WorkerTypes
  <2>. QED  BY <2>3, LeftFrame
<1>13. ASSUME NEW p \in Pipes, ReplyBody(p) PROVE Left'
  <2>. SUFFICES ASSUME ~excused PROVE Left'
    BY <1>13 DEF ReplyBody, others, Left
  <2>1. held[p] # "freed" /\ LeftBehind(p)
    BY DEF Left
  <2>2. end[p] # "hung"
    BY <1>13, <2>1 DEF ReplyBody, Steps, LeftBehind, Handling
  <2>3. ASSUME NEW q \in Pipes PROVE LeftStays(q)
    BY <1>13, <2>1, <2>2 DEF ReplyBody, Steps, others, Writes, Answer, LeftStays, pipeVars,
       wkVars, PipeTypes, WorkerTypes
  <2>. QED  BY <2>3, LeftFrame
<1>14. ASSUME NEW p \in Pipes, ReplyError(p) PROVE Left'
  <2>. SUFFICES ASSUME ~excused PROVE Left'
    BY <1>14 DEF ReplyError, others, Left
  <2>1. held[p] # "freed" /\ LeftBehind(p)
    BY DEF Left
  <2>2. end[p] # "hung"
    BY <1>14, <2>1 DEF ReplyError, Steps, LeftBehind, Handling
  <2>3. ASSUME NEW q \in Pipes PROVE LeftStays(q)
    BY <1>14, <2>1, <2>2 DEF ReplyError, Steps, others, ErrorReply, Writes, Answer,
       LeftStays, pipeVars, wkVars, PipeTypes, WorkerTypes
  <2>. QED  BY <2>3, LeftFrame
<1>15. ASSUME NEW p \in Pipes, ConnectionFails(p) PROVE Left'
  <2>. SUFFICES ASSUME ~excused PROVE Left'
    BY <1>15 DEF ConnectionFails, others, Left
  <2>1. held[p] # "freed" /\ LeftBehind(p)
    BY DEF Left
  <2>2. wk[p] # "error"
    BY <1>15, <2>1 DEF ConnectionFails, LeftBehind, Handling, Reading
  <2>3. ASSUME NEW q \in Pipes PROVE LeftStays(q)
    BY <1>15, <2>1, <2>2 DEF ConnectionFails, Fails, others, Reading, Writing, Arrives,
       LeftStays, pipeVars, wkVars, PipeTypes, WorkerTypes
  <2>. QED  BY <2>3, LeftFrame
<1>16. ASSUME NEW p \in Pipes, GrowFails(p) PROVE Left'
  <2>. SUFFICES ASSUME ~excused, wk[p] # "error" PROVE Left'
    BY <1>16 DEF GrowFails, Left
  <2>3. ASSUME NEW q \in Pipes PROVE LeftStays(q)
    BY <1>16 DEF GrowFails, Fails, LeftStays, pipeVars, PipeTypes, WorkerTypes
  <2>. QED  BY <2>3, LeftFrame
<1>17. ASSUME NEW p \in Pipes, Flush(p) PROVE Left'
  <2>1. excused => excused'
    BY <1>17 DEF Flush, Steps, others, ServerTypes
  <2>2. ASSUME NEW q \in Pipes PROVE LeftStays(q)
    BY <1>17 DEF Flush, Steps, others, LeftStays, pipeVars, wkVars, PipeTypes, WorkerTypes
  <2>. QED  BY <2>1, <2>2, LeftFrame
<1>37. ASSUME NEW p \in Pipes, NoContext(p) PROVE Left'
  BY <1>37 DEF NoContext, Left
<1>38. ASSUME NEW p \in Pipes, Delete(p) PROVE Left'
  <2>1. UNCHANGED <<pipeVars, held, excused>> /\ wk' = [wk EXCEPT ![p] = "unlock"]
    BY <1>38 DEF Delete, Steps
  <2>2. ASSUME NEW q \in Pipes PROVE LeftStays(q)
    BY <2>1 DEF LeftStays, pipeVars, WorkerTypes
  <2>. QED  BY <2>1, <2>2, LeftFrame
<1>18. ASSUME NEW p \in Pipes, Disconnect(p) PROVE Left'
  <2>1. excused => excused'
    BY <1>18 DEF Disconnect, Steps, others, ServerTypes
  <2>2. ASSUME NEW q \in Pipes PROVE LeftStays(q)
    BY <1>18 DEF Disconnect, Steps, Closed, LeftStays, pipeVars, wkVars, PipeTypes, WorkerTypes
  <2>. QED  BY <2>1, <2>2, LeftFrame
<1>19. ASSUME NEW p \in Pipes, Release(p), serv # "gone", held[p] # "freed" PROVE Left'
  <2>1. /\ wk[p] = "unlock" /\ wk' = [wk EXCEPT ![p] = "none"] /\ held' = [held EXCEPT ![p] = "none"]
        /\ UNCHANGED <<pipeVars, excused>>
    BY <1>19 DEF Release, Steps, others
  <2>2. end[p] # "hung"
    BY <2>1 DEF Instances, Instance, Leaving
  <2>3. ASSUME NEW q \in Pipes PROVE LeftStays(q)
    BY <2>1, <2>2 DEF LeftStays, pipeVars, WorkerTypes
  <2>. QED  BY <2>1, <2>3, LeftFrame
<1>20. CASE AcceptorStops
  <2>1. excused => excused'
    BY <1>20 DEF AcceptorStops, Stops, CloseInstance, Closed, Closing, ServerTypes
  <2>2. ASSUME NEW q \in Pipes PROVE LeftStays(q)
    BY <1>20 DEF AcceptorStops, Stops, CloseInstance, Closed, Closing, LeftStays, pipeVars,
       wkVars, PipeTypes, WorkerTypes
  <2>. QED  BY <2>1, <2>2, LeftFrame
<1>21. CASE Prepare
  <2>1. excused => excused'
    BY <1>21 DEF Prepare, NewInstance, Unused, Closing, ServerTypes
  <2>2. ASSUME NEW q \in Pipes PROVE LeftStays(q)
    BY <1>21 DEF Prepare, NewInstance, Unused, Closing, LeftStays, pipeVars, wkVars,
       PipeTypes, WorkerTypes
  <2>. QED  BY <2>1, <2>2, LeftFrame
<1>22. CASE ConnectsNobody
  <2>1. excused => excused'
    BY <1>22 DEF ConnectsNobody, NotConnected, CloseInstance, Closed, ServerTypes
  <2>2. ASSUME NEW q \in Pipes PROVE LeftStays(q)
    BY <1>22 DEF ConnectsNobody, NotConnected, CloseInstance, Closed, LeftStays, pipeVars,
       wkVars, PipeTypes, WorkerTypes
  <2>. QED  BY <2>1, <2>2, LeftFrame
<1>23. CASE StartWorker
  <2>1. /\ inst \in Pipes /\ wk[inst] = "none" /\ wk' = [wk EXCEPT ![inst] = "start"]
        /\ UNCHANGED <<pipeVars, held, excused>>
    BY <1>23 DEF StartWorker, Instances, ServerTypes, Registered
  <2>2. ASSUME NEW q \in Pipes PROVE LeftStays(q)
    BY <2>1 DEF LeftStays, pipeVars, WorkerTypes
  <2>. QED  BY <2>1, <2>2, LeftFrame
<1>24. CASE Connected
  <2>1. UNCHANGED <<end, toServer, wk, held, excused>>
    BY <1>24 DEF Connected, pipeVars, wkVars
  <2>2. ASSUME NEW q \in Pipes PROVE LeftStays(q)
    BY <2>1 DEF LeftStays
  <2>. QED  BY <2>1, <2>2, LeftFrame
<1>25. CASE CancelAcceptor
  <2>1. excused => excused'
    BY <1>25 DEF CancelAcceptor, NotConnected, CloseInstance, Closed, ServerTypes
  <2>2. ASSUME NEW q \in Pipes PROVE LeftStays(q)
    BY <1>25 DEF CancelAcceptor, NotConnected, CloseInstance, Closed, LeftStays, pipeVars,
       wkVars, PipeTypes, WorkerTypes
  <2>. QED  BY <2>1, <2>2, LeftFrame
<1>26. CASE CannotRegister
  BY <1>26 DEF CannotRegister, Left
<1>27. CASE CancelWorker
  BY <1>27 DEF CancelWorker, Left, Cancels
<1>28. CASE JoinAcceptor \/ Visit \/ Joined \/ FreeServer
  <2>1. UNCHANGED <<end, toServer, wk, held>>
    BY <1>28 DEF JoinAcceptor, Visit, Joined, FreeServer, pipeVars, wkVars
  <2>2. ASSUME NEW q \in Pipes PROVE LeftStays(q)
    BY <2>1 DEF LeftStays
  <2>3. excused => excused'
    BY <1>28 DEF JoinAcceptor, Visit, Joined, FreeServer
  <2>. QED  BY <2>2, <2>3, LeftFrame
<1>29. CASE CreateServer
  <2>1. excused => excused'
    BY <1>29 DEF CreateServer, NewInstance, Unused, ServerTypes
  <2>2. ASSUME NEW q \in Pipes PROVE LeftStays(q)
    BY <1>29 DEF CreateServer, NewInstance, Unused, LeftStays, pipeVars, wkVars, PipeTypes,
       WorkerTypes
  <2>. QED  BY <2>1, <2>2, LeftFrame
<1>30. CASE Destroy \/ UNCHANGED vars
  <2>1. UNCHANGED <<end, toServer, wk, held, excused>>
    BY <1>30 DEF Destroy, vars, pipeVars, wkVars
  <2>2. ASSUME NEW q \in Pipes PROVE LeftStays(q)
    BY <2>1 DEF LeftStays
  <2>. QED  BY <2>1, <2>2, LeftFrame
<1>31. CASE Dies
  BY <1>31 DEF Dies, Closed, Left, LeftBehind
<1>32. CASE Faults
  BY <1>32, <1>31 DEF Faults
<1>33. ASSUME NEW p \in Pipes, Worker(p) PROVE Left'
  BY <1>33, <1>32, <1>6, <1>7, <1>8, <1>9, <1>10, <1>11, <1>12, <1>13, <1>14, <1>15, <1>16,
     <1>17, <1>18, <1>19, <1>37, <1>38 DEF Worker, Doomed, Release
<1>34. CASE Acceptor
  BY <1>34, <1>32, <1>20, <1>21, <1>22, <1>23, <1>24, <1>26 DEF Acceptor
<1>35. CASE Destroyer
  BY <1>35, <1>32, <1>25, <1>27, <1>28 DEF Destroyer, CancelFaults, JoinFaults
<1>36. CASE ClientNext
  BY <1>36, <1>1, <1>2, <1>3, <1>4, <1>5 DEF ClientNext, Retry, GiveUp
<1>. QED
  BY <1>31, <1>29, <1>30, <1>33, <1>34, <1>35, <1>36 DEF Next, ServerNext, Killed

-----------------------------------------------------------------------------
\* The invariant holds before the server is there.
LEMMA InductiveInit == Init => IInv
<1>. SUFFICES ASSUME Init PROVE IInv
  OBVIOUS
<1>. USE DEF Init
<1>1. TypeOK
  <2>1. NoRequest \in Messages
    BY DEF NoRequest, Msg, Messages, Kinds
  <2>2. <<>> \in Seq(Messages) /\ MaxCalls \in Nat
    BY ConstantsAssumption
  <2>3. ClientTypes
    BY <2>2 DEF ClientTypes, ClientPlaces
  <2>4. PipeTypes /\ ServerTypes
    BY <2>2 DEF PipeTypes, ServerTypes
  <2>5. WorkerTypes
    BY <2>1 DEF WorkerTypes, WorkerPlaces
  <2>6. Registered
    BY DEF Registered
  <2>. QED  BY <2>3, <2>4, <2>5, <2>6, Types
<1>2. NoServer /\ Excuses
  BY DEF NoServer, Joining, Excuses, LeftBehind, NoFault
<1>3. Instances
  BY ConstantsAssumption DEF Instances, Instance, Nobody, Ended, Leaving
<1>4. Owned
  BY ConstantsAssumption DEF Owned, On, Handling
<1>5. InOrder
  <2>1. \A p \in Pipes : Bodies(p) = {}
    BY DEF Bodies
  <2>2. \A p \in Pipes : Ordered(p)
    BY <2>1 DEF Ordered, Handling
  <2>. QED  BY <2>2 DEF InOrder, Asked, Answered
<1>6. InStep
  BY DEF InStep, Fits
<1>. QED  BY <1>1, <1>2, <1>3, <1>4, <1>5, <1>6 DEF IInv

\* Each step preserves the invariant.
LEMMA InductiveStep == IInv /\ [Next]_vars => IInv'
<1>. SUFFICES ASSUME IInv, [Next]_vars PROVE IInv'
  OBVIOUS
<1>1. /\ ClientTypes /\ PipeTypes /\ ServerTypes /\ WorkerTypes /\ Registered
      /\ NoServer /\ Instances /\ Owned /\ InStep
  BY Types DEF IInv
<1>2. Queues /\ Replies
  BY DEF IInv, InOrder, Queues, Replies
<1>3. Cancels /\ NoWorker /\ Left /\ NoFault
  BY DEF IInv, Excuses, Cancels, NoWorker, Left
<1>4. ClientTypes' /\ PipeTypes' /\ ServerTypes' /\ WorkerTypes'
  BY <1>1, ClientTypesStep, PipeTypesStep, ServerTypesStep, WorkerTypesStep
<1>5. Instances' /\ Registered' /\ NoServer'
  BY <1>1, InstancesStep, NoServerStep
<1>6. Owned' /\ InStep'
  BY <1>1, OwnedStep, InStepStep
<1>7. Queues' /\ Replies'
  BY <1>1, <1>2, <1>4, QueuesStep, RepliesStep
<1>8. Cancels' /\ NoWorker' /\ Left' /\ NoFault'
  BY <1>1, <1>3, CancelsStep, NoWorkerStep, LeftStep, NoFaultStep
<1>9. TypeOK'
  <2>1. \A c \in Clients : served'[c] <= asked'[c]
    BY <1>7 DEF Queues, Asked
  <2>. QED  BY <1>4, <1>5, <2>1
            DEF TypeOK, ClientTypes, PipeTypes, ServerTypes, WorkerTypes, Registered
<1>10. InOrder'
  BY <1>7 DEF InOrder, Queues, Replies
<1>11. Excuses'
  BY <1>8 DEF Excuses, Cancels, NoWorker, Left
<1>. QED  BY <1>5, <1>6, <1>9, <1>10, <1>11 DEF IInv

(* What holds in every state that can be reached: who uses an instance, where the
   requests and replies of a client are, and what a fault presupposes. *)
THEOREM Inductive == Spec => []IInv
BY InductiveInit, InductiveStep, PTL DEF Spec

\* The types of the state of both ends; the acceptor's instance has no worker, and
\* every client in serv->clients has one that has not deleted it yet.
THEOREM TypeCorrect == Spec => []TypeOK
<1>1. IInv => TypeOK
  BY DEF IInv
<1>. QED  BY <1>1, Inductive, PTL

(* The server uses nothing after it was freed unless memory has failed, a client
   has left inside a call, or a worker had not ended when ipcserver_destroy joined
   the acceptor: for any number of clients that come, call and leave. *)
THEOREM NoFaultWithoutExcuse == Spec => []NoFault
<1>1. IInv => NoFault
  BY DEF IInv, Excuses
<1>. QED  BY <1>1, Inductive, PTL
-----------------------------------------------------------------------------
Waiting == [c \in Clients |-> pc[c] \in Calling]

\* A client waits for a reply exactly while it is in a call.
LEMMA Waits ==
  ASSUME ClientTypes, NEW c \in Clients, NEW to, pc' = [pc EXCEPT ![c] = to]
  PROVE  /\ to \in Calling => Waiting' = [Waiting EXCEPT ![c] = TRUE]
         /\ to \notin Calling => Waiting' = [Waiting EXCEPT ![c] = FALSE]
         /\ ((to \in Calling) <=> (pc[c] \in Calling)) => Waiting' = Waiting
<1>1. pc'[c] = to /\ \A d \in Clients : d # c => pc'[d] = pc[d]
  BY DEF ClientTypes
<1>2. ASSUME to \in Calling PROVE Waiting' = [Waiting EXCEPT ![c] = TRUE]
  <2>1. (pc'[c] \in Calling) = TRUE
    BY <1>1, <1>2
  <2>2. \A d \in Clients : d # c => (pc'[d] \in Calling) = (pc[d] \in Calling)
    BY <1>1, Zenon
  <2>3. \A d \in Clients : (pc'[d] \in Calling) = (IF d = c THEN TRUE ELSE pc[d] \in Calling)
    BY <2>1, <2>2, Zenon
  <2>4. Waiting' = [d \in Clients |-> IF d = c THEN TRUE ELSE pc[d] \in Calling]
    BY <2>3, Zenon DEF Waiting
  <2>5. [Waiting EXCEPT ![c] = TRUE] = [d \in Clients |-> IF d = c THEN TRUE ELSE pc[d] \in Calling]
    BY Zenon DEF Waiting
  <2>. QED  BY <2>4, <2>5
<1>3. ASSUME to \notin Calling PROVE Waiting' = [Waiting EXCEPT ![c] = FALSE]
  <2>1. (pc'[c] \in Calling) = FALSE
    BY <1>1, <1>3
  <2>2. \A d \in Clients : d # c => (pc'[d] \in Calling) = (pc[d] \in Calling)
    BY <1>1, Zenon
  <2>3. \A d \in Clients : (pc'[d] \in Calling) = (IF d = c THEN FALSE ELSE pc[d] \in Calling)
    BY <2>1, <2>2, Zenon
  <2>4. Waiting' = [d \in Clients |-> IF d = c THEN FALSE ELSE pc[d] \in Calling]
    BY <2>3, Zenon DEF Waiting
  <2>5. [Waiting EXCEPT ![c] = FALSE] = [d \in Clients |-> IF d = c THEN FALSE ELSE pc[d] \in Calling]
    BY Zenon DEF Waiting
  <2>. QED  BY <2>4, <2>5
<1>4. ASSUME (to \in Calling) <=> (pc[c] \in Calling) PROVE Waiting' = Waiting
  <2>1. \A d \in Clients : (pc'[d] \in Calling) <=> (pc[d] \in Calling)
    BY <1>1, <1>4
  <2>2. \A d \in Clients : (pc'[d] \in Calling) = (pc[d] \in Calling)
    BY <2>1
  <2>. QED  BY <2>2, Zenon DEF Waiting
<1>. QED  BY <1>2, <1>3, <1>4

\* A call comes to an end.
LEMMA CallReturns ==
  ASSUME ClientTypes, NEW c \in Clients, pc[c] \in Calling, NEW to \in {"idle", "gone"},
         pc' = [pc EXCEPT ![c] = to], NEW r, result' = [result EXCEPT ![c] = r],
         UNCHANGED <<asked, served>>
  PROVE  RPC!Returns(c, r)
<1>1. to \notin Calling
  BY DEF Calling
<1>2. Waiting' = [Waiting EXCEPT ![c] = FALSE]
  BY <1>1, Waits
<1>3. Waiting[c]
  BY DEF Waiting
<1>. QED  BY <1>2, <1>3 DEF RPC!Returns, Waiting

\* A step that changes nothing a caller sees is a stutter of Rpc.
LEMMA Stutters ==
  ASSUME UNCHANGED <<asked, served, result, half>>, Waiting' = Waiting
  PROVE  [RPC!Next]_RPC!vars
BY DEF RPC!vars, Waiting

\* Every step of the connection is one of the Rpc, or none.
LEMMA RpcStep == IInv /\ [Next]_vars => [RPC!Next]_RPC!vars
<1>. SUFFICES ASSUME IInv, [Next]_vars PROVE [RPC!Next]_RPC!vars
  OBVIOUS
<1>. /\ ClientTypes /\ PipeTypes /\ ServerTypes /\ WorkerTypes /\ Registered
     /\ Instances /\ Owned /\ InStep
  BY Types DEF IInv
<1>. Queues /\ Replies
  BY DEF IInv, InOrder, Queues, Replies
<1>1. ASSUME NEW c \in Clients, Connect(c) PROVE [RPC!Next]_RPC!vars
  <2>1. UNCHANGED <<asked, result, half, served>> /\ pc' = [pc EXCEPT ![c] = "version"]
    BY <1>1 DEF Connect, Goes, wkVars
  <2>2. ("version" \in Calling) <=> (pc[c] \in Calling)
    BY <1>1 DEF Connect, Calling
  <2>3. Waiting' = Waiting
    BY <2>1, <2>2, Waits
  <2>. QED  BY <2>1, <2>3, Stutters
<1>2. ASSUME NEW c \in Clients, ConnectFails(c) PROVE [RPC!Next]_RPC!vars
  <2>1. UNCHANGED <<asked, result, half, served>> /\ pc' = [pc EXCEPT ![c] = "gone"]
    BY <1>2 DEF ConnectFails, Goes, wkVars
  <2>2. ("gone" \in Calling) <=> (pc[c] \in Calling)
    BY <1>2 DEF ConnectFails, Calling
  <2>3. Waiting' = Waiting
    BY <2>1, <2>2, Waits
  <2>. QED  BY <2>1, <2>3, Stutters
<1>3. ASSUME NEW c \in Clients, Version(c) PROVE [RPC!Next]_RPC!vars
  <2>1. UNCHANGED <<asked, result, half, served>> /\ pc' = [pc EXCEPT ![c] = "idle"]
    BY <1>3 DEF Version, Goes, wkVars
  <2>2. ("idle" \in Calling) <=> (pc[c] \in Calling)
    BY <1>3 DEF Version, Calling
  <2>3. Waiting' = Waiting
    BY <2>1, <2>2, Waits
  <2>. QED  BY <2>1, <2>3, Stutters
<1>4. ASSUME NEW c \in Clients, NEW to \in {"new", "gone"}, HandshakeFails(c, to) PROVE [RPC!Next]_RPC!vars
  <2>1. UNCHANGED <<asked, result, half, served>> /\ pc' = [pc EXCEPT ![c] = to]
    BY <1>4 DEF HandshakeFails, Goes, wkVars
  <2>2. (to \in Calling) <=> (pc[c] \in Calling)
    BY <1>4 DEF HandshakeFails, Calling
  <2>3. Waiting' = Waiting
    BY <2>1, <2>2, Waits
  <2>. QED  BY <2>1, <2>3, Stutters
<1>5. ASSUME NEW c \in Clients, Call(c) PROVE [RPC!Next]_RPC!vars
  <2>1. /\ pc[c] = "idle" /\ pc' = [pc EXCEPT ![c] = "request"]
        /\ asked' = [asked EXCEPT ![c] = @ + 1] /\ result' = [result EXCEPT ![c] = "none"]
        /\ UNCHANGED <<served, half>>
    BY <1>5 DEF Call, Goes, wkVars
  <2>2. "request" \in Calling /\ "idle" \notin Calling
    BY DEF Calling
  <2>3. Waiting' = [Waiting EXCEPT ![c] = TRUE]
    BY <2>1, <2>2, Waits
  <2>4. ~Waiting[c]
    BY <2>1, <2>2 DEF Waiting
  <2>5. RPC!Ask(c)
    BY <2>1, <2>3, <2>4 DEF RPC!Ask, Waiting
  <2>. QED  BY <2>5 DEF RPC!Next
<1>6. ASSUME NEW c \in Clients, Send(c) PROVE [RPC!Next]_RPC!vars
  <2>1. UNCHANGED <<asked, result, half, served>> /\ pc' = [pc EXCEPT ![c] = (IF pc[c] = "request" THEN "body" ELSE "size")]
    BY <1>6 DEF Send, Goes, wkVars
  <2>2. ((IF pc[c] = "request" THEN "body" ELSE "size") \in Calling) <=> (pc[c] \in Calling)
    BY <1>6 DEF Send, Calling
  <2>3. Waiting' = Waiting
    BY <2>1, <2>2, Waits
  <2>. QED  BY <2>1, <2>3, Stutters
<1>7. ASSUME NEW c \in Clients, CallFails(c) PROVE [RPC!Next]_RPC!vars
  <2>1. /\ pc[c] \in Calling /\ pc' = [pc EXCEPT ![c] = "idle"]
        /\ result' = [result EXCEPT ![c] = "failed"] /\ UNCHANGED <<asked, served, half>>
    BY <1>7 DEF CallFails, Ends, Goes, wkVars
  <2>2. RPC!Returns(c, "failed")
    BY <2>1, CallReturns
  <2>3. half' = [half EXCEPT ![c] = @ \/ FALSE]
    BY <2>1 DEF ClientTypes
  <2>4. RPC!Fail(c)
    BY <2>2, <2>3 DEF RPC!Fail
  <2>. QED  BY <2>4 DEF RPC!Next
<1>8. ASSUME NEW c \in Clients, Receive(c) PROVE [RPC!Next]_RPC!vars
  <2>1. pc[c] \in Calling /\ Arrived(c) /\ UNCHANGED <<asked, half, served>>
    BY <1>8 DEF Receive, wkVars
  <2>2. CASE \E to \in Calling : pc' = [pc EXCEPT ![c] = to] /\ UNCHANGED result
    <3>1. Waiting' = Waiting
      BY <2>1, <2>2, Waits
    <3>. QED  BY <2>1, <2>2, <3>1, Stutters
  <2>3. CASE Replied(c)
    <3>1. CASE Got(c).of = asked[c]
      <4>1. RPC!Returns(c, "reply")
        BY <2>1, <2>3, <3>1, CallReturns DEF Replied, Ends, Goes
      <4>2. asked[c] <= served[c]
        <5>1. pipe[c] \in Pipes /\ toClient[pipe[c]] # <<>>
          BY <2>1, PipeOf DEF Calling, Arrived
        <5>2. 1 \in 1..Len(toClient[pipe[c]]) /\ Got(c) = toClient[pipe[c]][1]
          BY <5>1, TailOf DEF PipeTypes, Got
        <5>. QED  BY <3>1, <5>1, <5>2, ConstantsAssumption DEF Replies, Answered
      <4>3. served[c] = asked[c]
        BY <4>2 DEF Queues, Asked, ClientTypes, WorkerTypes
      <4>4. RPC!Reply(c)
        BY <2>1, <4>1, <4>3 DEF RPC!Reply
      <4>. QED  BY <4>4 DEF RPC!Next
    <3>2. CASE Got(c).of # asked[c]
      <4>1. RPC!Returns(c, "wrong")
        BY <2>1, <2>3, <3>2, CallReturns DEF Replied, Ends, Goes
      <4>2. half[c]
        BY <2>1, <3>2, NextIsOwn
      <4>3. RPC!Garble(c)
        BY <2>1, <4>1, <4>2 DEF RPC!Garble
      <4>. QED  BY <4>3 DEF RPC!Next
    <3>. QED  BY <3>1, <3>2
  <2>. QED  BY <1>8, <2>2, <2>3 DEF Receive, Goes, Calling
<1>9. ASSUME NEW c \in Clients, NoMemory(c) PROVE [RPC!Next]_RPC!vars
  <2>1. /\ pc[c] \in Calling /\ pc' = [pc EXCEPT ![c] = "idle"]
        /\ result' = [result EXCEPT ![c] = "failed"] /\ UNCHANGED <<asked, served>>
        /\ half' = [half EXCEPT ![c] = TRUE]
    BY <1>9 DEF NoMemory, Ends, Goes, wkVars, Calling
  <2>2. RPC!Returns(c, "failed")
    BY <2>1, CallReturns
  <2>3. half' = [half EXCEPT ![c] = @ \/ TRUE]
    BY <2>1 DEF ClientTypes
  <2>4. RPC!Fail(c)
    BY <2>2, <2>3 DEF RPC!Fail
  <2>. QED  BY <2>4 DEF RPC!Next
<1>10. ASSUME NEW c \in Clients, Garbled(c) PROVE [RPC!Next]_RPC!vars
  <2>1. pc[c] \in Calling /\ half[c] /\ UNCHANGED <<asked, half, served>>
    BY <1>10, GarbledHalf DEF Garbled, wkVars
  <2>2. CASE pc' = [pc EXCEPT ![c] = "starved"] /\ UNCHANGED result
    <3>1. Waiting' = Waiting
      BY <2>1, <2>2, Waits DEF Calling
    <3>. QED  BY <2>1, <2>2, <3>1, Stutters
  <2>3. CASE Ends(c, "wrong")
    <3>1. RPC!Returns(c, "wrong")
      BY <2>1, <2>3, CallReturns DEF Ends, Goes
    <3>2. RPC!Garble(c)
      BY <2>1, <3>1 DEF RPC!Garble
    <3>. QED  BY <3>2 DEF RPC!Next
  <2>. QED  BY <1>10, <2>2, <2>3 DEF Garbled, Goes
<1>11. ASSUME NEW c \in Clients, Leave(c) PROVE [RPC!Next]_RPC!vars
  <2>1. /\ pc' = [pc EXCEPT ![c] = "gone"] /\ UNCHANGED <<asked, half, served>>
        /\ result' = [result EXCEPT ![c] = IF pc[c] \in Calling THEN "failed" ELSE @]
    BY <1>11 DEF Leave, Goes, wkVars
  <2>2. CASE pc[c] \in Calling
    <3>1. RPC!Returns(c, "failed")
      BY <2>1, <2>2, CallReturns
    <3>2. half' = [half EXCEPT ![c] = @ \/ FALSE]
      BY <2>1 DEF ClientTypes
    <3>3. RPC!Fail(c)
      BY <3>1, <3>2 DEF RPC!Fail
    <3>. QED  BY <3>3 DEF RPC!Next
  <2>3. CASE pc[c] \notin Calling
    <3>0. "gone" \notin Calling
      BY DEF Calling
    <3>1. Waiting' = Waiting
      BY <2>1, <2>3, <3>0, Waits
    <3>2. UNCHANGED result
      BY <2>1, <2>3 DEF ClientTypes
    <3>. QED  BY <2>1, <3>1, <3>2, Stutters
  <2>. QED  BY <2>2, <2>3
<1>12. ASSUME NEW p \in Pipes, Handle(p) PROVE [RPC!Next]_RPC!vars
  <2>1. /\ wk[p] = "call" /\ served' = [served EXCEPT ![cur[p].by] = cur[p].of]
        /\ UNCHANGED <<pc, asked, result, half>>
    BY <1>12 DEF Handle, Steps, others, cliVars
  <2>2. PICK c \in Clients, k \in Nat : c = cur[p].by /\ k = cur[p].of
    BY <2>1 DEF Owned, Handling, WorkerTypes, Messages
  <2>3. served[c] < k /\ k <= asked[c]
    BY <2>1, <2>2 DEF Queues, Ordered, Due, Asked
  <2>4. k \in (served[c] + 1)..asked[c]
    BY <2>3 DEF WorkerTypes, ClientTypes
  <2>5. RPC!Serve(c)
    BY <2>1, <2>2, <2>4 DEF RPC!Serve
  <2>. QED  BY <2>5 DEF RPC!Next
<1>13. ASSUME NEW p \in Pipes, 
               Start(p) \/ NoContext(p) \/ Delete(p) \/ Greet(p) \/ Top(p) \/ ReadRequest(p) \/ Check(p) \/
               ReplySize(p) \/ ReplyBody(p) \/ ReplyError(p) \/
               ConnectionFails(p) \/ GrowFails(p) \/ Flush(p) \/
               Disconnect(p) \/ (Release(p) /\ serv # "gone" /\ held[p] # "freed")
        PROVE  [RPC!Next]_RPC!vars
  <2>1. UNCHANGED <<pc, asked, served, result, half>>
    BY <1>13 DEF Start, NoContext, Delete, Greet, Top, ReadRequest, Check, ReplySize, ReplyBody, ReplyError,
       ConnectionFails, GrowFails, Flush, Disconnect, Release, Steps, others, cliVars, wkVars
  <2>2. Waiting' = Waiting
    BY <2>1 DEF Waiting
  <2>. QED  BY <2>1, <2>2, Stutters
<1>14. CASE AcceptorStops \/ Prepare \/ Connected \/ ConnectsNobody \/
          StartWorker \/ CannotRegister
  <2>1. UNCHANGED <<pc, asked, served, result, half>>
    BY <1>14 DEF AcceptorStops, Prepare, Connected, ConnectsNobody, StartWorker, CannotRegister, cliVars, wkVars
  <2>2. Waiting' = Waiting
    BY <2>1 DEF Waiting
  <2>. QED  BY <2>1, <2>2, Stutters
<1>15. CASE CancelAcceptor \/ JoinAcceptor \/ Visit \/ CancelWorker \/
          Joined \/ FreeServer
  <2>1. UNCHANGED <<pc, asked, served, result, half>>
    BY <1>15 DEF CancelAcceptor, JoinAcceptor, Visit, CancelWorker, Joined,
       FreeServer, cliVars, wkVars
  <2>2. Waiting' = Waiting
    BY <2>1 DEF Waiting
  <2>. QED  BY <2>1, <2>2, Stutters
<1>16. CASE CreateServer \/ Destroy \/ UNCHANGED vars
  <2>1. UNCHANGED <<pc, asked, served, result, half>>
    BY <1>16 DEF CreateServer, Destroy, vars, cliVars, wkVars
  <2>2. Waiting' = Waiting
    BY <2>1 DEF Waiting
  <2>. QED  BY <2>1, <2>2, Stutters
<1>17. CASE Dies
  <2>1. UNCHANGED <<pc, asked, served, result, half>>
    BY <1>17 DEF Dies, cliVars, wkVars
  <2>2. Waiting' = Waiting
    BY <2>1 DEF Waiting
  <2>. QED  BY <2>1, <2>2, Stutters
<1>18. CASE Faults
  BY <1>18, <1>17 DEF Faults
<1>19. ASSUME NEW p \in Pipes, Worker(p) PROVE [RPC!Next]_RPC!vars
  BY <1>19, <1>18, <1>12, <1>13 DEF Worker, Doomed, Release
<1>20. CASE Acceptor
  BY <1>20, <1>18, <1>14 DEF Acceptor
<1>21. CASE Destroyer
  BY <1>21, <1>18, <1>15 DEF Destroyer, CancelFaults, JoinFaults
<1>22. CASE ClientNext
  BY <1>22, <1>1, <1>2, <1>3, <1>4, <1>5, <1>6, <1>7, <1>8, <1>9, <1>10,
     <1>11 DEF ClientNext, Retry, GiveUp
<1>. QED
  BY <1>17, <1>16, <1>19, <1>20, <1>21, <1>22 DEF Next, ServerNext, Killed

(* ipcclient_call on a connection that lives through all this is the call that the
   bridge takes it for: handled at most once, answered only by its own reply. *)
THEOREM ImplementsRpc == Spec => RpcSpec
<1>1. Init => RPC!Init
  <2>. SUFFICES ASSUME Init PROVE RPC!Init
    OBVIOUS
  <2>0. \A c \in Clients : pc[c] \notin Calling
    BY DEF Init, Calling
  <2>1. ASSUME NEW c \in Clients PROVE (pc[c] \in Calling) = FALSE
    <3>1. pc[c] \notin Calling
      BY <2>0
    <3>. QED  BY <3>1
  <2>2. [c \in Clients |-> pc[c] \in Calling] = [c \in Clients |-> FALSE]
    BY <2>1, Zenon
  <2>. QED  BY <2>2 DEF Init, RPC!Init
<1>. QED  BY <1>1, Inductive, RpcStep, PTL DEF Spec, RpcSpec, RPC!Spec
=============================================================================

-------------------------------- MODULE Ipc --------------------------------
(***************************************************************************)
(* ipcclient.c and ipcserver.c over named pipes: an acceptor thread that    *)
(* hands each connected instance of the pipe to a worker thread of its own, *)
(* a worker that reads a request, runs the handler and writes the reply,    *)
(* and ipcserver_destroy, which cancels the I/O of all of them and joins.   *)
(*                                                                          *)
(* A pipe carries messages, one for each piece that is read on its own; a   *)
(* request is two of them, a reply two and an error reply up to three.  The *)
(* worker of an instance bears its name.  A thread at an I/O call may or    *)
(* may not have entered it: CancelSynchronousIo hits it or is lost.         *)
(***************************************************************************)
EXTENDS Naturals, Sequences

CONSTANTS Clients,   \* users of ipcclient, each creating one
          Strangers, \* those of another signature or protocol version
          Pipes,     \* instances of the pipe, used again when both ends are closed
          MaxCalls,  \* bound on the calls of a client
          None       \* no instance, no client

ASSUME ConstantsAssumption == /\ MaxCalls \in Nat
                              /\ Strangers \subseteq Clients
                              /\ None \notin Clients \cup Pipes

VARIABLES
  pc,        \* where each client is
  pipe,      \* the instance it holds
  asked,     \* how many calls it has made
  result,    \* how its last call ended
  half,      \* has one of its calls stopped in the middle of a reply
  end,       \* the state of each instance
  toServer,  \* what is in it, one queue for each direction
  toClient,
  serv,      \* how far ipcserver_destroy has come
  target,    \* the worker it cancels
  acc,       \* where the acceptor is
  inst,      \* the instance it holds
  clients,   \* serv->clients
  wk,        \* where the worker of each instance is
  var,       \* ictx->cv.var
  held,      \* ictx->err: none, an error, or one that is freed already
  cur,       \* the request the worker handles
  served,    \* the last request of each client that was handled
  fault,     \* has the server used freed memory or a null pointer
  excused,   \* may it have: memory failed, a client left in mid-call, or
             \* ipcserver_destroy found a worker that had not ended
  missed     \* was a CancelSynchronousIo lost on a thread about to block

cliVars  == <<pc, pipe, asked, result, half>>
pipeVars == <<end, toServer, toClient>>
servVars == <<serv, target, missed>>
accVars  == <<acc, inst, clients>>
wkVars   == <<wk, var, held, cur, served>>
vars == <<cliVars, pipeVars, servVars, accVars, wkVars, fault, excused>>

Msg(is, c, k) == [is |-> is, by |-> c, of |-> k]
NoRequest == Msg("none", None, 0)

AtRest == {"new", "idle", "gone"}
Calling == {"request", "body", "size", "error", "text", "answer", "starved"}

Init ==
  /\ pc = [c \in Clients |-> "new"] /\ pipe = [c \in Clients |-> None]
  /\ asked = [c \in Clients |-> 0]
  /\ result = [c \in Clients |-> "none"] /\ half = [c \in Clients |-> FALSE]
  /\ end = [p \in Pipes |-> "none"]
  /\ toServer = [p \in Pipes |-> <<>>] /\ toClient = [p \in Pipes |-> <<>>]
  /\ serv = "none" /\ target = None /\ missed = FALSE
  /\ acc = "none" /\ inst = None /\ clients = {}
  /\ wk = [p \in Pipes |-> "none"] /\ var = [p \in Pipes |-> 0]
  /\ held = [p \in Pipes |-> "none"] /\ cur = [p \in Pipes |-> NoRequest]
  /\ served = [c \in Clients |-> 0]
  /\ fault = FALSE /\ excused = FALSE
-----------------------------------------------------------------------------
(* Clients *)

Goes(c, to) == pc' = [pc EXCEPT ![c] = to]

Listening == {p \in Pipes : end[p] = "listen"}

\* CreateFileW connects to an instance nobody is connected to, and the client
\* introduces itself.
Connect(c) == /\ pc[c] = "new"
              /\ \E p \in Listening :
                   /\ end' = [end EXCEPT ![p] = "open"]
                   /\ pipe' = [pipe EXCEPT ![c] = p]
                   /\ toServer' = [toServer EXCEPT ![p] = <<Msg("hello", c, 0)>>]
              /\ Goes(c, "version")
              /\ UNCHANGED <<asked, result, half, toClient, servVars, accVars, wkVars,
                             fault, excused>>

\* All instances are taken, or there is none until the deadline.
ConnectFails(c) == /\ pc[c] = "new" /\ Listening = {}
                   /\ Goes(c, "gone")
                   /\ UNCHANGED <<pipe, asked, result, half, pipeVars, servVars,
                                  accVars, wkVars, fault, excused>>

\* Closing the client's end; the server reads what is left, then an error.
Hang(p) ==
  /\ end' = [end EXCEPT ![p] = IF @ = "cut" THEN "none" ELSE "hung"]
  /\ toClient' = [toClient EXCEPT ![p] = <<>>]
  /\ toServer' = [toServer EXCEPT ![p] = IF end[p] = "cut" THEN <<>> ELSE @]

Sends(c, m) == toServer' = [toServer EXCEPT ![pipe[c]] = Append(@, m)]

\* The next message for c.
Got(c) == Head(toClient[pipe[c]])
Arrived(c) == toClient[pipe[c]] # <<>>
Takes(c) == toClient' = [toClient EXCEPT ![pipe[c]] = Tail(@)]

Version(c) == /\ pc[c] = "version" /\ Arrived(c)
              /\ Takes(c)
              /\ Goes(c, "idle")
              /\ UNCHANGED <<pipe, asked, result, half, end, toServer, servVars,
                             accVars, wkVars, fault, excused>>

\* What a client finds when the server has closed the instance.
Broken(c) == /\ end[pipe[c]] = "cut"
             /\ Arrived(c) => pc[c] \in {"request", "body"}

HandshakeFails(c, to) == /\ pc[c] = "version" /\ Broken(c)
                         /\ Hang(pipe[c])
                         /\ pipe' = [pipe EXCEPT ![c] = None]
                         /\ Goes(c, to)
                         /\ UNCHANGED <<asked, result, half, servVars, accVars,
                                        wkVars, fault, excused>>

\* ERROR_BROKEN_PIPE is tried again until the deadline.
Retry(c) == HandshakeFails(c, "new")
GiveUp(c) == HandshakeFails(c, "gone")

Call(c) == /\ pc[c] = "idle" /\ asked[c] < MaxCalls
           /\ asked' = [asked EXCEPT ![c] = @ + 1]
           /\ result' = [result EXCEPT ![c] = "none"]
           /\ Goes(c, "request")
           /\ UNCHANGED <<pipe, half, pipeVars, servVars, accVars, wkVars, fault, excused>>

Send(c) == /\ pc[c] \in {"request", "body"} /\ end[pipe[c]] = "open"
           /\ Sends(c, Msg(pc[c], c, asked[c]))
           /\ Goes(c, IF pc[c] = "request" THEN "body" ELSE "size")
           /\ UNCHANGED <<pipe, asked, result, half, end, toClient, servVars,
                          accVars, wkVars, fault, excused>>

Ends(c, r) == Goes(c, "idle") /\ result' = [result EXCEPT ![c] = r]

Replied(c) == Ends(c, IF Got(c).of = asked[c] THEN "reply" ELSE "wrong")

CallFails(c) == /\ pc[c] \in Calling /\ Broken(c)
                /\ Ends(c, "failed")
                /\ UNCHANGED <<pipe, asked, half, pipeVars, servVars, accVars,
                               wkVars, fault, excused>>

Expected(c) == CASE pc[c] = "size"   -> {"size", "zero"}
                 [] pc[c] = "answer" -> {"answer"}
                 [] pc[c] = "error"  -> {"error", "error with text"}
                 [] pc[c] = "text"   -> {"text"}
                 [] OTHER            -> {}

\* The reads of ipcclient_call.
Receive(c) ==
  /\ pc[c] \in Calling /\ Arrived(c) /\ Got(c).is \in Expected(c)
  /\ Takes(c)
  /\ CASE Got(c).is = "size" -> Goes(c, "answer") /\ UNCHANGED result
       [] Got(c).is = "zero" -> Goes(c, "error") /\ UNCHANGED result
       [] Got(c).is = "error with text" -> Goes(c, "text") /\ UNCHANGED result
       [] OTHER -> Replied(c)
  /\ UNCHANGED <<pipe, asked, half, end, toServer, servVars, accVars, wkVars,
                 fault, excused>>

\* Memory for what comes next fails: it stays in the pipe.
NoMemory(c) ==
  /\ pc[c] \in {"size", "error"}
  /\ Arrived(c) /\ Got(c).is \in {"size", "error with text"} \cap Expected(c)
  /\ Takes(c)
  /\ Ends(c, "failed")
  /\ half' = [half EXCEPT ![c] = TRUE]
  /\ UNCHANGED <<pipe, asked, end, toServer, servVars, accVars, wkVars, fault, excused>>

\* What arrives is not what it is taken for: any number of messages is read,
\* and the call returns anything (which counts as wrong), or waits for more.
Garbled(c) ==
  /\ pc[c] \in Calling /\ Arrived(c) /\ Got(c).is \notin Expected(c)
  /\ pc[c] \notin {"request", "body"}
  /\ \E j \in 1..Len(toClient[pipe[c]]) :
       toClient' = [toClient EXCEPT ![pipe[c]] = SubSeq(@, j + 1, Len(@))]
  /\ \/ Ends(c, "wrong")
     \/ Goes(c, "starved") /\ UNCHANGED result
  /\ UNCHANGED <<pipe, asked, half, end, toServer, servVars, accVars, wkVars, fault, excused>>

\* ipcclient_destroy between calls, or the end of the client's process at any time.
Leave(c) ==
  /\ pc[c] # "gone"
  /\ Goes(c, "gone")
  /\ pipe' = [pipe EXCEPT ![c] = None]
  /\ IF pipe[c] = None THEN UNCHANGED pipeVars ELSE Hang(pipe[c])
  /\ result' = [result EXCEPT ![c] = IF pc[c] \in Calling THEN "failed" ELSE @]
  /\ excused' = (excused \/ half[c] \/ pc[c] \in Calling)
  /\ UNCHANGED <<asked, half, servVars, accVars, wkVars, fault>>

ClientNext == \E c \in Clients :
  \/ Connect(c) \/ ConnectFails(c) \/ Version(c) \/ Retry(c) \/ GiveUp(c)
  \/ Call(c) \/ Send(c) \/ CallFails(c) \/ Receive(c) \/ NoMemory(c) \/ Garbled(c)
  \/ Leave(c)
-----------------------------------------------------------------------------
(* The server's end *)

Running == serv \notin {"none", "killed"}
Closing == serv # "up"

Closed(e) == IF e \in {"open", "cut"} THEN "cut" ELSE "none"

\* CreateNamedPipeW; it does not matter which of the unused ones.
Unused == {p \in Pipes : end[p] = "none" /\ wk[p] = "none"}

NewInstance == /\ Unused # {}
               /\ inst' = CHOOSE p \in Unused : TRUE
               /\ end' = [end EXCEPT ![inst'] = "listen"]

\* The server's process ends; what it had written can still be read.
Dies ==
  /\ serv' = "killed" /\ target' = None
  /\ end' = [p \in Pipes |-> Closed(end[p])]
  /\ toServer' = [p \in Pipes |-> <<>>]
  /\ acc' = "none" /\ inst' = None /\ clients' = {}
  /\ wk' = [p \in Pipes |-> "none"] /\ var' = [p \in Pipes |-> 0]
  /\ held' = [p \in Pipes |-> "none"] /\ cur' = [p \in Pipes |-> NoRequest]
  /\ UNCHANGED <<cliVars, toClient, missed, served>>

\* It uses freed memory or a null pointer.
Faults == Dies /\ fault' = TRUE /\ UNCHANGED excused

Killed == Running /\ Dies /\ UNCHANGED <<fault, excused>>

\* ipcserver_create, after which the acceptor owns the first instance; when it
\* fails there is no server.
CreateServer == /\ serv = "none"
                /\ NewInstance
                /\ serv' = "up" /\ acc' = "top"
                /\ UNCHANGED <<cliVars, toServer, toClient, target, missed,
                               clients, wkVars, fault, excused>>
-----------------------------------------------------------------------------
(* The acceptor *)

\* CloseHandle: what the client has sent is lost, what it was sent is not.
CloseInstance(p) == /\ end' = [end EXCEPT ![p] = Closed(@)]
                    /\ toServer' = [toServer EXCEPT ![p] = <<>>]
                    /\ UNCHANGED toClient

\* Mutant: the instance is left open.
MutantStops == acc' = "over" /\ inst' = None /\ UNCHANGED pipeVars

\* The cleanup of worker.
Stops == /\ acc' = "over" /\ inst' = None
         /\ IF inst = None THEN UNCHANGED pipeVars ELSE CloseInstance(inst)

\* A worker holds serv->mtx; the acceptor holds it only within a step.
Locked == \E p \in Pipes : wk[p] = "unlock"

\* It sees that the server is closing, or no instance, memory or thread is left.
AcceptorStops == /\ acc \in {"top", "accepted"} /\ ~Locked
                 /\ Closing \/ acc = "accepted" \/ inst = None
                 /\ Stops
                 /\ UNCHANGED <<cliVars, servVars, clients, wkVars, fault, excused>>

Prepare ==
  /\ acc = "top" /\ ~Locked /\ ~Closing
  /\ IF inst # None THEN UNCHANGED <<inst, end>> ELSE NewInstance
  /\ acc' = "accept"
  /\ UNCHANGED <<cliVars, toServer, toClient, servVars, clients, wkVars, fault, excused>>

Connected == /\ acc = "accept" /\ end[inst] \in {"open", "hung"}
             /\ acc' = "accepted"
             /\ UNCHANGED <<cliVars, pipeVars, servVars, inst, clients, wkVars, fault, excused>>

\* ConnectNamedPipe fails: the client has left already, or the call is cancelled.
NotConnected == acc' = "top" /\ inst' = None /\ CloseInstance(inst)

ConnectsNobody == /\ acc = "accept" /\ end[inst] = "hung"
                  /\ NotConnected
                  /\ UNCHANGED <<cliVars, servVars, clients, wkVars, fault, excused>>

StartWorker == /\ acc = "accepted" /\ ~Locked /\ ~Closing
               /\ wk' = [wk EXCEPT ![inst] = "start"]
               /\ clients' = clients \cup {inst}
               /\ acc' = "top" /\ inst' = None
               /\ UNCHANGED <<cliVars, pipeVars, servVars, var, held, cur, served,
                              fault, excused>>

\* hmset fails: the acceptor frees the client and closes the instance under
\* the worker that has been started.
CannotRegister == /\ acc = "accepted" /\ ~Locked /\ ~Closing
                  /\ wk' = [wk EXCEPT ![inst] = "doomed"]
                  /\ Stops
                  /\ excused' = TRUE
                  /\ UNCHANGED <<cliVars, servVars, clients, var, held, cur, served, fault>>

Acceptor == \/ AcceptorStops \/ Prepare \/ Connected \/ ConnectsNobody
            \/ StartWorker \/ CannotRegister
-----------------------------------------------------------------------------
(* The workers *)

Steps(p, from, to) == wk[p] = from /\ wk' = [wk EXCEPT ![p] = to]

\* A write succeeds as long as the client holds its end.
Writes(p, ms) == /\ end[p] = "open"
                 /\ toClient' = [toClient EXCEPT ![p] = @ \o ms]
                 /\ UNCHANGED <<end, toServer>>

others == <<cliVars, servVars, accVars, fault, excused>>

Start(p) == /\ Steps(p, "start", "hello")
            /\ UNCHANGED <<pipeVars, var, held, cur, served, others>>

\* Without memory for the context the cleanup will follow a null pointer.
NoContext(p) == /\ Steps(p, "start", "doomed")
                /\ excused' = TRUE
                /\ UNCHANGED <<pipeVars, var, held, cur, served, cliVars, servVars,
                               accVars, fault>>

\* Sooner or later the worker uses what it does not have.
Doomed(p) == wk[p] = "doomed" /\ Faults

Reading == {"hello", "request", "body"}
Writing == {"size", "answer", "error"}

Arrives(p, is) == toServer[p] # <<>> /\ Head(toServer[p]).is = is

Greet(p) ==
  /\ Arrives(p, "hello") /\ Head(toServer[p]).by \notin Strangers
  /\ end[p] = "open"
  /\ Steps(p, "hello", "top")
  /\ toServer' = [toServer EXCEPT ![p] = Tail(@)]
  /\ toClient' = [toClient EXCEPT ![p] = Append(@, Msg("version", None, 0))]
  /\ UNCHANGED <<end, var, held, cur, served, others>>

\* Mutant: closing is not looked at.
MutantTop(p) == /\ Steps(p, "top", "request")
                /\ UNCHANGED <<pipeVars, var, held, cur, served, others>>

Top(p) == /\ Steps(p, "top", IF Closing THEN "flush" ELSE "request")
          /\ UNCHANGED <<pipeVars, var, held, cur, served, others>>

ReadRequest(p) ==
  /\ wk[p] \in {"request", "body"} /\ Arrives(p, wk[p])
  /\ Steps(p, wk[p], IF wk[p] = "request" THEN "body" ELSE "call")
  /\ toServer' = [toServer EXCEPT ![p] = Tail(@)]
  /\ cur' = [cur EXCEPT ![p] = Head(toServer[p])]
  /\ UNCHANGED <<end, toClient, var, held, served, others>>

\* cv.var is cleared, the handler runs in the worker thread and calls finish
\* before it returns: whatever a cancellation has stored meanwhile is lost.
Handle(p) ==
  /\ Steps(p, "call", "check")
  /\ \E failed \in BOOLEAN :
       /\ held' = [held EXCEPT ![p] = IF failed THEN "error" ELSE "none"]
       /\ var' = [var EXCEPT ![p] = IF failed THEN 2 ELSE 1]
  /\ served' = [served EXCEPT ![cur[p].by] = cur[p].of]
  /\ UNCHANGED <<pipeVars, cur, others>>

Check(p) ==
  /\ Steps(p, "check", CASE var[p] = 3          -> "flush"
                         [] held[p] = "error"   -> "error"
                         [] OTHER               -> "size")
  /\ var' = [var EXCEPT ![p] = 0]
  /\ UNCHANGED <<pipeVars, held, cur, served, others>>

Answer(is, p) == Msg(is, cur[p].by, cur[p].of)

ReplySize(p) == /\ Steps(p, "size", "answer")
                /\ Writes(p, <<Answer("size", p)>>)
                /\ UNCHANGED <<var, held, cur, served, others>>

ReplyBody(p) == /\ Steps(p, "answer", "top")
                /\ Writes(p, <<Answer("answer", p)>>)
                /\ UNCHANGED <<var, held, cur, served, others>>

ErrorReply(p) ==
  \/ Writes(p, <<Answer("zero", p), Answer("error", p)>>)
  \/ Writes(p, <<Answer("zero", p), Answer("error with text", p), Answer("text", p)>>)

\* Mutant: ictx->err still points to the freed error.
MutantKeepsError(p) ==
  /\ Steps(p, "error", "top") /\ ErrorReply(p)
  /\ held' = [held EXCEPT ![p] = "freed"]
  /\ UNCHANGED <<var, cur, served, others>>

\* Mutant: the error reply is followed by an ordinary one.
MutantNoContinue(p) ==
  /\ Steps(p, "error", "size") /\ ErrorReply(p)
  /\ held' = [held EXCEPT ![p] = "none"]
  /\ UNCHANGED <<var, cur, served, others>>

\* create_error_reply frees the error, one write sends the reply.
ReplyError(p) ==
  /\ Steps(p, "error", "top") /\ ErrorReply(p)
  /\ held' = [held EXCEPT ![p] = "none"]
  /\ UNCHANGED <<var, cur, served, others>>

\* The cleanup after an error: when the reply that failed is an error reply,
\* the error has been freed but ictx->err still points to it.
Fails(p) == /\ wk' = [wk EXCEPT ![p] = "leave"]
            /\ held' = [held EXCEPT ![p] = IF wk[p] = "error" THEN "freed" ELSE @]

\* The client has left, or speaks another version.
ConnectionFails(p) ==
  /\ \/ end[p] = "hung" /\ wk[p] \in Writing \cup {"hello"}
     \/ end[p] = "hung" /\ wk[p] \in Reading /\ toServer[p] = <<>>
     \/ wk[p] = "hello" /\ Arrives(p, "hello") /\ Head(toServer[p]).by \in Strangers
  /\ Fails(p)
  /\ UNCHANGED <<pipeVars, var, cur, served, others>>

\* grow_buffer fails, for the request or for the error reply.
GrowFails(p) == /\ wk[p] \in {"body", "error"}
                /\ Fails(p)
                /\ excused' = (excused \/ wk[p] = "error")
                /\ UNCHANGED <<pipeVars, var, cur, served, cliVars, servVars, accVars, fault>>

\* FlushFileBuffers waits until the client has read everything.
Flush(p) == /\ toClient[p] = <<>> \/ end[p] = "hung"
            /\ Steps(p, "flush", "leave")
            /\ UNCHANGED <<pipeVars, var, held, cur, served, others>>

\* DisconnectNamedPipe discards what the client has not read.
Disconnect(p) == /\ Steps(p, "leave", "delete")
                 /\ end' = [end EXCEPT ![p] = Closed(@)]
                 /\ toServer' = [toServer EXCEPT ![p] = <<>>]
                 /\ toClient' = [toClient EXCEPT ![p] = <<>>]
                 /\ UNCHANGED <<var, held, cur, served, others>>

\* Mutant: the client stays in the map.
MutantStaysInMap(p) == /\ ~Locked
                       /\ Steps(p, "delete", "unlock")
                       /\ UNCHANGED <<pipeVars, var, held, cur, served, others>>

\* With serv->mtx locked the worker deletes its client from the map.
Delete(p) == /\ ~Locked
             /\ Steps(p, "delete", "unlock")
             /\ clients' = clients \ {p}
             /\ UNCHANGED <<pipeVars, cliVars, servVars, acc, inst, var, held, cur,
                            served, fault, excused>>

\* It unlocks, by when ipcserver_destroy may have freed the server,
\* internal_context_release frees ictx->err, and it frees its client.
Release(p) == IF serv = "gone" \/ held[p] = "freed" THEN wk[p] = "unlock" /\ Faults
              ELSE /\ Steps(p, "unlock", "none")
                   /\ var' = [var EXCEPT ![p] = 0]
                   /\ held' = [held EXCEPT ![p] = "none"]
                   /\ cur' = [cur EXCEPT ![p] = NoRequest]
                   /\ UNCHANGED <<pipeVars, served, others>>

Worker(p) == \/ Start(p) \/ NoContext(p) \/ Doomed(p) \/ Greet(p) \/ Top(p) \/ ReadRequest(p)
             \/ Handle(p) \/ Check(p)
             \/ ReplySize(p) \/ ReplyBody(p) \/ ReplyError(p)
             \/ ConnectionFails(p) \/ GrowFails(p)
             \/ Flush(p) \/ Disconnect(p) \/ Delete(p) \/ Release(p)
-----------------------------------------------------------------------------
(* ipcserver_destroy *)

Destroy == /\ serv = "up" /\ serv' = "closing"
           /\ UNCHANGED <<cliVars, pipeVars, target, missed, accVars, wkVars, fault, excused>>

CancelAcceptor ==
  /\ serv = "closing" /\ serv' = "join"
  /\ \/ acc = "accept" /\ NotConnected /\ UNCHANGED missed
     \/ /\ missed' = (missed \/ (acc = "accept" /\ end[inst] = "listen"))
        /\ UNCHANGED <<acc, inst, pipeVars>>
  /\ UNCHANGED <<cliVars, target, clients, wkVars, fault, excused>>

\* The acceptor has returned: no worker is started any more.
JoinAcceptor == /\ serv = "join" /\ acc = "over" /\ serv' = "scan"
                /\ excused' = (excused \/ \E p \in Pipes : wk[p] # "none")
                /\ UNCHANGED <<cliVars, pipeVars, target, missed, accVars, wkVars, fault>>

\* hmscan without the mutex.
Visit == /\ serv = "scan"
         /\ \E p \in clients : target' = p
         /\ serv' = "cancel"
         /\ UNCHANGED <<cliVars, pipeVars, missed, accVars, wkVars, fault, excused>>

\* Is p about to wait for the client?
Blocks(p) == \/ wk[p] \in Reading /\ toServer[p] = <<>> /\ end[p] = "open"
             \/ wk[p] = "flush" /\ toClient[p] # <<>>

\* The worker has freed cli, or cli->cv is not set.
Gone(p) == wk[p] = "none"
NoCv(p) == wk[p] \in {"start", "doomed"}
CancelFaults == serv = "cancel" /\ (NoCv(target) \/ Gone(target)) /\ Faults

CancelWorker ==
  /\ serv = "cancel" /\ ~NoCv(target) /\ ~Gone(target)
  /\ serv' = "join thread"
  /\ var' = [var EXCEPT ![target] = 3]
  /\ \/ /\ wk[target] \in Reading \cup Writing \cup {"flush"}
        /\ Fails(target) /\ UNCHANGED missed
     \/ /\ missed' = (missed \/ Blocks(target))
        /\ UNCHANGED <<wk, held>>
  /\ UNCHANGED <<cliVars, pipeVars, target, accVars, cur, served, fault, excused>>

\* The worker has ended: cli->th was read before it freed cli, or is read now.
Joined == /\ serv = "join thread" /\ Gone(target)
          /\ serv' = "scan" /\ target' = None
          /\ UNCHANGED <<cliVars, pipeVars, missed, accVars, wkVars, fault, excused>>

JoinFaults == serv = "join thread" /\ Gone(target) /\ Faults

\* What a worker needs of the server later is gone as well.
FreeServer == /\ serv = "scan" /\ clients = {}
              /\ serv' = "gone"
              /\ UNCHANGED <<cliVars, pipeVars, target, missed, accVars, wkVars, fault, excused>>

Destroyer == \/ CancelAcceptor \/ JoinAcceptor \/ Visit \/ CancelFaults
             \/ CancelWorker \/ Joined \/ JoinFaults \/ FreeServer
-----------------------------------------------------------------------------
ServerNext == CreateServer \/ Acceptor \/ (\E p \in Pipes : Worker(p))
                \/ Destroy \/ Destroyer \/ Killed

Next == ClientNext \/ ServerNext

Spec == Init /\ [][Next]_vars

Progress(c) == \/ Connect(c) \/ ConnectFails(c) \/ Version(c) \/ Retry(c)
               \/ GiveUp(c) \/ Send(c) \/ CallFails(c) \/ Receive(c) \/ NoMemory(c)
               \/ Garbled(c)

\* Threads run on and handlers return; nobody has to call, leave or destroy.
\* (Each step of a thread changes its place, or takes a message.)
FairSpec == /\ Spec
            /\ \A c \in Clients : WF_<<pc, toClient>>(Progress(c))
            /\ WF_acc(Acceptor) /\ WF_serv(Destroyer)
            /\ \A p \in Pipes : WF_wk(Worker(p))
-----------------------------------------------------------------------------
(* Properties *)

ClientPlaces == {"new", "version", "idle", "gone"} \cup Calling
WorkerPlaces == {"none", "start", "doomed", "top", "call", "check", "flush",
                 "leave", "delete", "unlock"} \cup Reading \cup Writing

Kinds == {"none", "hello", "version", "request", "body", "size",
          "answer", "zero", "error", "error with text", "text"}
Messages == [is : Kinds, by : Clients \cup {None}, of : Nat]

\* The types; the acceptor and no worker holds the instance it waits on, and
\* every client in the map has a worker that has not left yet.
TypeOK ==
  /\ pc \in [Clients -> ClientPlaces] /\ pipe \in [Clients -> Pipes \cup {None}]
  /\ asked \in [Clients -> Nat] /\ served \in [Clients -> Nat]
  /\ \A c \in Clients : served[c] <= asked[c] /\ asked[c] <= MaxCalls
  /\ result \in [Clients -> {"none", "reply", "wrong", "failed"}]
  /\ half \in [Clients -> BOOLEAN]
  /\ end \in [Pipes -> {"none", "listen", "open", "hung", "cut"}]
  /\ toServer \in [Pipes -> Seq(Messages)] /\ toClient \in [Pipes -> Seq(Messages)]
  /\ serv \in {"none", "up", "closing", "join", "scan", "cancel", "join thread",
               "gone", "killed"}
  /\ target \in Pipes \cup {None} /\ inst \in Pipes \cup {None}
  /\ acc \in {"none", "top", "accept", "accepted", "over"}
  /\ clients \subseteq {p \in Pipes : wk[p] \notin {"none", "unlock"}}
  /\ inst # None => wk[inst] = "none"
  /\ wk \in [Pipes -> WorkerPlaces] /\ var \in [Pipes -> 0..3]
  /\ held \in [Pipes -> {"none", "error", "freed"}] /\ cur \in [Pipes -> Messages]
  /\ {fault, excused, missed} \subseteq BOOLEAN

\* As long as no memory fails, no client leaves inside a call and no worker is
\* left when ipcserver_destroy has joined the acceptor, nothing is freed twice
\* or used after it was freed, whatever acceptor, workers and clients do.
NoFault == fault => excused

\* The connection is the Rpc that Bridge takes it for.
RPC == INSTANCE Rpc WITH waiting <- [c \in Clients |-> pc[c] \in Calling]
RpcSpec == RPC!Spec

\* Every attempt to connect ends, and so does every call, also when the server
\* is killed, faults, or is destroyed; except on a connection where a call has
\* stopped in the middle of a reply.
CallEnds == \A c \in Clients : pc[c] \notin AtRest ~> pc[c] \in AtRest \/ half[c]

\* ipcserver_destroy returns, unless one of its cancellations came before the
\* thread had blocked, or a client does not read the rest of a reply.
DestroyEnds ==
  serv = "closing" ~> serv \in {"gone", "killed"} \/ missed \/ \E c \in Clients : half[c]
=============================================================================

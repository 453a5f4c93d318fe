------------------------------- MODULE Bridge -------------------------------
(***************************************************************************)
(* The AviUtl side of the bridge: bridgeclient.c with the process object of *)
(* process.c, and of the other process the table of handles it has issued.  *)
(* AviUtl's threads call the plugin; a watcher thread per process waits for *)
(* the process to die and starts a thread that runs process_finished, here  *)
(* called the handler of that process, which offers to start a new process  *)
(* and opens every file in it again.                                        *)
(*                                                                          *)
(* A call holds g_handles_mtx from before the request until after the       *)
(* reply, so at most one request is under way: its two halves are separate  *)
(* actions (the process may die between them), its bytes are not modelled.  *)
(***************************************************************************)
EXTENDS FiniteSets

CONSTANTS Callers,    \* threads of AviUtl that call the plugin
          Procs,      \* the processes that can be started, bounding the restarts
          Handles,    \* addresses of struct handle
          Ids,        \* addresses of the server's struct handle
          Paths,      \* file paths
          None,       \* no process, no thread, no path, no id
          Starter,    \* the thread that calls func_init and func_exit
          WatchRace   \* may the watcher read the process handle too early

ASSUME ConstantsAssumption ==
  /\ Callers \cap Procs = {}
  /\ {None, Starter} \cap (Callers \cup Procs) = {}
  /\ None # Starter
  /\ None \notin Paths \cup Handles \cup Ids
  /\ WatchRace \in BOOLEAN

VARIABLES
  state,    \* g_running_state
  lock,     \* who holds g_handles_mtx
  gproc,    \* g_process
  gipcc,    \* the process g_ipcc is connected to
  newProc,  \* the process being started
  newIpcc,  \* the connection made to it
  stage,    \* how far the start or restart under way has come
  late,     \* has the deadline for connecting passed
  left,     \* handles hmscan has still to open in the new process
  life,     \* what has become of each process
  told,     \* p->exiting: has process_destroy been called
  watch,    \* what the watcher thread of each process waits for
  notice,   \* how far process_finished has come for each process
  path,     \* the file path of each struct handle in g_handles
  id,       \* and its id
  issued,   \* server side: the path each id of a process is open on
  pc,       \* how far the call of each caller has come
  call,     \* the call
  exit      \* how far func_exit has come

procVars   == <<life, told, watch>>
clientVars == <<path, id>>
bootVars   == <<newProc, newIpcc, stage, late, left>>
callVars   == <<pc, call>>
vars == <<state, lock, gproc, gipcc, bootVars, procVars, notice, clientVars,
          issued, callVars, exit>>

Held == {h \in Handles : path[h] # None}

Up(p) == p # None /\ life[p] = "up"

NoCall == [op |-> "none", h |-> None, path |-> None, id |-> None]

\* AviUtl calls nothing else while func_init runs or after it has failed.
Loaded == stage \notin {"start", "declare", "never"} /\ lock # Starter

Init ==
  /\ state = "unknown" /\ lock = None
  /\ gproc = None /\ gipcc = None
  /\ newProc = None /\ newIpcc = None /\ stage = "start"
  /\ late = FALSE /\ left = {}
  /\ life = [p \in Procs |-> "none"]
  /\ told = [p \in Procs |-> FALSE]
  /\ watch = [p \in Procs |-> "none"]
  /\ notice = [p \in Procs |-> "none"]
  /\ path = [h \in Handles |-> None]
  /\ id = [h \in Handles |-> None]
  /\ issued = [p \in Procs |-> [i \in Ids |-> None]]
  /\ pc = [c \in Callers |-> "idle"]
  /\ call = [c \in Callers |-> NoCall]
  /\ exit = "no"
-----------------------------------------------------------------------------
(* The other process: it comes up or not, and may die at any moment. *)

ComesUp(p) == /\ life[p] = "starting"
              /\ ~told[p]
              /\ life' = [life EXCEPT ![p] = "up"]
              /\ UNCHANGED <<state, lock, gproc, gipcc, bootVars, told, watch,
                             notice, clientVars, issued, callVars, exit>>

Dies(p) == /\ life[p] \in {"starting", "up"}
           /\ life' = [life EXCEPT ![p] = "dead"]
           /\ UNCHANGED <<state, lock, gproc, gipcc, bootVars, told, watch,
                          notice, clientVars, issued, callVars, exit>>

\* process_destroy has set the event: the process ends by itself, or it is
\* terminated after five seconds.
Terminated(p) == told[p] /\ Dies(p)
-----------------------------------------------------------------------------
(* The watcher thread of a process, and process_finished up to the lock. *)

\* WaitForSingleObject returns; the thread ends after starting the handler.
Noticed(p) ==
  /\ watch[p] = "process" /\ life[p] = "dead"
  /\ watch' = [watch EXCEPT ![p] = "over"]
  /\ notice' = [notice EXCEPT ![p] = IF told[p] THEN "over" ELSE "pending"]
  /\ UNCHANGED <<state, lock, gproc, gipcc, bootVars, life, told, clientVars,
                 issued, callVars, exit>>

\* There is no memory or no thread for the handler: the watcher ends and the
\* crash is never reported.
NoticeFails(p) ==
  /\ watch[p] = "process" /\ life[p] = "dead" /\ ~told[p]
  /\ watch' = [watch EXCEPT ![p] = "over"]
  /\ notice' = [notice EXCEPT ![p] = "lost"]
  /\ UNCHANGED <<state, lock, gproc, gipcc, bootVars, life, told, clientVars,
                 issued, callVars, exit>>

\* Mutants: no default case; a crash at run time ignored; a boot not abandoned.
MutantNoDefault(s) == IF s = "running" THEN "sawRunning" ELSE s

MutantIgnoresCrash(s) == IF s = "booting" THEN "sawBooting" ELSE "over"

MutantBootGoesOn(s) == IF s = "running" THEN "sawRunning" ELSE "over"

AfterReading(s) == CASE s = "booting" -> "sawBooting"
                     [] s = "running" -> "sawRunning"
                     [] OTHER         -> "over"

ReadsState(p) ==
  /\ notice[p] = "pending"
  /\ notice' = [notice EXCEPT ![p] = AfterReading(state)]
  /\ UNCHANGED <<state, lock, gproc, gipcc, bootVars, procVars, clientVars,
                 issued, callVars, exit>>

\* In both cases the state becomes exiting; a handler that saw booting has
\* nothing else to do.
StoresExiting(p) ==
  /\ notice[p] \in {"sawBooting", "sawRunning"}
  /\ state' = "exiting"
  /\ notice' = [notice EXCEPT ![p] = IF @ = "sawRunning" THEN "locking" ELSE "over"]
  /\ UNCHANGED <<lock, gproc, gipcc, bootVars, procVars, clientVars, issued,
                 callVars, exit>>

\* The connection is closed and process_destroy of the dead process begins.
HandlerLocks(p) ==
  /\ notice[p] = "locking" /\ lock = None
  /\ lock' = p
  /\ notice' = [notice EXCEPT ![p] = "handling"]
  /\ gipcc' = None
  /\ told' = IF gproc = None THEN told ELSE [told EXCEPT ![gproc] = TRUE]
  /\ stage' = "destroy"
  /\ UNCHANGED <<state, gproc, newProc, newIpcc, late, left, life, watch,
                 clientVars, issued, callVars, exit>>

\* thrd_join returns when the watcher has.
Joinable(p) == p # None => watch[p] = "over"

HandlerJoins == /\ stage = "destroy"
                /\ Joinable(gproc)
                /\ gproc' = None
                /\ stage' = "ask"
                /\ UNCHANGED <<state, lock, gipcc, newProc, newIpcc, late, left,
                               procVars, notice, clientVars, issued, callVars, exit>>

\* The message box: OK restarts, Cancel leaves the state at exiting.
UserSaysOK == /\ stage = "ask"
              /\ state' = "booting"
              /\ stage' = "create"
              /\ UNCHANGED <<lock, gproc, gipcc, newProc, newIpcc, late, left,
                             procVars, notice, clientVars, issued, callVars, exit>>

UserCancels == /\ stage = "ask"
               /\ stage' = "publish"
               /\ UNCHANGED <<state, lock, gproc, gipcc, newProc, newIpcc, late,
                              left, procVars, notice, clientVars, issued, callVars, exit>>
-----------------------------------------------------------------------------
(* start_process, run by func_init (the Starter) or by a handler. *)

\* ffmpeg_input_init: the lock is taken and the state becomes booting.
Start == /\ stage = "start"
         /\ lock' = Starter
         /\ state' = "booting"
         /\ stage' = "create"
         /\ UNCHANGED <<gproc, gipcc, newProc, newIpcc, late, left, procVars,
                        notice, clientVars, issued, callVars, exit>>

\* The watcher is started before p->process is assigned: when it is quick it
\* waits for INVALID_HANDLE_VALUE, which stands for AviUtl's own process.
CreatesProcess(p) ==
  /\ stage = "create" /\ life[p] = "none"
  /\ life' = [life EXCEPT ![p] = "starting"]
  /\ \E w \in {"process"} \cup (IF WatchRace THEN {"self"} ELSE {}) :
       watch' = [watch EXCEPT ![p] = w]
  /\ newProc' = p
  /\ late' = FALSE
  /\ stage' = "connect"
  /\ UNCHANGED <<state, lock, gproc, gipcc, newIpcc, left, told, notice,
                 clientVars, issued, callVars, exit>>

CreateFails == /\ stage = "create"
               /\ stage' = "failed"
               /\ UNCHANGED <<state, lock, gproc, gipcc, newProc, newIpcc, late,
                              left, procVars, notice, clientVars, issued, callVars, exit>>

\* The process runs and the thread to watch it cannot be created: its handle
\* is closed and it is left to itself.
WatcherFails(p) ==
  /\ stage = "create" /\ life[p] = "none"
  /\ life' = [life EXCEPT ![p] = "starting"]
  /\ stage' = "failed"
  /\ UNCHANGED <<state, lock, gproc, gipcc, newProc, newIpcc, late, left, told,
                 watch, notice, clientVars, issued, callVars, exit>>

DeadlinePasses == /\ stage = "connect" /\ ~late
                  /\ late' = TRUE
                  /\ UNCHANGED <<state, lock, gproc, gipcc, newProc, newIpcc,
                                 stage, left, procVars, notice, clientVars,
                                 issued, callVars, exit>>

\* The pipe is there.  A handler now opens the files again.
Connects == /\ stage = "connect" /\ Up(newProc)
            /\ newIpcc' = newProc
            /\ stage' = IF lock = Starter THEN "unlock" ELSE "restore"
            /\ left' = IF lock = Starter THEN {} ELSE Held
            /\ UNCHANGED <<state, lock, gproc, gipcc, newProc, late, procVars,
                           notice, clientVars, issued, callVars, exit>>

\* No pipe: ipcclient_create tries again until the deadline or until
\* ipcc_is_aborted, and then start_process calls process_destroy.
GivesUp == /\ stage = "connect" /\ ~Up(newProc)
           /\ late \/ state # "booting"
           /\ told' = [told EXCEPT ![newProc] = TRUE]
           /\ stage' = "drop"
           /\ UNCHANGED <<state, lock, gproc, gipcc, newProc, newIpcc, late, left,
                          life, watch, notice, clientVars, issued, callVars, exit>>

\* Mutant: the file is opened again, the new id is not kept.
MutantRestores(h, i) ==
  /\ stage = "restore" /\ h \in left
  /\ Up(newIpcc) /\ issued[newIpcc][i] = None
  /\ issued' = [issued EXCEPT ![newIpcc][i] = path[h]]
  /\ left' = left \ {h}
  /\ UNCHANGED <<state, lock, gproc, gipcc, newProc, newIpcc, stage, late,
                 procVars, notice, clientVars, callVars, exit>>

\* restore_handle: a new id, maybe equal to an old one, for a handle AviUtl holds.
Restores(h, i) ==
  /\ stage = "restore" /\ h \in left
  /\ Up(newIpcc) /\ issued[newIpcc][i] = None
  /\ issued' = [issued EXCEPT ![newIpcc][i] = path[h]]
  /\ id' = [id EXCEPT ![h] = i]
  /\ left' = left \ {h}
  /\ UNCHANGED <<state, lock, gproc, gipcc, newProc, newIpcc, stage, late,
                 procVars, notice, path, callVars, exit>>

\* Mutant: process_destroy is forgotten.
MutantRestoreFails == /\ stage = "restore" /\ left # {}
                      /\ newIpcc' = None /\ newProc' = None
                      /\ stage' = "failed"
                      /\ UNCHANGED <<state, lock, gproc, gipcc, late, left, procVars,
                                     notice, clientVars, issued, callVars, exit>>

\* The file cannot be opened, or the process is gone.
RestoreFails == /\ stage = "restore" /\ left # {}
                /\ newIpcc' = None
                /\ told' = [told EXCEPT ![newProc] = TRUE]
                /\ stage' = "drop"
                /\ UNCHANGED <<state, lock, gproc, gipcc, newProc, late, left,
                               life, watch, notice, clientVars, issued, callVars, exit>>

RestoreEnds == /\ stage = "restore" /\ left = {}
               /\ state' = "running"
               /\ stage' = "publish"
               /\ UNCHANGED <<lock, gproc, gipcc, newProc, newIpcc, late, left,
                              procVars, notice, clientVars, issued, callVars, exit>>

DropJoins == /\ stage = "drop"
             /\ Joinable(newProc)
             /\ newProc' = None
             /\ stage' = "failed"
             /\ UNCHANGED <<state, lock, gproc, gipcc, newIpcc, late, left,
                            procVars, notice, clientVars, issued, callVars, exit>>

HandlerOver == notice' = [p \in Procs |-> IF p = lock THEN "over" ELSE notice[p]]

\* The new process is the current one.  After a Cancel there is none.
Publishes == /\ stage = "publish"
             /\ gproc' = newProc /\ gipcc' = newIpcc
             /\ newProc' = None /\ newIpcc' = None
             /\ lock' = None
             /\ stage' = "none"
             /\ HandlerOver
             /\ UNCHANGED <<state, late, left, procVars, clientVars, issued,
                            callVars, exit>>

\* The end of ffmpeg_input_init: unlock, and only then the state.
StarterUnlocks == /\ stage = "unlock"
                  /\ gproc' = newProc /\ gipcc' = newIpcc
                  /\ newProc' = None /\ newIpcc' = None
                  /\ lock' = None
                  /\ stage' = "declare"
                  /\ UNCHANGED <<state, late, left, procVars, notice, clientVars,
                                 issued, callVars, exit>>

Declares == /\ stage = "declare"
            /\ state' = "running"
            /\ stage' = "none"
            /\ UNCHANGED <<lock, gproc, gipcc, newProc, newIpcc, late, left,
                           procVars, notice, clientVars, issued, callVars, exit>>

\* Mutant: returns without unlocking.
MutantFails == /\ stage = "failed"
               /\ state' = "unknown"
               /\ stage' = IF lock = Starter THEN "never" ELSE "none"
               /\ left' = {}
               /\ HandlerOver
               /\ UNCHANGED <<lock, gproc, gipcc, newProc, newIpcc, late, procVars,
                              clientVars, issued, callVars, exit>>

\* func_init reports failure and is not called again; a handler just ends.
Fails == /\ stage = "failed"
         /\ state' = "unknown"
         /\ stage' = IF lock = Starter THEN "never" ELSE "none"
         /\ lock' = None
         /\ left' = {}
         /\ HandlerOver
         /\ UNCHANGED <<gproc, gipcc, newProc, newIpcc, late, procVars,
                        clientVars, issued, callVars, exit>>
-----------------------------------------------------------------------------
(* The calls.  A handle in use is not closed, one being closed not used. *)

MayName(op, h) == h \in Held /\ \A c \in Callers :
                    call[c].h = h => op = "read" /\ call[c].op = "read"

\* The state is read before the lock is taken.
Begins(c, r) == /\ pc[c] = "idle" /\ exit = "no" /\ Loaded
                /\ state = "running"
                /\ pc' = [pc EXCEPT ![c] = "checked"]
                /\ call' = [call EXCEPT ![c] = r]
                /\ UNCHANGED <<state, lock, gproc, gipcc, bootVars, procVars,
                               notice, clientVars, issued, exit>>

Open(c) == \E f \in Paths : Begins(c, [NoCall EXCEPT !.op = "open", !.path = f])

\* func_info_get, func_read_video and func_read_audio.
Read(c) == \E h \in Handles : MayName("read", h)
                           /\ Begins(c, [NoCall EXCEPT !.op = "read", !.h = h])

Close(c) == \E h \in Handles : MayName("close", h)
                            /\ Begins(c, [NoCall EXCEPT !.op = "close", !.h = h])

Config(c) == Begins(c, [NoCall EXCEPT !.op = "config"])

Takes(c) == /\ pc[c] = "checked" /\ lock = None
            /\ lock' = c
            /\ pc' = [pc EXCEPT ![c] = "locked"]
            /\ UNCHANGED <<state, gproc, gipcc, bootVars, procVars, notice,
                           clientVars, issued, call, exit>>

Returns(c) == /\ lock' = None
              /\ pc' = [pc EXCEPT ![c] = "idle"]
              /\ call' = [call EXCEPT ![c] = NoCall]
              /\ UNCHANGED <<state, gproc, gipcc, bootVars, procVars, notice, exit>>

\* Mutant: an error reply is taken for a broken connection.
MutantCallFails(c) == /\ pc[c] = "locked"
                      /\ lock' = None
                      /\ gipcc' = None
                      /\ pc' = [pc EXCEPT ![c] = "idle"]
                      /\ call' = [call EXCEPT ![c] = NoCall]
                      /\ UNCHANGED <<state, gproc, bootVars, procVars, notice,
                                     clientVars, issued, exit>>

\* No connection, a broken one, or an error reply: nothing has changed.
CallFails(c) == /\ pc[c] = "locked"
                /\ Returns(c)
                /\ UNCHANGED <<clientVars, issued>>

\* The server handles the request.
Serves(c) ==
  /\ pc[c] = "locked" /\ Up(gipcc)
  /\ \/ /\ call[c].op = "open"
        /\ \E i \in Ids : /\ issued[gipcc][i] = None
                          /\ issued' = [issued EXCEPT ![gipcc][i] = call[c].path]
                          /\ call' = [call EXCEPT ![c].id = i]
     \/ /\ call[c].op = "close"
        /\ issued' = [issued EXCEPT ![gipcc][id[call[c].h]] = None]
        /\ UNCHANGED call
     \/ /\ call[c].op \in {"read", "config"}
        /\ UNCHANGED <<issued, call>>
  /\ pc' = [pc EXCEPT ![c] = "served"]
  /\ UNCHANGED <<state, lock, gproc, gipcc, bootVars, procVars, notice,
                 clientVars, exit>>

\* The reply arrives and the table of handles follows.
GetsReply(c) ==
  /\ pc[c] = "served"
  /\ \/ /\ call[c].op = "open"
        /\ \E h \in Handles \ Held :
             /\ path' = [path EXCEPT ![h] = call[c].path]
             /\ id' = [id EXCEPT ![h] = call[c].id]
     \/ /\ call[c].op = "close"
        /\ path' = [path EXCEPT ![call[c].h] = None]
        /\ id' = [id EXCEPT ![call[c].h] = None]
     \/ /\ call[c].op \in {"read", "config"}
        /\ UNCHANGED clientVars
  /\ Returns(c)
  /\ UNCHANGED issued

\* The process died with the reply: the table stays as it was.
LosesReply(c) == /\ pc[c] = "served" /\ ~Up(gipcc)
                 /\ Returns(c)
                 /\ UNCHANGED <<clientVars, issued>>

\* There is no memory for the handle: the id is closed again.
OpenUndone(c) ==
  /\ pc[c] = "served" /\ call[c].op = "open"
  /\ issued' = IF Up(gipcc) THEN [issued EXCEPT ![gipcc][call[c].id] = None] ELSE issued
  /\ Returns(c)
  /\ UNCHANGED clientVars
-----------------------------------------------------------------------------
(* func_exit.  It takes no lock: AviUtl calls it when no call is under way, *)
(* and the model assumes also that no crash is being handled at that moment. *)

\* Mutant: the event that ends the process is not set.
MutantExitBegins == /\ exit = "no" /\ Loaded /\ stage = "none"
                    /\ \A c \in Callers : pc[c] = "idle"
                    /\ \A p \in Procs : notice[p] \notin {"sawRunning", "locking"}
                    /\ exit' = "destroy"
                    /\ state' = "exiting"
                    /\ gipcc' = None
                    /\ UNCHANGED <<lock, gproc, bootVars, procVars, notice,
                                   clientVars, issued, callVars>>

ExitBegins == /\ exit = "no" /\ Loaded /\ stage = "none"
              /\ \A c \in Callers : pc[c] = "idle"
              /\ \A p \in Procs : notice[p] \notin {"sawRunning", "locking"}
              /\ exit' = "destroy"
              /\ state' = "exiting"
              /\ gipcc' = None
              /\ told' = IF gproc = None THEN told ELSE [told EXCEPT ![gproc] = TRUE]
              /\ UNCHANGED <<lock, gproc, bootVars, life, watch, notice,
                             clientVars, issued, callVars>>

ExitJoins == /\ exit = "destroy"
             /\ Joinable(gproc)
             /\ exit' = "over"
             /\ gproc' = None
             /\ path' = [h \in Handles |-> None]
             /\ id' = [h \in Handles |-> None]
             /\ UNCHANGED <<state, lock, gipcc, bootVars, procVars, notice,
                            issued, callVars>>
-----------------------------------------------------------------------------
Process(p) == ComesUp(p) \/ Dies(p)

Handler(p) == \/ Noticed(p) \/ NoticeFails(p) \/ ReadsState(p)
              \/ StoresExiting(p) \/ HandlerLocks(p)

Boots == \/ Start \/ \E p \in Procs : CreatesProcess(p) \/ WatcherFails(p)
         \/ CreateFails \/ Connects \/ GivesUp
         \/ \E h \in Handles, i \in Ids : Restores(h, i)
         \/ RestoreFails \/ RestoreEnds \/ DropJoins
         \/ Publishes \/ StarterUnlocks \/ Declares \/ Fails

Answers == UserSaysOK \/ UserCancels

Asks(c) == Open(c) \/ Read(c) \/ Close(c) \/ Config(c)

Goes(c) == CallFails(c) \/ Serves(c) \/ GetsReply(c) \/ LosesReply(c) \/ OpenUndone(c)

Next == \/ \E p \in Procs : Process(p) \/ Handler(p)
        \/ HandlerJoins \/ Answers \/ Boots \/ DeadlinePasses
        \/ \E c \in Callers : Asks(c) \/ Takes(c) \/ Goes(c)
        \/ ExitBegins \/ ExitJoins

Spec == Init /\ [][Next]_vars

(* Every thread runs on, a process told to end ends, the message box is      *)
(* answered, and a call is answered, if only by the death of the process.    *)
(* Nothing forces a process to die, AviUtl to call, or the mutex to be fair. *)
Fairness == /\ \A p \in Procs : WF_vars(Terminated(p)) /\ WF_vars(Handler(p))
            /\ WF_vars(HandlerJoins) /\ WF_vars(Answers) /\ WF_vars(Boots)
            /\ \A c \in Callers : WF_vars(Goes(c))
            /\ WF_vars(ExitJoins)

FairSpec == Spec /\ Fairness

\* The clock that ends an attempt to connect; where a property does not assume
\* it, the crash itself must end the attempt.
ClockRuns == WF_vars(DeadlinePasses)
-----------------------------------------------------------------------------
TypeOK ==
  /\ state \in {"unknown", "booting", "running", "exiting"}
  /\ lock \in Callers \cup Procs \cup {Starter, None}
  /\ {gproc, gipcc, newProc, newIpcc} \subseteq Procs \cup {None}
  /\ stage \in {"start", "create", "connect", "unlock", "declare", "restore",
                "publish", "drop", "failed", "destroy", "ask", "none", "never"}
  /\ late \in BOOLEAN /\ left \subseteq Handles
  /\ life \in [Procs -> {"none", "starting", "up", "dead"}]
  /\ told \in [Procs -> BOOLEAN]
  /\ watch \in [Procs -> {"none", "process", "self", "over"}]
  /\ notice \in [Procs -> {"none", "pending", "sawBooting", "sawRunning",
                           "locking", "handling", "over", "lost"}]
  /\ path \in [Handles -> Paths \cup {None}]
  /\ id \in [Handles -> Ids \cup {None}]
  /\ issued \in [Procs -> [Ids -> Paths \cup {None}]]
  /\ pc \in [Callers -> {"idle", "checked", "locked", "served"}]
  /\ call \in [Callers -> [op : {"none", "open", "read", "close", "config"},
                           h : Handles \cup {None}, path : Paths \cup {None},
                           id : Ids \cup {None}]]
  /\ exit \in {"no", "destroy", "over"}

\* Both tables agree: whenever a request can be sent, each handle of
\* g_handles has an id of its own, the connected process has that id open on
\* the handle's path, and has nothing else open.  After a restart ids repeat,
\* so an old id would silently name another file.
Requesting == lock = None \/ \E c \in Callers : lock = c /\ pc[c] = "locked"

TablesAgree ==
  Requesting /\ Up(gipcc) =>
    /\ \A h \in Held : id[h] # None /\ issued[gipcc][id[h]] = path[h]
    /\ \A h, k \in Held : id[h] = id[k] => h = k
    /\ \A i \in Ids : issued[gipcc][i] # None => \E h \in Held : id[h] = i

\* A working connection is never given up, whatever notices of earlier
\* processes are still under way: only for a dead process, or because AviUtl
\* leaves.
KillsOnlyTheDead ==
  [][gipcc # None /\ gipcc' # gipcc => life[gipcc] = "dead" \/ exit' # "no"]_<<gipcc, exit>>

\* No watched process is left behind: one that is neither the current one nor
\* the one being started has ended.
NoOrphan == \A p \in Procs :
  life[p] \in {"starting", "up"} /\ watch[p] # "none" => p \in {gproc, newProc}

\* Whoever holds the lock gives it back.
LockReturns == ClockRuns => (lock # None ~> lock = None)

\* A crash that is still to be reported when the plugin counts as running
\* leads to the end of that process object, the user being asked or AviUtl
\* leaving, unless the handler could not even be started.
Unreported(p) == /\ state = "running" /\ gproc = p /\ life[p] = "dead"
                 /\ watch[p] = "process" \/ notice[p] = "pending"

CrashHandled == ClockRuns => \A p \in Procs : Unreported(p) ~> gproc # p \/ notice[p] = "lost"

\* An attempt to connect to a process that has died ends, whether or not
\* the clock runs, unless the handler could not be started; then only the
\* clock ends it.
CrashEndsConnecting ==
  \A p \in Procs : stage = "connect" /\ newProc = p /\ life[p] = "dead"
                     ~> ~(stage = "connect" /\ newProc = p) \/ notice[p] = "lost"

\* process.c:192: termination is forced so that process_destroy cannot freeze.
ExitEnds == exit = "destroy" ~> exit = "over"
=============================================================================

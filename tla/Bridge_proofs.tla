----------------------------- MODULE Bridge_proofs -----------------------------
(***************************************************************************)
(* Proofs about the bridge's client, for any number of callers, handles and *)
(* processes: type correctness, that the tables of handles of the two       *)
(* processes agree, that no process is left behind, and that a working      *)
(* connection is never given up.                                            *)
(***************************************************************************)
EXTENDS Bridge, TLAPS

\* The stages of a start or restart: its thread holds g_handles_mtx.
Stages == {"create", "connect", "unlock", "restore", "publish", "drop",
           "failed", "destroy", "ask"}

\* Who holds the lock is where the holder is said to be.
LockOwner ==
  /\ \A c \in Callers : pc[c] \in {"locked", "served"} <=> lock = c
  /\ \A p \in Procs : notice[p] = "handling" <=> lock = p
  /\ stage \in Stages <=> lock \in Procs \cup {Starter}
  /\ stage \in {"destroy", "ask", "restore", "publish"} => lock \in Procs
  /\ stage = "unlock" => lock = Starter

\* Until func_init has returned, nobody calls and no crash is handled.
Quiet == /\ \A c \in Callers : pc[c] = "idle"
         /\ \A p \in Procs : notice[p] \notin {"sawRunning", "locking", "handling"}
Initial == stage \in {"start", "unlock", "declare", "never"} \/ lock = Starter
FirstStart == Initial => Quiet /\ Held = {} /\ exit = "no" /\ state # "running"

\* func_exit meets neither a call nor a handler.
Exiting == exit # "no" =>
  Quiet /\ lock = None /\ gipcc = None /\ stage = "none" /\ state = "exiting"

\* The process and the connection in use, and those of the start under way.
Current ==
  /\ gproc # None => stage \in {"none", "declare", "destroy"}
  /\ stage = "declare" => gproc # None
  /\ stage = "destroy" => gproc = lock
  /\ gipcc \in {None, gproc}
  /\ gipcc # None => stage \in {"none", "declare"} /\ life[gipcc] \in {"up", "dead"}
  /\ newProc # None => stage \in {"connect", "restore", "unlock", "publish", "drop"}
  /\ stage \in {"connect", "restore", "unlock", "drop"} => newProc # None
  /\ newIpcc = IF stage \in {"unlock", "restore", "publish"} THEN newProc ELSE None
  /\ newIpcc # None => life[newIpcc] \in {"up", "dead"}

\* A watcher that still waits belongs to one of these two processes, and one
\* that has ended has seen its process die; only then is there a notice.
Watched ==
  /\ \A p \in Procs : watch[p] \in {"process", "self"} => p \in {gproc, newProc}
  /\ \A p \in Procs : watch[p] = "over" => life[p] = "dead"
  /\ \A p \in Procs : notice[p] # "none" => watch[p] = "over"

\* The plugin runs with a process, or is about to publish one.
Running == /\ state = "running" => \/ stage = "publish" /\ newProc # None
                                   \/ stage = "none" /\ gproc # None
           /\ stage \in {"destroy", "ask"} => state # "running"

\* A notice is about the process in use, unless it came too late to matter.
OfCurrent(p) == p = gproc \/ (stage = "publish" /\ p = newProc)
Notices ==
  /\ \A p \in Procs : notice[p] \in {"sawRunning", "locking"} => OfCurrent(p)
  /\ \A p \in Procs : notice[p] = "locking" => state # "running"
  /\ \A p \in Procs : notice[p] = "pending" =>
       \/ p \in {gproc, newProc} \/ stage = "failed"
       \/ stage \in {"none", "never"} /\ gproc = None

\* The handles of hs, and besides them at most the ids of more, are what the
\* process q has open.
Agrees(q, hs, more) ==
  /\ \A h \in hs : id[h] \in Ids /\ issued[q][id[h]] = path[h]
  /\ \A h, k \in hs : id[h] = id[k] => h = k
  /\ \A i \in Ids : issued[q][i] # None => i \in more \/ \E h \in hs : id[h] = i

Nothing(q) == \A i \in Ids : issued[q][i] = None

\* What a caller waits for, when its request has been served.
AfterServing(c) ==
  CASE call[c].op = "open" ->
         /\ call[c].id \in Ids /\ issued[gipcc][call[c].id] = call[c].path
         /\ \A h \in Held : id[h] # call[c].id
         /\ Agrees(gipcc, Held, {call[c].id})
    [] call[c].op = "close" -> Agrees(gipcc, Held \ {call[c].h}, {})
    [] OTHER -> Agrees(gipcc, Held, {})

\* Both tables agree at each point of a call ...
CallTables ==
  /\ Requesting /\ Up(gipcc) => Agrees(gipcc, Held, {})
  /\ \A c \in Callers : pc[c] = "served" /\ Up(gipcc) => AfterServing(c)

\* ... and of a restart.
RestartTables ==
  /\ stage = "restore" => left \subseteq Held /\ Agrees(newIpcc, Held \ left, {})
  /\ stage \in {"unlock", "publish"} /\ newIpcc # None => Agrees(newIpcc, Held, {})
  /\ stage = "connect" => Nothing(newProc)

Unused == /\ \A p \in Procs : life[p] = "none" => Nothing(p)
          /\ \A h \in Handles : path[h] = None => id[h] = None

Tables == CallTables /\ RestartTables /\ Unused

\* A call names a handle or a path.
Calls == \A c \in Callers : pc[c] # "idle" =>
  /\ call[c].op \in {"open", "read", "close", "config"}
  /\ call[c].op = "open" => call[c].path \in Paths
  /\ call[c].op = "close" => call[c].h \in Handles

IInv == /\ TypeOK /\ LockOwner /\ FirstStart /\ Exiting /\ Current /\ Watched /\ Running
        /\ Notices /\ Tables /\ Calls
-----------------------------------------------------------------------------
\* func_init starts in a state of the invariant.
LEMMA InductiveInit == Init => IInv
<1>. SUFFICES ASSUME Init PROVE IInv
  OBVIOUS
<1>1. TypeOK
  BY DEF Init, TypeOK, NoCall
<1>2. LockOwner /\ FirstStart /\ Exiting /\ Current /\ Watched /\ Running /\ Notices
  BY ConstantsAssumption
     DEF Init, LockOwner, Stages, FirstStart, Initial, Quiet, Held, Exiting, Current,
         Watched, Running, Notices
<1>3. Tables /\ Calls
  BY ConstantsAssumption DEF Init, Tables, CallTables, RestartTables, Unused, Requesting, Up, Nothing, Calls
<1>. QED  BY <1>1, <1>2, <1>3 DEF IInv

\* What a call record may hold.
CallType == [op : {"none", "open", "read", "close", "config"}, h : Handles \cup {None},
             path : Paths \cup {None}, id : Ids \cup {None}]

\* Writing one caller's record keeps the records typed.
LEMMA CallTyping ==
  ASSUME TypeOK, NEW c \in Callers, NEW r \in CallType, call' = [call EXCEPT ![c] = r]
  PROVE  call' \in [Callers -> CallType]
BY DEF TypeOK, CallType

\* Every step keeps the variables typed.
LEMMA TypeStep == TypeOK /\ [Next]_vars => TypeOK'
<1>. SUFFICES ASSUME TypeOK, [Next]_vars PROVE TypeOK'
  OBVIOUS
<1>. USE ConstantsAssumption DEF TypeOK, procVars, clientVars, bootVars, callVars
<1>1. ASSUME NEW p \in Procs, ComesUp(p) PROVE TypeOK'
  BY <1>1 DEF ComesUp
<1>2. ASSUME NEW p \in Procs, Dies(p) PROVE TypeOK'
  BY <1>2 DEF Dies
<1>3. ASSUME NEW p \in Procs, Noticed(p) PROVE TypeOK'
  BY <1>3 DEF Noticed
<1>4. ASSUME NEW p \in Procs, ReadsState(p) PROVE TypeOK'
  BY <1>4 DEF ReadsState, AfterReading
<1>5. ASSUME NEW p \in Procs, StoresExiting(p) PROVE TypeOK'
  BY <1>5 DEF StoresExiting
<1>6. ASSUME NEW p \in Procs, HandlerLocks(p) PROVE TypeOK'
  BY <1>6 DEF HandlerLocks
<1>7. CASE HandlerJoins
  BY <1>7 DEF HandlerJoins, Joinable
<1>8. CASE UserSaysOK
  BY <1>8 DEF UserSaysOK
<1>9. CASE UserCancels
  BY <1>9 DEF UserCancels
<1>10. CASE Start
  BY <1>10 DEF Start
<1>11. ASSUME NEW p \in Procs, CreatesProcess(p) PROVE TypeOK'
  <2>1. PICK w \in {"process", "self"} : watch' = [watch EXCEPT ![p] = w]
    BY <1>11 DEF CreatesProcess
  <2>. QED  BY <1>11, <2>1 DEF CreatesProcess
<1>12. ASSUME NEW p \in Procs, WatcherFails(p) PROVE TypeOK'
  BY <1>12 DEF WatcherFails
<1>13. CASE CreateFails
  BY <1>13 DEF CreateFails
<1>14. CASE DeadlinePasses
  BY <1>14 DEF DeadlinePasses
<1>15. CASE Connects
  BY <1>15 DEF Connects, Held
<1>16. CASE GivesUp
  BY <1>16 DEF GivesUp
<1>17. ASSUME NEW h \in Handles, NEW i \in Ids, Restores(h, i) PROVE TypeOK'
  BY <1>17 DEF Restores
<1>18. CASE RestoreFails
  BY <1>18 DEF RestoreFails
<1>19. CASE RestoreEnds
  BY <1>19 DEF RestoreEnds
<1>20. CASE DropJoins
  BY <1>20 DEF DropJoins, Joinable
<1>21. CASE Publishes
  BY <1>21 DEF Publishes, HandlerOver
<1>22. CASE StarterUnlocks
  BY <1>22 DEF StarterUnlocks
<1>23. CASE Declares
  BY <1>23 DEF Declares
<1>24. CASE Fails
  BY <1>24 DEF Fails, HandlerOver
<1>25. ASSUME NEW c \in Callers, Open(c) PROVE TypeOK'
  <2>1. PICK f \in Paths : Begins(c, [NoCall EXCEPT !.op = "open", !.path = f])
    BY <1>25 DEF Open
  <2>2. [NoCall EXCEPT !.op = "open", !.path = f] \in CallType
    BY DEF NoCall, CallType
  <2>. QED  BY <2>1, <2>2, CallTyping DEF Begins, CallType
<1>26. ASSUME NEW c \in Callers, Read(c) PROVE TypeOK'
  <2>1. PICK h \in Handles : Begins(c, [NoCall EXCEPT !.op = "read", !.h = h])
    BY <1>26 DEF Read
  <2>2. [NoCall EXCEPT !.op = "read", !.h = h] \in CallType
    BY DEF NoCall, CallType
  <2>. QED  BY <2>1, <2>2, CallTyping DEF Begins, CallType
<1>27. ASSUME NEW c \in Callers, Close(c) PROVE TypeOK'
  <2>1. PICK h \in Handles : Begins(c, [NoCall EXCEPT !.op = "close", !.h = h])
    BY <1>27 DEF Close
  <2>2. [NoCall EXCEPT !.op = "close", !.h = h] \in CallType
    BY DEF NoCall, CallType
  <2>. QED  BY <2>1, <2>2, CallTyping DEF Begins, CallType
<1>28. ASSUME NEW c \in Callers, Config(c) PROVE TypeOK'
  BY <1>28 DEF Config, Begins, Loaded, NoCall
<1>29. ASSUME NEW c \in Callers, Takes(c) PROVE TypeOK'
  BY <1>29 DEF Takes
<1>30. ASSUME NEW c \in Callers, CallFails(c) PROVE TypeOK'
  BY <1>30 DEF CallFails, Returns, NoCall
<1>31. ASSUME NEW c \in Callers, Serves(c) PROVE TypeOK'
  <2>1. pc' = [pc EXCEPT ![c] = "served"] /\ gipcc \in Procs
    BY <1>31 DEF Serves, Up
  <2>2. CASE \E i \in Ids : /\ issued' = [issued EXCEPT ![gipcc][i] = call[c].path]
                          /\ call' = [call EXCEPT ![c].id = i]
    <3>1. PICK i \in Ids : /\ issued' = [issued EXCEPT ![gipcc][i] = call[c].path]
                          /\ call' = [call EXCEPT ![c].id = i]
      BY <2>2
    <3>2. issued' \in [Procs -> [Ids -> Paths \cup {None}]]
      BY <2>1, <3>1
    <3>3. call' \in [Callers -> CallType]
      <4>0. call[c] \in CallType
        BY DEF CallType
      <4>1. [call[c] EXCEPT !.id = i] \in CallType
        BY <4>0 DEF CallType
      <4>. QED  BY <3>1, <4>1, CallTyping
    <3>. QED  BY <1>31, <2>1, <3>2, <3>3 DEF Serves, CallType
  <2>3. CASE issued' = [issued EXCEPT ![gipcc][id[call[c].h]] = None] /\ UNCHANGED call
    BY <1>31, <2>1, <2>3 DEF Serves
  <2>4. CASE UNCHANGED <<issued, call>>
    BY <1>31, <2>1, <2>4 DEF Serves
  <2>. QED  BY <1>31, <2>2, <2>3, <2>4 DEF Serves
<1>32. ASSUME NEW c \in Callers, GetsReply(c) PROVE TypeOK'
  <2>1. /\ path' \in [Handles -> Paths \cup {None}]
        /\ id' \in [Handles -> Ids \cup {None}]
    <3>0. call[c].path \in Paths \cup {None} /\ call[c].id \in Ids \cup {None}
      BY DEF CallType
    <3>1. CASE call[c].op = "open"
      <4>1. PICK h \in Handles \ Held : /\ path' = [path EXCEPT ![h] = call[c].path]
                                       /\ id' = [id EXCEPT ![h] = call[c].id]
        BY <1>32, <3>1 DEF GetsReply
      <4>. QED  BY <3>0, <4>1
    <3>2. CASE call[c].op = "close"
      BY <1>32, <3>2 DEF GetsReply
    <3>3. CASE call[c].op \in {"read", "config"}
      BY <1>32, <3>3 DEF GetsReply
    <3>. QED  BY <1>32, <3>1, <3>2, <3>3 DEF GetsReply
  <2>2. NoCall \in CallType
    BY DEF NoCall, CallType
  <2>3. call' \in [Callers -> CallType]
    BY <1>32, <2>2, CallTyping DEF GetsReply, Returns
  <2>4. lock' = None /\ pc' \in [Callers -> {"idle", "checked", "locked", "served"}]
    BY <1>32 DEF GetsReply, Returns
  <2>. QED  BY <1>32, <2>1, <2>3, <2>4 DEF GetsReply, Returns, CallType
<1>33. ASSUME NEW c \in Callers, LosesReply(c) PROVE TypeOK'
  BY <1>33 DEF LosesReply, Returns, NoCall
<1>34. ASSUME NEW c \in Callers, OpenUndone(c) PROVE TypeOK'
  BY <1>34 DEF OpenUndone, Returns, NoCall
<1>35. CASE ExitBegins
  BY <1>35 DEF ExitBegins, Loaded
<1>36. CASE ExitJoins
  BY <1>36 DEF ExitJoins, Joinable
<1>37. CASE UNCHANGED vars
  BY <1>37 DEF vars
<1>38. ASSUME NEW p \in Procs, NoticeFails(p) PROVE TypeOK'
  BY <1>38 DEF NoticeFails
<1>. QED
  BY <1>1, <1>2, <1>3, <1>4, <1>5, <1>6, <1>7, <1>8, <1>9, <1>10, <1>11, <1>12, <1>13, <1>14, <1>15, <1>16, <1>17, <1>18, <1>19, <1>20, <1>21, <1>22, <1>23, <1>24, <1>25, <1>26, <1>27, <1>28, <1>29, <1>30, <1>31, <1>32, <1>33, <1>34, <1>35, <1>36, <1>37, <1>38
     DEF Next, Process, Handler, Answers, Boots, Asks, Goes

\* Each step preserves what is known of the lock, the processes and the notices.
LEMMA ControlStep ==
  IInv /\ [Next]_vars => (LockOwner /\ FirstStart /\ Exiting /\ Current /\ Watched
                            /\ Running /\ Notices)'
<1>. SUFFICES ASSUME IInv, [Next]_vars
     PROVE  (LockOwner /\ FirstStart /\ Exiting /\ Current /\ Watched /\ Running /\ Notices)'
  OBVIOUS
<1>. DEFINE Control == LockOwner /\ FirstStart /\ Exiting /\ Current /\ Watched /\ Running /\ Notices
<1>. USE ConstantsAssumption
     DEF IInv, TypeOK, LockOwner, Stages, FirstStart, Initial, Quiet, Held, Exiting, Current,
         Watched, Running, Notices, OfCurrent, Up, procVars, clientVars, bootVars, callVars
<1>1. ASSUME NEW p \in Procs, ComesUp(p) PROVE Control'
  <2>1. (LockOwner /\ FirstStart /\ Exiting)'
    BY <1>1 DEF ComesUp
  <2>2. (Current /\ Watched /\ Running /\ Notices)'
    BY <1>1 DEF ComesUp
  <2>. QED  BY <2>1, <2>2
<1>2. ASSUME NEW p \in Procs, Dies(p) PROVE Control'
  <2>1. (LockOwner /\ FirstStart /\ Exiting)'
    BY <1>2 DEF Dies
  <2>2. (Current /\ Watched /\ Running /\ Notices)'
    BY <1>2 DEF Dies
  <2>. QED  BY <2>1, <2>2
<1>3. ASSUME NEW p \in Procs, Noticed(p) PROVE Control'
  <2>1. (LockOwner /\ FirstStart /\ Exiting)'
    BY <1>3 DEF Noticed
  <2>2. (Current /\ Watched /\ Running /\ Notices)'
    BY <1>3 DEF Noticed
  <2>. QED  BY <2>1, <2>2
<1>4. ASSUME NEW p \in Procs, ReadsState(p) PROVE Control'
  <2>1. (LockOwner /\ FirstStart /\ Exiting)'
    BY <1>4 DEF ReadsState, AfterReading
  <2>2. (Current /\ Watched /\ Running /\ Notices)'
    BY <1>4 DEF ReadsState, AfterReading
  <2>. QED  BY <2>1, <2>2
<1>5. ASSUME NEW p \in Procs, StoresExiting(p) PROVE Control'
  <2>1. (LockOwner /\ FirstStart /\ Exiting)'
    BY <1>5 DEF StoresExiting
  <2>2. (Current /\ Watched /\ Running /\ Notices)'
    BY <1>5 DEF StoresExiting
  <2>. QED  BY <2>1, <2>2
<1>6. ASSUME NEW p \in Procs, HandlerLocks(p) PROVE Control'
  <2>1. (LockOwner /\ FirstStart /\ Exiting)'
    BY <1>6 DEF HandlerLocks
  <2>2. (Current /\ Watched /\ Running /\ Notices)'
    BY <1>6 DEF HandlerLocks
  <2>. QED  BY <2>1, <2>2
<1>7. CASE HandlerJoins
  <2>1. (LockOwner /\ FirstStart /\ Exiting)'
    BY <1>7 DEF HandlerJoins, Joinable
  <2>2. (Current /\ Watched /\ Running /\ Notices)'
    BY <1>7 DEF HandlerJoins, Joinable
  <2>. QED  BY <2>1, <2>2
<1>8. CASE UserSaysOK
  <2>1. (LockOwner /\ FirstStart /\ Exiting)'
    BY <1>8 DEF UserSaysOK
  <2>2. (Current /\ Watched /\ Running /\ Notices)'
    BY <1>8 DEF UserSaysOK
  <2>. QED  BY <2>1, <2>2
<1>9. CASE UserCancels
  <2>1. (LockOwner /\ FirstStart /\ Exiting)'
    BY <1>9 DEF UserCancels
  <2>2. (Current /\ Watched /\ Running /\ Notices)'
    BY <1>9 DEF UserCancels
  <2>. QED  BY <2>1, <2>2
<1>10. CASE Start
  <2>1. (LockOwner /\ FirstStart /\ Exiting)'
    BY <1>10 DEF Start
  <2>2. (Current /\ Watched /\ Running /\ Notices)'
    BY <1>10 DEF Start
  <2>. QED  BY <2>1, <2>2
<1>11. ASSUME NEW p \in Procs, CreatesProcess(p) PROVE Control'
  <2>1. (LockOwner /\ FirstStart /\ Exiting)'
    BY <1>11 DEF CreatesProcess
  <2>2. (Current /\ Watched /\ Running /\ Notices)'
    BY <1>11 DEF CreatesProcess
  <2>. QED  BY <2>1, <2>2
<1>12. ASSUME NEW p \in Procs, WatcherFails(p) PROVE Control'
  <2>1. (LockOwner /\ FirstStart /\ Exiting)'
    BY <1>12 DEF WatcherFails
  <2>2. (Current /\ Watched /\ Running /\ Notices)'
    BY <1>12 DEF WatcherFails
  <2>. QED  BY <2>1, <2>2
<1>13. CASE CreateFails
  <2>1. (LockOwner /\ FirstStart /\ Exiting)'
    BY <1>13 DEF CreateFails
  <2>2. (Current /\ Watched /\ Running /\ Notices)'
    BY <1>13 DEF CreateFails
  <2>. QED  BY <2>1, <2>2
<1>14. CASE DeadlinePasses
  <2>1. (LockOwner /\ FirstStart /\ Exiting)'
    BY <1>14 DEF DeadlinePasses
  <2>2. (Current /\ Watched /\ Running /\ Notices)'
    BY <1>14 DEF DeadlinePasses
  <2>. QED  BY <2>1, <2>2
<1>15. CASE Connects
  <2>1. (LockOwner /\ FirstStart /\ Exiting)'
    BY <1>15 DEF Connects
  <2>2. (Current /\ Watched /\ Running /\ Notices)'
    BY <1>15 DEF Connects
  <2>. QED  BY <2>1, <2>2
<1>16. CASE GivesUp
  <2>1. (LockOwner /\ FirstStart /\ Exiting)'
    BY <1>16 DEF GivesUp
  <2>2. (Current /\ Watched /\ Running /\ Notices)'
    BY <1>16 DEF GivesUp
  <2>. QED  BY <2>1, <2>2
<1>17. ASSUME NEW h \in Handles, NEW i \in Ids, Restores(h, i) PROVE Control'
  <2>1. (LockOwner /\ FirstStart /\ Exiting)'
    BY <1>17 DEF Restores
  <2>2. (Current /\ Watched /\ Running /\ Notices)'
    BY <1>17 DEF Restores
  <2>. QED  BY <2>1, <2>2
<1>18. CASE RestoreFails
  <2>1. (LockOwner /\ FirstStart /\ Exiting)'
    BY <1>18 DEF RestoreFails
  <2>2. (Current /\ Watched /\ Running /\ Notices)'
    BY <1>18 DEF RestoreFails
  <2>. QED  BY <2>1, <2>2
<1>19. CASE RestoreEnds
  <2>1. (LockOwner /\ FirstStart /\ Exiting)'
    BY <1>19 DEF RestoreEnds
  <2>2. (Current /\ Watched /\ Running /\ Notices)'
    BY <1>19 DEF RestoreEnds
  <2>. QED  BY <2>1, <2>2
<1>20. CASE DropJoins
  <2>1. (LockOwner /\ FirstStart /\ Exiting)'
    BY <1>20 DEF DropJoins, Joinable
  <2>2. (Current /\ Watched /\ Running /\ Notices)'
    BY <1>20 DEF DropJoins, Joinable
  <2>. QED  BY <2>1, <2>2
<1>21. CASE Publishes
  <2>1. (LockOwner /\ FirstStart /\ Exiting)'
    BY <1>21 DEF Publishes, HandlerOver
  <2>2. (Current /\ Watched /\ Running /\ Notices)'
    BY <1>21 DEF Publishes, HandlerOver
  <2>. QED  BY <2>1, <2>2
<1>22. CASE StarterUnlocks
  <2>1. (LockOwner /\ FirstStart /\ Exiting)'
    BY <1>22 DEF StarterUnlocks
  <2>2. (Current /\ Watched /\ Running /\ Notices)'
    BY <1>22 DEF StarterUnlocks
  <2>. QED  BY <2>1, <2>2
<1>23. CASE Declares
  <2>1. (LockOwner /\ FirstStart /\ Exiting)'
    BY <1>23 DEF Declares
  <2>2. (Current /\ Watched /\ Running /\ Notices)'
    BY <1>23 DEF Declares
  <2>. QED  BY <2>1, <2>2
<1>24. CASE Fails
  <2>1. (LockOwner /\ FirstStart /\ Exiting)'
    BY <1>24 DEF Fails, HandlerOver
  <2>2. (Current /\ Watched /\ Running /\ Notices)'
    BY <1>24 DEF Fails, HandlerOver
  <2>. QED  BY <2>1, <2>2
<1>25. ASSUME NEW c \in Callers, Open(c) PROVE Control'
  <2>1. (LockOwner /\ FirstStart /\ Exiting)'
    BY <1>25 DEF Open, Begins, Loaded
  <2>2. (Current /\ Watched /\ Running /\ Notices)'
    BY <1>25 DEF Open, Begins, Loaded
  <2>. QED  BY <2>1, <2>2
<1>26. ASSUME NEW c \in Callers, Read(c) PROVE Control'
  <2>1. (LockOwner /\ FirstStart /\ Exiting)'
    BY <1>26 DEF Read, Begins, Loaded
  <2>2. (Current /\ Watched /\ Running /\ Notices)'
    BY <1>26 DEF Read, Begins, Loaded
  <2>. QED  BY <2>1, <2>2
<1>27. ASSUME NEW c \in Callers, Close(c) PROVE Control'
  <2>1. (LockOwner /\ FirstStart /\ Exiting)'
    BY <1>27 DEF Close, Begins, Loaded
  <2>2. (Current /\ Watched /\ Running /\ Notices)'
    BY <1>27 DEF Close, Begins, Loaded
  <2>. QED  BY <2>1, <2>2
<1>28. ASSUME NEW c \in Callers, Config(c) PROVE Control'
  <2>1. (LockOwner /\ FirstStart /\ Exiting)'
    BY <1>28 DEF Config, Begins, Loaded
  <2>2. (Current /\ Watched /\ Running /\ Notices)'
    BY <1>28 DEF Config, Begins, Loaded
  <2>. QED  BY <2>1, <2>2
<1>29. ASSUME NEW c \in Callers, Takes(c) PROVE Control'
  <2>1. (LockOwner /\ FirstStart /\ Exiting)'
    BY <1>29 DEF Takes
  <2>2. (Current /\ Watched /\ Running /\ Notices)'
    BY <1>29 DEF Takes
  <2>. QED  BY <2>1, <2>2
<1>30. ASSUME NEW c \in Callers, CallFails(c) PROVE Control'
  <2>1. (LockOwner /\ FirstStart /\ Exiting)'
    BY <1>30 DEF CallFails, Returns
  <2>2. (Current /\ Watched /\ Running /\ Notices)'
    BY <1>30 DEF CallFails, Returns
  <2>. QED  BY <2>1, <2>2
<1>31. ASSUME NEW c \in Callers, Serves(c) PROVE Control'
  <2>1. (LockOwner /\ FirstStart /\ Exiting)'
    BY <1>31 DEF Serves
  <2>2. (Current /\ Watched /\ Running /\ Notices)'
    BY <1>31 DEF Serves
  <2>. QED  BY <2>1, <2>2
<1>32. ASSUME NEW c \in Callers, GetsReply(c) PROVE Control'
  <2>1. (LockOwner /\ FirstStart /\ Exiting)'
    BY <1>32 DEF GetsReply, Returns
  <2>2. (Current /\ Watched /\ Running /\ Notices)'
    BY <1>32 DEF GetsReply, Returns
  <2>. QED  BY <2>1, <2>2
<1>33. ASSUME NEW c \in Callers, LosesReply(c) PROVE Control'
  <2>1. (LockOwner /\ FirstStart /\ Exiting)'
    BY <1>33 DEF LosesReply, Returns
  <2>2. (Current /\ Watched /\ Running /\ Notices)'
    BY <1>33 DEF LosesReply, Returns
  <2>. QED  BY <2>1, <2>2
<1>34. ASSUME NEW c \in Callers, OpenUndone(c) PROVE Control'
  <2>1. (LockOwner /\ FirstStart /\ Exiting)'
    BY <1>34 DEF OpenUndone, Returns
  <2>2. (Current /\ Watched /\ Running /\ Notices)'
    BY <1>34 DEF OpenUndone, Returns
  <2>. QED  BY <2>1, <2>2
<1>35. CASE ExitBegins
  <2>1. (LockOwner /\ FirstStart /\ Exiting)'
    BY <1>35 DEF ExitBegins, Loaded
  <2>2. (Current /\ Watched /\ Running /\ Notices)'
    BY <1>35 DEF ExitBegins, Loaded
  <2>. QED  BY <2>1, <2>2
<1>36. CASE ExitJoins
  <2>1. (LockOwner /\ FirstStart /\ Exiting)'
    BY <1>36 DEF ExitJoins, Joinable
  <2>2. (Current /\ Watched /\ Running /\ Notices)'
    BY <1>36 DEF ExitJoins, Joinable
  <2>. QED  BY <2>1, <2>2
<1>37. CASE UNCHANGED vars
  <2>1. (LockOwner /\ FirstStart /\ Exiting)'
    BY <1>37 DEF vars
  <2>2. (Current /\ Watched /\ Running /\ Notices)'
    BY <1>37 DEF vars
  <2>. QED  BY <2>1, <2>2
<1>38. ASSUME NEW p \in Procs, NoticeFails(p) PROVE Control'
  <2>1. (LockOwner /\ FirstStart /\ Exiting)'
    BY <1>38 DEF NoticeFails
  <2>2. (Current /\ Watched /\ Running /\ Notices)'
    BY <1>38 DEF NoticeFails
  <2>. QED  BY <2>1, <2>2
<1>. QED
  BY <1>1, <1>2, <1>3, <1>4, <1>5, <1>6, <1>7, <1>8, <1>9, <1>10, <1>11, <1>12, <1>13, <1>14, <1>15, <1>16, <1>17, <1>18, <1>19, <1>20, <1>21, <1>22, <1>23, <1>24, <1>25, <1>26, <1>27, <1>28, <1>29, <1>30, <1>31, <1>32, <1>33, <1>34, <1>35, <1>36, <1>37, <1>38
     DEF Next, Process, Handler, Answers, Boots, Asks, Goes

\* Each step preserves what a call under way was begun with.
LEMMA CallsStep == TypeOK /\ Calls /\ [Next]_vars => Calls'
<1>. SUFFICES ASSUME TypeOK, Calls, [Next]_vars PROVE Calls'
  OBVIOUS
<1>. USE ConstantsAssumption DEF Calls, TypeOK, callVars
<1>1. ASSUME NEW p \in Procs, ComesUp(p) PROVE Calls'
  BY <1>1 DEF ComesUp
<1>2. ASSUME NEW p \in Procs, Dies(p) PROVE Calls'
  BY <1>2 DEF Dies
<1>3. ASSUME NEW p \in Procs, Noticed(p) PROVE Calls'
  BY <1>3 DEF Noticed
<1>4. ASSUME NEW p \in Procs, ReadsState(p) PROVE Calls'
  BY <1>4 DEF ReadsState, AfterReading
<1>5. ASSUME NEW p \in Procs, StoresExiting(p) PROVE Calls'
  BY <1>5 DEF StoresExiting
<1>6. ASSUME NEW p \in Procs, HandlerLocks(p) PROVE Calls'
  BY <1>6 DEF HandlerLocks
<1>7. CASE HandlerJoins
  BY <1>7 DEF HandlerJoins, Joinable
<1>8. CASE UserSaysOK
  BY <1>8 DEF UserSaysOK
<1>9. CASE UserCancels
  BY <1>9 DEF UserCancels
<1>10. CASE Start
  BY <1>10 DEF Start
<1>11. ASSUME NEW p \in Procs, CreatesProcess(p) PROVE Calls'
  BY <1>11 DEF CreatesProcess
<1>12. ASSUME NEW p \in Procs, WatcherFails(p) PROVE Calls'
  BY <1>12 DEF WatcherFails
<1>13. CASE CreateFails
  BY <1>13 DEF CreateFails
<1>14. CASE DeadlinePasses
  BY <1>14 DEF DeadlinePasses
<1>15. CASE Connects
  BY <1>15 DEF Connects
<1>16. CASE GivesUp
  BY <1>16 DEF GivesUp
<1>17. ASSUME NEW h \in Handles, NEW i \in Ids, Restores(h, i) PROVE Calls'
  BY <1>17 DEF Restores
<1>18. CASE RestoreFails
  BY <1>18 DEF RestoreFails
<1>19. CASE RestoreEnds
  BY <1>19 DEF RestoreEnds
<1>20. CASE DropJoins
  BY <1>20 DEF DropJoins, Joinable
<1>21. CASE Publishes
  BY <1>21 DEF Publishes, HandlerOver
<1>22. CASE StarterUnlocks
  BY <1>22 DEF StarterUnlocks
<1>23. CASE Declares
  BY <1>23 DEF Declares
<1>24. CASE Fails
  BY <1>24 DEF Fails, HandlerOver
<1>25. ASSUME NEW c \in Callers, Open(c) PROVE Calls'
  BY <1>25 DEF Open, Begins, Loaded, NoCall
<1>26. ASSUME NEW c \in Callers, Read(c) PROVE Calls'
  BY <1>26 DEF Read, Begins, Loaded, NoCall
<1>27. ASSUME NEW c \in Callers, Close(c) PROVE Calls'
  BY <1>27 DEF Close, Begins, Loaded, NoCall
<1>28. ASSUME NEW c \in Callers, Config(c) PROVE Calls'
  BY <1>28 DEF Config, Begins, Loaded, NoCall
<1>29. ASSUME NEW c \in Callers, Takes(c) PROVE Calls'
  BY <1>29 DEF Takes
<1>30. ASSUME NEW c \in Callers, CallFails(c) PROVE Calls'
  BY <1>30 DEF CallFails, Returns, NoCall
<1>31. ASSUME NEW c \in Callers, Serves(c) PROVE Calls'
  <2>1. /\ pc[c] = "locked" /\ pc' = [pc EXCEPT ![c] = "served"]
        /\ UNCHANGED <<lock, path>>
    BY <1>31 DEF Serves, clientVars
  <2>2. CASE UNCHANGED call
    BY <1>31, <2>1, <2>2
  <2>3. CASE \E i \in Ids : call' = [call EXCEPT ![c].id = i]
    <3>1. PICK i \in Ids : call' = [call EXCEPT ![c].id = i]
      BY <2>3
    <3>2. ASSUME NEW d \in Callers
          PROVE  /\ call'[d].op = call[d].op /\ call'[d].path = call[d].path
                 /\ call'[d].h = call[d].h
      BY <3>1
    <3>. QED  BY <2>1, <3>2
  <2>. QED  BY <1>31, <2>2, <2>3 DEF Serves
<1>32. ASSUME NEW c \in Callers, GetsReply(c) PROVE Calls'
  BY <1>32 DEF GetsReply, Returns, NoCall
<1>33. ASSUME NEW c \in Callers, LosesReply(c) PROVE Calls'
  BY <1>33 DEF LosesReply, Returns, NoCall
<1>34. ASSUME NEW c \in Callers, OpenUndone(c) PROVE Calls'
  BY <1>34 DEF OpenUndone, Returns, NoCall
<1>35. CASE ExitBegins
  BY <1>35 DEF ExitBegins, Loaded
<1>36. CASE ExitJoins
  BY <1>36 DEF ExitJoins, Joinable
<1>37. CASE UNCHANGED vars
  BY <1>37 DEF vars
<1>38. ASSUME NEW p \in Procs, NoticeFails(p) PROVE Calls'
  BY <1>38 DEF NoticeFails
<1>. QED
  BY <1>1, <1>2, <1>3, <1>4, <1>5, <1>6, <1>7, <1>8, <1>9, <1>10, <1>11, <1>12, <1>13, <1>14, <1>15, <1>16, <1>17, <1>18, <1>19, <1>20, <1>21, <1>22, <1>23, <1>24, <1>25, <1>26, <1>27, <1>28, <1>29, <1>30, <1>31, <1>32, <1>33, <1>34, <1>35, <1>36, <1>37, <1>38
     DEF Next, Process, Handler, Answers, Boots, Asks, Goes

\* Each step keeps the two tables of handles in agreement as far as they have to.
LEMMA TablesStep == IInv /\ [Next]_vars => Tables'
<1>. SUFFICES ASSUME IInv, [Next]_vars PROVE Tables'
  OBVIOUS
<1>. USE ConstantsAssumption
     DEF IInv, TypeOK, LockOwner, Stages, FirstStart, Initial, Quiet, Held, Exiting, Current,
         Up, procVars, clientVars, bootVars, callVars, Tables, CallTables, RestartTables,
         Unused, Requesting, AfterServing, Agrees, Nothing
<1>1. ASSUME NEW p \in Procs, ComesUp(p) PROVE Tables'
  <2>1. CallTables'
    BY <1>1 DEF ComesUp
  <2>2. RestartTables'
    BY <1>1 DEF ComesUp
  <2>3. Unused'
    BY <1>1 DEF ComesUp
  <2>. QED  BY <2>1, <2>2, <2>3
<1>2. ASSUME NEW p \in Procs, Dies(p) PROVE Tables'
  <2>1. CallTables'
    BY <1>2 DEF Dies
  <2>2. RestartTables'
    BY <1>2 DEF Dies
  <2>3. Unused'
    BY <1>2 DEF Dies
  <2>. QED  BY <2>1, <2>2, <2>3
<1>3. ASSUME NEW p \in Procs, Noticed(p) PROVE Tables'
  <2>1. CallTables'
    BY <1>3 DEF Noticed
  <2>2. RestartTables'
    BY <1>3 DEF Noticed
  <2>3. Unused'
    BY <1>3 DEF Noticed
  <2>. QED  BY <2>1, <2>2, <2>3
<1>4. ASSUME NEW p \in Procs, ReadsState(p) PROVE Tables'
  <2>1. CallTables'
    BY <1>4 DEF ReadsState, AfterReading
  <2>2. RestartTables'
    BY <1>4 DEF ReadsState, AfterReading
  <2>3. Unused'
    BY <1>4 DEF ReadsState, AfterReading
  <2>. QED  BY <2>1, <2>2, <2>3
<1>5. ASSUME NEW p \in Procs, StoresExiting(p) PROVE Tables'
  <2>1. CallTables'
    BY <1>5 DEF StoresExiting
  <2>2. RestartTables'
    BY <1>5 DEF StoresExiting
  <2>3. Unused'
    BY <1>5 DEF StoresExiting
  <2>. QED  BY <2>1, <2>2, <2>3
<1>6. ASSUME NEW p \in Procs, HandlerLocks(p) PROVE Tables'
  <2>1. CallTables'
    BY <1>6 DEF HandlerLocks
  <2>2. RestartTables'
    BY <1>6 DEF HandlerLocks
  <2>3. Unused'
    BY <1>6 DEF HandlerLocks
  <2>. QED  BY <2>1, <2>2, <2>3
<1>7. CASE HandlerJoins
  <2>1. CallTables'
    BY <1>7 DEF HandlerJoins, Joinable
  <2>2. RestartTables'
    BY <1>7 DEF HandlerJoins, Joinable
  <2>3. Unused'
    BY <1>7 DEF HandlerJoins, Joinable
  <2>. QED  BY <2>1, <2>2, <2>3
<1>8. CASE UserSaysOK
  <2>1. CallTables'
    BY <1>8 DEF UserSaysOK
  <2>2. RestartTables'
    BY <1>8 DEF UserSaysOK
  <2>3. Unused'
    BY <1>8 DEF UserSaysOK
  <2>. QED  BY <2>1, <2>2, <2>3
<1>9. CASE UserCancels
  <2>1. CallTables'
    BY <1>9 DEF UserCancels
  <2>2. RestartTables'
    BY <1>9 DEF UserCancels
  <2>3. Unused'
    BY <1>9 DEF UserCancels
  <2>. QED  BY <2>1, <2>2, <2>3
<1>10. CASE Start
  <2>1. CallTables'
    BY <1>10 DEF Start
  <2>2. RestartTables'
    BY <1>10 DEF Start
  <2>3. Unused'
    BY <1>10 DEF Start
  <2>. QED  BY <2>1, <2>2, <2>3
<1>11. ASSUME NEW p \in Procs, CreatesProcess(p) PROVE Tables'
  <2>1. CallTables'
    BY <1>11 DEF CreatesProcess
  <2>2. RestartTables'
    BY <1>11 DEF CreatesProcess
  <2>3. Unused'
    BY <1>11 DEF CreatesProcess
  <2>. QED  BY <2>1, <2>2, <2>3
<1>12. ASSUME NEW p \in Procs, WatcherFails(p) PROVE Tables'
  <2>1. CallTables'
    BY <1>12 DEF WatcherFails
  <2>2. RestartTables'
    BY <1>12 DEF WatcherFails
  <2>3. Unused'
    BY <1>12 DEF WatcherFails
  <2>. QED  BY <2>1, <2>2, <2>3
<1>13. CASE CreateFails
  <2>1. CallTables'
    BY <1>13 DEF CreateFails
  <2>2. RestartTables'
    BY <1>13 DEF CreateFails
  <2>3. Unused'
    BY <1>13 DEF CreateFails
  <2>. QED  BY <2>1, <2>2, <2>3
<1>14. CASE DeadlinePasses
  <2>1. CallTables'
    BY <1>14 DEF DeadlinePasses
  <2>2. RestartTables'
    BY <1>14 DEF DeadlinePasses
  <2>3. Unused'
    BY <1>14 DEF DeadlinePasses
  <2>. QED  BY <2>1, <2>2, <2>3
<1>15. CASE Connects
  <2>1. CallTables'
    BY <1>15 DEF Connects
  <2>2. RestartTables'
    BY <1>15 DEF Connects
  <2>3. Unused'
    BY <1>15 DEF Connects
  <2>. QED  BY <2>1, <2>2, <2>3
<1>16. CASE GivesUp
  <2>1. CallTables'
    BY <1>16 DEF GivesUp
  <2>2. RestartTables'
    BY <1>16 DEF GivesUp
  <2>3. Unused'
    BY <1>16 DEF GivesUp
  <2>. QED  BY <2>1, <2>2, <2>3
<1>17. ASSUME NEW h \in Handles, NEW i \in Ids, Restores(h, i) PROVE Tables'
  <2>1. CallTables'
    BY <1>17 DEF Restores
  <2>2. RestartTables'
    BY <1>17 DEF Restores
  <2>3. Unused'
    BY <1>17 DEF Restores
  <2>. QED  BY <2>1, <2>2, <2>3
<1>18. CASE RestoreFails
  <2>1. CallTables'
    BY <1>18 DEF RestoreFails
  <2>2. RestartTables'
    BY <1>18 DEF RestoreFails
  <2>3. Unused'
    BY <1>18 DEF RestoreFails
  <2>. QED  BY <2>1, <2>2, <2>3
<1>19. CASE RestoreEnds
  <2>1. CallTables'
    BY <1>19 DEF RestoreEnds
  <2>2. RestartTables'
    BY <1>19 DEF RestoreEnds
  <2>3. Unused'
    BY <1>19 DEF RestoreEnds
  <2>. QED  BY <2>1, <2>2, <2>3
<1>20. CASE DropJoins
  <2>1. CallTables'
    BY <1>20 DEF DropJoins, Joinable
  <2>2. RestartTables'
    BY <1>20 DEF DropJoins, Joinable
  <2>3. Unused'
    BY <1>20 DEF DropJoins, Joinable
  <2>. QED  BY <2>1, <2>2, <2>3
<1>21. CASE Publishes
  <2>1. CallTables'
    BY <1>21 DEF Publishes, HandlerOver
  <2>2. RestartTables'
    BY <1>21 DEF Publishes, HandlerOver
  <2>3. Unused'
    BY <1>21 DEF Publishes, HandlerOver
  <2>. QED  BY <2>1, <2>2, <2>3
<1>22. CASE StarterUnlocks
  <2>1. CallTables'
    BY <1>22 DEF StarterUnlocks
  <2>2. RestartTables'
    BY <1>22 DEF StarterUnlocks
  <2>3. Unused'
    BY <1>22 DEF StarterUnlocks
  <2>. QED  BY <2>1, <2>2, <2>3
<1>23. CASE Declares
  <2>1. CallTables'
    BY <1>23 DEF Declares
  <2>2. RestartTables'
    BY <1>23 DEF Declares
  <2>3. Unused'
    BY <1>23 DEF Declares
  <2>. QED  BY <2>1, <2>2, <2>3
<1>24. CASE Fails
  <2>1. CallTables'
    BY <1>24 DEF Fails, HandlerOver
  <2>2. RestartTables'
    BY <1>24 DEF Fails, HandlerOver
  <2>3. Unused'
    BY <1>24 DEF Fails, HandlerOver
  <2>. QED  BY <2>1, <2>2, <2>3
<1>25. ASSUME NEW c \in Callers, Open(c) PROVE Tables'
  <2>1. CallTables'
    BY <1>25 DEF Open, Begins, Loaded
  <2>2. RestartTables'
    BY <1>25 DEF Open, Begins, Loaded
  <2>3. Unused'
    BY <1>25 DEF Open, Begins, Loaded
  <2>. QED  BY <2>1, <2>2, <2>3
<1>26. ASSUME NEW c \in Callers, Read(c) PROVE Tables'
  <2>1. CallTables'
    BY <1>26 DEF Read, Begins, Loaded
  <2>2. RestartTables'
    BY <1>26 DEF Read, Begins, Loaded
  <2>3. Unused'
    BY <1>26 DEF Read, Begins, Loaded
  <2>. QED  BY <2>1, <2>2, <2>3
<1>27. ASSUME NEW c \in Callers, Close(c) PROVE Tables'
  <2>1. CallTables'
    BY <1>27 DEF Close, Begins, Loaded
  <2>2. RestartTables'
    BY <1>27 DEF Close, Begins, Loaded
  <2>3. Unused'
    BY <1>27 DEF Close, Begins, Loaded
  <2>. QED  BY <2>1, <2>2, <2>3
<1>28. ASSUME NEW c \in Callers, Config(c) PROVE Tables'
  <2>1. CallTables'
    BY <1>28 DEF Config, Begins, Loaded
  <2>2. RestartTables'
    BY <1>28 DEF Config, Begins, Loaded
  <2>3. Unused'
    BY <1>28 DEF Config, Begins, Loaded
  <2>. QED  BY <2>1, <2>2, <2>3
<1>29. ASSUME NEW c \in Callers, Takes(c) PROVE Tables'
  <2>1. CallTables'
    BY <1>29 DEF Takes
  <2>2. RestartTables'
    BY <1>29 DEF Takes
  <2>3. Unused'
    BY <1>29 DEF Takes
  <2>. QED  BY <2>1, <2>2, <2>3
<1>30. ASSUME NEW c \in Callers, CallFails(c) PROVE Tables'
  <2>1. CallTables'
    BY <1>30 DEF CallFails, Returns
  <2>2. RestartTables'
    BY <1>30 DEF CallFails, Returns
  <2>3. Unused'
    BY <1>30 DEF CallFails, Returns
  <2>. QED  BY <2>1, <2>2, <2>3
<1>31. ASSUME NEW c \in Callers, Serves(c) PROVE Tables'
  <2>1. /\ Up(gipcc) /\ gipcc \in Procs /\ lock = c /\ Agrees(gipcc, Held, {})
        /\ UNCHANGED <<state, lock, gproc, gipcc, bootVars, procVars, notice, clientVars>>
        /\ \A d \in Callers : pc'[d] \in {"locked", "served"} => d = c
        /\ pc'[c] = "served" /\ stage \notin Stages
    BY <1>31 DEF Serves
  <2>2. ~ Requesting'
    BY <1>31, <2>1 DEF Serves
  <2>3. AfterServing(c)'
    <3>1. CASE call[c].op = "open"
      <4>1. PICK i \in Ids : /\ issued[gipcc][i] = None
                            /\ issued' = [issued EXCEPT ![gipcc][i] = call[c].path]
                            /\ call' = [call EXCEPT ![c].id = i]
        BY <1>31, <3>1 DEF Serves
      <4>2. /\ call'[c].op = "open" /\ call'[c].id = i /\ call'[c].path = call[c].path
            /\ issued'[gipcc][i] = call[c].path
            /\ \A j \in Ids : j # i => issued'[gipcc][j] = issued[gipcc][j]
        BY <2>1, <3>1, <4>1
      <4>3. \A h \in Held : id[h] # i
        BY <2>1, <4>1
      <4>4. Agrees(gipcc, Held, {i})'
        BY <2>1, <4>2, <4>3
      <4>. QED  BY <2>1, <4>2, <4>3, <4>4
    <3>2. CASE call[c].op = "close"
      <4>1. /\ issued' = [issued EXCEPT ![gipcc][id[call[c].h]] = None]
            /\ UNCHANGED call
        BY <1>31, <3>2 DEF Serves
      <4>2. call[c].h \in Handles
        BY <1>31, <3>2 DEF Serves, Calls
      <4>3. \A h \in Held : h # call[c].h => id[h] # id[call[c].h]
        BY <2>1, <4>2
      <4>4. /\ \A j \in Ids : j # id[call[c].h] => issued'[gipcc][j] = issued[gipcc][j]
            /\ id[call[c].h] \in Ids => issued'[gipcc][id[call[c].h]] = None
        BY <2>1, <4>1
      <4>5. Agrees(gipcc, Held \ {call[c].h}, {})'
        BY <2>1, <4>1, <4>2, <4>3, <4>4
      <4>. QED  BY <3>2, <4>1, <4>5
    <3>3. CASE call[c].op \in {"read", "config"}
      BY <1>31, <2>1, <3>3 DEF Serves
    <3>. QED  BY <1>31, <3>1, <3>2, <3>3 DEF Serves
  <2>4. CallTables'
    BY <2>1, <2>2, <2>3
  <2>5. RestartTables' /\ Unused'
    BY <1>31, <2>1 DEF Serves
  <2>. QED  BY <2>4, <2>5
<1>32. ASSUME NEW c \in Callers, GetsReply(c) PROVE Tables'
  <2>1. /\ lock = c /\ lock' = None /\ stage \notin Stages
        /\ UNCHANGED <<state, gproc, gipcc, bootVars, procVars, notice, issued>>
        /\ \A d \in Callers : pc'[d] \notin {"locked", "served"}
    BY <1>32 DEF GetsReply, Returns
  <2>2. /\ Up(gipcc) => AfterServing(c)
        /\ UNCHANGED issued
    BY <1>32, <2>1 DEF GetsReply
  <2>3. (Up(gipcc) => Agrees(gipcc, Held, {}))' /\ Unused'
    <3>1. CASE call[c].op = "open"
      <4>1. PICK h \in Handles \ Held : /\ path' = [path EXCEPT ![h] = call[c].path]
                                       /\ id' = [id EXCEPT ![h] = call[c].id]
        BY <1>32, <3>1 DEF GetsReply
      <4>2. call[c].path \in Paths
        BY <1>32, <3>1 DEF GetsReply, Calls
      <4>3. Held' = Held \cup {h}
        BY <4>1, <4>2
      <4>4. /\ path'[h] = call[c].path /\ id'[h] = call[c].id
            /\ \A k \in Handles : k # h => path'[k] = path[k] /\ id'[k] = id[k]
        BY <4>1
      <4>5. Unused'
        BY <2>1, <4>2, <4>4
      <4>6. ASSUME Up(gipcc)
            PROVE  Agrees(gipcc, Held, {})'
        <5>1. /\ call[c].id \in Ids /\ issued[gipcc][call[c].id] = call[c].path
              /\ \A k \in Held : id[k] # call[c].id
              /\ Agrees(gipcc, Held, {call[c].id})
          BY <2>2, <3>1, <4>6
        <5>. HIDE DEF IInv, Tables, CallTables
        <5>. QED  BY <2>1, <2>2, <4>1, <4>3, <4>4, <5>1
      <4>. QED  BY <2>1, <4>5, <4>6
    <3>2. CASE call[c].op = "close"
      <4>1. /\ path' = [path EXCEPT ![call[c].h] = None]
            /\ id' = [id EXCEPT ![call[c].h] = None]
        BY <1>32, <3>2 DEF GetsReply
      <4>2. call[c].h \in Handles
        BY <1>32, <3>2 DEF GetsReply, Calls
      <4>3. Held' = Held \ {call[c].h}
        BY <4>1, <4>2
      <4>4. /\ path'[call[c].h] = None /\ id'[call[c].h] = None
            /\ \A k \in Handles : k # call[c].h => path'[k] = path[k] /\ id'[k] = id[k]
        BY <4>1, <4>2
      <4>5. Unused'
        BY <2>1, <4>4
      <4>6. ASSUME Up(gipcc)
            PROVE  Agrees(gipcc, Held, {})'
        BY <2>1, <2>2, <3>2, <4>3, <4>4, <4>6
      <4>. QED  BY <2>1, <4>5, <4>6
    <3>3. CASE call[c].op \in {"read", "config"}
      BY <1>32, <2>1, <2>2, <3>3 DEF GetsReply
    <3>. QED  BY <1>32, <3>1, <3>2, <3>3 DEF GetsReply
  <2>4. CallTables'
    BY <2>1, <2>3
  <2>5. RestartTables'
    BY <2>1
  <2>. QED  BY <2>3, <2>4, <2>5
<1>33. ASSUME NEW c \in Callers, LosesReply(c) PROVE Tables'
  <2>1. CallTables'
    BY <1>33 DEF LosesReply, Returns
  <2>2. RestartTables'
    BY <1>33 DEF LosesReply, Returns
  <2>3. Unused'
    BY <1>33 DEF LosesReply, Returns
  <2>. QED  BY <2>1, <2>2, <2>3
<1>34. ASSUME NEW c \in Callers, OpenUndone(c) PROVE Tables'
  <2>1. CallTables'
    BY <1>34 DEF OpenUndone, Returns
  <2>2. RestartTables'
    BY <1>34 DEF OpenUndone, Returns
  <2>3. Unused'
    BY <1>34 DEF OpenUndone, Returns
  <2>. QED  BY <2>1, <2>2, <2>3
<1>35. CASE ExitBegins
  <2>1. CallTables'
    BY <1>35 DEF ExitBegins, Loaded
  <2>2. RestartTables'
    BY <1>35 DEF ExitBegins, Loaded
  <2>3. Unused'
    BY <1>35 DEF ExitBegins, Loaded
  <2>. QED  BY <2>1, <2>2, <2>3
<1>36. CASE ExitJoins
  <2>1. CallTables'
    BY <1>36 DEF ExitJoins, Joinable
  <2>2. RestartTables'
    BY <1>36 DEF ExitJoins, Joinable
  <2>3. Unused'
    BY <1>36 DEF ExitJoins, Joinable
  <2>. QED  BY <2>1, <2>2, <2>3
<1>37. CASE UNCHANGED vars
  <2>1. CallTables'
    BY <1>37 DEF vars
  <2>2. RestartTables'
    BY <1>37 DEF vars
  <2>3. Unused'
    BY <1>37 DEF vars
  <2>. QED  BY <2>1, <2>2, <2>3
<1>38. ASSUME NEW p \in Procs, NoticeFails(p) PROVE Tables'
  <2>1. CallTables'
    BY <1>38 DEF NoticeFails
  <2>2. RestartTables'
    BY <1>38 DEF NoticeFails
  <2>3. Unused'
    BY <1>38 DEF NoticeFails
  <2>. QED  BY <2>1, <2>2, <2>3
<1>. QED
  BY <1>1, <1>2, <1>3, <1>4, <1>5, <1>6, <1>7, <1>8, <1>9, <1>10, <1>11, <1>12, <1>13, <1>14, <1>15, <1>16, <1>17, <1>18, <1>19, <1>20, <1>21, <1>22, <1>23, <1>24, <1>25, <1>26, <1>27, <1>28, <1>29, <1>30, <1>31, <1>32, <1>33, <1>34, <1>35, <1>36, <1>37, <1>38
     DEF Next, Process, Handler, Answers, Boots, Asks, Goes

\* Each step preserves the invariant.
LEMMA InductiveStep == IInv /\ [Next]_vars => IInv'
BY TypeStep, ControlStep, TablesStep, CallsStep DEF IInv

(* What holds in every state that can be reached: who has the lock, which process
   a notice is about, and where the two tables of handles stand. *)
THEOREM Inductive == Spec => []IInv
BY InductiveInit, InductiveStep, PTL DEF Spec

\* The types of the bridge's state.
THEOREM TypeCorrect == Spec => []TypeOK
<1>1. IInv => TypeOK
  BY DEF IInv
<1>. QED  BY <1>1, Inductive, PTL

(* Whenever a request can be sent, every handle of g_handles has an id of its own,
   open in the process on the handle's path, and the process has nothing else
   open: through any number of crashes, restarts and lost replies. *)
THEOREM TablesAlwaysAgree == Spec => []TablesAgree
<1>1. IInv => TablesAgree
  BY ConstantsAssumption DEF IInv, Tables, CallTables, Agrees, TablesAgree
<1>. QED  BY <1>1, Inductive, PTL

(* A process that is watched and has not ended is the current one or the one being
   started: process_destroy is never skipped. *)
THEOREM NothingLeftBehind == Spec => []NoOrphan
<1>1. IInv => NoOrphan
  BY DEF IInv, TypeOK, Watched, NoOrphan
<1>. QED  BY <1>1, Inductive, PTL

(* process_finished never closes a connection that works: a notice that is acted
   upon is about the process in use. *)
THEOREM OnlyTheDeadKilled == Spec => KillsOnlyTheDead
<1>. DEFINE Kill == gipcc # None /\ gipcc' # gipcc => life[gipcc] = "dead" \/ exit' # "no"
<1>1. IInv /\ [Next]_vars => [Kill]_<<gipcc, exit>>
  <2>. SUFFICES ASSUME IInv, [Next]_vars, gipcc # None, gipcc' # gipcc
                PROVE  life[gipcc] = "dead" \/ exit' # "no"
    OBVIOUS
  <2>. USE DEF procVars, clientVars, bootVars, callVars
  <2>1. stage \in {"none", "declare"} /\ lock \notin Procs \cup {Starter} /\ gipcc = gproc
    BY DEF IInv, Current, LockOwner, Stages
  <2>2. ASSUME NEW p \in Procs, HandlerLocks(p) PROVE life[gipcc] = "dead"
    BY <2>1, <2>2 DEF HandlerLocks, IInv, Notices, OfCurrent, Watched
  <2>3. CASE ExitBegins
    BY <2>3 DEF ExitBegins
  <2>4. \/ \E p \in Procs : HandlerLocks(p)
        \/ ExitBegins
    BY <2>1 DEF Next, Process, Handler, Answers, Boots, Asks, Goes, vars, ComesUp, Dies,
         Noticed, NoticeFails, ReadsState, StoresExiting, HandlerJoins, UserSaysOK, UserCancels, Start,
         CreatesProcess, WatcherFails, CreateFails, DeadlinePasses, Connects, GivesUp,
         Restores, RestoreFails, RestoreEnds, DropJoins, Publishes, StarterUnlocks,
         Declares, Fails, Open, Read, Close, Config, Begins, Takes, CallFails, Returns,
         Serves, GetsReply, LosesReply, OpenUndone, ExitJoins
  <2>. QED  BY <2>2, <2>3, <2>4
<1>. QED  BY <1>1, Inductive, PTL DEF Spec, KillsOnlyTheDead
================================================================================

---------------------------- MODULE BridgeBuffer ----------------------------
(***************************************************************************)
(* How what is read crosses the bridge: the server writes it to a named     *)
(* file mapping object that only ever grows, by being replaced under a new  *)
(* name, and replies with the name; the client keeps the object it opened   *)
(* last and opens another when the name differs.  The server may die at any *)
(* moment and be replaced by one that has no object yet and draws names     *)
(* from the same set, while the client goes on holding the object of the    *)
(* dead one.  A named object exists as long as somebody holds it.           *)
(***************************************************************************)
EXTENDS Naturals

CONSTANTS Names,     \* names of file mapping objects
          Objects,   \* the objects themselves, enough for all that are held
          MaxBytes,  \* bound on the size of a request
          Datas,     \* what a read may return
          Null       \* no object, no name, no data

ASSUME ConstantsAssumption == /\ MaxBytes \in Nat
                              /\ Null \notin Names \cup Objects \cup Datas

VARIABLES
  srv,      \* g_fmo of the server
  cli,      \* g_fmo of the client
  cliName,  \* g_fmo_name of the client
  name,     \* the name, the size and the content of each object
  size,
  data,
  phase,    \* how far the call to func_read_video or func_read_audio has come
  bytes,    \* the size it asks for
  want,     \* what the server reads for it
  reply,    \* the name of the object in its reply
  got       \* what the client has copied

objVars == <<name, size, data>>
vars == <<srv, cli, cliName, objVars, phase, bytes, want, reply, got>>

Alive == {srv, cli} \ {Null}

Init == /\ srv = Null /\ cli = Null /\ cliName = Null
        /\ name = [o \in Objects |-> Null]
        /\ size = [o \in Objects |-> 0]
        /\ data = [o \in Objects |-> Null]
        /\ phase = "idle" /\ bytes = 0 /\ want = Null
        /\ reply = Null /\ got = Null

\* call_read sends a request; no two contents in memory are the same, so
\* that a stale one shows.
Requests(b, d) == /\ phase = "idle"
                  /\ \A o \in Alive : data[o] # d
                  /\ phase' = "asked"
                  /\ bytes' = b /\ want' = d /\ got' = Null
                  /\ UNCHANGED <<srv, cli, cliName, objVars, reply>>

\* g_fmo_bytes, zero in a new process.
Capacity == IF srv = Null THEN 0 ELSE size[srv]

\* create_fmo tries other names while the name exists, and gives up after five.
Free(n) == \A o \in Alive : name[o] # n

Grows(o, n) == /\ phase = "asked" /\ Capacity < bytes
               /\ o \in Objects \ Alive /\ Free(n)
               /\ srv' = o
               /\ name' = [name EXCEPT ![o] = n]
               /\ size' = [size EXCEPT ![o] = bytes]
               /\ data' = [data EXCEPT ![o] = Null]
               /\ UNCHANGED <<cli, cliName, phase, bytes, want, reply, got>>

\* The object is mapped and func_read_video or func_read_audio fills it.
Writes == /\ phase = "asked" /\ Capacity >= bytes /\ srv # Null
          /\ data' = [data EXCEPT ![srv] = want]
          /\ phase' = "written"
          /\ UNCHANGED <<srv, cli, cliName, name, size, bytes, want, reply, got>>

\* An error reply (also for a size of zero before there is any object), or
\* the process has died.
ReadFails == /\ phase = "asked"
             /\ phase' = "idle"
             /\ UNCHANGED <<srv, cli, cliName, objVars, bytes, want, reply, got>>

\* Mutant: the reply carries the object instead of its name.
MutantReplies == /\ phase = "written" /\ srv # Null
                 /\ reply' = srv
                 /\ phase' = "replied"
                 /\ UNCHANGED <<srv, cli, cliName, objVars, bytes, want, got>>

\* The reply carries g_fmo_name; once it is under way the server may be gone.
Replies == /\ phase = "written" /\ srv # Null
           /\ reply' = name[srv]
           /\ phase' = "replied"
           /\ UNCHANGED <<srv, cli, cliName, objVars, bytes, want, got>>

LosesReply == /\ phase = "written" /\ srv = Null
              /\ phase' = "idle"
              /\ UNCHANGED <<srv, cli, cliName, objVars, bytes, want, reply, got>>

\* The process ends and with it its handle; a new one starts with nothing.
Dies == /\ srv # Null
        /\ srv' = Null
        /\ UNCHANGED <<cli, cliName, objVars, phase, bytes, want, reply, got>>

\* Mutant: what has been opened once is used for ever.
MutantOtherName(n) == cliName = Null

OtherName(n) == cliName # n

\* The name differs: the object of that name replaces the one held.
Reopens(o) == /\ phase = "replied" /\ OtherName(reply)
              /\ o \in Alive /\ name[o] = reply
              /\ cli' = o
              /\ cliName' = reply
              /\ phase' = "mapping"
              /\ UNCHANGED <<srv, objVars, bytes, want, reply, got>>

\* OpenFileMapping fails, maybe because the server has just died: the check
\* that follows tests another variable, so NULL is kept with the name.
OpenFails == /\ phase = "replied" /\ OtherName(reply)
             /\ cli' = Null
             /\ cliName' = reply
             /\ phase' = "mapping"
             /\ UNCHANGED <<srv, objVars, bytes, want, reply, got>>

KeepsObject == /\ phase = "replied" /\ ~OtherName(reply)
               /\ phase' = "mapping"
               /\ UNCHANGED <<srv, cli, cliName, objVars, bytes, want, reply, got>>

\* MapViewOfFile and memcpy.
Copies == /\ phase = "mapping"
          /\ cli # Null /\ size[cli] >= bytes
          /\ got' = data[cli]
          /\ phase' = "idle"
          /\ UNCHANGED <<srv, cli, cliName, objVars, bytes, want, reply>>

MapFails == /\ phase = "mapping"
            /\ phase' = "idle"
            /\ UNCHANGED <<srv, cli, cliName, objVars, bytes, want, reply, got>>

Next == \/ \E b \in 0..MaxBytes, d \in Datas : Requests(b, d)
        \/ \E o \in Objects, n \in Names : Grows(o, n)
        \/ Writes \/ ReadFails \/ Replies \/ LosesReply \/ Dies
        \/ \E o \in Objects : Reopens(o)
        \/ OpenFails \/ KeepsObject \/ Copies \/ MapFails

Spec == Init /\ [][Next]_vars
-----------------------------------------------------------------------------
TypeOK == /\ {srv, cli} \subseteq Objects \cup {Null}
          /\ cliName \in Names \cup {Null}
          /\ name \in [Objects -> Names \cup {Null}]
          /\ size \in [Objects -> 0..MaxBytes]
          /\ data \in [Objects -> Datas \cup {Null}]
          /\ phase \in {"idle", "asked", "written", "replied", "mapping"}
          /\ bytes \in 0..MaxBytes
          /\ {want, got} \subseteq Datas \cup {Null}
          /\ reply \in Names \cup {Null}

\* A read never shows what another read, or a process that is gone, has left
\* in memory: what the client copies is what the server read for this call.
RightBytes == got # Null => got = want

\* The name in the client's hand still means the object in its hand: while the
\* client holds an object nobody else can be given its name, so a new process
\* that draws the name of an old object does not get it.
NameMeansObject ==
  cli # Null => name[cli] = cliName /\ (srv # Null /\ name[srv] = cliName => srv = cli)
=============================================================================

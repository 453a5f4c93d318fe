-------------------------------- MODULE Rpc --------------------------------
(***************************************************************************)
(* What the bridge relies on when it calls ipcclient_call: a request is     *)
(* handled at most once, a call that returns a reply returns the reply to   *)
(* its own request, after it was handled, and a call may fail whether or    *)
(* not its request was, or still will be, handled.  Nothing is promised on  *)
(* a connection on which a call has stopped in the middle of its reply.     *)
(***************************************************************************)
EXTENDS Naturals

CONSTANT Clients    \* the users of a connection

VARIABLES asked,    \* how many requests each client has made
          served,   \* how many of them have been handled
          waiting,  \* is the client inside a call
          result,   \* how its last call ended
          half      \* has a call stopped in the middle of its reply

vars == <<asked, served, waiting, result, half>>

Init == /\ asked = [c \in Clients |-> 0]
        /\ served = [c \in Clients |-> 0]
        /\ waiting = [c \in Clients |-> FALSE]
        /\ result = [c \in Clients |-> "none"]
        /\ half = [c \in Clients |-> FALSE]

Ask(c) == /\ ~waiting[c]
          /\ asked' = [asked EXCEPT ![c] = @ + 1]
          /\ waiting' = [waiting EXCEPT ![c] = TRUE]
          /\ result' = [result EXCEPT ![c] = "none"]
          /\ UNCHANGED <<served, half>>

\* Requests are handled in order; one whose call has failed may be left out.
Serve(c) == /\ \E k \in (served[c] + 1)..asked[c] : served' = [served EXCEPT ![c] = k]
            /\ UNCHANGED <<asked, waiting, result, half>>

Returns(c, r) == /\ waiting[c]
                 /\ waiting' = [waiting EXCEPT ![c] = FALSE]
                 /\ result' = [result EXCEPT ![c] = r]
                 /\ UNCHANGED <<asked, served>>

Reply(c) == /\ served[c] = asked[c]
            /\ Returns(c, "reply")
            /\ UNCHANGED half

Fail(c) == /\ Returns(c, "failed")
           /\ \E b \in BOOLEAN : half' = [half EXCEPT ![c] = @ \/ b]

Garble(c) == /\ half[c]
             /\ Returns(c, "wrong")
             /\ UNCHANGED half

Next == \E c \in Clients :
  Ask(c) \/ Serve(c) \/ Reply(c) \/ Fail(c) \/ Garble(c)

Spec == Init /\ [][Next]_vars
=============================================================================

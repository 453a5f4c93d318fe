------------------------ MODULE BridgeBuffer_proofs ------------------------
(***************************************************************************)
(* The client of the bridge never copies stale bytes, whatever the numbers  *)
(* of names, objects and deaths of the server.  The invariant follows the   *)
(* content of the object through the call: it is the right one in the       *)
(* server's object once written, in every object of the name replied, and   *)
(* in the client's object once that is chosen.                              *)
(***************************************************************************)
EXTENDS BridgeBuffer, TLAPS

Follows ==
  /\ phase = "written" /\ srv # Null => data[srv] = want
  /\ phase = "replied" => \A o \in Alive : name[o] = reply => data[o] = want
  /\ phase = "mapping" /\ cli # Null => data[cli] = want

IInv == TypeOK /\ RightBytes /\ NameMeansObject /\ Follows

\* Before the first call nothing is mapped.
LEMMA InitIInv == Init => IInv
  BY ConstantsAssumption
  DEF Init, IInv, TypeOK, RightBytes, NameMeansObject, Follows, Alive

\* Typing needs no more than itself.
LEMMA Typing == TypeOK /\ [Next]_vars => TypeOK'
<1> SUFFICES ASSUME TypeOK, [Next]_vars PROVE TypeOK'
  OBVIOUS
<1> USE ConstantsAssumption DEF TypeOK, objVars
<1>1. ASSUME NEW b \in 0..MaxBytes, NEW d \in Datas, Requests(b, d) PROVE TypeOK'
  BY <1>1 DEF Requests
<1>2. ASSUME NEW o \in Objects, NEW n \in Names, Grows(o, n) PROVE TypeOK'
  BY <1>2 DEF Grows
<1>3. ASSUME Writes PROVE TypeOK'
  BY <1>3 DEF Writes
<1>4. ASSUME Replies PROVE TypeOK'
  BY <1>4 DEF Replies
<1>5. ASSUME ReadFails \/ LosesReply \/ Dies PROVE TypeOK'
  BY <1>5 DEF ReadFails, LosesReply, Dies
<1>6. ASSUME NEW o \in Objects, Reopens(o) PROVE TypeOK'
  BY <1>6 DEF Reopens
<1>7. ASSUME OpenFails \/ KeepsObject \/ MapFails PROVE TypeOK'
  BY <1>7 DEF OpenFails, KeepsObject, MapFails
<1>8. ASSUME Copies PROVE TypeOK'
  BY <1>8 DEF Copies
<1>9. CASE UNCHANGED vars
  BY <1>9 DEF vars
<1> QED
  BY <1>1, <1>2, <1>3, <1>4, <1>5, <1>6, <1>7, <1>8, <1>9 DEF Next

\* Each step of a read, on either side, preserves the invariant.
LEMMA Step == IInv /\ [Next]_vars => IInv'
<1> SUFFICES ASSUME IInv, [Next]_vars PROVE IInv'
  OBVIOUS
<1>t. TypeOK'
  BY Typing DEF IInv
<1> DEFINE Rest == RightBytes /\ NameMeansObject /\ Follows
<1> SUFFICES Rest'
  BY <1>t DEF IInv
<1> USE ConstantsAssumption
    DEF IInv, TypeOK, RightBytes, NameMeansObject, Follows, Alive, objVars
<1>1. ASSUME NEW b \in 0..MaxBytes, NEW d \in Datas, Requests(b, d) PROVE Rest'
  BY <1>1 DEF Requests
\* The new object is nobody's and its name is new among the living, so the
\* client's object keeps its name.
<1>2. ASSUME NEW o \in Objects, NEW n \in Names, Grows(o, n) PROVE Rest'
  <2>1. \A p \in Alive : name'[p] = name[p] /\ name[p] # n
    BY <1>2 DEF Grows, Free
  <2>2. srv' = o /\ name'[o] = n /\ cli' = cli /\ cliName' = cliName /\ phase' = "asked"
    BY <1>2 DEF Grows
  <2>3. NameMeansObject'
    BY <2>1, <2>2
  <2>4. RightBytes' /\ Follows'
    BY <1>2, <2>2 DEF Grows
  <2> QED
    BY <2>3, <2>4
<1>3. ASSUME Writes PROVE Rest'
  BY <1>3 DEF Writes
\* The one other object that may have the name replied is the client's, and
\* NameMeansObject says that it is the same.
<1>4. ASSUME Replies PROVE Rest'
  BY <1>4 DEF Replies
<1>5. ASSUME ReadFails \/ LosesReply \/ Dies PROVE Rest'
  BY <1>5 DEF ReadFails, LosesReply, Dies
<1>6. ASSUME NEW o \in Objects, Reopens(o) PROVE Rest'
  BY <1>6 DEF Reopens
<1>7. ASSUME OpenFails \/ KeepsObject \/ MapFails PROVE Rest'
  BY <1>7 DEF OpenFails, KeepsObject, MapFails, OtherName
<1>8. ASSUME Copies PROVE Rest'
  BY <1>8 DEF Copies
<1>9. CASE UNCHANGED vars
  BY <1>9 DEF vars
<1> QED
  BY <1>1, <1>2, <1>3, <1>4, <1>5, <1>6, <1>7, <1>8, <1>9 DEF Next

\* Everything the proofs rest on holds in every state.
THEOREM Inductive == Spec => []IInv
  BY InitIInv, Step, PTL DEF Spec

\* Type correctness of the buffer protocol.
THEOREM TypeCorrect == Spec => []TypeOK
<1>1. IInv => TypeOK
  BY DEF IInv
<1> QED
  BY <1>1, Inductive, PTL

\* call_read hands out what the server read for this call and nothing older.
THEOREM NoStaleBytes == Spec => []RightBytes
<1>1. IInv => RightBytes
  BY DEF IInv
<1> QED
  BY <1>1, Inductive, PTL

\* As long as the client holds an object its name is not given away.
THEOREM NamesAreSafe == Spec => []NameMeansObject
<1>1. IInv => NameMeansObject
  BY DEF IInv
<1> QED
  BY <1>1, Inductive, PTL
=============================================================================

------------------------- MODULE SubStreams_proofs -------------------------
(***************************************************************************)
(* Proofs about the sub-decoders, for every capacity.                      *)
(***************************************************************************)
EXTENDS SubStreams, TLAPS

USE CapAssumption

\* The invariant holds of an object that does not exist yet.
LEMMA InductiveInit == Init => IInv
BY DEF Init, IInv, TypeOK, SlotStates, ThreadBehind, SeenOpen, NoUseAfterFree, Slots

\* Each step of the owner and of the thread preserves the invariant.
LEMMA InductiveStep == IInv /\ [Next]_vars => IInv'
<1>. SUFFICES ASSUME IInv, [Next]_vars PROVE IInv'
  OBVIOUS
<1>. USE DEF IInv, TypeOK, SlotStates, ThreadBehind, SeenOpen, NoUseAfterFree,
             Slots, Target
<1>1. ASSUME NEW ok \in BOOLEAN, Create(ok)
      PROVE  IInv'
  BY <1>1 DEF Create
<1>2. CASE CreateFails
  BY <1>2 DEF CreateFails
<1>3. ASSUME NEW started \in BOOLEAN, Find(started)
      PROVE  IInv'
  <2>1. CASE started
    BY <1>3, <2>1 DEF Find, MayStart, Snapshot
  <2>2. CASE ~started
    BY <1>3, <2>2 DEF Find, Snapshot
  <2>. QED  BY <2>1, <2>2
<1>4. ASSUME NEW i \in Slots, Scan(i)
      PROVE  IInv'
  BY <1>4 DEF Scan
<1>5. CASE Read \/ ReadDone
  BY <1>5 DEF Read, ReadDone
<1>6. CASE Destroy \/ TellToClose
  <2>1. CASE Destroy
    BY <2>1 DEF Destroy
  <2>2. CASE TellToClose
    <3>1. CASE status = "running"
      BY <2>2, <3>1 DEF TellToClose
    <3>2. CASE status # "running"
      BY <2>2, <3>2 DEF TellToClose
    <3>. QED  BY <3>1, <3>2
  <2>. QED  BY <1>6, <2>1, <2>2
<1>7. CASE Join
  BY <1>7 DEF Join, Joined
<1>8. CASE CloseOne
  <2>1. TypeOK' /\ ThreadBehind' /\ SeenOpen' /\ NoUseAfterFree'
    BY <1>8 DEF CloseOne, ToClose
  <2>2. SlotStates'
    BY <1>8 DEF CloseOne, ToClose
  <2>. QED  BY <2>1, <2>2
<1>9. CASE Free
  BY <1>9 DEF Free, ToClose
<1>10. CASE Check
  BY <1>10 DEF Check, MustStop
<1>11. CASE Clear
  BY <1>11 DEF Clear
<1>12. CASE OpenBegins
  BY <1>12 DEF OpenBegins
<1>13. ASSUME NEW ok \in BOOLEAN, OpenEnds(ok)
       PROVE  IInv'
  BY <1>13 DEF OpenEnds
<1>14. CASE Publish
  BY <1>14 DEF Publish
<1>15. CASE UNCHANGED vars
  BY <1>15 DEF vars
<1>. QED
  BY <1>1, <1>2, <1>3, <1>4, <1>5, <1>6, <1>7, <1>8, <1>9, <1>10, <1>11,
     <1>12, <1>13, <1>14, <1>15 DEF Next, InCall, Thread, Over

(* The inductive invariant of the two threads holds in every state. *)
THEOREM Inductive == Spec => []IInv
BY InductiveInit, InductiveStep, PTL DEF Spec

(* The variables keep their ranges: len and the thread's copy of it never
   leave 0..cap.                                                           *)
THEOREM TypeCorrect == Spec => []TypeOK
<1>1. IInv => TypeOK
  BY DEF IInv
<1>. QED  BY <1>1, Inductive, PTL

(* find_stream and video_read only touch decoders that are open and that the
   thread is not filling, although they run outside the lock.              *)
THEOREM ReadersAreSafe == Spec => []NoSlotRace
<1>1. IInv => NoSlotRace
  BY DEF IInv, TypeOK, NoSlotRace, Filling, SeenOpen, SlotStates, ThreadBehind,
         Target
<1>. QED  BY <1>1, Inductive, PTL

(* The thread has returned before its decoders are closed and freed. *)
THEOREM JoinedBeforeFreed == Spec => []NoUseAfterFree
<1>1. IInv => NoUseAfterFree
  BY DEF IInv
<1>. QED  BY <1>1, Inductive, PTL

(* Destroying the object closes every decoder that was ever opened. *)
THEOREM NothingLeaks == Spec => []NoLeak
<1>1. IInv => NoLeak
  BY DEF IInv, TypeOK, NoLeak, NoUseAfterFree, SlotStates, Slots
<1>. QED  BY <1>1, Inductive, PTL

(* The thread and the owner leave published decoders alone. *)
THEOREM PublishedUntouched == Spec => PublishedStays
<1>1. ASSUME IInv, [Next]_vars, owner # "freeing"
      PROVE  len' >= len /\ \A i \in 1..len : slots'[i] = slots[i]
  BY <1>1
  DEF IInv, TypeOK, SlotStates, ThreadBehind, Slots, Next, InCall, Thread, Over,
      vars, Create, CreateFails, Find, Scan, Read, ReadDone, Destroy, TellToClose,
      Join, CloseOne, Free, Check, Clear, OpenBegins, OpenEnds, Publish, Target
<1>2. IInv /\ [Next]_vars => [KeepsPublished]_vars
  BY <1>1 DEF KeepsPublished
<1>. QED  BY <1>2, Inductive, PTL DEF Spec, PublishedStays

=============================================================================

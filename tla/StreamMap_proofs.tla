-------------------------- MODULE StreamMap_proofs --------------------------
(***************************************************************************)
(* Proofs about the stream map, for every number of paths, files, streams, *)
(* pool slots and handles.  IInv of StreamMap.tla is inductive; the        *)
(* properties the model checker looks at on small instances follow.        *)
(***************************************************************************)
EXTENDS StreamMap, FiniteSetTheorems, TLAPS

USE ConstantsAssumption

(* Sets of keys and of slots are finite and count up and down by one. *)
LEMMA Counting ==
  ASSUME NEW n \in Nat, NEW S \in SUBSET (1..n)
  PROVE  /\ Cardinality(S) \in Nat
         /\ S = {} <=> Cardinality(S) = 0
         /\ \A x \in 1..n : x \notin S => Cardinality(S \cup {x}) = Cardinality(S) + 1
         /\ \A x \in S : Cardinality(S \ {x}) = Cardinality(S) - 1
         /\ Cardinality(S) <= 1 => \A x, y \in S : x = y
<1>1. IsFiniteSet(S)
  <2>1. IsFiniteSet(1..n)
    BY FS_Interval
  <2>. QED  BY <2>1, FS_Subset
<1>2. Cardinality(S) \in Nat /\ (S = {} <=> Cardinality(S) = 0)
  BY <1>1, FS_CardinalityType, FS_EmptySet
<1>3. \A x \in 1..n : x \notin S => Cardinality(S \cup {x}) = Cardinality(S) + 1
  BY <1>1, FS_AddElement
<1>4. \A x \in S : Cardinality(S \ {x}) = Cardinality(S) - 1
  BY <1>1, FS_RemoveElement
<1>5. ASSUME Cardinality(S) <= 1, NEW x \in S, NEW y \in S
      PROVE  x = y
  <2>1. IsFiniteSet(S \ {x}) /\ Cardinality(S \ {x}) = 0
    BY <1>1, <1>2, <1>4, <1>5, FS_RemoveElement
  <2>2. S \ {x} = {}
    BY <2>1, FS_EmptySet
  <2>. QED  BY <2>2
<1>. QED  BY <1>2, <1>3, <1>4, <1>5

\* Sets of keys are finite; one more key is one more.
LEMMA KeySets ==
  ASSUME NEW S \in SUBSET Keys, NEW k \in Keys
  PROVE  /\ Cardinality(S) \in Nat
         /\ k \notin S => Cardinality(S \cup {k}) = Cardinality(S) + 1
         /\ k \in S => Cardinality(S \ {k}) = Cardinality(S) - 1
BY Counting DEF Keys

\* So are sets of slots.
LEMMA SlotSets ==
  ASSUME NEW S \in SUBSET Slots, NEW i \in Slots
  PROVE  /\ Cardinality(S) \in Nat
         /\ i \notin S => Cardinality(S \cup {i}) = Cardinality(S) + 1
         /\ i \in S => Cardinality(S \ {i}) = Cardinality(S) - 1
         /\ i \in S => Cardinality(S) > 0
BY Counting DEF Slots

(* What a stream's owners count to, in any state. *)
LEMMA OwnerCounts ==
  ASSUME NEW s
  PROVE  /\ Cardinality(InMap(s)) \in Nat
         /\ Cardinality(InPool(s)) \in Nat
         /\ Cardinality(Orphans(s)) \in Nat
         /\ Held(s) = Cardinality(InMap(s)) + Cardinality(InPool(s))
<1>1. InMap(s) \in SUBSET (1..MaxKey) /\ Orphans(s) \in SUBSET (1..MaxKey)
  BY DEF InMap, Orphans, Keys
<1>2. InPool(s) \in SUBSET (1..KeepLength)
  BY DEF InPool, Slots
<1>. QED  BY <1>1, <1>2, Counting DEF Held

-----------------------------------------------------------------------------
\* The empty map is well-typed.
LEMMA TypeInit == Init => TypeOK
BY DEF Init, TypeOK, Freed, NoItem, EmptySlot, StreamRec, Info, Versions, Slots

\* Releasing a stream keeps the heap well-typed.
LEMMA ReleaseType ==
  ASSUME NEW h \in [Streams -> StreamRec], NEW s \in Streams
  PROVE  Release(h, s) \in [Streams -> StreamRec]
BY DEF Release, StreamRec, Freed, Info

\* So does opening one of its decoders.
LEMMA OpenedType ==
  ASSUME NEW h \in [Streams -> StreamRec], NEW s \in Streams
  PROVE  /\ [h EXCEPT ![s].v = TRUE] \in [Streams -> StreamRec]
         /\ [h EXCEPT ![s].a = TRUE] \in [Streams -> StreamRec]
<1>1. ASSUME NEW r \in StreamRec
      PROVE  [r EXCEPT !.v = TRUE] \in StreamRec /\ [r EXCEPT !.a = TRUE] \in StreamRec
  BY DEF StreamRec
<1>. QED  BY <1>1

\* So does giving it a key.
LEMMA InsertType ==
  ASSUME TypeOK, NEW s \in Streams, NEW p \in Paths, NEW stored \in BOOLEAN,
         Insert(s, p, stored)
  PROVE  /\ map' \in [Keys -> [stream : Streams \cup {NoStream}, resampler : BOOLEAN]]
         /\ key_index' \in 0..MaxKey
         /\ orphan' \in [Keys -> Streams \cup {NoStream}]
         /\ via' \in [Keys -> Paths \cup {NoFile}]
         /\ key_index + 1 \in Keys
<1>1. key_index' \in 0..MaxKey /\ key_index + 1 \in Keys
  BY DEF Insert, TypeOK, Keys
<1>2. CASE stored
  <2>1. [stream |-> s, resampler |-> FALSE]
          \in [stream : Streams \cup {NoStream}, resampler : BOOLEAN]
    OBVIOUS
  <2>2. /\ map' = [map EXCEPT ![key_index + 1] = [stream |-> s, resampler |-> FALSE]]
        /\ via' = [via EXCEPT ![key_index + 1] = p]
        /\ orphan' = orphan
    BY <1>2 DEF Insert
  <2>. QED  BY <1>1, <2>1, <2>2 DEF TypeOK
<1>3. CASE ~stored
  BY <1>1, <1>3 DEF Insert, TypeOK
<1>. QED  BY <1>1, <1>2, <1>3

(* TypeOK is inductive on its own but for one fact: a pool slot found by its
   file id, and an item found by its key, hold a stream.                   *)
LEMMA TypeStep ==
  ASSUME TypeOK, BlankWithoutStream, [Next]_vars
  PROVE  TypeOK'
<1>. USE DEF TypeOK
<1>1. ASSUME NEW p \in Paths, NEW stored \in BOOLEAN, OpenFromPool(p, stored)
      PROVE  TypeOK'
  <2>. PICK i \in PoolHits(fs[p]) : /\ Insert(pool[i].stream, p, stored)
                                    /\ pool' = TakeSlot(i)
    BY <1>1 DEF OpenFromPool
  <2>1. i \in Slots /\ pool[i].stream \in Streams
    BY <1>1 DEF OpenFromPool, PoolHits, BlankWithoutStream, Slots, EmptySlot
  <2>. QED  BY <1>1, <2>1, InsertType DEF OpenFromPool, TakeSlot, EmptySlot
<1>2. ASSUME NEW p \in Paths, NEW stored \in BOOLEAN, OpenFromMap(p, stored)
      PROVE  TypeOK'
  <2>. PICK s \in MapHits(fs[p]) : /\ Insert(s, p, stored)
                                   /\ heap' = [heap EXCEPT ![s].refcount = @ + 1]
    BY <1>2 DEF OpenFromMap
  <2>1. s \in Streams
    BY DEF MapHits
  <2>2. heap' \in [Streams -> StreamRec]
    BY <2>1 DEF StreamRec
  <2>3. UNCHANGED <<fs, ver, pool, pool_length, phase, pending>>
    BY <1>2 DEF OpenFromMap
  <2>4. /\ map' \in [Keys -> [stream : Streams \cup {NoStream}, resampler : BOOLEAN]]
        /\ key_index' \in 0..MaxKey
        /\ orphan' \in [Keys -> Streams \cup {NoStream}]
        /\ via' \in [Keys -> Paths \cup {NoFile}]
    BY <2>1, InsertType
  <2>. QED  BY <2>2, <2>3, <2>4
<1>3. ASSUME NEW c \in pending, NEW stored \in BOOLEAN, NEW s \in Streams,
             NEW hasVideo \in BOOLEAN, NEW hasAudio \in BOOLEAN,
             OpenNew(c, s, hasVideo, hasAudio, stored)
      PROVE  TypeOK'
  <2>. c.path \in Paths
    OBVIOUS
  <2>1. NewStream(fs[c.path], MayShare /\ Moved(c), hasVideo, hasAudio) \in StreamRec
    <3>1. (MayShare /\ Moved(c)) \in BOOLEAN
      BY DEF MayShare, Moved
    <3>. HIDE DEF MayShare, Moved
    <3>. QED  BY <1>3, <3>1 DEF OpenNew, NewStream, StreamRec, Info, Versions
  <2>2. Insert(s, c.path, stored)
    BY <1>3 DEF OpenNew
  <2>3. heap' \in [Streams -> StreamRec]
    BY <1>3, <2>1 DEF OpenNew
  <2>4. UNCHANGED <<fs, ver, pool, pool_length, phase>> /\ pending' = {}
    BY <1>3 DEF OpenNew
  <2>5. /\ map' \in [Keys -> [stream : Streams \cup {NoStream}, resampler : BOOLEAN]]
        /\ key_index' \in 0..MaxKey
        /\ orphan' \in [Keys -> Streams \cup {NoStream}]
        /\ via' \in [Keys -> Paths \cup {NoFile}]
    BY <2>2, InsertType
  <2>. QED  BY <2>3, <2>4, <2>5
<1>4. ASSUME NEW k \in Keys, CloseAndRelease(k)
      PROVE  TypeOK'
  <2>1. map[k].stream \in Streams
    BY <1>4 DEF CloseAndRelease, BlankWithoutStream
  <2>. QED  BY <1>4, <2>1, ReleaseType DEF CloseAndRelease, NoItem
<1>5. ASSUME NEW k \in Keys, NEW t \in Times, CloseToPool(k, t)
      PROVE  TypeOK'
  <2>1. map[k].stream \in Streams
    BY <1>5 DEF CloseToPool, BlankWithoutStream
  <2>2. heap[map[k].stream].file \in Files \cup {NoFile}
    BY <2>1 DEF StreamRec
  <2>. PICK i \in 1..pool_length :
         /\ pool' = [pool EXCEPT ![i] = Pooled(map[k].stream, t)]
         /\ heap' = IF pool[i].stream = NoStream THEN heap
                                                 ELSE Release(heap, pool[i].stream)
    BY <1>5 DEF CloseToPool
  <2>3. i \in Slots
    BY DEF Slots
  <2>4. heap' \in [Streams -> StreamRec]
    BY <2>3, ReleaseType
  <2>. QED  BY <1>5, <2>1, <2>2, <2>3, <2>4 DEF CloseToPool, NoItem, Pooled
<1>6. ASSUME NEW k \in Keys, ReadVideo(k)
      PROVE  TypeOK'
  <2>1. map[k].stream \in Streams
    BY <1>6 DEF ReadVideo, BlankWithoutStream
  <2>2. heap' \in [Streams -> StreamRec]
    BY <1>6, <2>1, OpenedType DEF ReadVideo
  <2>. QED  BY <1>6, <2>2 DEF ReadVideo
<1>7. ASSUME NEW k \in Keys, NEW resampled \in BOOLEAN, ReadAudio(k, resampled)
      PROVE  TypeOK'
  <2>1. map[k].stream \in Streams
    BY <1>7 DEF ReadAudio, BlankWithoutStream
  <2>2. heap' \in [Streams -> StreamRec]
    BY <1>7, <2>1, OpenedType DEF ReadAudio
  <2>3. map' \in [Keys -> [stream : Streams \cup {NoStream}, resampler : BOOLEAN]]
    BY <1>7 DEF ReadAudio
  <2>. QED  BY <1>7, <2>2, <2>3 DEF ReadAudio
<1>8. CASE Exit
  <2>1. ASSUME NEW s \in Streams PROVE heap'[s] \in StreamRec
    <3>1. Held(s) \in Nat
      BY OwnerCounts
    <3>2. CASE heap[s].refcount > Held(s)
      <4>1. heap'[s] = [heap[s] EXCEPT !.refcount = @ - Held(s)]
        BY <1>8, <3>2 DEF Exit
      <4>2. heap[s] \in StreamRec
        OBVIOUS
      <4>3. heap[s].refcount - Held(s) \in Nat
        BY <3>1, <3>2, <4>2 DEF StreamRec
      <4>. QED  BY <4>1, <4>2, <4>3 DEF StreamRec
    <3>3. CASE ~(heap[s].refcount > Held(s))
      <4>1. heap'[s] = Freed
        BY <1>8, <3>3 DEF Exit
      <4>2. Freed \in StreamRec
        BY DEF Freed, StreamRec, Info
      <4>. QED  BY <4>1, <4>2
    <3>. QED  BY <3>2, <3>3
  <2>2. heap' \in [Streams -> StreamRec]
    BY <1>8, <2>1 DEF Exit
  <2>. QED  BY <1>8, <2>2 DEF Exit, NoItem, EmptySlot
<1>9. ASSUME NEW f \in Files, Rewrite(f)
      PROVE  TypeOK'
  BY <1>9 DEF Rewrite, Versions
<1>10. ASSUME NEW p \in Paths, NEW f \in Files \cup {NoFile}, Relink(p, f)
       PROVE  TypeOK'
  BY <1>10 DEF Relink
<1>11. CASE UNCHANGED vars
  BY <1>11 DEF vars
<1>12. ASSUME NEW p \in Paths, Lookup(p)
       PROVE  TypeOK'
  BY <1>12 DEF Lookup
<1>13. CASE OpenGivesUp
  BY <1>13 DEF OpenGivesUp
<1>. QED
  BY <1>1, <1>2, <1>3, <1>4, <1>5, <1>6, <1>7, <1>8, <1>9, <1>10, <1>11, <1>12, <1>13
  DEF Next, Reuse, Create, Close

-----------------------------------------------------------------------------
(* The hmset of an open adds one owner to its stream: the new handle when it
   succeeds, the orphaned key when it fails.                               *)
LEMMA InsertOwners ==
  ASSUME TypeOK, KeysInOrder, NEW s0 \in Streams, NEW p \in Paths,
         NEW stored \in BOOLEAN, Insert(s0, p, stored), NEW s \in Streams
  PROVE  Cardinality(InMap(s)') + Cardinality(Orphans(s)')
           = Cardinality(InMap(s)) + Cardinality(Orphans(s)) + (IF s = s0 THEN 1 ELSE 0)
<1>. DEFINE k == key_index + 1
<1>1. k \in Keys /\ k \notin InMap(s) /\ k \notin Orphans(s)
  BY InsertType DEF TypeOK, KeysInOrder, NoItem, InMap, Orphans
<1>2. InMap(s) \in SUBSET Keys /\ Orphans(s) \in SUBSET Keys
  BY DEF InMap, Orphans
<1>3. /\ Cardinality(InMap(s) \cup {k}) = Cardinality(InMap(s)) + 1
      /\ Cardinality(Orphans(s) \cup {k}) = Cardinality(Orphans(s)) + 1
  BY <1>1, <1>2, KeySets
<1>4. CASE stored
  <2>1. /\ map' = [map EXCEPT ![k] = [stream |-> s0, resampler |-> FALSE]]
        /\ orphan' = orphan
    BY <1>4 DEF Insert
  <2>2. InMap(s)' = IF s = s0 THEN InMap(s) \cup {k} ELSE InMap(s)
    BY <1>1, <2>1 DEF InMap, TypeOK
  <2>3. Orphans(s)' = Orphans(s)
    BY <2>1 DEF Orphans
  <2>. QED  BY <1>3, <2>2, <2>3, OwnerCounts
<1>5. CASE ~stored
  <2>1. map' = map /\ orphan' = [orphan EXCEPT ![k] = s0]
    BY <1>5 DEF Insert
  <2>2. Orphans(s)' = IF s = s0 THEN Orphans(s) \cup {k} ELSE Orphans(s)
    BY <1>1, <2>1 DEF Orphans, TypeOK
  <2>3. InMap(s)' = InMap(s)
    BY <2>1 DEF InMap
  <2>. QED  BY <1>3, <2>2, <2>3, OwnerCounts
<1>. QED  BY <1>4, <1>5

(* Deleting an item takes one owner from its stream. *)
LEMMA DeleteOwners ==
  ASSUME TypeOK, NEW k \in Keys, map[k].stream \in Streams,
         map' = [map EXCEPT ![k] = NoItem], NEW s \in Streams
  PROVE  Cardinality(InMap(s)')
           = Cardinality(InMap(s)) - (IF s = map[k].stream THEN 1 ELSE 0)
<1>1. InMap(s) \in SUBSET Keys
  BY DEF InMap
<1>2. InMap(s)' = IF s = map[k].stream THEN InMap(s) \ {k} ELSE InMap(s)
  BY DEF InMap, TypeOK, NoItem
<1>3. s = map[k].stream => k \in InMap(s)
  BY DEF InMap
<1>4. /\ Cardinality(InMap(s)) \in Nat
      /\ k \in InMap(s) => Cardinality(InMap(s) \ {k}) = Cardinality(InMap(s)) - 1
  BY <1>1, KeySets
<1>. QED  BY <1>2, <1>3, <1>4

(* Overwriting a slot takes an owner from the stream that was there and gives
   one to the stream put there.                                            *)
LEMMA SlotOwners ==
  ASSUME TypeOK, NEW i \in Slots, NEW x \in Streams \cup {NoStream},
         \A j \in Slots : pool'[j].stream = IF j = i THEN x ELSE pool[j].stream,
         NEW s \in Streams
  PROVE  Cardinality(InPool(s)')
           = Cardinality(InPool(s)) - (IF s = pool[i].stream THEN 1 ELSE 0)
                                    + (IF s = x THEN 1 ELSE 0)
<1>. DEFINE rest == InPool(s) \ {i}
<1>1. InPool(s) \in SUBSET Slots /\ rest \in SUBSET Slots /\ i \notin rest
  BY DEF InPool
<1>2. /\ Cardinality(InPool(s)) \in Nat /\ Cardinality(rest) \in Nat
      /\ i \in InPool(s) => Cardinality(rest) = Cardinality(InPool(s)) - 1
      /\ Cardinality(rest \cup {i}) = Cardinality(rest) + 1
  BY <1>1, SlotSets
<1>3. /\ i \in InPool(s) <=> s = pool[i].stream
      /\ i \notin InPool(s) => rest = InPool(s)
  BY DEF InPool
<1>4. InPool(s)' = IF s = x THEN rest \cup {i} ELSE rest
  BY DEF InPool, TypeOK
<1>. HIDE DEF rest
<1>. QED  BY <1>2, <1>3, <1>4

-----------------------------------------------------------------------------
\* Releasing a stream takes one reference from it and leaves the others alone.
LEMMA ReleaseEffect ==
  ASSUME NEW h \in [Streams -> StreamRec], NEW s0 \in Streams, NEW s \in Streams
  PROVE  /\ s # s0 => Release(h, s0)[s] = h[s]
         /\ s = s0 => Release(h, s0)[s].refcount
                        = IF h[s].refcount > 1 THEN h[s].refcount - 1 ELSE 0
         /\ Release(h, s0)[s].refcount > 0 =>
              /\ Release(h, s0)[s].file = h[s].file
              /\ Release(h, s0)[s].vi = h[s].vi
              /\ Release(h, s0)[s].ai = h[s].ai
              /\ Release(h, s0)[s].a = h[s].a
              /\ Release(h, s0)[s].stray = h[s].stray
<1>1. CASE h[s0].refcount > 1
  <2>1. Release(h, s0) = [h EXCEPT ![s0].refcount = @ - 1]
    BY <1>1 DEF Release
  <2>. QED  BY <1>1, <2>1 DEF StreamRec
<1>2. CASE ~(h[s0].refcount > 1)
  <2>1. Release(h, s0) = [h EXCEPT ![s0] = Freed]
    BY <1>2 DEF Release
  <2>. QED  BY <1>2, <2>1 DEF StreamRec, Freed
<1>. QED  BY <1>1, <1>2

(* Every action changes the reference count of a stream by as much as the
   number of its owners.                                                   *)
LEMMA RefCountStep ==
  ASSUME TypeOK, RefCountExact, KeysInOrder, BlankWithoutStream, [Next]_vars
  PROVE  RefCountExact'
<1>. SUFFICES ASSUME NEW s \in Streams
              PROVE  heap'[s].refcount = Cardinality(InMap(s)') + Cardinality(InPool(s)')
                                           + Cardinality(Orphans(s)')
  BY DEF RefCountExact, Held
<1>. DEFINE m == Cardinality(InMap(s))   m1 == Cardinality(InMap(s)')
            p == Cardinality(InPool(s))  p1 == Cardinality(InPool(s)')
            o == Cardinality(Orphans(s)) o1 == Cardinality(Orphans(s)')
            r == heap[s].refcount        r1 == heap'[s].refcount
<1>0. /\ m \in Nat /\ p \in Nat /\ o \in Nat /\ r \in Nat
      /\ r = m + p + o
  BY OwnerCounts DEF RefCountExact, TypeOK, StreamRec
<1>a. ASSUME UNCHANGED map PROVE m1 = m
  BY <1>a DEF InMap
<1>b. ASSUME UNCHANGED pool PROVE p1 = p
  BY <1>b DEF InPool
<1>c. ASSUME UNCHANGED orphan PROVE o1 = o
  BY <1>c DEF Orphans
<1>1. ASSUME NEW path \in Paths, NEW stored \in BOOLEAN, OpenFromPool(path, stored)
      PROVE  r1 = m1 + p1 + o1
  <2>. PICK i \in PoolHits(fs[path]) : /\ Insert(pool[i].stream, path, stored)
                                       /\ pool' = [pool EXCEPT ![i] = EmptySlot]
    BY <1>1 DEF OpenFromPool, TakeSlot
  <2>1. i \in Slots /\ pool[i].stream \in Streams
    BY <1>1 DEF OpenFromPool, PoolHits, BlankWithoutStream, Slots, EmptySlot, TypeOK
  <2>2. m1 + o1 = m + o + (IF s = pool[i].stream THEN 1 ELSE 0)
    BY <2>1, InsertOwners
  <2>3. p1 = p - (IF s = pool[i].stream THEN 1 ELSE 0)
               + (IF s = NoStream THEN 1 ELSE 0)
    <3>1. \A j \in Slots : pool'[j].stream = IF j = i THEN NoStream ELSE pool[j].stream
      BY <2>1 DEF EmptySlot, TypeOK
    <3>. QED  BY <2>1, <3>1, SlotOwners
  <2>4. s # NoStream
    OBVIOUS
  <2>5. r1 = r
    BY <1>1 DEF OpenFromPool
  <2>6. m1 \in Nat /\ o1 \in Nat
    BY OwnerCounts, KeySets DEF InMap, Orphans
  <2>. HIDE DEF m, m1, p, p1, o, o1, r, r1
  <2>. QED  BY <1>0, <2>2, <2>3, <2>4, <2>5, <2>6
<1>2. ASSUME NEW path \in Paths, NEW stored \in BOOLEAN, OpenFromMap(path, stored)
      PROVE  r1 = m1 + p1 + o1
  <2>. PICK s0 \in MapHits(fs[path]) : /\ Insert(s0, path, stored)
                                       /\ heap' = [heap EXCEPT ![s0].refcount = @ + 1]
    BY <1>2 DEF OpenFromMap
  <2>1. s0 \in Streams
    BY DEF MapHits
  <2>2. m1 + o1 = m + o + (IF s = s0 THEN 1 ELSE 0)
    BY <2>1, InsertOwners
  <2>3. p1 = p
    BY <1>2, <1>b DEF OpenFromMap
  <2>4. r1 = r + (IF s = s0 THEN 1 ELSE 0)
    BY <2>1, <1>0 DEF TypeOK, StreamRec
  <2>5. m1 \in Nat /\ o1 \in Nat
    BY OwnerCounts, KeySets DEF InMap, Orphans
  <2>. HIDE DEF m, m1, p, p1, o, o1, r, r1
  <2>. QED  BY <1>0, <2>2, <2>3, <2>4, <2>5
<1>3. ASSUME NEW c \in pending, NEW stored \in BOOLEAN, NEW s0 \in Streams,
             NEW hasVideo \in BOOLEAN, NEW hasAudio \in BOOLEAN,
             OpenNew(c, s0, hasVideo, hasAudio, stored)
      PROVE  r1 = m1 + p1 + o1
  <2>1. Insert(s0, c.path, stored) /\ c.path \in Paths
    BY <1>3 DEF OpenNew, TypeOK
  <2>2. m1 + o1 = m + o + (IF s = s0 THEN 1 ELSE 0)
    BY <2>1, InsertOwners
  <2>3. p1 = p
    BY <1>3, <1>b DEF OpenNew
  <2>4. s = s0 => r = 0 /\ r1 = 1
    BY <1>0, <1>3 DEF OpenNew, NewStream, Live, TypeOK
  <2>5. s # s0 => r1 = r
    BY <1>3 DEF OpenNew, TypeOK
  <2>6. m1 \in Nat /\ o1 \in Nat
    BY OwnerCounts, KeySets DEF InMap, Orphans
  <2>. HIDE DEF m, m1, p, p1, o, o1, r, r1
  <2>. QED  BY <1>0, <2>2, <2>3, <2>4, <2>5, <2>6
<1>4. ASSUME NEW k \in Keys, CloseAndRelease(k)
      PROVE  r1 = m1 + p1 + o1
  <2>. DEFINE s0 == map[k].stream
  <2>1. s0 \in Streams /\ map' = [map EXCEPT ![k] = NoItem]
    BY <1>4 DEF CloseAndRelease, BlankWithoutStream, TypeOK
  <2>2. m1 = m - (IF s = s0 THEN 1 ELSE 0)
    BY <2>1, DeleteOwners
  <2>3. p1 = p /\ o1 = o
    BY <1>4, <1>b, <1>c DEF CloseAndRelease
  <2>4. /\ s = s0 => r1 = IF r > 1 THEN r - 1 ELSE 0
        /\ s # s0 => r1 = r
    BY <1>4, <2>1, ReleaseEffect DEF CloseAndRelease, TypeOK
  <2>5. m1 \in Nat
    BY KeySets DEF InMap
  <2>. HIDE DEF m, m1, p, p1, o, o1, r, r1, s0
  <2>. QED  BY <1>0, <2>2, <2>3, <2>4, <2>5
<1>5. ASSUME NEW k \in Keys, NEW t \in Times, CloseToPool(k, t)
      PROVE  r1 = m1 + p1 + o1
  <2>. DEFINE s0 == map[k].stream
  <2>1. s0 \in Streams /\ map' = [map EXCEPT ![k] = NoItem]
    BY <1>5 DEF CloseToPool, BlankWithoutStream, TypeOK
  <2>. PICK i \in 1..pool_length :
         /\ pool' = [pool EXCEPT ![i] = Pooled(s0, t)]
         /\ heap' = IF pool[i].stream = NoStream THEN heap
                                                 ELSE Release(heap, pool[i].stream)
    BY <1>5 DEF CloseToPool
  <2>2. i \in Slots
    BY DEF Slots, TypeOK
  <2>3. m1 = m - (IF s = s0 THEN 1 ELSE 0)
    BY <2>1, DeleteOwners
  <2>4. p1 = p - (IF s = pool[i].stream THEN 1 ELSE 0) + (IF s = s0 THEN 1 ELSE 0)
    <3>1. \A j \in Slots : pool'[j].stream = IF j = i THEN s0 ELSE pool[j].stream
      BY <2>2 DEF Pooled, TypeOK
    <3>. QED  BY <2>1, <2>2, <3>1, SlotOwners
  <2>5. o1 = o
    BY <1>5, <1>c DEF CloseToPool
  <2>6. /\ s = pool[i].stream => r1 = IF r > 1 THEN r - 1 ELSE 0
        /\ s # pool[i].stream => r1 = r
    BY <2>2, ReleaseEffect DEF TypeOK
  <2>7. s = pool[i].stream => p > 0
    <3>1. InPool(s) \in SUBSET Slots /\ (s = pool[i].stream => i \in InPool(s))
      BY <2>2 DEF InPool
    <3>. QED  BY <2>2, <3>1, SlotSets
  <2>. HIDE DEF m, m1, p, p1, o, o1, r, r1, s0
  <2>. QED  BY <1>0, <2>3, <2>4, <2>5, <2>6, <2>7
<1>6. ASSUME NEW k \in Keys, ReadVideo(k)
      PROVE  r1 = m1 + p1 + o1
  <2>1. m1 = m /\ p1 = p /\ o1 = o
    BY <1>6, <1>a, <1>b, <1>c DEF ReadVideo
  <2>2. r1 = r
    BY <1>6 DEF ReadVideo, TypeOK, StreamRec
  <2>. QED  BY <1>0, <2>1, <2>2
<1>7. ASSUME NEW k \in Keys, NEW resampled \in BOOLEAN, ReadAudio(k, resampled)
      PROVE  r1 = m1 + p1 + o1
  <2>1. p1 = p /\ o1 = o
    BY <1>7, <1>b, <1>c DEF ReadAudio
  <2>2. InMap(s)' = InMap(s)
    BY <1>7 DEF ReadAudio, InMap, TypeOK
  <2>3. r1 = r
    BY <1>7 DEF ReadAudio, TypeOK, StreamRec
  <2>. QED  BY <1>0, <2>1, <2>2, <2>3
<1>8. ASSUME Exit
      PROVE  r1 = m1 + p1 + o1
  <2>1. InMap(s)' = {} /\ InPool(s)' = {}
    BY <1>8 DEF Exit, InMap, InPool, NoItem, EmptySlot
  <2>2. m1 = 0 /\ p1 = 0
    BY <2>1, FS_EmptySet
  <2>3. o1 = o
    BY <1>8, <1>c DEF Exit
  <2>4. heap'[s] = IF r > Held(s) THEN [heap[s] EXCEPT !.refcount = @ - Held(s)] ELSE Freed
    BY <1>8 DEF Exit
  <2>5. r1 = IF r > m + p THEN r - (m + p) ELSE 0
    BY <2>4 DEF Held, Freed, TypeOK, StreamRec
  <2>. HIDE DEF m, m1, p, p1, o, o1, r, r1
  <2>. QED  BY <1>0, <2>2, <2>3, <2>5
<1>9. ASSUME NEW f \in Files, Rewrite(f)
      PROVE  r1 = m1 + p1 + o1
  BY <1>0, <1>9, <1>a, <1>b, <1>c DEF Rewrite
<1>10. ASSUME NEW path \in Paths, NEW f \in Files \cup {NoFile}, Relink(path, f)
       PROVE  r1 = m1 + p1 + o1
  BY <1>0, <1>10, <1>a, <1>b, <1>c DEF Relink
<1>11. CASE UNCHANGED vars
  BY <1>0, <1>11, <1>a, <1>b, <1>c DEF vars
<1>12. ASSUME NEW path \in Paths, Lookup(path)
       PROVE  r1 = m1 + p1 + o1
  BY <1>0, <1>12, <1>a, <1>b, <1>c DEF Lookup
<1>13. CASE OpenGivesUp
  BY <1>0, <1>13, <1>a, <1>b, <1>c DEF OpenGivesUp
<1>. QED
  BY <1>1, <1>2, <1>3, <1>4, <1>5, <1>6, <1>7, <1>8, <1>9, <1>10, <1>11, <1>12, <1>13
  DEF Next, Reuse, Create, Close

-----------------------------------------------------------------------------
(* Whatever a handle or a slot refers to is live, before a step ... *)
OwnersLive ==
  \A s \in Streams : /\ \A k \in Keys : map[k].stream = s => Live(s)
                     /\ \A i \in Slots : pool[i].stream = s => Live(s)

\* A stream that somebody refers to has not been freed.
LEMMA ReferencedIsLive ==
  ASSUME TypeOK, RefCountExact
  PROVE  OwnersLive
<1>. SUFFICES ASSUME NEW s \in Streams, ~Live(s)
              PROVE  /\ \A k \in Keys : map[k].stream # s
                     /\ \A i \in Slots : pool[i].stream # s
  BY DEF OwnersLive
<1>1. /\ Cardinality(InMap(s)) \in Nat /\ Cardinality(InPool(s)) \in Nat
      /\ Cardinality(Orphans(s)) \in Nat
  BY OwnerCounts
<1>2. heap[s].refcount \in Nat /\ ~(heap[s].refcount > 0)
  BY DEF Live, TypeOK, StreamRec
<1>3. Cardinality(InMap(s)) = 0 /\ Cardinality(InPool(s)) = 0
  BY <1>1, <1>2 DEF RefCountExact, Held
<1>4. InMap(s) \in SUBSET Keys /\ InPool(s) \in SUBSET Slots
  BY DEF InMap, InPool
<1>5. InMap(s) = {} /\ InPool(s) = {}
  BY <1>3, <1>4, Counting DEF Keys, Slots
<1>. QED  BY <1>5 DEF InMap, InPool

(* ... and after it. *)
LEMMA ReferencedStaysLive ==
  ASSUME TypeOK', RefCountExact'
  PROVE  OwnersLive'
<1>. SUFFICES ASSUME NEW s \in Streams, ~Live(s)'
              PROVE  /\ \A k \in Keys : map'[k].stream # s
                     /\ \A i \in Slots : pool'[i].stream # s
  BY DEF OwnersLive
<1>1. InMap(s)' \in SUBSET (1..MaxKey) /\ InPool(s)' \in SUBSET (1..KeepLength)
      /\ Orphans(s)' \in SUBSET (1..MaxKey)
  BY DEF InMap, InPool, Orphans, Keys, Slots
<1>2. /\ Cardinality(InMap(s)') \in Nat /\ Cardinality(InPool(s)') \in Nat
      /\ Cardinality(Orphans(s)') \in Nat
  BY <1>1, Counting
<1>3. heap'[s].refcount \in Nat /\ ~(heap'[s].refcount > 0)
  BY DEF Live, TypeOK, StreamRec
<1>4. heap'[s].refcount = Cardinality(InMap(s)') + Cardinality(InPool(s)')
                            + Cardinality(Orphans(s)')
  BY DEF RefCountExact, Held
<1>5. Cardinality(InMap(s)') = 0 /\ Cardinality(InPool(s)') = 0
  BY <1>2, <1>3, <1>4
<1>6. InMap(s)' = {} /\ InPool(s)' = {}
  BY <1>1, <1>5, Counting
<1>. QED  BY <1>6 DEF InMap, InPool

(* What a step may do to a stream that is live before and after it: open its
   decoders, count its references; never touch its file or information.    *)
SameStream(s) ==
  /\ heap'[s].file = heap[s].file
  /\ heap'[s].vi = heap[s].vi
  /\ heap'[s].ai = heap[s].ai
  /\ heap[s].a => heap'[s].a
  /\ heap'[s].stray = heap[s].stray

\* A stream that stays alive stays the same stream.
LEMMA HeapFrame ==
  ASSUME TypeOK, BlankWithoutStream, [Next]_vars,
         NEW s \in Streams, Live(s), Live(s)'
  PROVE  SameStream(s)
<1>. USE DEF SameStream
<1>1. ASSUME NEW p \in Paths, NEW stored \in BOOLEAN, OpenFromPool(p, stored)
      PROVE  SameStream(s)
  BY <1>1 DEF OpenFromPool
<1>2. ASSUME NEW p \in Paths, NEW stored \in BOOLEAN, OpenFromMap(p, stored)
      PROVE  SameStream(s)
  <2>. PICK s0 \in Streams : heap' = [heap EXCEPT ![s0].refcount = @ + 1]
    BY <1>2 DEF OpenFromMap, MapHits
  <2>. QED  BY DEF TypeOK, StreamRec
<1>3. ASSUME NEW c \in pending, NEW stored \in BOOLEAN, NEW s0 \in Streams,
             NEW hasVideo \in BOOLEAN, NEW hasAudio \in BOOLEAN,
             OpenNew(c, s0, hasVideo, hasAudio, stored)
      PROVE  SameStream(s)
  <2>1. s # s0
    BY <1>3 DEF OpenNew
  <2>2. heap'[s] = heap[s]
    BY <1>3, <2>1 DEF OpenNew, TypeOK
  <2>. QED  BY <2>2
<1>4. ASSUME NEW k \in Keys, CloseAndRelease(k)
      PROVE  SameStream(s)
  <2>1. map[k].stream \in Streams
    BY <1>4 DEF CloseAndRelease, BlankWithoutStream, TypeOK
  <2>. QED  BY <1>4, <2>1, ReleaseEffect DEF CloseAndRelease, TypeOK, Live
<1>5. ASSUME NEW k \in Keys, NEW t \in Times, CloseToPool(k, t)
      PROVE  SameStream(s)
  <2>. PICK i \in Slots : heap' = IF pool[i].stream = NoStream THEN heap
                                  ELSE Release(heap, pool[i].stream)
    BY <1>5 DEF CloseToPool, Slots, TypeOK
  <2>1. CASE heap' = heap
    BY <2>1
  <2>2. CASE pool[i].stream \in Streams /\ heap' = Release(heap, pool[i].stream)
    <3>1. CASE s # pool[i].stream
      BY <2>2, <3>1, ReleaseEffect DEF TypeOK
    <3>2. CASE s = pool[i].stream
      <4>1. Release(heap, s)[s].refcount > 0
        BY <2>2, <3>2 DEF Live
      <4>. QED  BY <2>2, <3>2, <4>1, ReleaseEffect DEF TypeOK
    <3>. QED  BY <3>1, <3>2
  <2>. QED  BY <2>1, <2>2 DEF TypeOK
<1>6. ASSUME NEW k \in Keys, ReadVideo(k)
      PROVE  SameStream(s)
  BY <1>6 DEF ReadVideo, TypeOK, StreamRec
<1>7. ASSUME NEW k \in Keys, NEW resampled \in BOOLEAN, ReadAudio(k, resampled)
      PROVE  SameStream(s)
  BY <1>7 DEF ReadAudio, TypeOK, StreamRec
<1>8. CASE Exit
  <2>1. heap'[s] \in {[heap[s] EXCEPT !.refcount = @ - Held(s)], Freed}
    BY <1>8 DEF Exit
  <2>2. heap'[s] # Freed
    BY DEF Live, Freed
  <2>3. heap[s] \in StreamRec
    BY DEF TypeOK
  <2>4. heap'[s] = [heap[s] EXCEPT !.refcount = @ - Held(s)]
    BY <2>1, <2>2
  <2>. HIDE DEF SameStream
  <2>5. /\ heap'[s].file = heap[s].file /\ heap'[s].vi = heap[s].vi
        /\ heap'[s].ai = heap[s].ai /\ heap'[s].a = heap[s].a
    BY <2>3, <2>4 DEF StreamRec
  <2>6. heap'[s].stray = heap[s].stray
    BY <2>3, <2>4 DEF StreamRec
  <2>. QED  BY <2>5, <2>6 DEF SameStream
<1>9. ASSUME NEW f \in Files, Rewrite(f)
      PROVE  SameStream(s)
  BY <1>9 DEF Rewrite
<1>10. ASSUME NEW p \in Paths, NEW f \in Files \cup {NoFile}, Relink(p, f)
       PROVE  SameStream(s)
  BY <1>10 DEF Relink
<1>11. CASE UNCHANGED vars
  BY <1>11 DEF vars
<1>12. ASSUME NEW p \in Paths, Lookup(p)
       PROVE  SameStream(s)
  BY <1>12 DEF Lookup
<1>13. CASE OpenGivesUp
  BY <1>13 DEF OpenGivesUp
<1>. QED
  BY <1>1, <1>2, <1>3, <1>4, <1>5, <1>6, <1>7, <1>8, <1>9, <1>10, <1>11, <1>12, <1>13
  DEF Next, Reuse, Create, Close

-----------------------------------------------------------------------------
(* What an open found missing stays missing: until it opens its file there is
   no other call, and the file system touches neither the pool nor the map. *)
LEMMA PendingStep ==
  ASSUME PendingUnused, [Next]_vars
  PROVE  PendingUnused'
<1>. SUFFICES ASSUME NEW c \in pending' PROVE MustCreate(c.file)'
  BY DEF PendingUnused
<1>1. ASSUME UNCHANGED <<heap, map, pool, pool_length>>, MustCreate(c.file)
      PROVE  MustCreate(c.file)'
  BY <1>1 DEF MustCreate, PoolHits, MapHits, MayShare
<1>2. ASSUME NEW p \in Paths, Lookup(p)
      PROVE  MustCreate(c.file)'
  <2>1. c = [path |-> p, file |-> fs[p]] /\ MustCreate(fs[p])
    BY <1>2 DEF Lookup
  <2>. QED  BY <1>1, <1>2, <2>1 DEF Lookup
<1>3. CASE pending' = {}
  BY <1>3
<1>4. CASE UNCHANGED <<heap, map, pool, pool_length, pending>>
  BY <1>1, <1>4 DEF PendingUnused
<1>5. ASSUME Idle, UNCHANGED pending
      PROVE  FALSE
  BY <1>5 DEF Idle
<1>6. ASSUME NEW f \in Files, Rewrite(f)
      PROVE  MustCreate(c.file)'
  BY <1>4, <1>6 DEF Rewrite
<1>7. ASSUME NEW p \in Paths, NEW f \in Files \cup {NoFile}, Relink(p, f)
      PROVE  MustCreate(c.file)'
  BY <1>4, <1>7 DEF Relink
<1>8. ASSUME NEW p \in Paths, NEW stored \in BOOLEAN, Reuse(p, stored)
      PROVE  FALSE
  BY <1>5, <1>8 DEF Reuse, OpenFromPool, OpenFromMap
<1>9. ASSUME NEW k \in Keys, Close(k) \/ ReadVideo(k)
      PROVE  FALSE
  BY <1>5, <1>9 DEF Close, CloseAndRelease, CloseToPool, ReadVideo
<1>10. ASSUME NEW k \in Keys, NEW resampled \in BOOLEAN, ReadAudio(k, resampled)
       PROVE  FALSE
  BY <1>5, <1>10 DEF ReadAudio
<1>11. CASE Exit
  BY <1>5, <1>11 DEF Exit
<1>12. CASE UNCHANGED vars
  BY <1>4, <1>12 DEF vars
<1>13. ASSUME NEW d \in pending, NEW stored \in BOOLEAN, Create(d, stored)
       PROVE  MustCreate(c.file)'
  BY <1>3, <1>13 DEF Create, OpenNew
<1>14. CASE OpenGivesUp
  BY <1>3, <1>14 DEF OpenGivesUp
<1>. QED
  BY <1>2, <1>6, <1>7, <1>8, <1>9, <1>10, <1>11, <1>12, <1>13, <1>14 DEF Next

\* Each step hands out keys in order.
LEMMA KeysInOrderStep ==
  ASSUME TypeOK, KeysInOrder, [Next]_vars
  PROVE  KeysInOrder'
<1>. USE DEF KeysInOrder
<1>1. ASSUME NEW s \in Streams \cup {NoStream}, NEW p \in Paths, NEW stored \in BOOLEAN,
             Insert(s, p, stored)
      PROVE  KeysInOrder'
  <2>1. CASE stored
    BY <1>1, <2>1 DEF Insert, TypeOK, Keys
  <2>2. CASE ~stored
    BY <1>1, <2>2 DEF Insert, TypeOK, Keys
  <2>. QED  BY <2>1, <2>2
<1>2. ASSUME NEW p \in Paths, NEW stored \in BOOLEAN, Reuse(p, stored)
      PROVE  KeysInOrder'
  <2>1. \E s \in Streams \cup {NoStream} : Insert(s, p, stored)
    <3>1. CASE OpenFromPool(p, stored)
      <4>. PICK i \in PoolHits(fs[p]) : Insert(pool[i].stream, p, stored)
        BY <3>1 DEF OpenFromPool
      <4>. QED  BY DEF PoolHits, Slots, TypeOK
    <3>2. CASE OpenFromMap(p, stored)
      BY <3>2 DEF OpenFromMap, MapHits
    <3>. QED  BY <1>2, <3>1, <3>2 DEF Reuse
  <2>. QED  BY <1>1, <2>1
<1>3. ASSUME NEW k \in Keys, Close(k)
      PROVE  KeysInOrder'
  BY <1>3 DEF Close, CloseAndRelease, CloseToPool, TypeOK
<1>4. ASSUME NEW k \in Keys, ReadVideo(k)
      PROVE  KeysInOrder'
  BY <1>4 DEF ReadVideo
<1>5. ASSUME NEW k \in Keys, NEW resampled \in BOOLEAN, ReadAudio(k, resampled)
      PROVE  KeysInOrder'
  BY <1>5 DEF ReadAudio, TypeOK
<1>6. CASE Exit
  BY <1>6 DEF Exit
<1>7. ASSUME NEW f \in Files, Rewrite(f)
      PROVE  KeysInOrder'
  BY <1>7 DEF Rewrite
<1>8. ASSUME NEW p \in Paths, NEW f \in Files \cup {NoFile}, Relink(p, f)
      PROVE  KeysInOrder'
  BY <1>8 DEF Relink
<1>9. CASE UNCHANGED vars
  BY <1>9 DEF vars
<1>10. ASSUME NEW p \in Paths, Lookup(p)
       PROVE  KeysInOrder'
  BY <1>10 DEF Lookup
<1>11. ASSUME NEW c \in pending, NEW stored \in BOOLEAN, Create(c, stored)
       PROVE  KeysInOrder'
  <2>1. c.path \in Paths
    BY DEF TypeOK
  <2>. QED  BY <1>1, <1>11, <2>1 DEF Create, OpenNew
<1>12. CASE OpenGivesUp
  BY <1>12 DEF OpenGivesUp
<1>. QED
  BY <1>2, <1>3, <1>4, <1>5, <1>6, <1>7, <1>8, <1>9, <1>10, <1>11, <1>12 DEF Next

\* Each step leaves blank items and slots without a stream.
LEMMA BlankStep ==
  ASSUME TypeOK, BlankWithoutStream, [Next]_vars
  PROVE  BlankWithoutStream'
<1>. USE DEF BlankWithoutStream
<1>1. ASSUME NEW p \in Paths, NEW stored \in BOOLEAN, NEW s \in Streams,
             Insert(s, p, stored)
      PROVE  \A k \in Keys : map'[k].stream = NoStream => map'[k] = NoItem
  <2>1. CASE stored
    BY <1>1, <2>1 DEF Insert, TypeOK
  <2>2. CASE ~stored
    BY <1>1, <2>2 DEF Insert
  <2>. QED  BY <2>1, <2>2
<1>2. ASSUME NEW p \in Paths, NEW stored \in BOOLEAN, OpenFromPool(p, stored)
      PROVE  BlankWithoutStream'
  <2>. PICK i \in PoolHits(fs[p]) : /\ Insert(pool[i].stream, p, stored)
                                    /\ pool' = [pool EXCEPT ![i] = EmptySlot]
    BY <1>2 DEF OpenFromPool, TakeSlot
  <2>1. i \in Slots /\ pool[i].stream \in Streams
    BY <1>2 DEF OpenFromPool, PoolHits, Slots, EmptySlot, TypeOK
  <2>2. UNCHANGED pool_length
    BY <1>2 DEF OpenFromPool
  <2>. QED  BY <1>1, <2>1, <2>2 DEF TypeOK, EmptySlot
<1>3. ASSUME NEW p \in Paths, NEW stored \in BOOLEAN, OpenFromMap(p, stored)
      PROVE  BlankWithoutStream'
  BY <1>3, <1>1 DEF OpenFromMap, MapHits
<1>4. ASSUME NEW c \in pending, NEW stored \in BOOLEAN, NEW s \in Streams,
             NEW hasVideo \in BOOLEAN, NEW hasAudio \in BOOLEAN,
             OpenNew(c, s, hasVideo, hasAudio, stored)
      PROVE  BlankWithoutStream'
  <2>1. Insert(s, c.path, stored) /\ c.path \in Paths /\ UNCHANGED <<pool, pool_length>>
    BY <1>4 DEF OpenNew, TypeOK
  <2>. QED  BY <1>1, <2>1
<1>5. ASSUME NEW k \in Keys, CloseAndRelease(k)
      PROVE  BlankWithoutStream'
  BY <1>5 DEF CloseAndRelease, TypeOK
<1>6. ASSUME NEW k \in Keys, NEW t \in Times, CloseToPool(k, t)
      PROVE  BlankWithoutStream'
  <2>1. map[k].stream # NoStream
    BY <1>6 DEF CloseToPool
  <2>. PICK i \in 1..pool_length : pool' = [pool EXCEPT ![i] = Pooled(map[k].stream, t)]
    BY <1>6 DEF CloseToPool
  <2>2. Pooled(map[k].stream, t).stream # NoStream
    BY <2>1 DEF Pooled
  <2>3. /\ map' = [map EXCEPT ![k] = NoItem] /\ UNCHANGED pool_length
        /\ i \in Slots /\ i <= pool_length
    BY <1>6 DEF CloseToPool, TypeOK, Slots
  <2>. QED  BY <2>2, <2>3 DEF TypeOK
<1>7. ASSUME NEW k \in Keys, ReadVideo(k)
      PROVE  BlankWithoutStream'
  BY <1>7 DEF ReadVideo
<1>8. ASSUME NEW k \in Keys, NEW resampled \in BOOLEAN, ReadAudio(k, resampled)
      PROVE  BlankWithoutStream'
  BY <1>8 DEF ReadAudio, TypeOK
<1>9. CASE Exit
  BY <1>9 DEF Exit, EmptySlot, NoItem
<1>10. ASSUME NEW f \in Files, Rewrite(f)
      PROVE  BlankWithoutStream'
  BY <1>10 DEF Rewrite
<1>11. ASSUME NEW p \in Paths, NEW f \in Files \cup {NoFile}, Relink(p, f)
      PROVE  BlankWithoutStream'
  BY <1>11 DEF Relink
<1>12. CASE UNCHANGED vars
  BY <1>12 DEF vars
<1>13. ASSUME NEW p \in Paths, Lookup(p)
      PROVE  BlankWithoutStream'
  BY <1>13 DEF Lookup
<1>14. CASE OpenGivesUp
  BY <1>14 DEF OpenGivesUp
<1>. QED
  BY <1>2, <1>3, <1>4, <1>5, <1>6, <1>7, <1>8, <1>9, <1>10, <1>11, <1>12, <1>13, <1>14
  DEF Next, Reuse, Create, Close

-----------------------------------------------------------------------------
(* A slot changes only by being emptied or by receiving a closed handle's
   stream under that stream's own file id.                                 *)
LEMMA PoolFrame ==
  ASSUME TypeOK, BlankWithoutStream, [Next]_vars, NEW i \in Slots
  PROVE  \/ pool'[i] \in {pool[i], EmptySlot}
         \/ \E k \in Keys : /\ map[k].stream \in Streams
                            /\ pool'[i].stream = map[k].stream
                            /\ pool'[i].fid = heap[map[k].stream].file
<1>. DEFINE Goal == \/ pool'[i] \in {pool[i], EmptySlot}
                    \/ \E k \in Keys : /\ map[k].stream \in Streams
                                       /\ pool'[i].stream = map[k].stream
                                       /\ pool'[i].fid = heap[map[k].stream].file
<1>1. ASSUME NEW p \in Paths, NEW stored \in BOOLEAN, OpenFromPool(p, stored)
      PROVE  Goal
  BY <1>1 DEF OpenFromPool, TakeSlot, TypeOK
<1>2. ASSUME NEW k \in Keys, NEW t \in Times, CloseToPool(k, t)
      PROVE  Goal
  <2>1. map[k].stream \in Streams
    BY <1>2 DEF CloseToPool, BlankWithoutStream, TypeOK
  <2>. PICK j \in 1..pool_length : pool' = [pool EXCEPT ![j] = Pooled(map[k].stream, t)]
    BY <1>2 DEF CloseToPool
  <2>2. CASE i = j
    <3>1. pool'[i] = Pooled(map[k].stream, t)
      BY <2>2 DEF TypeOK
    <3>. QED  BY <2>1, <3>1 DEF Pooled
  <2>3. CASE i # j
    BY <2>3 DEF TypeOK
  <2>. QED  BY <2>2, <2>3
<1>3. CASE Exit
  BY <1>3 DEF Exit
<1>4. CASE UNCHANGED pool
  BY <1>4
<1>. QED
  BY <1>1, <1>2, <1>3, <1>4
  DEF Next, Reuse, Create, Close, OpenFromMap, OpenNew, CloseAndRelease, ReadVideo,
      ReadAudio, Rewrite, Relink, Lookup, OpenGivesUp, vars

(* The only way for a stream to come to life: OpenNew, by a call that found
   nothing to reuse.                                                       *)
BornFrom(s, c) ==
  /\ fs[c.path] \in Files
  /\ heap'[s].refcount = 1
  /\ heap'[s].file = fs[c.path]
  /\ heap'[s].vi \in {0, ver[fs[c.path]]} /\ heap'[s].ai \in {0, ver[fs[c.path]]}
  /\ heap'[s].vi # 0 \/ heap'[s].ai # 0
  /\ heap'[s].stray = (MayShare /\ Moved(c))
  /\ ver' = ver
  /\ \A t \in Streams : t # s => heap'[t] = heap[t]

\* A stream comes to life by being opened for a pending call.
LEMMA Birth ==
  ASSUME TypeOK, BlankWithoutStream, OwnersLive, [Next]_vars,
         NEW s \in Streams, ~Live(s), Live(s)'
  PROVE  \E c \in pending : BornFrom(s, c)
<1>1. ASSUME NEW c \in pending, NEW stored \in BOOLEAN, NEW s0 \in Streams,
             NEW hasVideo \in BOOLEAN, NEW hasAudio \in BOOLEAN,
             OpenNew(c, s0, hasVideo, hasAudio, stored)
      PROVE  \E d \in pending : BornFrom(s, d)
  <2>1. s = s0
    BY <1>1 DEF OpenNew, TypeOK, Live
  <2>2. heap'[s] = NewStream(fs[c.path], MayShare /\ Moved(c), hasVideo, hasAudio)
    BY <1>1, <2>1 DEF OpenNew, TypeOK
  <2>3. ver[fs[c.path]] # 0
    BY <1>1 DEF OpenNew, TypeOK, Versions
  <2>4. \A t \in Streams : t # s => heap'[t] = heap[t]
    BY <1>1, <2>1 DEF OpenNew, TypeOK
  <2>5. /\ heap'[s].refcount = 1
        /\ heap'[s].file = fs[c.path]
        /\ heap'[s].vi \in {0, ver[fs[c.path]]} /\ heap'[s].ai \in {0, ver[fs[c.path]]}
        /\ heap'[s].vi # 0 \/ heap'[s].ai # 0
    BY <1>1, <2>2, <2>3 DEF OpenNew, NewStream
  <2>6. heap'[s].stray = (MayShare /\ Moved(c))
    <3>. DEFINE m == MayShare /\ Moved(c)
    <3>1. NewStream(fs[c.path], m, hasVideo, hasAudio).stray = m
      <4>. HIDE DEF m
      <4>. QED  BY DEF NewStream
    <3>. QED  BY <2>2, <3>1
  <2>7. fs[c.path] \in Files /\ ver' = ver
    BY <1>1 DEF OpenNew
  <2>8. BornFrom(s, c)
    BY <2>4, <2>5, <2>6, <2>7 DEF BornFrom
  <2>. QED  BY <2>8
<1>2. ASSUME NEW p \in Paths, NEW stored \in BOOLEAN, OpenFromMap(p, stored)
      PROVE  FALSE
  <2>. PICK s0 \in MapHits(fs[p]) : heap' = [heap EXCEPT ![s0].refcount = @ + 1]
    BY <1>2 DEF OpenFromMap
  <2>1. s0 \in Streams /\ Live(s0)
    BY DEF MapHits, OwnersLive
  <2>. QED  BY <2>1 DEF Live, TypeOK
<1>3. ASSUME NEW k \in Keys, CloseAndRelease(k)
      PROVE  FALSE
  <2>1. map[k].stream \in Streams
    BY <1>3 DEF CloseAndRelease, BlankWithoutStream, TypeOK
  <2>2. s # map[k].stream
    BY <2>1 DEF OwnersLive
  <2>3. Release(heap, map[k].stream)[s] = heap[s]
    BY <2>1, <2>2, ReleaseEffect DEF TypeOK
  <2>. QED  BY <1>3, <2>3 DEF CloseAndRelease, Live
<1>4. ASSUME NEW k \in Keys, NEW t \in Times, CloseToPool(k, t)
      PROVE  FALSE
  <2>. PICK i \in Slots : heap' = IF pool[i].stream = NoStream THEN heap
                                  ELSE Release(heap, pool[i].stream)
    BY <1>4 DEF CloseToPool, Slots, TypeOK
  <2>1. s # pool[i].stream
    BY DEF OwnersLive
  <2>2. pool[i].stream # NoStream => Release(heap, pool[i].stream)[s] = heap[s]
    BY <2>1, ReleaseEffect DEF TypeOK
  <2>. QED  BY <2>2 DEF Live
<1>5. ASSUME NEW k \in Keys, ReadVideo(k)
      PROVE  FALSE
  <2>1. heap' = [heap EXCEPT ![map[k].stream].v = TRUE]
    BY <1>5 DEF ReadVideo
  <2>2. heap'[s].refcount = heap[s].refcount
    BY <2>1 DEF TypeOK, StreamRec
  <2>. QED  BY <2>2 DEF Live
<1>6. ASSUME NEW k \in Keys, NEW resampled \in BOOLEAN, ReadAudio(k, resampled)
      PROVE  FALSE
  <2>1. heap' = [heap EXCEPT ![map[k].stream].a = TRUE]
    BY <1>6 DEF ReadAudio
  <2>2. heap'[s].refcount = heap[s].refcount
    BY <2>1 DEF TypeOK, StreamRec
  <2>. QED  BY <2>2 DEF Live
<1>7. CASE Exit
  <2>1. Held(s) \in Nat /\ heap[s].refcount \in Nat
    BY OwnerCounts DEF TypeOK, StreamRec
  <2>2. ~(heap[s].refcount > Held(s))
    BY <2>1 DEF Live
  <2>3. heap'[s] = Freed
    BY <1>7, <2>2 DEF Exit
  <2>. QED  BY <2>3 DEF Freed, Live
<1>8. ASSUME UNCHANGED heap
      PROVE  FALSE
  BY <1>8 DEF Live
<1>. QED
  BY <1>1, <1>2, <1>3, <1>4, <1>5, <1>6, <1>7, <1>8
  DEF Next, Reuse, Create, Close, OpenFromPool, Rewrite, Relink, Lookup,
      OpenGivesUp, vars

\* Each step leaves the slots of the pool with the file of their stream.
LEMMA PoolKeyedStep ==
  ASSUME TypeOK, TypeOK', BlankWithoutStream, BlankWithoutStream', PoolKeyed,
         OwnersLive, OwnersLive', [Next]_vars
  PROVE  PoolKeyed'
<1>. SUFFICES ASSUME NEW i \in Slots, pool'[i].stream # NoStream
              PROVE  pool'[i].fid = heap'[pool'[i].stream].file
  BY DEF PoolKeyed
<1>1. PICK s \in Streams : pool'[i].stream = s
  BY DEF TypeOK
<1>2. Live(s)'
  BY <1>1 DEF OwnersLive
<1>3. Live(s) /\ pool'[i].fid = heap[s].file
  <2>1. CASE pool'[i] \in {pool[i], EmptySlot}
    BY <1>1, <2>1 DEF EmptySlot, PoolKeyed, OwnersLive
  <2>2. CASE \E k \in Keys : /\ map[k].stream \in Streams
                            /\ pool'[i].stream = map[k].stream
                            /\ pool'[i].fid = heap[map[k].stream].file
    BY <1>1, <2>2 DEF OwnersLive
  <2>. QED  BY <2>1, <2>2, PoolFrame
<1>. QED  BY <1>1, <1>2, <1>3, HeapFrame DEF SameStream

\* Each step leaves a stream that is not shared with one owner.
LEMMA OneReferenceStep ==
  ASSUME TypeOK, BlankWithoutStream, OneReference, OwnersLive, [Next]_vars
  PROVE  OneReference'
<1>. SUFFICES ASSUME Mode # "cache", NEW s \in Streams, heap[s].refcount <= 1
              PROVE  heap'[s].refcount <= 1
  BY DEF OneReference
<1>0. heap[s].refcount \in Nat
  BY DEF TypeOK, StreamRec
<1>1. ASSUME NEW p \in Paths, NEW stored \in BOOLEAN, OpenFromMap(p, stored)
      PROVE  FALSE
  BY <1>1 DEF OpenFromMap, MayShare
<1>2. ASSUME NEW c \in pending, NEW stored \in BOOLEAN, NEW s0 \in Streams,
             NEW hasVideo \in BOOLEAN, NEW hasAudio \in BOOLEAN,
             OpenNew(c, s0, hasVideo, hasAudio, stored)
      PROVE  heap'[s].refcount <= 1
  BY <1>2 DEF OpenNew, NewStream, TypeOK
<1>3. ASSUME NEW k \in Keys, CloseAndRelease(k)
      PROVE  heap'[s].refcount <= 1
  <2>1. map[k].stream \in Streams
    BY <1>3 DEF CloseAndRelease, BlankWithoutStream, TypeOK
  <2>2. s # map[k].stream => Release(heap, map[k].stream)[s] = heap[s]
    BY <2>1, ReleaseEffect DEF TypeOK
  <2>3. s = map[k].stream => Release(heap, map[k].stream)[s].refcount = 0
    BY <1>0, <2>1, ReleaseEffect DEF TypeOK
  <2>. QED  BY <1>3, <2>2, <2>3 DEF CloseAndRelease
<1>4. ASSUME NEW k \in Keys, NEW t \in Times, CloseToPool(k, t)
      PROVE  heap'[s].refcount <= 1
  <2>. PICK i \in Slots : heap' = IF pool[i].stream = NoStream THEN heap
                                  ELSE Release(heap, pool[i].stream)
    BY <1>4 DEF CloseToPool, Slots, TypeOK
  <2>1. CASE pool[i].stream = NoStream
    BY <2>1
  <2>2. CASE pool[i].stream # NoStream /\ s # pool[i].stream
    <3>1. Release(heap, pool[i].stream)[s] = heap[s]
      BY <2>2, ReleaseEffect DEF TypeOK
    <3>. QED  BY <2>2, <3>1
  <2>3. CASE pool[i].stream # NoStream /\ s = pool[i].stream
    <3>1. Release(heap, pool[i].stream)[s].refcount = 0
      BY <1>0, <2>3, ReleaseEffect DEF TypeOK
    <3>. QED  BY <2>3, <3>1
  <2>. QED  BY <2>1, <2>2, <2>3
<1>5. ASSUME NEW k \in Keys, ReadVideo(k)
      PROVE  heap'[s].refcount <= 1
  <2>1. heap' = [heap EXCEPT ![map[k].stream].v = TRUE]
    BY <1>5 DEF ReadVideo
  <2>2. heap'[s].refcount = heap[s].refcount
    BY <2>1 DEF TypeOK, StreamRec
  <2>. QED  BY <2>2
<1>6. ASSUME NEW k \in Keys, NEW resampled \in BOOLEAN, ReadAudio(k, resampled)
      PROVE  heap'[s].refcount <= 1
  <2>1. heap' = [heap EXCEPT ![map[k].stream].a = TRUE]
    BY <1>6 DEF ReadAudio
  <2>2. heap'[s].refcount = heap[s].refcount
    BY <2>1 DEF TypeOK, StreamRec
  <2>. QED  BY <2>2
<1>7. CASE Exit
  <2>1. Held(s) \in Nat
    BY OwnerCounts
  <2>2. heap'[s] = IF heap[s].refcount > Held(s)
                  THEN [heap[s] EXCEPT !.refcount = @ - Held(s)] ELSE Freed
    BY <1>7 DEF Exit
  <2>. QED  BY <1>0, <2>1, <2>2 DEF Freed, TypeOK, StreamRec
<1>8. CASE UNCHANGED heap
  BY <1>8
<1>. QED
  BY <1>1, <1>2, <1>3, <1>4, <1>5, <1>6, <1>7, <1>8
  DEF Next, Reuse, Create, Close, OpenFromPool, Rewrite, Relink, Lookup,
      OpenGivesUp, vars

\* Each step leaves the information of live streams that of their file.
LEMMA LiveFreshStep ==
  ASSUME TypeOK, BlankWithoutStream, LiveFresh, OwnersLive, [Next]_vars
  PROVE  LiveFresh'
<1>. SUFFICES ASSUME NEW s \in Streams, Live(s)'
              PROVE  /\ heap'[s].file \in Files
                     /\ heap'[s].vi \in {0, ver'[heap'[s].file]}
                     /\ heap'[s].ai \in {0, ver'[heap'[s].file]}
                     /\ heap'[s].vi # 0 \/ heap'[s].ai # 0
  BY DEF LiveFresh
<1>1. CASE ~Live(s)
  BY <1>1, Birth DEF BornFrom
<1>2. CASE Live(s)
  <2>1. ver'[heap[s].file] = ver[heap[s].file]
    <3>1. ASSUME NEW f \in Files, Rewrite(f)
          PROVE  ver'[heap[s].file] = ver[heap[s].file]
      <4>1. heap[s].file # f
        BY <1>2, <3>1 DEF Rewrite, HeldOpen
      <4>. QED  BY <1>2, <3>1, <4>1 DEF Rewrite, TypeOK, LiveFresh
    <3>2. CASE UNCHANGED ver
      BY <3>2
    <3>. QED
      BY <3>1, <3>2 DEF Next, Reuse, Create, Close, OpenFromPool, OpenFromMap, OpenNew,
         CloseAndRelease, CloseToPool, ReadVideo, ReadAudio, Exit, Relink, Lookup,
         OpenGivesUp, vars
  <2>2. SameStream(s)
    BY <1>2, HeapFrame
  <2>. QED  BY <1>2, <2>1, <2>2 DEF LiveFresh, SameStream
<1>. QED  BY <1>1, <1>2

(* An item's resampler is made by ReadAudio over an open audio decoder. *)
LEMMA ResamplerStep ==
  ASSUME TypeOK, TypeOK', BlankWithoutStream, ResamplerHasAudio,
         OwnersLive, OwnersLive', [Next]_vars
  PROVE  ResamplerHasAudio'
<1>. SUFFICES ASSUME NEW k \in Keys, map'[k].resampler
              PROVE  heap'[map'[k].stream].a /\ heap'[map'[k].stream].ai # 0
  BY DEF ResamplerHasAudio
<1>0. NoItem.resampler = FALSE
  BY DEF NoItem
<1>1. CASE map'[k] = map[k]
  <2>1. map[k].stream \in Streams
    BY <1>0, <1>1 DEF BlankWithoutStream, TypeOK
  <2>2. Live(map[k].stream) /\ Live(map[k].stream)'
    BY <1>1, <2>1 DEF OwnersLive
  <2>. QED  BY <1>1, <2>1, <2>2, HeapFrame DEF SameStream, ResamplerHasAudio
<1>2. ASSUME NEW s \in Streams, NEW p \in Paths, NEW stored \in BOOLEAN,
             Insert(s, p, stored)
      PROVE  map'[k] = map[k]
  <2>1. CASE stored
    <3>1. map' = [map EXCEPT ![key_index + 1] = [stream |-> s, resampler |-> FALSE]]
      BY <1>2, <2>1 DEF Insert
    <3>. QED  BY <3>1 DEF TypeOK
  <2>2. CASE ~stored
    BY <1>2, <2>2 DEF Insert
  <2>. QED  BY <2>1, <2>2
<1>3. ASSUME NEW p \in Paths, NEW stored \in BOOLEAN, OpenFromPool(p, stored)
      PROVE  map'[k] = map[k]
  <2>. PICK i \in PoolHits(fs[p]) : Insert(pool[i].stream, p, stored)
    BY <1>3 DEF OpenFromPool
  <2>1. pool[i].stream \in Streams
    BY <1>3 DEF OpenFromPool, PoolHits, BlankWithoutStream, Slots, EmptySlot, TypeOK
  <2>. QED  BY <1>2, <2>1
<1>4. ASSUME NEW p \in Paths, NEW stored \in BOOLEAN, OpenFromMap(p, stored)
      PROVE  map'[k] = map[k]
  BY <1>2, <1>4 DEF OpenFromMap, MapHits
<1>5. ASSUME NEW c \in pending, NEW stored \in BOOLEAN, NEW s \in Streams,
             NEW hasVideo \in BOOLEAN, NEW hasAudio \in BOOLEAN,
             OpenNew(c, s, hasVideo, hasAudio, stored)
      PROVE  map'[k] = map[k]
  <2>1. Insert(s, c.path, stored) /\ c.path \in Paths
    BY <1>5 DEF OpenNew, TypeOK
  <2>. QED  BY <1>2, <2>1
<1>6. ASSUME NEW j \in Keys, map' = [map EXCEPT ![j] = NoItem]
      PROVE  map'[k] = map[k]
  BY <1>0, <1>6 DEF TypeOK
<1>7. ASSUME NEW j \in Keys, NEW resampled \in BOOLEAN, ReadAudio(j, resampled),
             map'[k] # map[k]
      PROVE  heap'[map'[k].stream].a /\ heap'[map'[k].stream].ai # 0
  <2>1. /\ j = k /\ map[k].stream \in Streams
        /\ map'[k].stream = map[k].stream /\ resampled
    BY <1>7 DEF ReadAudio, BlankWithoutStream, TypeOK
  <2>2. /\ heap' = [heap EXCEPT ![map[k].stream].a = TRUE]
        /\ heap[map[k].stream].ai # 0
    BY <1>7, <2>1 DEF ReadAudio
  <2>. QED  BY <2>1, <2>2 DEF TypeOK, StreamRec
<1>8. CASE Exit
  BY <1>0, <1>8 DEF Exit
<1>9. CASE UNCHANGED map
  BY <1>1, <1>9
<1>. QED
  BY <1>1, <1>3, <1>4, <1>5, <1>6, <1>7, <1>8, <1>9
  DEF Next, Reuse, Create, Close, CloseAndRelease, CloseToPool, ReadVideo, Rewrite,
      Relink, Lookup, OpenGivesUp, vars

(* In the cache mode a handle's stream was a handle's stream before the step
   or did not exist.                                                       *)
LEMMA CacheOrigin ==
  ASSUME TypeOK, BlankWithoutStream, Mode = "cache", [Next]_vars,
         NEW s \in Streams, NEW k \in Keys, map'[k].stream = s
  PROVE  ~Live(s) \/ \E j \in Keys : map[j].stream = s
<1>. SUFFICES ASSUME map[k].stream # s
              PROVE  ~Live(s) \/ \E j \in Keys : map[j].stream = s
  OBVIOUS
<1>0. NoItem.stream # s
  BY DEF NoItem
<1>1. ASSUME NEW s0 \in Streams, NEW p \in Paths, NEW stored \in BOOLEAN,
             Insert(s0, p, stored)
      PROVE  s = s0
  <2>1. CASE stored
    <3>1. map' = [map EXCEPT ![key_index + 1] = [stream |-> s0, resampler |-> FALSE]]
      BY <1>1, <2>1 DEF Insert
    <3>. QED  BY <3>1 DEF TypeOK
  <2>2. CASE ~stored
    BY <1>1, <2>2 DEF Insert
  <2>. QED  BY <2>1, <2>2
<1>2. ASSUME NEW p \in Paths, NEW stored \in BOOLEAN, OpenFromPool(p, stored)
      PROVE  FALSE
  BY <1>2 DEF OpenFromPool, PoolHits, TypeOK
<1>3. ASSUME NEW p \in Paths, NEW stored \in BOOLEAN, OpenFromMap(p, stored)
      PROVE  \E j \in Keys : map[j].stream = s
  <2>. PICK s0 \in MapHits(fs[p]) : Insert(s0, p, stored)
    BY <1>3 DEF OpenFromMap
  <2>1. s0 \in Streams /\ \E j \in Keys : map[j].stream = s0
    BY DEF MapHits
  <2>. QED  BY <1>1, <2>1
<1>4. ASSUME NEW c \in pending, NEW stored \in BOOLEAN, NEW s0 \in Streams,
             NEW hasVideo \in BOOLEAN, NEW hasAudio \in BOOLEAN,
             OpenNew(c, s0, hasVideo, hasAudio, stored)
      PROVE  ~Live(s)
  <2>1. Insert(s0, c.path, stored) /\ c.path \in Paths
    BY <1>4 DEF OpenNew, TypeOK
  <2>2. s = s0
    BY <1>1, <2>1
  <2>. QED  BY <1>4, <2>2 DEF OpenNew
<1>5. ASSUME NEW j \in Keys, map' = [map EXCEPT ![j] = NoItem]
      PROVE  FALSE
  BY <1>0, <1>5 DEF TypeOK
<1>6. ASSUME NEW j \in Keys, NEW resampled \in BOOLEAN, ReadAudio(j, resampled)
      PROVE  FALSE
  BY <1>6 DEF ReadAudio, TypeOK
<1>7. CASE Exit
  BY <1>0, <1>7 DEF Exit
<1>8. CASE UNCHANGED map
  BY <1>8
<1>. QED
  BY <1>2, <1>3, <1>4, <1>5, <1>6, <1>7, <1>8
  DEF Next, Reuse, Create, Close, CloseAndRelease, CloseToPool, ReadVideo, Rewrite,
      Relink, Lookup, OpenGivesUp, vars

\* Each step leaves one stream for a file where streams are shared.
LEMMA OneStreamStep ==
  ASSUME TypeOK, TypeOK', BlankWithoutStream, BlankWithoutStream', OneStreamPerFile,
         PendingUnused, OwnersLive, OwnersLive', [Next]_vars
  PROVE  OneStreamPerFile'
<1>1. ASSUME Mode = "cache", NEW s1 \in Streams, NEW s2 \in Streams,
             NEW k1 \in Keys, NEW k2 \in Keys,
             map'[k1].stream = s1, map'[k2].stream = s2,
             heap'[s1].file = heap'[s2].file,
             ~heap'[s1].stray, ~heap'[s2].stray
      PROVE  s1 = s2
  <2>1. Live(s1)' /\ Live(s2)'
    BY <1>1 DEF OwnersLive
  <2>2. ASSUME NEW s \in Streams, NEW t \in Streams, ~Live(s), Live(s)', Live(t)',
               heap'[s].file = heap'[t].file, ~heap'[s].stray,
               ~Live(t) \/ \E j \in Keys : map[j].stream = t
        PROVE  s = t
    <3>1. PICK c \in pending : BornFrom(s, c)
      BY <2>2, Birth
    <3>2. CASE ~Live(t)
      BY <2>2, <3>1, <3>2 DEF BornFrom, Live
    <3>3. CASE Live(t) /\ \E j \in Keys : map[j].stream = t
      <4>1. heap[t].file = fs[c.path] /\ fs[c.path] = c.file
        BY <1>1, <2>2, <3>1, <3>3, HeapFrame DEF SameStream, BornFrom, MayShare, Moved
      <4>2. t \in MapHits(c.file)
        BY <3>3, <4>1 DEF MapHits
      <4>. QED  BY <1>1, <3>1, <4>2 DEF PendingUnused, MustCreate, MayShare
    <3>. QED  BY <2>2, <3>2, <3>3
  <2>3. CASE Live(s1) /\ Live(s2)
    <3>1. /\ heap[s1].file = heap[s2].file
          /\ ~heap[s1].stray /\ ~heap[s2].stray
      BY <1>1, <2>1, <2>3, HeapFrame DEF SameStream
    <3>2. PICK j1 \in Keys, j2 \in Keys : map[j1].stream = s1 /\ map[j2].stream = s2
      BY <1>1, <2>3, CacheOrigin
    <3>. QED  BY <1>1, <3>1, <3>2 DEF OneStreamPerFile, NoItem
  <2>4. /\ ~Live(s1) \/ \E j \in Keys : map[j].stream = s1
        /\ ~Live(s2) \/ \E j \in Keys : map[j].stream = s2
    BY <1>1, CacheOrigin
  <2>. QED  BY <1>1, <2>1, <2>2, <2>3, <2>4
<1>2. \A k \in Keys : map'[k] # NoItem => map'[k].stream \in Streams
  BY DEF BlankWithoutStream, TypeOK
<1>. QED  BY <1>1, <1>2 DEF OneStreamPerFile

-----------------------------------------------------------------------------
\* The invariant holds of the empty map.
LEMMA InductiveInit == Init => IInv
<1>. SUFFICES ASSUME Init PROVE IInv
  OBVIOUS
<1>1. TypeOK
  BY TypeInit
<1>2. RefCountExact
  <2>. SUFFICES ASSUME NEW s \in Streams
                PROVE  heap[s].refcount = Held(s) + Cardinality(Orphans(s))
    BY DEF RefCountExact
  <2>1. InMap(s) = {} /\ InPool(s) = {} /\ Orphans(s) = {}
    BY DEF Init, InMap, InPool, Orphans, NoItem, EmptySlot
  <2>2. Cardinality({}) = 0
    BY FS_EmptySet
  <2>. QED  BY <2>1, <2>2 DEF Held, Init, Freed
<1>3. PendingUnused /\ KeysInOrder /\ BlankWithoutStream /\ PoolKeyed
  BY DEF Init, PendingUnused, KeysInOrder, BlankWithoutStream, PoolKeyed, EmptySlot
<1>4. OneReference /\ LiveFresh
  BY DEF Init, OneReference, LiveFresh, Live, Freed
<1>5. OneStreamPerFile /\ ResamplerHasAudio
  BY DEF Init, OneStreamPerFile, ResamplerHasAudio, NoItem
<1>. QED  BY <1>1, <1>2, <1>3, <1>4, <1>5 DEF IInv

\* Each step preserves the invariant.
LEMMA InductiveStep == IInv /\ [Next]_vars => IInv'
<1>. SUFFICES ASSUME IInv, [Next]_vars PROVE IInv'
  OBVIOUS
<1>. USE DEF IInv
<1>1. TypeOK' /\ PendingUnused' /\ KeysInOrder' /\ BlankWithoutStream'
  BY TypeStep, PendingStep, KeysInOrderStep, BlankStep
<1>2. RefCountExact'
  BY RefCountStep
<1>3. OwnersLive
  BY ReferencedIsLive
<1>4. OwnersLive'
  BY <1>1, <1>2, ReferencedStaysLive
<1>5. PoolKeyed' /\ OneReference' /\ LiveFresh'
  BY <1>1, <1>3, <1>4, PoolKeyedStep, OneReferenceStep, LiveFreshStep
<1>6. OneStreamPerFile' /\ ResamplerHasAudio'
  BY <1>1, <1>3, <1>4, OneStreamStep, ResamplerStep
<1>. QED  BY <1>1, <1>2, <1>5, <1>6

(* The inductive invariant of the stream map holds in every state. *)
THEOREM Inductive == Spec => []IInv
BY InductiveInit, InductiveStep, PTL DEF Spec

(* The structures of stream.c keep the shape their declarations give them. *)
THEOREM TypeCorrect == Spec => []TypeOK
<1>1. IInv => TypeOK
  BY DEF IInv
<1>. QED  BY <1>1, Inductive, PTL

(* stream_addref and stream_destroy keep every reference count equal to the
   number of handles and pool slots that own the stream, plus the references
   a failed hmset lost.                                                    *)
THEOREM ReferenceCounting == Spec => []RefCountExact
<1>1. IInv => RefCountExact
  BY DEF IInv
<1>. QED  BY <1>1, Inductive, PTL

(* find_from_map finds every stream that could be shared: in the cache mode
   two handles on one file are on one stream, unless one of the streams was
   opened by a path that was relinked after the lookup.                    *)
THEOREM SharedInCacheMode == Spec => []OneStreamPerFile
<1>1. IInv => OneStreamPerFile
  BY DEF IInv
<1>. QED  BY <1>1, Inductive, PTL

\* The invariant implies that pooled and private streams have one owner.
LEMMA SingleOwner == IInv => SoleOwner
<1>. SUFFICES ASSUME IInv, Mode # "cache", NEW s \in Streams
              PROVE  /\ \A k1, k2 \in InMap(s) : k1 = k2
                     /\ \A i1, i2 \in InPool(s) : i1 = i2
                     /\ InMap(s) = {} \/ InPool(s) = {}
  BY DEF SoleOwner
<1>1. /\ Cardinality(InMap(s)) \in Nat /\ Cardinality(InPool(s)) \in Nat
      /\ Cardinality(Orphans(s)) \in Nat
  BY OwnerCounts
<1>2. Cardinality(InMap(s)) + Cardinality(InPool(s)) + Cardinality(Orphans(s)) <= 1
  BY <1>1 DEF IInv, RefCountExact, OneReference, Held
<1>3. InMap(s) \in SUBSET (1..MaxKey) /\ InPool(s) \in SUBSET (1..KeepLength)
  BY DEF InMap, InPool, Keys, Slots
<1>4. \A k1, k2 \in InMap(s) : k1 = k2
  BY <1>1, <1>2, <1>3, Counting
<1>5. \A i1, i2 \in InPool(s) : i1 = i2
  <2>1. Cardinality(InPool(s)) <= 1
    BY <1>1, <1>2
  <2>. QED  BY <1>3, <2>1, Counting
<1>6. InMap(s) = {} \/ InPool(s) = {}
  <2>1. Cardinality(InMap(s)) = 0 \/ Cardinality(InPool(s)) = 0
    BY <1>1, <1>2
  <2>. QED  BY <1>3, <2>1, Counting
<1>. QED  BY <1>4, <1>5, <1>6

(* Outside the cache mode no stream has two owners: its decoders serve one
   handle only.                                                            *)
THEOREM OwnedOnce == Spec => []SoleOwner
BY SingleOwner, Inductive, PTL

\* The invariant implies that handles show information of their file.
LEMMA HandlesFresh == IInv => FreshInfo
<1>. SUFFICES ASSUME IInv, NEW k \in Keys, map[k] # NoItem, NEW s,
                     s = map[k].stream
              PROVE  /\ Live(s)
                     /\ heap[s].vi \in {0, ver[heap[s].file]}
                     /\ heap[s].ai \in {0, ver[heap[s].file]}
                     /\ heap[s].vi = ver[heap[s].file] \/ heap[s].ai = ver[heap[s].file]
                     /\ map[k].resampler => heap[s].a /\ heap[s].ai = ver[heap[s].file]
  BY DEF FreshInfo
<1>1. s \in Streams
  BY DEF IInv, BlankWithoutStream, TypeOK
<1>2. Live(s)
  BY <1>1, ReferencedIsLive DEF IInv, OwnersLive
<1>. QED  BY <1>1, <1>2 DEF IInv, LiveFresh, ResamplerHasAudio

(* What func_info_get answers for a handle describes the file behind it. *)
THEOREM InformationStaysFresh == Spec => []FreshInfo
BY HandlesFresh, Inductive, PTL

-----------------------------------------------------------------------------
(* A file is opened a second time only when no stream that has it open could
   be reused, or by a path that named another file at the lookup.          *)
THEOREM ReuseFirst == Spec => ReuseBeforeOpen
<1>1. ASSUME IInv, [Next]_vars, NEW s \in Streams, NEW t \in Streams,
             heap[s].refcount = 0, heap'[s].refcount > 0,
             ~(\E c \in pending : Moved(c)),
             heap[t].refcount > 0, heap[t].file = heap'[s].file
      PROVE  /\ \A i \in Slots : pool[i].stream # t
             /\ Mode = "cache" => \A k \in Keys : map[k].stream # t
  <2>. USE DEF IInv
  <2>1. PICK c \in pending : BornFrom(s, c)
    BY <1>1, ReferencedIsLive, Birth DEF Live
  <2>2. heap[t].file = c.file /\ MustCreate(c.file) /\ c.file \in Files
    BY <1>1, <2>1 DEF BornFrom, Moved, PendingUnused
  <2>3. ASSUME NEW i \in Slots, pool[i].stream = t
        PROVE  FALSE
    <3>1. i \in 1..pool_length
      BY <1>1, <2>3 DEF BlankWithoutStream, Slots, TypeOK
    <3>2. pool[i].fid = c.file
      BY <1>1, <2>2, <2>3 DEF PoolKeyed, BlankWithoutStream, TypeOK
    <3>. QED  BY <2>2, <3>1, <3>2 DEF MustCreate, PoolHits
  <2>4. ASSUME Mode = "cache", NEW k \in Keys, map[k].stream = t
        PROVE  FALSE
    BY <2>2, <2>4 DEF MustCreate, MapHits, MayShare
  <2>. QED  BY <2>3, <2>4
<1>2. IInv /\ [Next]_vars => [OpensOnlyUnused]_vars
  BY <1>1 DEF OpensOnlyUnused
<1>. QED  BY <1>2, Inductive, PTL DEF Spec, ReuseBeforeOpen

(* The pool gives up a stream only when it is full, and then the one that was
   put into it first.                                                      *)
THEOREM OldestEvicted == Spec => LruEviction
<1>1. ASSUME IInv, [Next]_vars, NEW i \in Slots,
             pool[i].stream # NoStream,
             pool'[i].stream \notin {NoStream, pool[i].stream}
      PROVE  \A j \in 1..pool_length : /\ pool[j].stream # NoStream
                                       /\ pool[i].used_at <= pool[j].used_at
  <2>. USE DEF IInv
  <2>1. ASSUME NEW p \in Paths, NEW stored \in BOOLEAN, OpenFromPool(p, stored)
        PROVE  FALSE
    BY <1>1, <2>1 DEF OpenFromPool, TakeSlot, EmptySlot, TypeOK
  <2>2. CASE Exit
    BY <1>1, <2>2 DEF Exit, EmptySlot
  <2>3. CASE UNCHANGED pool
    BY <1>1, <2>3
  <2>4. ASSUME NEW k \in Keys, NEW t \in Times, CloseToPool(k, t)
        PROVE  \A j \in 1..pool_length : /\ pool[j].stream # NoStream
                                         /\ pool[i].used_at <= pool[j].used_at
    <3>. PICK x \in 1..pool_length :
           /\ IsTarget(x)
           /\ pool' = [pool EXCEPT ![x] = Pooled(map[k].stream, t)]
      BY <2>4 DEF CloseToPool
    <3>1. x = i
      BY <1>1 DEF TypeOK
    <3>2. Unused = {} /\ Oldest(i, 1..pool_length)
      BY <1>1, <3>1 DEF IsTarget, Unused
    <3>3. \A j \in Slots : pool[j].used_at \in Nat
      <4>1. \A j \in Slots : pool[j].used_at \in Times \cup {0}
        BY <1>1 DEF TypeOK
      <4>2. Times \cup {0} \subseteq Nat
        BY ConstantsAssumption
      <4>. QED  BY <4>1, <4>2
    <3>4. 1..pool_length \subseteq Slots
      BY <1>1 DEF TypeOK, Slots
    <3>. QED  BY <3>2, <3>3, <3>4 DEF Oldest, Newer, Unused
  <2>. QED
    BY <1>1, <2>1, <2>2, <2>3, <2>4 DEF Next, Reuse, Create, Close, OpenFromMap, OpenNew,
       CloseAndRelease, ReadVideo, ReadAudio, Rewrite, Relink, Lookup, OpenGivesUp, vars
<1>2. IInv /\ [Next]_vars => [EvictsOldest]_vars
  BY <1>1 DEF EvictsOldest
<1>. QED  BY <1>2, Inductive, PTL DEF Spec, LruEviction

-----------------------------------------------------------------------------
(* The refinement of HandleTable.  A handle's file is what its stream has
   open, so what matters is which handles a step puts on which stream.     *)
Shown == [k \in Keys |-> FileOf(k)]

\* The abstract table has the keys of the map.
LEMMA TableConstants == Table!Keys = Keys
BY DEF Table!Keys, Keys

(* The file of a handle that a step leaves alone. *)
LEMMA SameFile ==
  ASSUME IInv, IInv', [Next]_vars, NEW k \in Keys, map'[k].stream = map[k].stream
  PROVE  FileOf(k)' = FileOf(k)
<1>. USE DEF IInv
<1>1. CASE map[k].stream = NoStream
  BY <1>1 DEF FileOf, BlankWithoutStream
<1>2. CASE map[k].stream # NoStream
  <2>1. map[k].stream \in Streams
    BY <1>2 DEF TypeOK
  <2>2. Live(map[k].stream) /\ Live(map[k].stream)'
    BY <2>1, ReferencedIsLive, ReferencedStaysLive DEF OwnersLive
  <2>3. heap'[map[k].stream].file = heap[map[k].stream].file
    BY <2>1, <2>2, HeapFrame DEF SameStream
  <2>4. map[k] # NoItem /\ map'[k] # NoItem
    BY <1>2 DEF NoItem
  <2>. QED  BY <2>3, <2>4 DEF FileOf
<1>. QED  BY <1>1, <1>2

\* A step that leaves every key its stream changes nothing of the abstract table.
LEMMA SameTable ==
  ASSUME IInv, IInv', [Next]_vars, \A k \in Keys : map'[k].stream = map[k].stream
  PROVE  Shown' = Shown
BY SameFile DEF Shown

(* A file in use by a handle is held open by a live stream. *)
LEMMA InUseIsHeld ==
  ASSUME IInv, NEW f \in Files, Table!InUse(f)
  PROVE  HeldOpen(f)
<1>1. PICK k \in Keys : FileOf(k) = f
  BY TableConstants DEF Table!InUse
<1>2. map[k] # NoItem /\ heap[map[k].stream].file = f
  BY <1>1 DEF FileOf
<1>3. map[k].stream \in Streams
  BY <1>2 DEF IInv, BlankWithoutStream, TypeOK
<1>4. Live(map[k].stream)
  BY <1>3, ReferencedIsLive DEF IInv, OwnersLive
<1>. QED  BY <1>2, <1>3, <1>4 DEF HeldOpen

(* An open puts the new handle on the path's file, or fails with its key. *)
LEMMA InsertMaps ==
  ASSUME IInv, IInv', [Next]_vars, NEW s \in Streams, NEW p \in Paths,
         NEW stored \in BOOLEAN, Insert(s, p, stored), fs[p] \in Files,
         heap'[s].file = fs[p], UNCHANGED <<fs, ver>>
  PROVE  Table!Open(p) \/ Table!OpenFails
<1>. USE DEF IInv
<1>1. /\ key_index < MaxKey /\ key_index' = key_index + 1
      /\ key_index + 1 \in Keys
  BY DEF Insert, TypeOK, Keys
<1>. PICK n \in Keys : n = key_index + 1
  BY <1>1
<1>2. CASE stored
  <2>1. map' = [map EXCEPT ![n] = [stream |-> s, resampler |-> FALSE]]
    BY <1>2 DEF Insert
  <2>2. \A k \in Keys : k # n => FileOf(k)' = FileOf(k)
    BY <2>1, SameFile DEF TypeOK
  <2>3. map'[n].stream = s
    BY <2>1 DEF TypeOK
  <2>4. FileOf(n)' = fs[p]
    BY <2>3 DEF FileOf, NoItem
  <2>5. Shown' = [Shown EXCEPT ![n] = fs[p]]
    BY <2>2, <2>4 DEF Shown
  <2>6. via' = [via EXCEPT ![n] = p]
    BY <1>2 DEF Insert
  <2>. QED  BY <1>1, <2>5, <2>6 DEF Table!Open, Shown
<1>3. CASE ~stored
  <2>1. Shown' = Shown
    BY <1>3, SameTable DEF Insert
  <2>2. via' = via
    BY <1>3 DEF Insert
  <2>. QED  BY <1>1, <2>1, <2>2 DEF Table!OpenFails, Shown
<1>. QED  BY <1>2, <1>3

(* A close takes the closed handle out of the table and leaves the rest. *)
LEMMA DeleteMaps ==
  ASSUME IInv, IInv', [Next]_vars, NEW k \in Keys,
         map' = [map EXCEPT ![k] = NoItem], via' = [via EXCEPT ![k] = NoFile],
         UNCHANGED <<fs, ver, key_index>>
  PROVE  Table!Close(k)
<1>. USE DEF IInv
<1>1. \A j \in Keys : j # k => FileOf(j)' = FileOf(j)
  BY SameFile DEF TypeOK
<1>2. FileOf(k)' = NoFile
  BY DEF FileOf, TypeOK
<1>3. Shown' = [Shown EXCEPT ![k] = NoFile]
  BY <1>1, <1>2 DEF Shown
<1>. QED  BY <1>3 DEF Table!Close, Shown

\* Each step of the map is a step of the table of handles or changes nothing of it.
LEMMA StepMaps == IInv /\ IInv' /\ [Next]_vars => [Table!Next]_Table!vars
<1>. SUFFICES ASSUME IInv, IInv', [Next]_vars
              PROVE  [Table!Next]_Table!vars
  OBVIOUS
<1>. USE DEF IInv
<1>1. ASSUME NEW p \in Paths, NEW stored \in BOOLEAN, OpenFromPool(p, stored)
      PROVE  Table!Next
  <2>. PICK i \in PoolHits(fs[p]) : Insert(pool[i].stream, p, stored)
    BY <1>1 DEF OpenFromPool
  <2>. DEFINE s == pool[i].stream
  <2>1. i \in Slots /\ pool[i].fid = fs[p] /\ fs[p] \in Files
    BY <1>1 DEF OpenFromPool, PoolHits, Slots, TypeOK
  <2>2. s \in Streams
    BY <2>1 DEF BlankWithoutStream, EmptySlot, TypeOK, ConstantsAssumption
  <2>3. heap[s].file = fs[p]
    BY <2>1, <2>2 DEF PoolKeyed, ConstantsAssumption
  <2>4. heap' = heap /\ UNCHANGED <<fs, ver>>
    BY <1>1 DEF OpenFromPool
  <2>. QED  BY <2>1, <2>2, <2>3, <2>4, InsertMaps DEF Table!Next
<1>2. ASSUME NEW p \in Paths, NEW stored \in BOOLEAN, OpenFromMap(p, stored)
      PROVE  Table!Next
  <2>. PICK s \in MapHits(fs[p]) : /\ Insert(s, p, stored)
                                   /\ heap' = [heap EXCEPT ![s].refcount = @ + 1]
    BY <1>2 DEF OpenFromMap
  <2>1. s \in Streams /\ heap[s].file = fs[p] /\ fs[p] \in Files /\ UNCHANGED <<fs, ver>>
    BY <1>2 DEF OpenFromMap, MapHits
  <2>2. heap'[s].file = fs[p]
    BY <2>1 DEF TypeOK, StreamRec
  <2>. QED  BY <2>1, <2>2, InsertMaps DEF Table!Next
<1>3. ASSUME NEW c \in pending, NEW stored \in BOOLEAN, NEW s \in Streams,
             NEW hasVideo \in BOOLEAN, NEW hasAudio \in BOOLEAN,
             OpenNew(c, s, hasVideo, hasAudio, stored)
      PROVE  Table!Next
  <2>1. /\ heap' = [heap EXCEPT ![s] = NewStream(fs[c.path], MayShare /\ Moved(c),
                                                hasVideo, hasAudio)]
        /\ Insert(s, c.path, stored) /\ fs[c.path] \in Files /\ UNCHANGED <<fs, ver>>
        /\ c.path \in Paths
    BY <1>3 DEF OpenNew, TypeOK
  <2>2. heap'[s].file = fs[c.path]
    BY <2>1 DEF TypeOK, NewStream
  <2>. QED  BY <2>1, <2>2, InsertMaps DEF Table!Next
<1>4. ASSUME NEW k \in Keys, Close(k)
      PROVE  Table!Next
  <2>1. /\ map' = [map EXCEPT ![k] = NoItem] /\ via' = [via EXCEPT ![k] = NoFile]
        /\ UNCHANGED <<fs, ver, key_index>>
    BY <1>4 DEF Close, CloseAndRelease, CloseToPool
  <2>. QED  BY <2>1, DeleteMaps, TableConstants DEF Table!Next
<1>5. ASSUME UNCHANGED <<fs, ver, key_index, via>>,
             \A k \in Keys : map'[k].stream = map[k].stream
      PROVE  UNCHANGED Table!vars
  BY <1>5, SameTable DEF Table!vars, Shown
<1>6. ASSUME NEW k \in Keys, ReadVideo(k)
      PROVE  UNCHANGED Table!vars
  BY <1>5, <1>6 DEF ReadVideo
<1>7. ASSUME NEW k \in Keys, NEW resampled \in BOOLEAN, ReadAudio(k, resampled)
      PROVE  UNCHANGED Table!vars
  BY <1>5, <1>7 DEF ReadAudio, TypeOK
<1>8. CASE Exit
  <2>1. Shown' = [k \in Keys |-> NoFile]
    BY <1>8 DEF Exit, Shown, FileOf
  <2>2. Table!CloseAll
    BY <1>8, <2>1, TableConstants DEF Exit, Shown, Table!CloseAll
  <2>. QED  BY <2>2 DEF Table!Next
<1>9. ASSUME NEW f \in Files, Rewrite(f)
      PROVE  Table!Next
  <2>1. ~Table!InUse(f)
    BY <1>9, InUseIsHeld DEF Rewrite
  <2>2. Shown' = Shown
    BY <1>9, SameTable DEF Rewrite
  <2>3. Table!Rewrite(f)
    BY <1>9, <2>1, <2>2 DEF Rewrite, Table!Rewrite, Shown
  <2>. QED  BY <2>3 DEF Table!Next
<1>10. ASSUME NEW p \in Paths, NEW f \in Files \cup {NoFile}, Relink(p, f)
       PROVE  Table!Next
  <2>1. fs[p] \in Files => ~Table!InUse(fs[p])
    BY <1>10, InUseIsHeld DEF Relink
  <2>2. Shown' = Shown
    BY <1>10, SameTable DEF Relink
  <2>3. Table!Relink(p, f)
    BY <1>10, <2>1, <2>2 DEF Relink, Table!Relink, Shown
  <2>. QED  BY <2>3 DEF Table!Next
<1>11. CASE UNCHANGED vars
  BY <1>5, <1>11 DEF vars
<1>12. ASSUME NEW p \in Paths, Lookup(p)
       PROVE  UNCHANGED Table!vars
  BY <1>5, <1>12 DEF Lookup
<1>13. CASE OpenGivesUp
  BY <1>5, <1>13 DEF OpenGivesUp
<1>. QED
  BY <1>1, <1>2, <1>3, <1>4, <1>6, <1>7, <1>8, <1>9, <1>10, <1>11, <1>12, <1>13
  DEF Next, Reuse, Create

\* The empty map is the empty table.
LEMMA InitMaps == Init => Table!Init
<1>. SUFFICES ASSUME Init PROVE Table!Init
  OBVIOUS
<1>1. Shown = [k \in Keys |-> NoFile]
  BY DEF Init, Shown, FileOf
<1>. QED  BY <1>1, TableConstants DEF Init, Table!Init, Shown

(* The stream map implements the table of handles: whatever is shared, pooled
   or evicted, a handle keeps naming the file it was opened on and the file
   keeps its content while the handle is open.                             *)
THEOREM ImplementsHandleTable == Spec => HandleTableSpec
BY InitMaps, StepMaps, Inductive, PTL DEF Spec, HandleTableSpec, Table!Spec

=============================================================================

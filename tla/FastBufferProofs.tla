-------------------------- MODULE FastBufferProofs --------------------------
(***************************************************************************)
(* The receive buffer is right for every capacity and every stream; then   *)
(* the array of a consumer's window, whatever its growth reads.            *)
(***************************************************************************)
EXTENDS FastBuffer, FastVector, SequenceTheorems, TLAPS

\* What a Grow under way knows: no slice is out, it still needs bytes, and it
\* has room for them.
GrowPending ==
  /\ pc # "merge" => nread = 0
  /\ pc # "idle" => slice = 0 /\ Size < required /\ required <= Size + free

\* The slice a Skip may give back is still where it was read from.
SliceKept == \A i \in start - slice .. start - 1 : buf[i] = taken + (i - start)

IInv ==
  /\ TypeOK
  /\ WithinCapacity
  /\ StreamIntact
  /\ GrowServes
  /\ OverflowOnlyTooLarge
  /\ GrowPending
  /\ SliceKept

\* The freshly allocated buffer satisfies the invariant.
LEMMA InitIInv == Init => IInv
BY BufferAssumption
   DEF Init, IInv, TypeOK, Allocated, WithinCapacity, StreamIntact, GrowServes,
       OverflowOnlyTooLarge, GrowPending, SliceKept, Size

\* A realloc to at least capacity_ keeps every byte between start_ and end_.
LEMMA SetBufferIInv == ASSUME IInv, NEW n \in 0 .. MaxRequest, SetBuffer(n)
                       PROVE  IInv'
<1> DEFINE size == IF n > MaxSocket THEN MaxSocket ELSE n
<1>1. size \in Capacity .. MaxSocket
  BY BufferAssumption DEF SetBuffer
<1>2. buf' = [i \in 0 .. size - 1 |-> IF i \in DOMAIN buf THEN buf[i] ELSE 0]
  BY DEF SetBuffer
<1>3. UNCHANGED <<start, end, growVars, slice, received, taken>>
  BY DEF SetBuffer
<1>4. PICK k \in Capacity .. MaxSocket : buf \in [0 .. k - 1 -> Nat]
  BY DEF IInv, TypeOK, Allocated
<1> HIDE DEF size
<1>5. TypeOK'
  <2>1. buf' \in [0 .. size - 1 -> Nat]
    BY <1>2, <1>4
  <2>2. Allocated(buf')
    BY <2>1, <1>1 DEF Allocated
  <2> QED BY <2>2, <1>3 DEF IInv, TypeOK, growVars
<1>6. WithinCapacity' /\ GrowServes' /\ OverflowOnlyTooLarge' /\ GrowPending'
  BY <1>3 DEF IInv, WithinCapacity, GrowServes, OverflowOnlyTooLarge, GrowPending,
              Size, growVars
<1>7. StreamIntact' /\ SliceKept'
  <2>1. nread = 0 /\ slice <= start
    BY DEF IInv, GrowPending, GrowServes, SetBuffer
  <2>2. ASSUME NEW i \in start - slice .. end - 1 PROVE buf'[i] = buf[i]
    <3>1. i \in 0 .. k - 1 /\ i \in 0 .. size - 1
      BY <2>1, <1>1, <1>4, BufferAssumption DEF IInv, TypeOK, WithinCapacity
    <3> QED BY <3>1, <1>2, <1>4
  <2>3. StreamIntact'
    BY <2>1, <2>2, <1>3 DEF IInv, TypeOK, StreamIntact, Size, growVars
  <2>4. SliceKept'
    BY <2>1, <2>2, <1>3 DEF IInv, TypeOK, WithinCapacity, SliceKept, growVars
  <2> QED BY <2>3, <2>4
<1> QED BY <1>5, <1>6, <1>7 DEF IInv

\* Making room moves the pointers and the bytes together, and makes all there can be.
LEMMA RoomMade ==
  ASSUME IInv, NEW n \in Nat, Size < n, pc = "idle"
  PROVE  /\ StartAfter(n) \in 0 .. EndAfter(n) /\ EndAfter(n) \in 0 .. Capacity
         /\ EndAfter(n) - StartAfter(n) = Size
         /\ Allocated(Moved(n))
         /\ \A i \in StartAfter(n) .. EndAfter(n) - 1 :
              Moved(n)[i] = taken + (i - StartAfter(n))
         /\ FreeAfter(n) < n - Size => n > Capacity
<1> USE BufferAssumption
<1>1. PICK k \in Capacity .. MaxSocket : buf \in [0 .. k - 1 -> Nat]
  BY DEF IInv, TypeOK, Allocated
<1>2. /\ start \in Int /\ end \in Int /\ taken \in Int
      /\ 0 <= start /\ start <= end /\ end <= Capacity
      /\ \A i \in start .. end - 1 : buf[i] = taken + (i - start)
  BY DEF IInv, TypeOK, WithinCapacity, StreamIntact, GrowPending
<1>3. CASE Moves(n)
  <2>1. StartAfter(n) = 0 /\ EndAfter(n) = Size /\ Size \in Nat
    BY <1>2, <1>3 DEF StartAfter, EndAfter, Size
  <2>2. Moved(n) = [i \in DOMAIN buf |-> IF i < Size THEN buf[start + i] ELSE buf[i]]
    BY <1>3 DEF Moved
  <2>3. ASSUME NEW i \in 0 .. k - 1, i < Size PROVE start + i \in start .. end - 1
    BY <1>2, <2>3 DEF Size
  <2>4. ASSUME NEW i \in start .. end - 1 PROVE i \in 0 .. k - 1 /\ buf[i] \in Nat
    BY <1>1, <1>2
  <2>5. Moved(n) \in [0 .. k - 1 -> Nat]
    BY <1>1, <2>2, <2>3, <2>4
  <2>6. \A i \in 0 .. Size - 1 : Moved(n)[i] = taken + i
    <3> SUFFICES ASSUME NEW i \in 0 .. Size - 1 PROVE Moved(n)[i] = taken + i
      OBVIOUS
    <3>1. i \in 0 .. k - 1 /\ i < Size
      BY <1>2, <2>1, <1>1 DEF Size
    <3>2. Moved(n)[i] = buf[start + i]
      BY <3>1, <2>2, <1>1
    <3>3. buf[start + i] = taken + i
      BY <3>1, <2>3, <1>2
    <3> QED BY <3>2, <3>3
  <2>7. FreeAfter(n) < n - Size => n > Capacity
    BY <2>1, <1>2 DEF FreeAfter
  <2>8. Size <= Capacity
    BY <1>2 DEF Size
  <2>9. Allocated(Moved(n))
    BY <2>5 DEF Allocated
  <2> QED BY <2>1, <2>6, <2>7, <2>8, <2>9, <1>2
<1>4. CASE ~Moves(n) /\ Resets(n)
  <2>1. StartAfter(n) = 0 /\ EndAfter(n) = 0 /\ Size = 0 /\ Moved(n) = buf
    BY <1>4 DEF StartAfter, EndAfter, Resets, Moved
  <2> QED BY <2>1, <1>2 DEF FreeAfter, IInv, TypeOK
<1>5. CASE ~Moves(n) /\ ~Resets(n)
  <2>1. StartAfter(n) = start /\ EndAfter(n) = end /\ Moved(n) = buf
    BY <1>5 DEF StartAfter, EndAfter, Moved
  <2>2. FreeAfter(n) < n - Size => n > Capacity
    BY <1>5, <2>1, <1>2 DEF FreeAfter, Moves, Resets, Fits, Size
  <2> QED BY <2>1, <2>2, <1>2 DEF Size, IInv, TypeOK
<1> QED BY <1>3, <1>4, <1>5

\* Grow, up to its first Read, keeps the invariant.
LEMMA GrowIInv == ASSUME IInv, NEW n \in 0 .. MaxRequest, Grow(n)
                  PROVE  IInv'
<1> USE BufferAssumption
<1>0. n \in Nat /\ n > 0 /\ pc = "idle" /\ nread = 0
  BY DEF Grow, IInv, GrowPending
<1>1. CASE Size >= n
  <2>1. /\ required' = n /\ slice' = 0 /\ ret' = "ok"
        /\ UNCHANGED <<buf, start, end, pc, free, nread, received, taken>>
    BY <1>0, <1>1 DEF Grow, Size, IInv, TypeOK
  <2> QED BY <2>1, <1>0, <1>1
          DEF IInv, TypeOK, WithinCapacity, StreamIntact, GrowServes,
              OverflowOnlyTooLarge, GrowPending, SliceKept, Size
<1>2. CASE Size < n
  <2>1. /\ required' = n /\ slice' = 0
        /\ buf' = Moved(n) /\ start' = StartAfter(n) /\ end' = EndAfter(n)
        /\ free' = FreeAfter(n)
        /\ UNCHANGED <<nread, received, taken>>
    BY <1>0, <1>2 DEF Grow, Size, IInv, TypeOK
  <2>2. \/ FreeAfter(n) < n - Size /\ ret' = "overflow" /\ pc' = "idle"
        \/ FreeAfter(n) >= n - Size /\ pc' = "read" /\ ret' = ret
    BY <1>0, <1>2 DEF Grow, Size, IInv, TypeOK
  <2>3. /\ StartAfter(n) \in 0 .. EndAfter(n) /\ EndAfter(n) \in 0 .. Capacity
        /\ EndAfter(n) - StartAfter(n) = Size
        /\ Allocated(Moved(n))
        /\ \A i \in StartAfter(n) .. EndAfter(n) - 1 :
             Moved(n)[i] = taken + (i - StartAfter(n))
        /\ FreeAfter(n) < n - Size => n > Capacity
    BY <1>0, <1>2, RoomMade
  <2>4. TypeOK'
    BY <2>1, <2>2, <2>3, <1>0 DEF IInv, TypeOK, FreeAfter
  <2>5. WithinCapacity'
    BY <2>1, <2>2, <2>3, <1>0, <1>2 DEF WithinCapacity, FreeAfter
  <2>6. StreamIntact'
    <3>1. received = taken + Size
      BY <1>0 DEF IInv, TypeOK, StreamIntact, Size
    <3> QED BY <2>1, <2>3, <3>1, <1>0 DEF StreamIntact, Size
  <2>7. GrowServes' /\ OverflowOnlyTooLarge' /\ GrowPending'
    BY <2>1, <2>2, <2>3, <1>0, <1>2
       DEF IInv, TypeOK, GrowServes, OverflowOnlyTooLarge, GrowPending, FreeAfter, Size
  <2>8. SliceKept'
    BY <2>1, <2>3 DEF SliceKept
  <2> QED BY <2>4, <2>5, <2>6, <2>7, <2>8 DEF IInv
<1>3. Size \in Int
  BY DEF IInv, TypeOK, Size
<1> QED BY <1>0, <1>1, <1>2, <1>3

\* A Read writes only past end_, so it keeps the invariant.
LEMMA ReadIInv == ASSUME IInv, NEW n \in 1 .. Capacity, Read(n)
                  PROVE  IInv'
<1> USE BufferAssumption
<1>1. /\ pc = "read" /\ n \in 1 .. free /\ nread = 0
      /\ received' = received + n /\ nread' = n /\ pc' = "merge"
      /\ UNCHANGED <<start, end, required, free, ret, slice, taken>>
      /\ buf' = [i \in DOMAIN buf |->
                   IF i \in end .. end + n - 1 THEN received + (i - end) ELSE buf[i]]
  BY DEF Read, IInv, GrowPending
<1>2. PICK k \in Capacity .. MaxSocket : buf \in [0 .. k - 1 -> Nat]
  BY DEF IInv, TypeOK, Allocated
<1>3. /\ start \in Int /\ end \in Int /\ taken \in Int /\ received \in Nat /\ free \in Int
      /\ 0 <= start /\ start <= end /\ end + free = Capacity
      /\ received = taken + (end - start)
      /\ \A i \in start .. end - 1 : buf[i] = taken + (i - start)
  BY <1>1 DEF IInv, TypeOK, WithinCapacity, StreamIntact, Size
<1>4. TypeOK'
  <2>1. buf' \in [0 .. k - 1 -> Nat]
    BY <1>1, <1>2, <1>3
  <2>2. Allocated(buf')
    BY <2>1 DEF Allocated
  <2> QED BY <2>2, <1>1 DEF IInv, TypeOK
<1>5. WithinCapacity' /\ GrowServes' /\ OverflowOnlyTooLarge' /\ GrowPending'
  BY <1>1 DEF IInv, WithinCapacity, GrowServes, OverflowOnlyTooLarge, GrowPending, Size
<1>6. StreamIntact'
  <2>1. received' = taken' + Size' + nread'
    BY <1>1, <1>3 DEF Size
  <2>2. ASSUME NEW i \in start .. end + n - 1 PROVE buf'[i] = taken + (i - start)
    <3>1. i \in 0 .. k - 1
      BY <1>1, <1>2, <1>3
    <3>2. CASE i < end
      BY <3>1, <3>2, <1>1, <1>2, <1>3
    <3>3. CASE i >= end
      BY <3>1, <3>3, <1>1, <1>2, <1>3
    <3> QED BY <3>2, <3>3, <1>3
  <2> QED BY <2>1, <2>2, <1>1 DEF StreamIntact
<1>7. SliceKept'
  BY <1>1, <1>3 DEF IInv, GrowPending, SliceKept
<1> QED BY <1>4, <1>5, <1>6, <1>7 DEF IInv

\* The other steps move pointers over bytes that are already in place.
LEMMA OtherIInv ==
  ASSUME IInv, Merged \/ ReadFails \/ Skip \/ \E n \in 0 .. MaxRequest : ReadSlice(n)
  PROVE  IInv'
<1> USE BufferAssumption
<1>1. CASE Merged
  <2>1. TypeOK'
    BY <1>1 DEF Merged, IInv, TypeOK
  <2>2. WithinCapacity' /\ GrowPending'
    BY <1>1 DEF Merged, IInv, TypeOK, WithinCapacity, GrowPending, Size
  <2>3. GrowServes' /\ OverflowOnlyTooLarge'
    BY <1>1 DEF Merged, IInv, TypeOK, WithinCapacity, GrowServes,
                OverflowOnlyTooLarge, GrowPending, Size
  <2>4. StreamIntact'
    BY <1>1 DEF Merged, IInv, TypeOK, StreamIntact, WithinCapacity, Size
  <2>5. SliceKept'
    BY <1>1 DEF Merged, IInv, TypeOK, GrowPending, SliceKept
  <2> QED BY <2>1, <2>2, <2>3, <2>4, <2>5 DEF IInv
<1>2. CASE ReadFails
  BY <1>2 DEF ReadFails, IInv, TypeOK, WithinCapacity, StreamIntact, GrowServes,
              OverflowOnlyTooLarge, GrowPending, SliceKept, Size
<1>3. CASE Skip
  <2>1. TypeOK'
    BY <1>3 DEF Skip, IInv, TypeOK, growVars
  <2>2. WithinCapacity' /\ GrowServes' /\ OverflowOnlyTooLarge' /\ GrowPending'
    BY <1>3 DEF Skip, IInv, TypeOK, WithinCapacity, GrowServes,
                OverflowOnlyTooLarge, GrowPending, Size, growVars
  <2>3. StreamIntact'
    <3>1. nread = 0 /\ nread' = 0 /\ start \in Int /\ end \in Int /\ taken \in Int
          /\ slice \in Nat /\ received = taken + (end - start) /\ start <= end
          /\ start' = start - slice /\ taken' = taken - slice
          /\ UNCHANGED <<buf, end, received>>
      BY <1>3 DEF Skip, IInv, TypeOK, StreamIntact, WithinCapacity, GrowPending, Size, growVars
    <3>2. ASSUME NEW i \in start - slice .. end - 1 PROVE buf[i] = taken + (i - start)
      <4>1. CASE i < start
        BY <4>1, <3>1 DEF IInv, SliceKept
      <4>2. CASE i >= start
        BY <4>2, <3>1 DEF IInv, StreamIntact
      <4> QED BY <4>1, <4>2, <3>1
    <3> QED BY <3>1, <3>2 DEF StreamIntact, Size
  <2>4. SliceKept'
    BY <1>3 DEF Skip, IInv, TypeOK, SliceKept
  <2> QED BY <2>1, <2>2, <2>3, <2>4 DEF IInv
<1>4. ASSUME NEW n \in 0 .. MaxRequest, ReadSlice(n) PROVE IInv'
  <2>1. TypeOK'
    BY <1>4 DEF ReadSlice, IInv, TypeOK, growVars
  <2>2. WithinCapacity' /\ GrowServes' /\ OverflowOnlyTooLarge' /\ GrowPending'
    BY <1>4 DEF ReadSlice, IInv, TypeOK, WithinCapacity, GrowServes,
                OverflowOnlyTooLarge, GrowPending, Size, growVars
  <2>3. StreamIntact'
    BY <1>4 DEF ReadSlice, IInv, TypeOK, StreamIntact, WithinCapacity, GrowServes,
                GrowPending, Size, growVars
  <2>4. SliceKept'
    <3>1. /\ n \in Nat /\ start \in Int /\ end \in Int /\ taken \in Int /\ slice \in Nat
          /\ start + n <= end /\ nread = 0
          /\ start' = start + n /\ taken' = taken + n /\ slice' = slice + n /\ buf' = buf
      BY <1>4 DEF ReadSlice, IInv, TypeOK, GrowServes, GrowPending, Size
    <3>2. ASSUME NEW i \in start - slice .. start + n - 1 PROVE buf[i] = taken + (i - start)
      <4>1. CASE i < start
        BY <4>1, <3>1 DEF IInv, SliceKept
      <4>2. CASE i >= start
        BY <4>2, <3>1 DEF IInv, StreamIntact
      <4> QED BY <4>1, <4>2, <3>1
    <3> QED BY <3>1, <3>2 DEF SliceKept
  <2> QED BY <2>1, <2>2, <2>3, <2>4 DEF IInv
<1> QED BY <1>1, <1>2, <1>3, <1>4

\* Every step keeps the invariant.
LEMMA NextIInv == IInv /\ [Next]_vars => IInv'
<1> SUFFICES ASSUME IInv, [Next]_vars PROVE IInv'
  OBVIOUS
<1>1. CASE Next
  BY <1>1, SetBufferIInv, GrowIInv, ReadIInv, OtherIInv DEF Next
<1>2. CASE UNCHANGED vars
  BY <1>2 DEF vars, growVars, IInv, TypeOK, WithinCapacity, StreamIntact, GrowServes,
              OverflowOnlyTooLarge, GrowPending, SliceKept, Size
<1> QED BY <1>1, <1>2

\* The pointers of FastBuffer never leave the memory that was allocated, and
\* a Read always has room, whatever sizes SetBuffer and Grow are given.
THEOREM BufferWithinCapacity == Spec => [](TypeOK /\ WithinCapacity)
<1>1. IInv => TypeOK /\ WithinCapacity
  BY DEF IInv
<1> QED BY <1>1, InitIInv, NextIInv, PTL DEF Spec

\* Grow, ReadSlice, Skip and SetBuffer hand the parser the bytes of the
\* socket, each once and in order.
THEOREM BufferStreamIntact == Spec => []StreamIntact
<1>1. IInv => StreamIntact
  BY DEF IInv
<1> QED BY <1>1, InitIInv, NextIInv, PTL DEF Spec

\* No assert of the reading operations fails after a Grow that succeeded: what
\* was asked for is in the buffer until the parser has taken it.
THEOREM BufferServes == Spec => []GrowServes
<1>1. IInv => GrowServes
  BY DEF IInv
<1> QED BY <1>1, InitIInv, NextIInv, PTL DEF Spec

\* Grow fails for want of room only when the request cannot be met by the whole
\* capacity, wherever the bytes not yet read lie.
THEOREM BufferOverflowOnlyTooLarge == Spec => []OverflowOnlyTooLarge
<1>1. IInv => OverflowOnlyTooLarge
  BY DEF IInv
<1> QED BY <1>1, InitIInv, NextIInv, PTL DEF Spec
-----------------------------------------------------------------------------
(***************************************************************************)
(* FastVector: for every size, every number of messages and every value    *)
(* the memory outside an array may hold.                                   *)
(***************************************************************************)
Cells == Wild \cup 1 .. VectorPushes

\* Array a of length nb holds in its first n entries the sequence w, and the
\* first p messages are either there, once each, or in r.
Holds(a, nb, n, w, r, p) ==
  /\ nb \in Nat /\ nb >= 2 /\ n \in 0 .. nb /\ p \in 0 .. VectorPushes
  /\ a \in [0 .. nb - 1 -> Cells]
  /\ w \in Seq(1 .. VectorPushes) /\ Len(w) = n
  /\ \A i \in 0 .. n - 1 : a[i] = w[i + 1]
  /\ \A i, k \in 0 .. n - 1 : a[i] = a[k] => i = k
  /\ First(a, n) \cap r = {} /\ First(a, n) \cup r = 1 .. p

VectorInv == running \in BOOLEAN /\ Holds(msgs_, nb_msgs_, count_, window, released, pushed)

\* A new vector is empty, whatever is in its memory.
LEMMA InitVectorInv == VectorInit => VectorInv
BY VectorAssumption DEF VectorInit, VectorInv, Holds, Cells, First

\* PushBack keeps what was in use and adds one entry, whatever growth copied.
LEMMA PushBackHolds ==
  ASSUME VectorInv, pushed < VectorPushes, NEW past \in [nb_msgs_ .. nb_msgs_ * 2 - 1 -> Wild]
  PROVE  Holds(PushedBack(past), IF Full THEN nb_msgs_ * 2 ELSE nb_msgs_, count_ + 1,
               Append(window, pushed + 1), released, pushed + 1)
<1> DEFINE nb == IF Full THEN nb_msgs_ * 2 ELSE nb_msgs_
           a  == PushedBack(past)
           w  == Append(window, pushed + 1)
<1> USE DEF VectorInv, Holds
<1>1. /\ nb \in Nat /\ nb >= 2 /\ count_ \in 0 .. nb - 1 /\ nb >= nb_msgs_
      /\ pushed + 1 \in 1 .. VectorPushes
  BY VectorAssumption DEF Full
<1>2. /\ Room(past) \in [0 .. nb - 1 -> Cells]
      /\ \A i \in 0 .. count_ - 1 : Room(past)[i] = msgs_[i]
  BY DEF Room, Full, Cells
<1> HIDE DEF nb
<1>3. /\ a \in [0 .. nb - 1 -> Cells] /\ a[count_] = pushed + 1
      /\ \A i \in 0 .. count_ - 1 : a[i] = msgs_[i]
  BY <1>1, <1>2 DEF PushedBack, Cells
<1> HIDE DEF a
<1>4. /\ w \in Seq(1 .. VectorPushes) /\ Len(w) = count_ + 1
      /\ \A i \in 1 .. count_ : w[i] = window[i]
      /\ w[count_ + 1] = pushed + 1
  BY <1>1
<1> HIDE DEF w
<1>5. \A i \in 0 .. count_ - 1 : msgs_[i] \in 1 .. pushed
  BY DEF First
<1>6. \A i \in 0 .. (count_ + 1) - 1 : a[i] = w[i + 1]
  <2> SUFFICES ASSUME NEW i \in 0 .. count_ PROVE a[i] = w[i + 1]
    OBVIOUS
  <2>1. CASE i = count_
    BY <2>1, <1>3, <1>4
  <2>2. CASE i < count_
    <3>1. i \in 0 .. count_ - 1 /\ i + 1 \in 1 .. count_
      BY <2>2
    <3> QED BY <3>1, <1>3, <1>4
  <2> QED BY <2>1, <2>2
<1>7. \A i, k \in 0 .. (count_ + 1) - 1 : a[i] = a[k] => i = k
  <2>1. ASSUME NEW i \in 0 .. count_ - 1 PROVE a[i] # a[count_] /\ a[i] = msgs_[i]
    <3>1. msgs_[i] # pushed + 1
      BY <1>5
    <3> QED BY <3>1, <1>3
  <2>2. \A i, k \in 0 .. count_ - 1 : a[i] = a[k] => i = k
    BY <1>3
  <2>3. 0 .. (count_ + 1) - 1 = 0 .. count_ - 1 \cup {count_}
    OBVIOUS
  <2> HIDE DEF VectorInv
  <2> QED BY <2>1, <2>2, <2>3, Zenon
<1>8. First(a, count_ + 1) = First(msgs_, count_) \cup {pushed + 1}
  <2>1. First(a, count_ + 1) = {a[i] : i \in 0 .. count_ - 1} \cup {a[count_]}
    <3>1. 0 .. (count_ + 1) - 1 = 0 .. count_ - 1 \cup {count_}
      OBVIOUS
    <3> QED BY <3>1 DEF First
  <2>2. {a[i] : i \in 0 .. count_ - 1} = First(msgs_, count_)
    BY <1>3 DEF First
  <2> QED BY <2>1, <2>2, <1>3
<1>9. pushed + 1 \notin released /\ 1 .. pushed + 1 = 1 .. pushed \cup {pushed + 1}
  OBVIOUS
<1>10. First(a, count_ + 1) \cap released = {} /\ First(a, count_ + 1) \cup released = 1 .. pushed + 1
  BY <1>8, <1>9
<1> QED BY <1>1, <1>3, <1>4, <1>6, <1>7, <1>10 DEF nb, a, w

\* Shrink frees each message it does not keep, and keeps the others in their order.
LEMMA ShrunkHolds ==
  ASSUME NEW a, NEW nb, NEW n, NEW w, NEW r, NEW p, Holds(a, nb, n, w, r, p),
         NEW keep \in Kept(n)
  PROVE  Holds(Shrunk(a, keep), nb, Len(keep), [i \in 1 .. Len(keep) |-> w[keep[i] + 1]],
               r \cup (First(a, n) \ {a[keep[i]] : i \in 1 .. Len(keep)}), p)
<1> DEFINE b == Shrunk(a, keep)
           m == Len(keep)
           v == [i \in 1 .. m |-> w[keep[i] + 1]]
           K == {a[keep[i]] : i \in 1 .. m}
<1> USE DEF Holds
<1>1. /\ m \in 0 .. 2 /\ m <= nb
      /\ \A i \in 1 .. m : keep[i] \in 0 .. n - 1
      /\ \A i, k \in 1 .. m : keep[i] = keep[k] => i = k
  <2>1. CASE keep = <<>>
    BY <2>1
  <2>2. ASSUME NEW j \in 0 .. n - 1, keep = <<j>>
        PROVE  m = 1 /\ keep[1] \in 0 .. n - 1
    BY <2>2
  <2>3. ASSUME NEW j \in 0 .. n - 1, NEW k \in 0 .. n - 1, keep = <<j, k>>
        PROVE  m = 2 /\ keep[1] \in 0 .. n - 1 /\ keep[2] \in 0 .. n - 1 /\ keep[1] # keep[2]
    BY <2>3 DEF Kept
  <2>4. \/ keep = <<>>
        \/ \E j \in 0 .. n - 1 : keep = <<j>>
        \/ \E j, k \in 0 .. n - 1 : keep = <<j, k>>
    BY DEF Kept
  <2> HIDE DEF m
  <2>5. CASE m = 1 /\ keep[1] \in 0 .. n - 1
    BY <2>5
  <2>6. CASE m = 2 /\ keep[1] \in 0 .. n - 1 /\ keep[2] \in 0 .. n - 1 /\ keep[1] # keep[2]
    BY <2>6
  <2> QED BY <2>1, <2>2, <2>3, <2>4, <2>5, <2>6 DEF m
<1> HIDE DEF m
<1>2. /\ b \in [0 .. nb - 1 -> Cells]
      /\ \A i \in 0 .. m - 1 : b[i] = a[keep[i + 1]]
  <2>1. b = [i \in 0 .. nb - 1 |-> IF i < m THEN a[keep[i + 1]] ELSE a[i]]
    BY DEF Shrunk, m
  <2>2. ASSUME NEW i \in 0 .. nb - 1, i < m PROVE keep[i + 1] \in 0 .. nb - 1
    <3>1. i + 1 \in 1 .. m
      BY <1>1, <2>2
    <3>2. keep[i + 1] \in 0 .. n - 1
      BY <1>1, <3>1
    <3> QED BY <3>2
  <2>3. \A i \in 0 .. nb - 1 : (IF i < m THEN a[keep[i + 1]] ELSE a[i]) \in Cells
    BY <2>2
  <2> HIDE DEF b
  <2>4. b \in [0 .. nb - 1 -> Cells]
    BY <2>1, <2>3
  <2>5. \A i \in 0 .. m - 1 : i \in 0 .. nb - 1 /\ i < m
    BY <1>1
  <2> QED BY <2>1, <2>4, <2>5
<1> HIDE DEF b
<1>3. \A i \in 1 .. m : keep[i] + 1 \in 1 .. n /\ a[keep[i]] = w[keep[i] + 1]
  BY <1>1
<1>4. v \in Seq(1 .. VectorPushes) /\ Len(v) = m /\ \A i \in 1 .. m : v[i] = w[keep[i] + 1]
  <2>1. \A i \in 1 .. m : w[keep[i] + 1] \in 1 .. VectorPushes
    <3>1. \A x \in 1 .. n : w[x] \in 1 .. VectorPushes
      <4>1. w \in Seq(1 .. VectorPushes) /\ Len(w) = n
        OBVIOUS
      <4> QED BY <4>1, ElementOfSeq
    <3> QED BY <1>3, <3>1
  <2> QED BY <1>1, <2>1
<1> HIDE DEF v
<1>5. \A i \in 0 .. m - 1 : b[i] = v[i + 1]
  <2> SUFFICES ASSUME NEW i \in 0 .. m - 1 PROVE b[i] = v[i + 1]
    OBVIOUS
  <2>1. i + 1 \in 1 .. m
    BY <1>1
  <2> QED BY <2>1, <1>2, <1>3, <1>4
<1>6. \A i, k \in 0 .. m - 1 : b[i] = b[k] => i = k
  <2> SUFFICES ASSUME NEW i \in 0 .. m - 1, NEW k \in 0 .. m - 1, b[i] = b[k] PROVE i = k
    OBVIOUS
  <2>1. i + 1 \in 1 .. m /\ k + 1 \in 1 .. m
    BY <1>1
  <2>2. keep[i + 1] = keep[k + 1]
    <3>1. keep[i + 1] \in 0 .. n - 1 /\ keep[k + 1] \in 0 .. n - 1
      BY <1>1, <2>1
    <3>2. a[keep[i + 1]] = a[keep[k + 1]]
      BY <1>2
    <3> QED BY <3>1, <3>2
  <2> QED BY <2>1, <2>2, <1>1
<1>7. First(b, m) = K /\ K \subseteq First(a, n)
  <2>1. First(b, m) \subseteq K
    <3> SUFFICES ASSUME NEW i \in 0 .. m - 1 PROVE b[i] \in K
      BY DEF First
    <3>1. i + 1 \in 1 .. m /\ b[i] = a[keep[i + 1]]
      BY <1>1, <1>2
    <3> QED BY <3>1
  <2>2. K \subseteq First(b, m)
    <3> SUFFICES ASSUME NEW i \in 1 .. m PROVE a[keep[i]] \in First(b, m)
      OBVIOUS
    <3>1. i - 1 \in 0 .. m - 1 /\ (i - 1) + 1 = i
      BY <1>1
    <3>2. b[i - 1] = a[keep[i]]
      BY <3>1, <1>2
    <3> QED BY <3>1, <3>2 DEF First
  <2>3. K \subseteq First(a, n)
    BY <1>1 DEF First
  <2> QED BY <2>1, <2>2, <2>3
<1>8. /\ First(b, m) \cap (r \cup (First(a, n) \ K)) = {}
      /\ First(b, m) \cup (r \cup (First(a, n) \ K)) = 1 .. p
  BY <1>7
<1> QED BY <1>1, <1>2, <1>4, <1>5, <1>6, <1>8 DEF b, m, v

\* Erase from the front hands out the oldest messages and moves the others up.
LEMMA DumpPacketsInv ==
  ASSUME VectorInv, NEW n \in 1 .. count_, DumpPackets(n) PROVE VectorInv'
<1> DEFINE a == msgs_'
           c == count_ - n
           v == SubSeq(window, n + 1, Len(window))
<1> USE DEF VectorInv, Holds
<1>1. c \in 0 .. nb_msgs_ /\ count_ \in Nat /\ n \in Nat /\ c = count_ - n
  OBVIOUS
<1>2. /\ a \in [0 .. nb_msgs_ - 1 -> Cells]
      /\ \A i \in 0 .. c - 1 : a[i] = msgs_[n + i]
  <2>1. a = [i \in 0 .. nb_msgs_ - 1 |->
               IF i \in 0 .. 0 + (count_ - n) - 1 THEN msgs_[n + (i - 0)] ELSE msgs_[i]]
    BY DEF DumpPackets, Erased
  <2>2. \A i \in 0 .. nb_msgs_ - 1 :
          i \in 0 .. 0 + (count_ - n) - 1 => n + (i - 0) \in 0 .. nb_msgs_ - 1 /\ n + (i - 0) = n + i
    BY <1>1
  <2> HIDE DEF a
  <2> QED BY <1>1, <2>1, <2>2
<1>3. v \in Seq(1 .. VectorPushes) /\ Len(v) = c /\ \A i \in 1 .. c : v[i] = window[n + i]
  BY <1>1, SubSeqProperties
<1>4. /\ count_' = c /\ window' = v /\ nb_msgs_' = nb_msgs_ /\ pushed' = pushed
      /\ released' = released \cup First(msgs_, n) /\ running' = running
  BY DEF DumpPackets
<1> HIDE DEF a, c, v
<1>5. \A i \in 0 .. c - 1 : a[i] = v[i + 1]
  <2> SUFFICES ASSUME NEW i \in 0 .. c - 1 PROVE a[i] = v[i + 1]
    OBVIOUS
  <2>1. n + i \in 0 .. count_ - 1 /\ i + 1 \in 1 .. c /\ (n + i) + 1 = n + (i + 1)
    BY <1>1
  <2> QED BY <2>1, <1>2, <1>3
<1>6. \A i, k \in 0 .. c - 1 : a[i] = a[k] => i = k
  <2> SUFFICES ASSUME NEW i \in 0 .. c - 1, NEW k \in 0 .. c - 1, a[i] = a[k] PROVE i = k
    OBVIOUS
  <2>1. n + i \in 0 .. count_ - 1 /\ n + k \in 0 .. count_ - 1
    BY <1>1
  <2>2. n + i = n + k
    BY <2>1, <1>2
  <2> QED BY <2>2, <1>1
<1>7. First(a, c) \cup First(msgs_, n) = First(msgs_, count_)
  <2>1. First(a, c) \subseteq First(msgs_, count_)
    BY <1>1, <1>2 DEF First
  <2>2. First(msgs_, n) \subseteq First(msgs_, count_)
    BY <1>1 DEF First
  <2>3. ASSUME NEW i \in 0 .. count_ - 1, i >= n PROVE msgs_[i] \in First(a, c)
    <3>1. i - n \in 0 .. c - 1 /\ n + (i - n) = i
      BY <1>1, <2>3
    <3>2. a[i - n] = msgs_[i]
      BY <3>1, <1>2
    <3> QED BY <3>1, <3>2 DEF First
  <2>4. First(msgs_, count_) \subseteq First(a, c) \cup First(msgs_, n)
    <3> SUFFICES ASSUME NEW i \in 0 .. count_ - 1
                 PROVE  msgs_[i] \in First(a, c) \cup First(msgs_, n)
      BY DEF First
    <3>1. CASE i >= n
      BY <2>3, <3>1
    <3>2. CASE i < n
      BY <1>1, <3>2 DEF First
    <3> QED BY <1>1, <3>1, <3>2
  <2> QED BY <2>1, <2>2, <2>4
<1>8. First(a, c) \cap First(msgs_, n) = {}
  <2> SUFFICES ASSUME NEW i \in 0 .. c - 1, NEW k \in 0 .. n - 1, a[i] = msgs_[k] PROVE FALSE
    BY DEF First
  <2>1. n + i \in 0 .. count_ - 1 /\ k \in 0 .. count_ - 1 /\ n + i # k
    BY <1>1
  <2> QED BY <2>1, <1>2
<1>9. First(a, c) \cap released' = {} /\ First(a, c) \cup released' = 1 .. pushed
  BY <1>4, <1>7, <1>8
<1>10. Holds(a, nb_msgs_, c, v, released', pushed)
  BY <1>1, <1>2, <1>3, <1>5, <1>6, <1>9
<1> QED BY <1>4, <1>10 DEF a

\* Every operation keeps the array and the sequence together.
LEMMA NextVectorInv == VectorInv /\ [VectorNext]_vectorVars => VectorInv'
<1> SUFFICES ASSUME VectorInv, [VectorNext]_vectorVars PROVE VectorInv'
  OBVIOUS
<1>1. CASE Enqueue
  <2> DEFINE nb == IF Full THEN nb_msgs_ * 2 ELSE nb_msgs_
             w  == Append(window, pushed + 1)
  <2>1. pushed < VectorPushes /\ pushed' = pushed + 1 /\ running' = running /\ nb_msgs_' = nb
    BY <1>1 DEF Enqueue
  <2>2. PICK past \in [nb_msgs_ .. nb_msgs_ * 2 - 1 -> Wild] :
          \/ /\ msgs_' = PushedBack(past) /\ count_' = count_ + 1
             /\ window' = w /\ UNCHANGED released
          \/ \E keep \in Kept(count_ + 1) :
               /\ msgs_' = Shrunk(PushedBack(past), keep)
               /\ count_' = Len(keep)
               /\ window' = [i \in 1 .. Len(keep) |-> w[keep[i] + 1]]
               /\ released' = released \cup (First(PushedBack(past), count_ + 1)
                                              \ {PushedBack(past)[keep[i]] : i \in 1 .. Len(keep)})
    BY <1>1, Zenon DEF Enqueue
  <2>3. Holds(PushedBack(past), nb, count_ + 1, w, released, pushed + 1)
    BY <2>1, PushBackHolds
  <2> HIDE DEF nb, w
  <2>4. CASE /\ msgs_' = PushedBack(past) /\ count_' = count_ + 1
             /\ window' = w /\ UNCHANGED released
    BY <2>1, <2>3, <2>4 DEF VectorInv
  <2>5. ASSUME NEW keep \in Kept(count_ + 1),
               msgs_' = Shrunk(PushedBack(past), keep),
               count_' = Len(keep),
               window' = [i \in 1 .. Len(keep) |-> w[keep[i] + 1]],
               released' = released \cup (First(PushedBack(past), count_ + 1)
                                          \ {PushedBack(past)[keep[i]] : i \in 1 .. Len(keep)})
        PROVE  VectorInv'
    <3>1. Holds(msgs_', nb, count_', window', released', pushed + 1)
      BY <2>3, <2>5, ShrunkHolds
    <3> QED BY <2>1, <3>1 DEF VectorInv
  <2> QED BY <2>2, <2>4, <2>5
<1>2. CASE EnqueueFaults
  BY <1>2 DEF EnqueueFaults, VectorInv
<1>3. CASE Free
  <2>1. First(msgs_, 0) = {}
    BY DEF First
  <2>2. Holds(msgs_, nb_msgs_, 0, <<>>, released \cup First(msgs_, count_), pushed)
    BY <2>1 DEF VectorInv, Holds
  <2> QED BY <1>3, <2>2 DEF Free, VectorInv
<1>4. CASE UNCHANGED vectorVars
  BY <1>4 DEF vectorVars, VectorInv
<1> QED BY <1>1, <1>2, <1>3, <1>4, DumpPacketsInv DEF VectorNext

LEMMA VectorInvariant == VectorSpec => []VectorInv
BY InitVectorInv, NextVectorInv, PTL DEF VectorSpec

(***************************************************************************)
(* FastVector stands for the sequence of MessageQueue whatever the reads   *)
(* outside the array give: growth never brings a wild value into use.      *)
(***************************************************************************)
THEOREM VectorHoldsWindow == VectorSpec => [](VectorTypeOK /\ HoldsWindow)
<1>1. VectorInv => VectorTypeOK /\ HoldsWindow
  <2> SUFFICES ASSUME VectorInv PROVE VectorTypeOK /\ HoldsWindow
    OBVIOUS
  <2>1. released \subseteq 1 .. pushed /\ pushed \in 0 .. VectorPushes
    BY DEF VectorInv, Holds
  <2>2. HoldsWindow
    <3>1. nb_msgs_ \in Nat /\ count_ \in 0 .. nb_msgs_ /\ count_ = Len(window)
          /\ msgs_ \in [0 .. nb_msgs_ - 1 -> Cells]
          /\ \A i \in 0 .. count_ - 1 : msgs_[i] = window[i + 1]
      BY DEF VectorInv, Holds
    <3> QED BY <3>1 DEF HoldsWindow
  <2>3. /\ nb_msgs_ \in Nat \ {0} /\ count_ \in 0 .. nb_msgs_
        /\ msgs_ \in [0 .. nb_msgs_ - 1 -> Cells] /\ running \in BOOLEAN
        /\ window \in Seq(1 .. VectorPushes)
    BY DEF VectorInv, Holds
  <2>4. released \subseteq 1 .. VectorPushes
    <3>1. 1 .. pushed \subseteq 1 .. VectorPushes
      BY <2>1, VectorAssumption
    <3> QED BY <2>1, <3>1
  <2> QED BY <2>1, <2>2, <2>3, <2>4 DEF VectorTypeOK, Cells
<1> QED BY <1>1, VectorInvariant, PTL

(***************************************************************************)
(* No message of a window is freed twice or lost by Erase, Shrink or Free. *)
(***************************************************************************)
THEOREM VectorOwnedOnce == VectorSpec => []OwnedOnce
<1>1. VectorInv => OwnedOnce
  BY DEF VectorInv, Holds, OwnedOnce
<1> QED BY <1>1, VectorInvariant, PTL
=============================================================================

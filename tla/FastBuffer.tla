----------------------------- MODULE FastBuffer -----------------------------
(***************************************************************************)
(* common/buffer.cpp, FastBuffer: the receive buffer between the socket    *)
(* and the chunk parser.  Pointers are offsets from buf_; a byte is its    *)
(* position in the stream of bytes the peer sent, so that a lost, repeated *)
(* or overwritten byte shows.  DOMAIN buf is what malloc or realloc gave;  *)
(* capacity_ is set once, in the constructor, and never again.             *)
(*                                                                         *)
(* Grow blocks in Read and again in the OnRead handler of a merged read    *)
(* before end_ moves.  The connection's coroutine and its receive thread   *)
(* never read at the same time, so no other call falls between.            *)
(***************************************************************************)
EXTENDS Integers

CONSTANTS Capacity,    \* RS_DEFAULT_RECV_BUFFER_SIZE
          MaxSocket,   \* RS_MAX_SOCKET_BUFFER_SIZE
          MaxRequest,  \* largest size a caller asks Grow or SetBuffer for
          MaxBytes     \* bytes the peer sends

ASSUME BufferAssumption ==
  /\ Capacity \in Nat \ {0}
  /\ MaxSocket \in Nat /\ Capacity <= MaxSocket
  /\ MaxRequest \in Nat
  /\ MaxBytes \in Nat

VARIABLES
  buf,       \* the memory behind buf_
  start,     \* start_ - buf_
  end,       \* end_ - buf_
  pc,        \* "idle", or where Grow blocks: "read", or "merge" in OnRead
  required,  \* required_size of the Grow under way or last returned
  free,      \* free_space of that Grow
  nread,     \* what Read gave, while OnRead runs
  ret,       \* what the last Grow returned: "ok", "overflow", "socket"
  slice,     \* size of the slice taken since the last Grow began, 0 if none
  received,  \* bytes the socket has given
  taken      \* bytes the parser has taken

growVars == <<pc, required, free, nread, ret>>
vars == <<buf, start, end, growVars, slice, received, taken>>

Size == end - start

Init ==
  /\ buf = [i \in 0 .. Capacity - 1 |-> 0]
  /\ start = 0 /\ end = 0
  /\ pc = "idle" /\ required = 0 /\ free = 0 /\ nread = 0 /\ ret = "ok"
  /\ slice = 0
  /\ received = 0 /\ taken = 0

\* SetBuffer: realloc to the size asked for; nothing is done below capacity_.
SetBuffer(n) ==
  LET size == IF n > MaxSocket THEN MaxSocket ELSE n
  IN  /\ pc = "idle"
      /\ size >= Capacity
      /\ buf' = [i \in 0 .. size - 1 |-> IF i \in DOMAIN buf THEN buf[i] ELSE 0]
      /\ UNCHANGED <<start, end, growVars, slice, received, taken>>
-----------------------------------------------------------------------------
(***************************************************************************)
(* Grow makes room: nothing to do, reset an empty buffer, or move what is  *)
(* left to the front.                                                      *)
(***************************************************************************)
Fits(n)   == Capacity - end >= n - Size
Moves(n)  == ~Fits(n) /\ Size # 0 /\ Size < Capacity /\ start > 0

Resets(n) == ~Fits(n) /\ Size = 0

StartAfter(n) == IF Moves(n) \/ Resets(n) THEN 0 ELSE start
EndAfter(n)   == IF Moves(n) \/ Resets(n) THEN Size ELSE end

\* Mutant: memmove is given the wrong source, and moves nothing.
MovedNothing(n) == buf

Moved(n) ==
  IF Moves(n)
  THEN [i \in DOMAIN buf |-> IF i < Size THEN buf[start + i] ELSE buf[i]]
  ELSE buf

FreeAfter(n) == Capacity - EndAfter(n)

\* Grow, up to its first Read.
Grow(n) ==
  /\ pc = "idle" /\ n > 0
  /\ required' = n /\ slice' = 0
  /\ \/ /\ Size >= n
        /\ ret' = "ok"
        /\ UNCHANGED <<buf, start, end, pc, free>>
     \/ /\ Size < n
        /\ buf' = Moved(n) /\ start' = StartAfter(n) /\ end' = EndAfter(n)
        /\ free' = FreeAfter(n)
        /\ \/ /\ FreeAfter(n) < n - Size
              /\ ret' = "overflow" /\ pc' = pc
           \/ /\ FreeAfter(n) >= n - Size
              /\ pc' = "read" /\ ret' = ret
  /\ UNCHANGED <<nread, received, taken>>

\* Read gives n bytes, at end_.
Read(n) ==
  /\ pc = "read" /\ n \in 1 .. free /\ received + n <= MaxBytes
  /\ buf' = [i \in DOMAIN buf |->
               IF i \in end .. end + n - 1 THEN received + (i - end) ELSE buf[i]]
  /\ received' = received + n
  /\ nread' = n
  /\ pc' = "merge"
  /\ UNCHANGED <<start, end, required, free, ret, slice, taken>>

\* Mutant: one Read, in place of reading until there is enough.
MergedOnce ==
  /\ pc = "merge"
  /\ end' = end + nread
  /\ free' = free - nread
  /\ nread' = 0
  /\ pc' = "idle" /\ ret' = "ok"
  /\ UNCHANGED <<buf, start, required, slice, received, taken>>

\* Mutant: free_space is not reduced by what was read.
MergedKeepsFree ==
  /\ pc = "merge"
  /\ end' = end + nread
  /\ nread' = 0
  /\ IF end + nread - start < required
     THEN pc' = "read" /\ ret' = ret
     ELSE pc' = "idle" /\ ret' = "ok"
  /\ UNCHANGED <<buf, start, required, free, slice, received, taken>>

\* OnRead returns: account for the bytes, and read on or return.
Merged ==
  /\ pc = "merge"
  /\ end' = end + nread
  /\ free' = free - nread
  /\ nread' = 0
  /\ IF end + nread - start < required
     THEN pc' = "read" /\ ret' = ret
     ELSE pc' = "idle" /\ ret' = "ok"
  /\ UNCHANGED <<buf, start, required, slice, received, taken>>

\* Read fails: timeout, interrupt or end of stream.
ReadFails ==
  /\ pc = "read"
  /\ pc' = "idle" /\ ret' = "socket"
  /\ UNCHANGED <<buf, start, end, required, free, nread, slice, received, taken>>
-----------------------------------------------------------------------------
(***************************************************************************)
(* The parser takes what a successful Grow promised it: Read1Bytes and     *)
(* ReadSlice of up to the required size.  Their asserts follow from Size.  *)
(***************************************************************************)
ReadSlice(n) ==
  /\ pc = "idle" /\ ret = "ok" /\ n > 0 /\ slice + n <= required
  /\ start' = start + n
  /\ taken' = taken + n
  /\ slice' = slice + n
  /\ UNCHANGED <<buf, end, growVars, received>>

\* Skip(-n) right after the slice of n that ReadMessageHeader gives back.
Skip ==
  /\ pc = "idle" /\ slice > 0
  /\ start' = start - slice
  /\ taken' = taken - slice
  /\ slice' = 0
  /\ UNCHANGED <<buf, end, growVars, received>>
-----------------------------------------------------------------------------
Next ==
  \/ \E n \in 0 .. MaxRequest : SetBuffer(n) \/ Grow(n) \/ ReadSlice(n)
  \/ \E n \in 1 .. Capacity : Read(n)
  \/ Merged \/ ReadFails \/ Skip

Spec == Init /\ [][Next]_vars
-----------------------------------------------------------------------------
\* What b holds is memory of at least capacity_ bytes.
Allocated(b) == \E k \in Capacity .. MaxSocket : b \in [0 .. k - 1 -> Nat]

TypeOK ==
  /\ Allocated(buf)
  /\ start \in Int /\ end \in Int
  /\ pc \in {"idle", "read", "merge"}
  /\ required \in Nat /\ free \in Int /\ nread \in Nat
  /\ ret \in {"ok", "overflow", "socket"}
  /\ slice \in Nat /\ received \in Nat /\ taken \in Int

(***************************************************************************)
(* The pointers stay in order and inside capacity_, and a Read under way   *)
(* may fill exactly the room there is, which is never none: an st_read of  *)
(* 0 bytes would be taken for the end of the stream.                       *)
(***************************************************************************)
WithinCapacity ==
  /\ 0 <= start /\ start <= end /\ end <= Capacity
  /\ pc # "idle" => end + free = Capacity
  /\ pc = "read" => free > 0
  /\ pc = "merge" => nread \in 1 .. free

(***************************************************************************)
(* Between start_ and end_ lie exactly the bytes received and not yet      *)
(* taken, in order: no reset, memmove, realloc, failed read or Skip back   *)
(* loses, repeats or overwrites one.                                       *)
(***************************************************************************)
StreamIntact ==
  /\ received = taken + Size + nread
  /\ \A i \in start .. end + nread - 1 : buf[i] = taken + (i - start)

(***************************************************************************)
(* After a Grow that succeeded the parser finds all it asked for, also     *)
(* when it takes it in pieces or steps back: no assert of Read1Bytes,      *)
(* ReadSlice or Skip can fail.                                             *)
(***************************************************************************)
GrowServes ==
  pc = "idle" => /\ ret = "ok" => Size + slice >= required
                 /\ slice <= start

(***************************************************************************)
(* Grow reports an overflow only for a request larger than the whole       *)
(* buffer, never for want of moving bytes it could have moved.             *)
(***************************************************************************)
OverflowOnlyTooLarge ==
  pc = "idle" /\ ret = "overflow" => required > Capacity
=============================================================================

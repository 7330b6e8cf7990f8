----------------------------- MODULE FastVector -----------------------------
(***************************************************************************)
(* common/queue.hpp, FastVector<SharedPtrMessage *>: the array behind the  *)
(* window of a consumer, with the operations as MessageQueue calls them.   *)
(* A message is its number; 0 is no message.                               *)
(*                                                                         *)
(* PushBack grows by copying twice the entries the old array has, so half  *)
(* of what it copies lies outside that array.  The read is undefined: it   *)
(* gives any value, or ends the process.                                   *)
(***************************************************************************)
EXTENDS Integers, Sequences

CONSTANTS DefaultSize,  \* FAST_VEC_DEFAULT_SIZE, what every vector starts with
          VectorPushes, \* messages pushed
          Wild          \* what memory outside an array, or not yet written, may hold

ASSUME VectorAssumption ==
  DefaultSize \in Nat /\ DefaultSize >= 2 /\ VectorPushes \in Nat /\ Wild # {}

VARIABLES
  msgs_,        \* the array
  nb_msgs_,     \* its length
  count_,       \* entries in use
  running,      \* FALSE when a bad read has ended the process or the vector is destroyed
  pushed,       \* messages pushed so far; the next one's number is one more
  window,       \* the sequence of messages the vector stands for
  released      \* messages handed to the sender or freed

vectorVars == <<msgs_, nb_msgs_, count_, running, pushed, window, released>>

VectorInit ==
  /\ msgs_ \in [0 .. DefaultSize - 1 -> Wild]
  /\ nb_msgs_ = DefaultSize
  /\ count_ = 0
  /\ running = TRUE
  /\ pushed = 0 /\ window = <<>> /\ released = {}

\* The first n entries of array a.
First(a, n) == {a[i] : i \in 0 .. n - 1}
-----------------------------------------------------------------------------
\* Mutant: the vector grows one message too late.
FullLate == count_ > nb_msgs_

Full == count_ >= nb_msgs_

\* The array PushBack stores into: the old one, or one of twice its length.
Room(past) ==
  IF ~Full THEN msgs_
  ELSE [i \in 0 .. nb_msgs_ * 2 - 1 |-> IF i < nb_msgs_ THEN msgs_[i] ELSE past[i]]

\* The array after PushBack of the next message.
PushedBack(past) == [Room(past) EXCEPT ![count_] = pushed + 1]

\* What Shrink may keep of n messages: at most two, by their positions.
Kept(n) ==
  {k \in {<<>>} \cup {<<i>> : i \in 0 .. n - 1} \cup ((0 .. n - 1) \X (0 .. n - 1)) :
     Len(k) = 2 => k[1] # k[2]}

\* Mutant: the header kept first is not pushed back when a second one is.
ShrunkLoses(a, keep) ==
  [i \in DOMAIN a |-> IF i < Len(keep) THEN a[keep[Len(keep)]] ELSE a[i]]

\* Array a after Clear, and PushBack of the entries it had at positions keep.
Shrunk(a, keep) == [i \in DOMAIN a |-> IF i < Len(keep) THEN a[keep[i + 1]] ELSE a[i]]

(***************************************************************************)
(* MessageQueue::Enqueue: PushBack, and when the window is too long Shrink *)
(* reads every entry, keeps at most a header of each track, and frees the  *)
(* others.  Which messages these are is the business of MessageQueue.      *)
(***************************************************************************)
Enqueue ==
  /\ running /\ pushed < VectorPushes
  /\ nb_msgs_' = IF Full THEN nb_msgs_ * 2 ELSE nb_msgs_
  /\ pushed' = pushed + 1
  /\ UNCHANGED running
  /\ \E past \in [nb_msgs_ .. nb_msgs_ * 2 - 1 -> Wild] :
       LET a == PushedBack(past)
           w == Append(window, pushed + 1)
       IN  \/ /\ msgs_' = a
              /\ count_' = count_ + 1
              /\ window' = w
              /\ UNCHANGED released
           \/ \E keep \in Kept(count_ + 1) :
                /\ msgs_' = Shrunk(a, keep)
                /\ count_' = Len(keep)
                /\ window' = [i \in 1 .. Len(keep) |-> w[keep[i] + 1]]
                /\ released' = released \cup (First(a, count_ + 1)
                                               \ {a[keep[i]] : i \in 1 .. Len(keep)})

\* The copy of PushBack leaves the memory of the process.
EnqueueFaults ==
  /\ running /\ pushed < VectorPushes /\ Full
  /\ running' = FALSE
  /\ UNCHANGED <<msgs_, nb_msgs_, count_, pushed, window, released>>

\* The array after Erase(begin, end): what is in use from end on moves to begin.
Erased(begin, end) ==
  [i \in DOMAIN msgs_ |->
     IF i \in begin .. begin + (count_ - end) - 1 THEN msgs_[end + (i - begin)] ELSE msgs_[i]]

\* MessageQueue::DumpPackets hands out the first n messages.
DumpPackets(n) ==
  /\ running
  /\ msgs_' = Erased(0, n)
  /\ count_' = count_ - n
  /\ released' = released \cup First(msgs_, n)
  /\ window' = SubSeq(window, n + 1, Len(window))
  /\ UNCHANGED <<nb_msgs_, running, pushed>>

\* The queue is destroyed: Free.
Free ==
  /\ running
  /\ running' = FALSE
  /\ released' = released \cup First(msgs_, count_)
  /\ count_' = 0
  /\ window' = <<>>
  /\ UNCHANGED <<msgs_, nb_msgs_, pushed>>

VectorNext ==
  \/ Enqueue \/ EnqueueFaults \/ Free
  \/ \E n \in 1 .. count_ : DumpPackets(n)

VectorSpec == VectorInit /\ [][VectorNext]_vectorVars
-----------------------------------------------------------------------------
VectorTypeOK ==
  /\ nb_msgs_ \in Nat \ {0} /\ count_ \in 0 .. nb_msgs_
  /\ msgs_ \in [0 .. nb_msgs_ - 1 -> Wild \cup 1 .. VectorPushes]
  /\ running \in BOOLEAN
  /\ pushed \in 0 .. VectorPushes
  /\ window \in Seq(1 .. VectorPushes)
  /\ released \subseteq 1 .. VectorPushes

(***************************************************************************)
(* Unless the process ends, the vector holds the sequence that its user    *)
(* believes it holds: nothing that growth copied from outside the old      *)
(* array, and nothing a shrink or a dump left behind, is ever in use, and  *)
(* no entry in use lies outside the array.                                 *)
(***************************************************************************)
HoldsWindow ==
  /\ count_ = Len(window) /\ count_ <= nb_msgs_
  /\ \A i \in 0 .. count_ - 1 : i \in DOMAIN msgs_ /\ msgs_[i] = window[i + 1]

(***************************************************************************)
(* Every message has one owner: it is in the vector at one position, or it *)
(* was handed out or freed; so none is freed twice and none is lost.       *)
(***************************************************************************)
OwnedOnce ==
  /\ \A i, k \in 0 .. count_ - 1 : msgs_[i] = msgs_[k] => i = k
  /\ First(msgs_, count_) \cap released = {}
  /\ First(msgs_, count_) \cup released = 1 .. pushed
=============================================================================

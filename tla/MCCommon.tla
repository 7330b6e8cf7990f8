------------------------------ MODULE MCCommon ------------------------------
(***************************************************************************)
(* The model-checked instance of FastBuffer, Thread, FastVector and        *)
(* MixCorrect, four classes of src/common that share nothing.  In a        *)
(* behaviour one of them is used and the others stay as they were made:    *)
(* every state of each is reached, and no product of their states is       *)
(* built.  What a new vector's memory holds matters to the vector alone:   *)
(* the others are used beside one of its initial states.                   *)
(***************************************************************************)
EXTENDS FastBuffer, Thread, FastVector, MixCorrect

CommonInit == Init /\ ThreadInit /\ VectorInit /\ MixInit

OneMemory == msgs_ = CHOOSE a \in [0 .. DefaultSize - 1 -> Wild] : TRUE

BufferUsed ==
  /\ ThreadInit /\ VectorInit /\ MixInit /\ OneMemory
  /\ Next /\ UNCHANGED <<threadVars, vectorVars, mixVars>>

ThreadUsed ==
  /\ Init /\ VectorInit /\ MixInit /\ OneMemory
  /\ ThreadNext /\ UNCHANGED <<vars, vectorVars, mixVars>>

VectorUsed ==
  /\ Init /\ ThreadInit /\ MixInit
  /\ VectorNext /\ UNCHANGED <<vars, threadVars, mixVars>>

MixUsed ==
  /\ Init /\ ThreadInit /\ VectorInit /\ OneMemory
  /\ MixNext /\ UNCHANGED <<vars, threadVars, vectorVars>>

CommonNext == BufferUsed \/ ThreadUsed \/ VectorUsed \/ MixUsed

CommonSpec == CommonInit /\ [][CommonNext]_<<vars, threadVars, vectorVars, mixVars>>
=============================================================================

-------------------------------- MODULE Amf0 --------------------------------
(***************************************************************************)
(* protocol/rtmp_amf0.cpp: the values of AMF0, their size, how they are    *)
(* written into a BufferManager and read from one.                         *)
(*                                                                         *)
(* A value is [marker, bytes] for String, Number, Boolean, Null,           *)
(* Undefined, Date and ObjectEOF (bytes are its contents, a number's eight *)
(* bytes included), [marker, props] for Object and [marker, count, props]  *)
(* for EcmaArray; props is the sequence of [key, val] of UnsortHashTable.  *)
(* A buffer is a sequence of bytes 0 .. Base - 1 and a position is the     *)
(* index of the next byte.                                                 *)
(*                                                                         *)
(* Every write asks for room before each part it writes, in order, so that *)
(* writes succeed exactly when all their bytes fit.  Reading a StrictArray *)
(* fails whatever follows (its two tests of Require are inverted), hence   *)
(* none is ever held, written or measured.                                 *)
(***************************************************************************)
EXTENDS Integers, Sequences, SequencesExt

CONSTANT Base   \* 256

ASSUME BaseAssumption == Base \in Nat /\ Base > 11

\* The markers of rtmp_consts.hpp.
RTMP_AMF0_NUMBER       == 0
RTMP_AMF0_BOOLEAN      == 1
RTMP_AMF0_STRING       == 2
RTMP_AMF0_OBJECT       == 3
RTMP_AMF0_NULL         == 5
RTMP_AMF0_UNDEFINED    == 6
RTMP_AMF0_ECMA_ARRAY   == 8
RTMP_AMF0_OBJECT_END   == 9
RTMP_AMF0_STRICT_ARRAY == 10
RTMP_AMF0_DATE         == 11

String(s)    == [marker |-> RTMP_AMF0_STRING, bytes |-> s]
Number(d)    == [marker |-> RTMP_AMF0_NUMBER, bytes |-> d]
Boolean(v)   == [marker |-> RTMP_AMF0_BOOLEAN, bytes |-> IF v THEN <<1>> ELSE <<0>>]
Null         == [marker |-> RTMP_AMF0_NULL, bytes |-> <<>>]
Undefined    == [marker |-> RTMP_AMF0_UNDEFINED, bytes |-> <<>>]
Object(ps)   == [marker |-> RTMP_AMF0_OBJECT, props |-> ps]
\* count_ is only ever set by Read: an array made here is written with a count of 0.
EcmaArray(ps) == [marker |-> RTMP_AMF0_ECMA_ARRAY, count |-> <<0, 0, 0, 0>>, props |-> ps]

IsObject(v)    == v.marker = RTMP_AMF0_OBJECT
IsEcmaArray(v) == v.marker = RTMP_AMF0_ECMA_ARRAY
IsBoolean(v)   == v.marker = RTMP_AMF0_BOOLEAN
IsNumber(v)    == v.marker = RTMP_AMF0_NUMBER
-----------------------------------------------------------------------------
(***************************************************************************)
(* UnsortHashTable.                                                        *)
(***************************************************************************)

\* The old value of the key goes, the new one is added at the end.
Set(ps, key, val) ==
  Append(SelectSeq(ps, LAMBDA p : p.key # key), [key |-> key, val |-> val])

\* Copy and the loop of OnMetadataPacket::Decode: the properties, set one after another.
Copy(ps, from) == FoldLeft(LAMBDA acc, p : Set(acc, p.key, p.val), ps, from)
-----------------------------------------------------------------------------
(***************************************************************************)
(* Writing, and the size that is asked for beforehand.                     *)
(***************************************************************************)

WriteUtf8(s)    == <<(Len(s) \div Base) % Base, Len(s) % Base>> \o s
WriteString(v)  == <<RTMP_AMF0_STRING>> \o WriteUtf8(v.bytes)
WriteNumber(v)  == <<RTMP_AMF0_NUMBER>> \o v.bytes
WriteBoolean(v) == <<RTMP_AMF0_BOOLEAN>> \o v.bytes
WriteNull       == <<RTMP_AMF0_NULL>>
WriteUndefined  == <<RTMP_AMF0_UNDEFINED>>
WriteDate(v)    == <<RTMP_AMF0_DATE>> \o v.bytes
WriteObjectEOF  == <<0, 0, RTMP_AMF0_OBJECT_END>>

RECURSIVE WriteAny(_), WriteProps(_)
WriteProps(ps) ==
  IF ps = <<>> THEN WriteObjectEOF
  ELSE WriteUtf8(Head(ps).key) \o WriteAny(Head(ps).val) \o WriteProps(Tail(ps))

WriteObject(v)    == <<RTMP_AMF0_OBJECT>> \o WriteProps(v.props)
WriteEcmaArray(v) == <<RTMP_AMF0_ECMA_ARRAY>> \o v.count \o WriteProps(v.props)

WriteAny(v) ==
  CASE v.marker = RTMP_AMF0_STRING     -> WriteString(v)
    [] v.marker = RTMP_AMF0_NUMBER     -> WriteNumber(v)
    [] v.marker = RTMP_AMF0_BOOLEAN    -> WriteBoolean(v)
    [] v.marker = RTMP_AMF0_NULL       -> WriteNull
    [] v.marker = RTMP_AMF0_UNDEFINED  -> WriteUndefined
    [] v.marker = RTMP_AMF0_DATE       -> WriteDate(v)
    [] v.marker = RTMP_AMF0_OBJECT_END -> WriteObjectEOF
    [] v.marker = RTMP_AMF0_OBJECT     -> WriteObject(v)
    [] v.marker = RTMP_AMF0_ECMA_ARRAY -> WriteEcmaArray(v)

LenUtf8(s) == 2 + Len(s)
LenEOF     == 2 + 1

RECURSIVE TotalSize(_), LenProps(_)
LenProps(ps) ==
  IF ps = <<>> THEN 0
  ELSE LenUtf8(Head(ps).key) + TotalSize(Head(ps).val) + LenProps(Tail(ps))

LenObject(v)    == 1 + LenProps(v.props) + LenEOF
LenEcmaArray(v) == 1 + 4 + LenProps(v.props) + LenEOF

TotalSize(v) ==
  CASE v.marker = RTMP_AMF0_STRING     -> 1 + LenUtf8(v.bytes)
    [] v.marker = RTMP_AMF0_NUMBER     -> 1 + 8
    [] v.marker = RTMP_AMF0_BOOLEAN    -> 1 + 1
    [] v.marker = RTMP_AMF0_DATE       -> 1 + 8 + 2
    [] v.marker \in {RTMP_AMF0_NULL, RTMP_AMF0_UNDEFINED} -> 1
    [] v.marker = RTMP_AMF0_OBJECT_END -> LenEOF
    [] v.marker = RTMP_AMF0_OBJECT     -> LenObject(v)
    [] v.marker = RTMP_AMF0_ECMA_ARRAY -> LenEcmaArray(v)
-----------------------------------------------------------------------------
(***************************************************************************)
(* Reading.  A read returns [ret, v, at]: "ok" with the value and the      *)
(* position after it, "decode" for an error the caller is told of, and     *)
(* "abort" where the process does not go on.  That happens in a read of    *)
(* bytes that are not there (rs_assert of BufferManager), and in           *)
(* AMF0ReadAny, which on a failed Read frees the address of its caller's   *)
(* pointer instead of the value.                                           *)
(***************************************************************************)
Nothing == [marker |-> -1, bytes |-> <<>>]
Fail(ret)  == [ret |-> ret, v |-> Nothing, at |-> 0]
Ok(v, at)  == [ret |-> "ok", v |-> v, at |-> at]

\* The read that follows r, unless r failed; the value of r as F of it.
Then(r, K(_)) == IF r.ret = "ok" THEN K(r) ELSE r
As(r, F(_))      == Then(r, LAMBDA ok : Ok(F(ok.v), ok.at))

Require(b, at, n) == n <= Len(b) - (at - 1)
Empty(b, at)      == at > Len(b)

IsObjectEof(b, at) ==
  Require(b, at, 3) /\ SubSeq(b, at, at + 2) = WriteObjectEOF

\* The 16 bits of a length, read as a signed number.
Signed(hi, lo) ==
  LET n == hi * Base + lo IN IF 2 * n >= Base * Base THEN n - Base * Base ELSE n

\* A length of zero or less leaves the string the caller passes in as it was.
ReadUtf8(b, at, old) ==
  IF ~Require(b, at, 2) THEN Fail("decode")
  ELSE LET len == Signed(b[at], b[at + 1])
       IN  CASE len <= 0 -> Ok(old, at + 2)
             [] len > 0 /\ ~Require(b, at + 2, len) -> Fail("decode")
             [] len > 0 /\ Require(b, at + 2, len) ->
                  Ok(SubSeq(b, at + 2, at + 1 + len), at + 2 + len)

\* A marker and n bytes.
ReadFixed(b, at, marker, n) ==
  IF Require(b, at, 1) /\ b[at] = marker /\ Require(b, at + 1, n)
  THEN Ok([marker |-> marker, bytes |-> SubSeq(b, at + 1, at + n)], at + 1 + n)
  ELSE Fail("decode")

ReadString(b, at, old) ==
  IF Require(b, at, 1) /\ b[at] = RTMP_AMF0_STRING
  THEN As(ReadUtf8(b, at + 1, old), String)
  ELSE Fail("decode")

\* Mutant: the eight bytes are read without asking whether they are there.
ReadNumberUnasked(b, at) ==
  IF Require(b, at, 1) /\ b[at] = RTMP_AMF0_NUMBER
  THEN IF Require(b, at + 1, 8) THEN ReadFixed(b, at, RTMP_AMF0_NUMBER, 8) ELSE Fail("abort")
  ELSE Fail("decode")

ReadNumber(b, at)    == ReadFixed(b, at, RTMP_AMF0_NUMBER, 8)
ReadBoolean(b, at)   ==
  As(ReadFixed(b, at, RTMP_AMF0_BOOLEAN, 1), LAMBDA v : Boolean(v.bytes # <<0>>))
ReadNull(b, at)      == ReadFixed(b, at, RTMP_AMF0_NULL, 0)
ReadUndefined(b, at) == ReadFixed(b, at, RTMP_AMF0_UNDEFINED, 0)
ReadDate(b, at)      == ReadFixed(b, at, RTMP_AMF0_DATE, 10)
ReadObjectEOF(b, at) ==
  IF IsObjectEof(b, at)
  THEN Ok([marker |-> RTMP_AMF0_OBJECT_END, bytes |-> <<>>], at + 3)
  ELSE Fail("decode")

\* The inverted Require(1) refuses whenever a byte is there, and Discovery has seen one.
ReadStrictArray == Fail("decode")

RECURSIVE ReadAny(_, _), ReadProps(_, _, _)

\* The loop of the two Reads: it ends at the end mark, or when the buffer does.
ReadProps(b, at, ps) ==
  CASE Empty(b, at) -> Ok(ps, at)
    [] ~Empty(b, at) /\ IsObjectEof(b, at) -> Ok(ps, ReadObjectEOF(b, at).at)
    [] ~Empty(b, at) /\ ~IsObjectEof(b, at) ->
         Then(ReadUtf8(b, at, <<>>), LAMBDA key :
           Then(ReadAny(b, key.at), LAMBDA val :
             ReadProps(b, val.at, Set(ps, key.v, val.v))))

ReadObject(b, at) == As(ReadProps(b, at + 1, <<>>), Object)

ReadEcmaArray(b, at) ==
  IF Require(b, at + 1, 4)
  THEN As(ReadProps(b, at + 5, <<>>),
          LAMBDA ps : [EcmaArray(ps) EXCEPT !.count = SubSeq(b, at + 1, at + 4)])
  ELSE Fail("decode")

Known == {RTMP_AMF0_STRING, RTMP_AMF0_BOOLEAN, RTMP_AMF0_NUMBER, RTMP_AMF0_NULL,
          RTMP_AMF0_UNDEFINED, RTMP_AMF0_OBJECT, RTMP_AMF0_ECMA_ARRAY,
          RTMP_AMF0_STRICT_ARRAY, RTMP_AMF0_DATE}

\* The marker decides the class, unless the three bytes are an end mark.
Discovery(b, at) ==
  CASE IsObjectEof(b, at) -> RTMP_AMF0_OBJECT_END
    [] ~IsObjectEof(b, at) /\ Require(b, at, 1) /\ b[at] \in Known -> b[at]
    [] OTHER -> -1

ReadAs(b, at, marker) ==
  CASE marker = RTMP_AMF0_OBJECT_END   -> ReadObjectEOF(b, at)
    [] marker = RTMP_AMF0_STRING       -> ReadString(b, at, <<>>)
    [] marker = RTMP_AMF0_BOOLEAN      -> ReadBoolean(b, at)
    [] marker = RTMP_AMF0_NUMBER       -> ReadNumber(b, at)
    [] marker = RTMP_AMF0_NULL         -> ReadNull(b, at)
    [] marker = RTMP_AMF0_UNDEFINED    -> ReadUndefined(b, at)
    [] marker = RTMP_AMF0_OBJECT       -> ReadObject(b, at)
    [] marker = RTMP_AMF0_ECMA_ARRAY   -> ReadEcmaArray(b, at)
    [] marker = RTMP_AMF0_STRICT_ARRAY -> ReadStrictArray
    [] marker = RTMP_AMF0_DATE         -> ReadDate(b, at)

FreesPointer(r) == IF r.ret = "ok" THEN r ELSE Fail("abort")

ReadAny(b, at) ==
  LET marker == Discovery(b, at)
  IN  IF marker = -1 THEN Fail("decode") ELSE FreesPointer(ReadAs(b, at, marker))
=============================================================================

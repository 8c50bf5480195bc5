--------------------------- MODULE ProteusMetadata ---------------------------
(***************************************************************************)
(* frames/ProteusMetadata.java: the frame in a request's metadata.         *)
(*                                                                         *)
(*   0        2             6           10          14         18          *)
(*   | version | namespaceId | serviceId | methodId  | length   | metadata *)
(*                                                                         *)
(* A buffer is a function from its byte positions.  Byte i of a value v is *)
(* <<v, i>>, so what a getter reads is a value only if it reads all bytes  *)
(* of one value, in their order.                                           *)
(***************************************************************************)
EXTENDS Integers, FiniteSets

CONSTANT NULL

VERSION_SIZE         == 2
NAMESPACE_ID_SIZE    == 4
SERVICE_ID_SIZE      == 4
METHOD_ID_SIZE       == 4
METADATA_LENGTH_SIZE == 4

computeLength == VERSION_SIZE + NAMESPACE_ID_SIZE + SERVICE_ID_SIZE
                   + METHOD_ID_SIZE + METADATA_LENGTH_SIZE

(* io.netty.buffer.ByteBuf, as far as it is used: a new buffer of a size,  *)
(* setters and getters at a position.  Setters do not enlarge a buffer.    *)
directBuffer(n) == [i \in 0 .. n - 1 |-> <<NULL, 0>>]
Fits(buf, offset, size) == offset + size <= Cardinality(DOMAIN buf)
Set(buf, offset, size, v) ==
  [i \in DOMAIN buf |-> IF i \in offset .. offset + size - 1
                        THEN <<v, i - offset>> ELSE buf[i]]
Get(buf, offset, size) ==
  IF /\ Fits(buf, offset, size)
     /\ \A i \in 0 .. size - 1 : buf[offset + i] = <<buf[offset][1], i>>
  THEN buf[offset][1] ELSE NULL

(* encode's writes of the header, and its last one, of the caller's        *)
(* metadata (of which only the length matters here).                       *)
Header(buf, namespaceId, serviceId, methodId, length) ==
  LET o1 == VERSION_SIZE
      o2 == o1 + NAMESPACE_ID_SIZE
      o3 == o2 + SERVICE_ID_SIZE
      o4 == o3 + METHOD_ID_SIZE
  IN  Set(Set(Set(Set(Set(buf, 0, VERSION_SIZE, 1),
        o1, NAMESPACE_ID_SIZE, namespaceId),
        o2, SERVICE_ID_SIZE, serviceId),
        o3, METHOD_ID_SIZE, methodId),
        o4, METADATA_LENGTH_SIZE, length)

EncodeFits(buf, length) == Fits(buf, computeLength, length)

(* setBytes(offset, metadata) reads its source to the end: what is left of *)
(* the caller's metadata for the next encode.                              *)
LeftToRead(length) == 0

namespaceIdOf(buf) == Get(buf, VERSION_SIZE, NAMESPACE_ID_SIZE)
serviceIdOf(buf)   == Get(buf, VERSION_SIZE + NAMESPACE_ID_SIZE, SERVICE_ID_SIZE)
methodIdOf_Mutant(buf) ==
  Get(buf, VERSION_SIZE + NAMESPACE_ID_SIZE, METHOD_ID_SIZE)
methodIdOf(buf) ==
  Get(buf, VERSION_SIZE + NAMESPACE_ID_SIZE + SERVICE_ID_SIZE, METHOD_ID_SIZE)
metadataLengthOf(buf) ==
  Get(buf, VERSION_SIZE + NAMESPACE_ID_SIZE + SERVICE_ID_SIZE + METHOD_ID_SIZE,
      METADATA_LENGTH_SIZE)
=============================================================================

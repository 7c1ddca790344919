------------------------------ MODULE SlabCodec ------------------------------
(***************************************************************************)
(* The slab codec (encode.go, outside this source set): Encode turns a     *)
(* slab into bytes from which DecodeSlab recovers it.  Bytes that are not  *)
(* an encoding make DecodeSlab return an error.                            *)
(***************************************************************************)

CONSTANTS
    SlabValues,     \* the slab contents the model distinguishes
    CorruptData     \* bytes that are not the encoding of any slab

Encode(slab) == [encodedSlab |-> slab]
EncodedData == {Encode(s) : s \in SlabValues}

\* DecodeSlab: the slab of an encoding; DecodeFails says it returns an error.
DecodeSlab(id, data) == data.encodedSlab
DecodeFails(data) == data \notin EncodedData
==============================================================================

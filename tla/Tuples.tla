-------------------------------- MODULE Tuples --------------------------------
(***************************************************************************)
(* The byte layout of src/representations/tuple.rs.  A size field is a     *)
(* number, where the code has two bytes of it; one unit of the sequences   *)
(* below is a byte, or one of the two bytes of a size field of which the   *)
(* first stands for the whole.                                             *)
(***************************************************************************)
EXTENDS Integers, Sequences

CONSTANT Word   \* a size field holds numbers below Word: 2^16 in the code

ASSUME WordAssumption == Word \in Nat \ {0}

\* as u16, to_be_bytes
AsU16(n) == n % Word
SizeField(n) == <<AsU16(n), 0>>

\* TupleBuf::new
KeyWithHeader(key, value) ==   \* mutant: the key size counts its header, as KeyBuf::new does
    SizeField(Len(key) + Len(value) + 4) \o SizeField(Len(key) + 2) \o key \o value
TupleBuf(key, value) ==
    SizeField(Len(key) + Len(value) + 4) \o SizeField(Len(key)) \o key \o value

\* Tuple::key_size, key and value; the bounds of a slice panic.
TupleKeySize(tuple) == tuple[3]
TupleKey(tuple) == SubSeq(tuple, 3, 4 + TupleKeySize(tuple))
TupleValue(tuple) == SubSeq(tuple, 5 + TupleKeySize(tuple), Len(tuple))

\* Key::bytes, and Key::to_owned by way of KeyBuf::new.
KeyBytes(key) == SubSeq(key, 3, Len(key))
KeyToOwned(key) == SizeField(Len(key) + 2) \o key
=============================================================================

---------------------------- MODULE Serialization ----------------------------
(***************************************************************************)
(* The rows of src/serialization.rs: a list of values is written, field by *)
(* field, to a buffer of the size its types ask for, and read back by one  *)
(* or more calls on one stream.  The bytes may travel as the value of a    *)
(* tuple, may be cut short, and may be read by other types than wrote them.*)
(*                                                                         *)
(* A byte has two bits here, Byte values in place of 256: the upper bits   *)
(* of a real one.  Integers keep their number of bytes, so their range is  *)
(* smaller; of a text that is what UTF-8 looks at: 0 and 1 are ASCII (0 is *)
(* NUL), 3 leads a character of two bytes, 2 continues it.                 *)
(***************************************************************************)
EXTENDS Tuples, SequencesExt

CONSTANTS
    CharSizes,   \* n of the types Char(n)
    Rows,        \* lists of types and of values to serialize
    Calls,       \* lists of types to read
    MaxReads,    \* fields read from one stream
    Keys         \* keys of the tuples that carry a row

Byte == 4
Bytes == 0 .. Byte - 1

IntSize == [SmallInt |-> 2, Int |-> 4, BigInt |-> 8]
IntKinds == DOMAIN IntSize

\* DataType with its size, and DataValue.
DataType == {[kind |-> k, size |-> IntSize[k]] : k \in IntKinds}
            \cup {[kind |-> "Char", size |-> n] : n \in CharSizes}

\* An integer fits its type; a text is a Rust string.
Ints(n) == -(Byte ^ n \div 2) .. Byte ^ n \div 2 - 1
IsUTF8(s) ==
    \A i \in DOMAIN s : /\ s[i] = 3 => i < Len(s) /\ s[i + 1] = 2
                        /\ s[i] = 2 => i > 1 /\ s[i - 1] = 3
DataValue == [kind : {"SmallInt"}, int : Ints(2)] \cup [kind : {"Int"}, int : Ints(4)]
             \cup [kind : {"BigInt"}, int : Ints(8)]
             \cup [kind : {"Char"}, text : {s \in Seq(Bytes) : IsUTF8(s)}]

ASSUME RowAssumption ==
    /\ CharSizes \subseteq Nat /\ MaxReads \in Nat
    /\ \A row \in Rows : row.types \in Seq(DataType) /\ row.values \in Seq(DataValue)
    /\ Calls \subseteq Seq(DataType)
    /\ Keys \subseteq Seq(Bytes)

-----------------------------------------------------------------------------
(* Fields. *)

\* x ^ 0x80, 0x8000 and 0x8000_0000: the top bit of the byte in the middle.
AddsBit(bytes) ==   \* mutant: + in place of xor
    [bytes EXCEPT ![Len(bytes) \div 2 + 1] = @ + Byte \div 2]
Flip(bytes) == [bytes EXCEPT ![Len(bytes) \div 2 + 1] = (@ + Byte \div 2) % Byte]

\* to_be_bytes and from_be_bytes
LittleEndian(x, n) ==   \* mutant: to_le_bytes
    [i \in 1 .. n |-> ((x % Byte ^ n) \div Byte ^ (i - 1)) % Byte]
BigEndian(x, n) == [i \in 1 .. n |-> ((x % Byte ^ n) \div Byte ^ (n - i)) % Byte]
FromBigEndian(bytes) ==
    LET n == Len(bytes)
        u[i \in 0 .. n] == IF i = 0 THEN 0 ELSE u[i - 1] * Byte + bytes[i]
    IN  IF u[n] < Byte ^ n \div 2 THEN u[n] ELSE u[n] - Byte ^ n

\* The bytes that DataType::serialize writes before it pads.
Payload(type, value) ==
    IF type.kind = "Char" THEN value.text ELSE Flip(BigEndian(value.int, type.size))

\* trim_end_matches
KeepsPadding(s) == s   \* mutant
Trimmed(s) ==
    SubSeq(s, 1, CHOOSE n \in 0 .. Len(s) : /\ n = 0 \/ s[n] # 0
                                            /\ \A i \in n + 1 .. Len(s) : s[i] = 0)

Error(name) == [error |-> name]
Failed(result) == "error" \in DOMAIN result

\* DataType::deserialize, of the bytes the stream returned.
FromBytes(type, bytes) ==
    CASE type.kind # "Char" -> [kind |-> type.kind, int |-> FromBigEndian(Flip(bytes))]
      [] type.kind = "Char" /\ IsUTF8(bytes) -> [kind |-> "Char", text |-> Trimmed(bytes)]
      [] OTHER -> Error("StringDeserializeError")

-----------------------------------------------------------------------------
VARIABLES
    types, values,   \* the row and the list of types it is serialized by
    at,              \* where the work on the row stands
    error,           \* what serialize returned, if not Ok
    offsets,         \* partial sums of the sizes; the last one is the capacity
    w,               \* WriteByteStream
    fields,          \* fields written
    r,               \* ReadByteStream, with the field its bytes begin at and
                     \* the part of a tuple that carried them
    asked,           \* types the current call of next has still to read
    yields           \* what the calls on this stream have read

writing == <<offsets, w, fields, error>>
reading == <<r, asked, yields>>
vars == <<types, values, at, writing, reading>>

Zeros(n) == [i \in 1 .. n |-> 0]
NoStream == [bytes |-> <<>>, position |-> 0, first |-> 1, role |-> "plain", key |-> <<>>]

Init ==
    /\ \E row \in Rows : types = row.types /\ values = row.values
    /\ at = "sizing" /\ error = "none"
    /\ offsets = <<0>> /\ fields = 0
    /\ w = [buffer |-> <<>>, position |-> 0]
    /\ r = NoStream /\ asked = <<>> /\ yields = <<>>

\* Serializer::serialize: the sum of the sizes, then a stream of that capacity.
AddSize ==
    /\ at = "sizing" /\ Len(offsets) <= Len(types)
    /\ offsets' = Append(offsets, Last(offsets) + types[Len(offsets)].size)
    /\ UNCHANGED <<types, values, at, error, w, fields, reading>>

NewStream ==
    /\ at = "sizing" /\ Len(offsets) > Len(types)
    /\ at' = "writing"
    /\ w' = [buffer |-> Zeros(Last(offsets)), position |-> 0]
    /\ UNCHANGED <<types, values, error, offsets, fields, reading>>

\* WriteByteStream::write and pad: the position moves before the bounds are
\* looked at, and moves even when they are exceeded.
Fits(stream) == stream.position <= Len(stream.buffer)
Copied(buffer, start, bytes) ==
    [i \in DOMAIN buffer |-> IF i \in start + 1 .. start + Len(bytes)
                             THEN bytes[i - start] ELSE buffer[i]]
Write(stream, bytes) ==
    LET end == stream.position + Len(bytes) IN
    [buffer |-> IF end > Len(stream.buffer) THEN stream.buffer
                ELSE Copied(stream.buffer, stream.position, bytes),
     position |-> end]
Pad(stream, padding) == [stream EXCEPT !.position = @ + padding]

PutField(stream, type, value) ==
    LET bytes == Payload(type, value)
        s     == Write(stream, bytes)
    IN  IF Fits(s) THEN Pad(s, type.size - Len(bytes)) ELSE s

Overflows(type, value) == type.kind = "Char" /\ Len(value.text) > type.size

\* One turn of the loop over types zipped with values.
SerializeField ==
    LET i == fields + 1 IN
    /\ at = "writing" /\ i <= Len(types) /\ i <= Len(values)
    /\ \/ /\ types[i].kind # values[i].kind
          /\ at' = "failed" /\ error' = "TypeMismatch"
          /\ UNCHANGED <<w, fields>>
       \/ /\ types[i].kind = values[i].kind /\ Overflows(types[i], values[i])
          /\ at' = "failed" /\ error' = "StringOverflow"
          /\ UNCHANGED <<w, fields>>
       \/ /\ types[i].kind = values[i].kind /\ ~Overflows(types[i], values[i])
          /\ w' = PutField(w, types[i], values[i])
          /\ IF Fits(w') THEN fields' = i /\ UNCHANGED <<at, error>>
             ELSE /\ at' = "failed" /\ error' = "BufferUnexpectedEnd"
                  /\ UNCHANGED fields
    /\ UNCHANGED <<types, values, offsets, reading>>

\* The shorter list has ended: Ok(buffer).
Serialized ==
    /\ at = "writing" /\ (fields = Len(types) \/ fields = Len(values))
    /\ at' = "ok"
    /\ UNCHANGED <<types, values, writing, reading>>

-----------------------------------------------------------------------------
Reads(s, ts) ==
    /\ at = "ok" /\ at' = "reading"
    /\ r' = s /\ asked' = ts
    /\ UNCHANGED <<types, values, writing, yields>>

\* ReadByteStream::new, on the bytes or the first n of them.
OpenBytes ==
    \E n \in 0 .. Len(w.buffer) :
        Reads([NoStream EXCEPT !.bytes = SubSeq(w.buffer, 1, n)], <<>>)

\* The row as one part of a tuple, read back through Tuple::key or value, or
\* through the key's to_owned.
OpenTuple ==
    \E key \in Keys, role \in {"key", "value", "owned"} :
        LET asKey == TupleKey(TupleBuf(w.buffer, key))
            bytes == CASE role = "value" -> TupleValue(TupleBuf(key, w.buffer))
                       [] role = "key"   -> KeyBytes(asKey)
                       [] role = "owned" -> KeyBytes(KeyToOwned(asKey))
        IN  Reads([NoStream EXCEPT !.bytes = bytes, !.role = role, !.key = key], <<>>)

\* deserialize_from_start, at the first byte of a field; the slice may panic.
SumSizes(ts) ==
    LET sum[i \in 0 .. Len(ts)] == IF i = 0 THEN 0 ELSE sum[i - 1] + ts[i].size
    IN  sum[Len(ts)]
OpenFrom ==
    /\ at = "ok"
    /\ \E first \in DOMAIN types, ts \in Calls :
        LET start == offsets[first]
            end   == start + SumSizes(ts)
        IN  IF end <= Len(w.buffer)
            THEN Reads([NoStream EXCEPT !.bytes = SubSeq(w.buffer, start + 1, end),
                                        !.first = first], ts)
            ELSE /\ at' = "panicked"
                 /\ UNCHANGED <<types, values, writing, reading>>

\* ReadByteStream::next, or deserialize_next for a list of one.
Call(ts) ==
    /\ at = "reading" /\ asked = <<>>
    /\ Len(yields) + Len(ts) <= MaxReads
    /\ asked' = ts
    /\ UNCHANGED <<types, values, at, writing, r, yields>>

\* ReadByteStream::read: again the position moves whatever the bounds.
StaysPut(stream, n) ==   \* mutant
    IF stream.position + n > Len(stream.bytes) THEN stream
    ELSE [stream EXCEPT !.position = @ + n]
Advanced(stream, n) == [stream EXCEPT !.position = @ + n]

\* DataType::deserialize; collect stops at the first error.
DeserializeField ==
    LET type   == Head(asked)
        end    == r.position + type.size
        result == IF end > Len(r.bytes) THEN Error("BufferUnexpectedEnd")
                  ELSE FromBytes(type, SubSeq(r.bytes, r.position + 1, end))
    IN
    /\ at = "reading" /\ asked # <<>>
    /\ r' = Advanced(r, type.size)
    /\ yields' = Append(yields, [type |-> type, result |-> result])
    /\ asked' = IF Failed(result) THEN <<>> ELSE Tail(asked)
    /\ UNCHANGED <<types, values, at, writing>>

\* A row that was refused, a panic, or enough reads: nothing more happens.
Rest ==
    /\ at \in {"failed", "panicked"} \/ (at = "reading" /\ asked = <<>>)
    /\ UNCHANGED vars

Next ==
    \/ AddSize \/ NewStream \/ SerializeField \/ Serialized
    \/ OpenBytes \/ OpenTuple \/ OpenFrom
    \/ \E ts \in Calls : Call(ts)
    \/ DeserializeField
    \/ Rest

Spec == Init /\ [][Next]_vars

-----------------------------------------------------------------------------
(* Properties *)

TypeOK ==
    /\ types \in Seq(DataType) /\ values \in Seq(DataValue)
    /\ at \in {"sizing", "writing", "ok", "failed", "reading", "panicked"}
    /\ error \in {"none", "TypeMismatch", "StringOverflow", "BufferUnexpectedEnd"}
    /\ offsets \in Seq(Nat) /\ offsets # <<>>
    /\ w \in [buffer : Seq(Bytes), position : Nat]
    /\ fields \in Nat
    /\ r.position \in Nat /\ asked \in Seq(DataType)

\* What field i of the row reads back as: the value, a text without the NULs at
\* its end; where the row had no value, what zeros stand for.
ReadsAs(i) ==
    IF i > Len(values)
    THEN FromBytes(types[i], Zeros(types[i].size))
    ELSE IF types[i].kind = "Char" THEN [values[i] EXCEPT !.text = Trimmed(@)]
    ELSE values[i]

\* The round trip (the tests at 363-398): read by the types that wrote it, in one
\* call or several, from its start or from a field on, each field gives back its
\* value if all its bytes are there, and the end of the buffer if they are not.
RoundTrip ==
    LET field(i) == r.first + i - 1
        start    == offsets[r.first]
        given    == SubSeq(w.buffer, start + 1, Len(w.buffer))
        wrote(i) == field(i) <= Len(types) /\ yields[i].type = types[field(i)]
    IN
    (at = "reading" /\ IsPrefix(r.bytes, given)) =>
        \A i \in DOMAIN yields :
            (\A j \in 1 .. i : wrote(j)) =>
                yields[i].result = IF offsets[field(i) + 1] - start <= Len(r.bytes)
                                   THEN ReadsAs(field(i))
                                   ELSE Error("BufferUnexpectedEnd")

\* Carried by a tuple as its key or its value the row is intact, if the key is
\* short enough for its u16 (TupleBuf::new, 126-139).
TupleCarriesRow ==
    at = "reading" =>
        /\ (r.role = "value" /\ Len(r.key) < Word) => r.bytes = w.buffer
        /\ (r.role = "key" /\ Len(w.buffer) < Word) => r.bytes = w.buffer

\* A key is two bytes of size and the serialized bytes (tuple.rs, 5), an owned
\* one as well as a borrowed one: its bytes are those of the row.  Not so: to_owned
\* takes the size field for a part of them (28).
OwnedKeyKeepsBytes ==
    (at = "reading" /\ r.role = "owned" /\ Len(w.buffer) < Word) => r.bytes = w.buffer

\* One read past the end spoils the stream: whatever is asked of it afterwards
\* fails the same way, however few bytes it needs (read, 97-107).
End == Error("BufferUnexpectedEnd")
ErrorsStick ==
    [][((\E i \in DOMAIN yields : yields[i].result = End) /\ yields' # yields) =>
           Last(yields').result = End]_vars

\* Keys are compared by their bytes (page.rs).  The bytes of two integers of one
\* sign compare as the integers do while they fit in the lower half of their
\* bytes; beyond that, and between the signs, they do not.
Below(a, b) ==
    \E i \in DOMAIN a : a[i] < b[i] /\ \A j \in 1 .. i - 1 : a[j] = b[j]
BytesKeepOrder ==
    (at = "ok" /\ fields > 0 /\ types[1].kind # "Char") =>
        LET n    == types[1].size
            x    == values[1].int
            half == Byte ^ (n \div 2) \div 2
            key(y) == Flip(BigEndian(y, n))
        IN  \A y \in -half .. half - 1 :
                (x < y /\ (0 <= x \/ (-half <= x /\ y < 0))) =>
                    Below(SubSeq(w.buffer, 1, n), key(y))
=============================================================================

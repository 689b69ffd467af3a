---------------------------- MODULE MCSerialization ----------------------------
(* The rows of the instance for TLC. *)
EXTENDS Serialization

Type(kind, n) == [kind |-> kind, size |-> n]
Field(type, value) == [type |-> type, value |-> value]

\* Both ends of each integer type, both sides of zero and of the flipped bit.
IntFields(kind, n, numbers) ==
    {Field(Type(kind, n), [kind |-> kind, int |-> x]) : x \in numbers}
SmallFields == IntFields("SmallInt", 2, {-8, -1, 1, 2})
LargeFields == IntFields("Int", 4, {-128, -8, 1, 7, 8, 127})
               \cup IntFields("BigInt", 8, {-32768, -128, 127, 32767})

\* No text, NULs inside and at the end, a character of two bytes.
CharFields == {Field(Type("Char", 3), [kind |-> "Char", text |-> s]) :
                  s \in {<<>>, <<0, 1>>, <<1, 0>>, <<1, 3, 2>>}}

Row(fs) == [types |-> [i \in DOMAIN fs |-> fs[i].type], values |-> [i \in DOMAIN fs |-> fs[i].value]]
Pairs(A, B) == {Row(<<a, b>>) : a \in A, b \in B}

\* Lists of different lengths, a wrong type, a text too long: as second fields.
OddRows ==
    LET row == Row(<<CHOOSE f \in SmallFields : f.value.int = 1,
                     CHOOSE f \in CharFields : f.value.text = <<1, 3, 2>> >>)
    IN  {[row EXCEPT !.types = Append(@, Type("Int", 4))],
         [row EXCEPT !.types = Append(@, Type("Char", 2))],
         [row EXCEPT !.types = <<@[1]>>],
         [row EXCEPT !.types = <<@[1], Type("Char", 2)>>],
         [row EXCEPT !.types = <<@[1], Type("SmallInt", 2)>>]}

SomeRows ==
    Pairs(SmallFields, CharFields) \cup Pairs(CharFields, SmallFields)
    \cup {Row(<<f>>) : f \in LargeFields \cup CharFields} \cup OddRows

SomeCalls ==
    LET S == {Type("SmallInt", 2), Type("Int", 4), Type("BigInt", 8), Type("Char", 3)}
    IN  {<<a>> : a \in S} \cup {<<a, b>> : a \in S, b \in S}

\* Keys to each side of Word.
SomeKeys == {<<1, 1, 1>>, <<1, 1, 1, 1, 1, 1, 1, 1>>}
=============================================================================

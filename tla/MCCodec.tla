------------------------------ MODULE MCCodec ------------------------------
(***************************************************************************)
(* Native types with their values, and texts, for the codec.  Integers     *)
(* have six bits, doubles a mantissa of three bits and singles of two.     *)
(***************************************************************************)
EXTENDS Codec

Numerals == - 64..128

MCDigits(n) == ToString(n)

NumberWith == [text \in {ToString(n) : n \in Numerals} |-> CHOOSE n \in Numerals : ToString(n) = text]

MCNumberOf(text) == NumberWith[text]

MCMultilineTexts == {"a\nb"}

MCNotIdentifiers == {"a b"} \cup MCMultilineTexts

KeysInOrder == <<"a", "a b", "b", "c", "s">>

MCPrecedes(k, l) ==
  \E i, j \in DOMAIN KeysInOrder : i < j /\ KeysInOrder[i] = k /\ KeysInOrder[j] = l

-----------------------------------------------------------------------------
\* Types.

Bool == Type("bool")
I8 == IntType(-4, 3)
U8 == IntType(0, 7)
I64 == IntType(MinInt, MaxInt)
U64 == IntType(0, 2 * MaxInt + 1)
F32 == Type("single")
F64 == Type("double")
Str == Type("string")
Char == Type("char")
Unit == Type("unit")
Option(X) == Of("option", <<X>>)
Vec(X) == Of("seq", <<X>>)
Tuple(X, Y) == Of("tuple", <<X, Y>>)
Map(K, X) == Of("map", <<K, X>>)
Newtype(X) == Of("newtype", <<X>>)
A(X) == Struct(<<"a">>, <<X>>, {})
AB == Struct(<<"a", "b">>, <<I8, I8>>, {"b"})
Mode == Enum(<<"a", "b", "c">>, <<"unit", "newtype", "struct">>, <<Unit, I8, A(I8)>>)
Denying == [A(I8) EXCEPT !.deny = TRUE]

\* Values.

I(n) == Number("int", n)
Float(n) == Number("float", n)
S(s) == Text("string", s)
None == NativeValue("none")
Some(v) == Parts("some", <<v>>)
Seq_(vs) == Parts("seq", vs)
New(v) == Parts("newtype", <<v>>)
StructA(v) == Named("struct", "", <<"a">>, <<v>>)
StructAB(v, w) == Named("struct", "", <<"a", "b">>, <<v, w>>)
UnitVariant(tag) == Text("unit_variant", tag)
NewtypeVariant(tag, v) == Named("newtype_variant", tag, <<>>, <<v>>)
StructVariant(tag, v) == Named("struct_variant", tag, <<"a">>, <<v>>)

Modes == {UnitVariant("a"), NewtypeVariant("b", I(1)), StructVariant("c", I(2))}

Case(type, values) == {[type |-> type, value |-> v, text |-> <<>>] : v \in values}

\* Values of a type as the field of a struct.
Field(X, values) == Case(A(X), {StructA(v) : v \in values})

ScalarCases ==
  Field(Bool, {Text("bool", "true"), Text("bool", "false")})
    \cup Field(I8, {I(-4), I(0), I(3)}) \cup Field(U8, {I(7)})
    \cup Field(I64, {I(MinInt), I(MinInt + 1), I(4), I(5), I(10), I(12), I(21), I(MaxInt)})
    \cup Field(U64, {I(0), I(MaxInt), I(MaxInt + 1)})
    \cup Field(F32, {Float(0), Float(-3), Float(24), [Float(0) EXCEPT !.s = "inf"]})
    \cup Field(F64, {Float(5), Float(20), Float(56), Float(96)})
    \cup Field(Str, {S("s"), S("a b"), S("a\nb")}) \cup Field(Char, {S("s")})
    \cup Field(Unit, {NativeValue("unit")})
    \cup Field(Option(I8), {None, Some(I(3))})
    \cup Field(Newtype(I8), {New(I(1))})

ContainerCases ==
  Field(Vec(I8), {Seq_(<<>>), Seq_(<<I(1), I(3)>>), Seq_(<<I(1), I(2), I(3)>>)})
    \cup Field(Vec(Option(I8)), {Seq_(<<None>>), Seq_(<<None, Some(I(1))>>)})
    \cup Field(Vec(Vec(I8)), {Seq_(<<Seq_(<<>>), Seq_(<<I(1)>>)>>)})
    \cup Field(Vec(A(I8)), {Seq_(<<StructA(I(1)), StructA(I(2))>>)})
    \cup Field(Vec(Option(A(I8))), {Seq_(<<None, Some(StructA(I(2)))>>)})
    \cup Field(Tuple(I8, I8), {Seq_(<<I(1), I(2)>>)})
    \cup Field(Tuple(I8, Str), {Seq_(<<I(1), S("s")>>)})
    \cup Field(Tuple(Option(I8), Str), {Seq_(<<None, S("s")>>)})
    \cup Case(Map(Str, I8), {MapOf(<<>>, <<>>), MapOf(<<S("b"), S("a")>>, <<I(1), I(2)>>),
                             MapOf(<<S("a b")>>, <<I(1)>>)})
    \cup Case(Map(Char, Option(I8)), {MapOf(<<Some(S("s")), S("b")>>, <<None, Some(I(2))>>)})
    \cup Case(Map(I8, I8), {MapOf(<<I(1)>>, <<I(1)>>)})
    \cup Case(Map(Mode, I8), {MapOf(<<m>>, <<I(1)>>) : m \in Modes})
    \cup Case(Map(A(Str), I8), {MapOf(<<StructA(S("s"))>>, <<I(1)>>)})
    \cup Case(Map(Vec(Str), I8), {MapOf(<<Seq_(<<S("s")>>)>>, <<I(1)>>), MapOf(<<Seq_(<<>>)>>, <<I(1)>>)})
    \cup Case(Map(Newtype(Str), I8), {MapOf(<<New(S("a"))>>, <<I(1)>>)})
    \cup Case(Map(Str, Map(Str, I8)), {MapOf(<<S("a"), S("c")>>,
                                             <<MapOf(<<>>, <<>>), MapOf(<<S("b"), S("a")>>, <<I(1), I(2)>>)>>)})
    \cup Case(AB, {StructAB(I(1), I(2)), [StructAB(I(1), I(0)) EXCEPT !.skip = {"b"}]})
    \cup Case(Denying, {StructA(I(1))})

EnumCases ==
  Field(Mode, Modes) \cup Case(Mode, Modes)
    \cup Field(Vec(Mode), {Seq_(<<m>>) : m \in Modes})
    \cup Field(Vec(Mode), {Seq_(<<NewtypeVariant("b", I(1)), StructVariant("c", I(2))>>),
                           Seq_(<<UnitVariant("a"), NewtypeVariant("b", I(1))>>)})
    \cup Case(Enum(<<"a", "b">>, <<"newtype", "tuple">>, <<Mode, Unit>>),
              {NewtypeVariant("a", m) : m \in Modes} \cup {Text("tuple_variant", "b")})

Tags == <<"a", "b", "c", "s">>

\* Nesting around the bound, of every kind in every other.
Wrap(c, tag) ==
  {[type |-> A(c.type), value |-> StructA(c.value), text |-> <<>>],
   [type |-> Vec(c.type), value |-> Seq_(<<c.value>>), text |-> <<>>],
   [type |-> Map(Str, c.type), value |-> MapOf(<<S("a")>>, <<c.value>>), text |-> <<>>],
   [type |-> Enum(<<tag>>, <<"newtype">>, <<c.type>>), value |-> NewtypeVariant(tag, c.value), text |-> <<>>],
   [type |-> Enum(<<tag>>, <<"struct">>, <<A(c.type)>>), value |-> StructVariant(tag, c.value), text |-> <<>>]}

RECURSIVE Wrapping(_)

Wrapping(n) == IF n = 0 THEN Case(I8, {I(1)}) ELSE UNION {Wrap(c, Tags[n]) : c \in Wrapping(n - 1)}

NestedCases == Wrapping(3) \cup Wrapping(4)

-----------------------------------------------------------------------------
\* Texts that no encoder writes.

Signs == {":", "{", "}", "[", "]", ",", "@"}

\* A word in quotes is a string, a numeral a number.
TokenOf(w) ==
  IF w \in Signs \cup {"null"} THEN P!Mark(w)
  ELSE IF w \in DOMAIN NumberWith THEN P!Here("int", w)
  ELSE P!Here("ident", w)

TextOf(words) == [i \in DOMAIN words |-> TokenOf(words[i])]

MCTexts ==
  {TextOf(words) : words \in {
     <<"@", "delete", "a">>,
     <<"a", ":", "1", "b", ":", "2", "@", "delete", "b">>,
     <<"a", ":", "1", "a", ":", "2">>,
     <<"a", "{", "a", ":", "1", "}", "@", "replace", "a", "{", "b", ":", "9", "}">>,
     <<"a", "{", "a", "{", "}", "}">>,
     <<"a", "{", "a", ":", "null", "}">>,
     <<"a", "{", "c", "{", "b", ":", "1", "}", "}">>,
     <<"a", "{", "b", "{", "c", "{", "a", ":", "9", "}", "}", "}">>,
     <<"a", ":", "[", "1", ",", "9", "]", "c", ":", "1">>,
     <<"a", "[", "null", "{", "a", ":", "9", "}", "]">>,
     <<"c", "{", "}">>}}

AllCases == ScalarCases \cup ContainerCases \cup EnumCases \cup NestedCases

MCPrograms == {Calls(c.value) : c \in AllCases}

MCTargets == {c.type : c \in ScalarCases \cup ContainerCases \cup EnumCases}
=============================================================================

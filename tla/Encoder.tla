------------------------------- MODULE Encoder -------------------------------
(***************************************************************************)
(* Serde encoding, rust/src/ser.rs: the serializer that native values call *)
(* upon, one call a step, up to the document (to_document).                *)
(*                                                                         *)
(* A value of a newtype variant is encoded by a serializer of its own, so  *)
(* there is a stack of serializers, each with a stack of the containers    *)
(* that it has open.  Floats and integers are numbers here; their texts    *)
(* are their decimal digits.                                               *)
(***************************************************************************)
EXTENDS Document, Integers, FiniteSets

CONSTANTS
  Programs,        \* sequences of calls that a value may make
  MaxDepth,        \* MAX_DEPTH
  MaxInteger,      \* i64::MAX
  Digits(_),       \* the text of a number
  Precedes(_, _)   \* the order of keys

ASSUME EncoderAssumption ==
  /\ MaxDepth \in Nat
  /\ \A p \in Programs : p \in Seq([call : STRING, text : STRING, n : Int])

VARIABLES
  calls,         \* the calls still to come
  serializers,   \* of the value, then of the payloads of newtype variants
  encoded        \* pending, done with a document, or refused with an error

encoderVars == <<calls, serializers, encoded>>

-----------------------------------------------------------------------------

NoKey == "no key"

NoValue == Value("nothing")

Frame(kind, sort) ==
  [kind |-> kind, sort |-> sort, items |-> <<>>, entries |-> <<>>, pending_key |-> NoKey]

Serializer(depth, variant) ==
  [frames |-> <<>>, root |-> NoValue, depth |-> depth, key_slot |-> FALSE,
   pending_variants |-> <<>>, variant |-> variant]

Outcome(status) == [status |-> status, error |-> "", children |-> <<>>]

Pending == Outcome("pending")

Fresh == serializers = <<Serializer(0, NoKey)>> /\ encoded = Pending

EncoderInit == calls \in Programs /\ Fresh

Encoding == encoded = Pending

Current == serializers[Len(serializers)]

AllButLast(s) == SubSeq(s, 1, Len(s) - 1)

With(s) == [serializers EXCEPT ![Len(serializers)] = s]

Refuse(error) ==
  encoded' = [Outcome("refused") EXCEPT !.error = error] /\ UNCHANGED serializers

Proceed(stack) == serializers' = stack /\ UNCHANGED encoded

\* The types of Serde let nobody name a field or end a container where none is open.
InContainer == Current.frames # <<>>

Do(call) == Encoding /\ calls # <<>> /\ calls[1].call = call /\ calls' = Tail(calls)

-----------------------------------------------------------------------------
\* Values and nodes.

\* The arrays of objects are block arrays, and objects blocks, wherever they have
\* a name.
NamedNode(k, v) ==
  CASE v.type = "object" -> [Node(k, "block") EXCEPT !.children = v.children]
    [] v.type = "array" /\ v.elements = "object" -> [Node(k, "array") EXCEPT !.items = v.items]
    [] OTHER -> [Node(k, "field") EXCEPT !.value = v]

Types(items) == {items[i].type : i \in DOMAIN items}

\* (Mutant.)  Arrays are not looked at before they are emitted.
AnyItems(items) == TRUE

Homogeneous(items) == Cardinality(Types(items) \ {"null"}) <= 1

ElementTypeOf(items) ==
  IF items = <<>> THEN "string"
  ELSE IF Types(items) = {"null"} THEN "null"
  ELSE CHOOSE type \in Types(items) \ {"null"} : TRUE

\* (Mutant.)  Entries come out in the order in which the map gave them.
Unsorted(entries) == entries

\* A stable sort by key: an entry comes after those that precede it.
Sorted(entries) ==
  LET before(i) == {j \in DOMAIN entries :
                      \/ Precedes(entries[j].key, entries[i].key)
                      \/ entries[j].key = entries[i].key /\ j < i}
  IN  [p \in DOMAIN entries |-> entries[CHOOSE i \in DOMAIN entries : Cardinality(before(i)) = p - 1]]

FinishedFrame(frame) ==
  LET entries == IF frame.sort THEN Sorted(frame.entries) ELSE frame.entries
      nodes == [i \in DOMAIN entries |-> NamedNode(entries[i].key, entries[i].value)]
  IN
  IF frame.kind = "array" THEN Array(ElementTypeOf(frame.items), frame.items, <<>>)
  ELSE Object(nodes, <<>>)

Wrapped(variant, v) == Object(<<NamedNode(variant, v)>>, <<>>)

-----------------------------------------------------------------------------
\* The serializer.

\* The value v reaches the serializer on top of stack: it is a key, an item, the
\* value of an entry, or all there is.
Attach(stack, v) ==
  LET s == stack[Len(stack)]
      last == Len(s.frames)
      top == s.frames[last]
      put(t) == Proceed([stack EXCEPT ![Len(stack)] = t])
  IN
  IF s.key_slot
  THEN IF v.type # "string" THEN Refuse("unsupported")
       ELSE IF last = 0 THEN Refuse("invalid_value")
       ELSE IF top.kind = "array" THEN Refuse("invalid_value")
       ELSE put([s EXCEPT !.key_slot = FALSE, !.frames[last].pending_key = v.val])
  ELSE IF last = 0
  THEN IF s.root # NoValue THEN Refuse("invalid_value") ELSE put([s EXCEPT !.root = v])
  ELSE IF top.kind = "array" THEN put([s EXCEPT !.frames[last].items = Append(@, v)])
  ELSE IF top.pending_key = NoKey THEN Refuse("invalid_value")
  ELSE put([s EXCEPT !.frames[last].pending_key = NoKey,
                     !.frames[last].entries = Append(@, [key |-> top.pending_key, value |-> v])])

Enter(s, frame) ==
  IF s.depth + 1 > MaxDepth THEN Refuse("unsupported")
  ELSE Proceed(With([s EXCEPT !.depth = @ + 1, !.frames = Append(@, frame)]))

Leave(s) == [s EXCEPT !.depth = @ - 1, !.frames = AllButLast(@)]

\* The container on top ends: Wrap makes a value of it.
End(s, Wrap(_)) ==
  LET frame == Current.frames[Len(Current.frames)] IN
  IF frame.kind = "array" /\ ~ Homogeneous(frame.items) THEN Refuse("invalid_value")
  ELSE Attach(With(s), Wrap(FinishedFrame(frame)))

SerializeInteger ==
  /\ Do("int")
  /\ IF calls[1].n > MaxInteger THEN Refuse("invalid_value")
     ELSE Attach(serializers, [Value("int") EXCEPT !.val = Digits(calls[1].n)])

\* A call of a float that is not finite has a text.
SerializeFloat ==
  /\ Do("float")
  /\ IF calls[1].text # "" THEN Refuse("invalid_value")
     ELSE Attach(serializers, [Value("float") EXCEPT !.val = Digits(calls[1].n)])

SerializeBool == Do("bool") /\ Attach(serializers, [Value("bool") EXCEPT !.val = calls[1].text])

SerializeText ==
  /\ Do("string") \/ Do("unit_variant")
  /\ Attach(serializers, [Value("string") EXCEPT !.val = calls[1].text])

SerializeNull == Do("null") /\ Attach(serializers, Value("null"))

SerializeTupleVariant == Do("tuple_variant") /\ Refuse("unsupported")

SerializeSeq == Do("seq") /\ Enter(Current, Frame("array", FALSE))

SerializeMap == Do("map") /\ Enter(Current, Frame("map", TRUE))

SerializeStruct == Do("struct") /\ Enter(Current, Frame("map", FALSE))

SerializeStructVariant ==
  /\ Do("struct_variant")
  /\ Enter([Current EXCEPT !.pending_variants = Append(@, calls[1].text)], Frame("map", FALSE))

\* (Mutant.)  A payload is counted from nothing.
PayloadAfresh(variant) == Proceed(Append(serializers, Serializer(0, variant)))

\* The wrapper is a level of its own.
EnterPayload(variant) ==
  IF Current.depth + 1 > MaxDepth THEN Refuse("unsupported")
  ELSE Proceed(Append(serializers, Serializer(Current.depth + 1, variant)))

SerializeNewtypeVariant == Do("newtype_variant") /\ EnterPayload(calls[1].text)

EndNewtypeVariant ==
  /\ Do("end_newtype_variant") /\ Len(serializers) > 1
  /\ IF Current.root = NoValue THEN Refuse("invalid_value")
     ELSE Attach(AllButLast(serializers), Wrapped(Current.variant, Current.root))

SerializeKey == Do("key") /\ Proceed(With([Current EXCEPT !.key_slot = TRUE]))

EndKey == Do("end_key") /\ Proceed(With([Current EXCEPT !.key_slot = FALSE]))

SetKey(key) == [Current EXCEPT !.frames[Len(Current.frames)].pending_key = key]

SerializeField == Do("field") /\ InContainer /\ Proceed(With(SetKey(calls[1].text)))

SkipField == Do("skip_field") /\ InContainer /\ Proceed(With(SetKey(NoKey)))

EndContainer == Do("end") /\ InContainer /\ End(Leave(Current), LAMBDA v : v)

NewestVariant(s) == s.pending_variants[Len(s.pending_variants)]

\* finish_variant: two objects of one level.
EndVariant ==
  /\ Do("end_variant") /\ InContainer
  /\ End([Leave(Current) EXCEPT !.pending_variants = AllButLast(@)],
         LAMBDA v : Wrapped(NewestVariant(Current), v))

\* The serialization has returned.
Finish ==
  /\ Encoding /\ calls = <<>>
  /\ IF Current.frames # <<>> \/ Current.root = NoValue THEN Refuse("invalid_value")
     ELSE IF Current.root.type # "object" THEN Refuse("unsupported")
     ELSE /\ encoded' = [Outcome("done") EXCEPT !.children = Current.root.children]
          /\ UNCHANGED serializers
  /\ UNCHANGED calls

EncoderNext ==
  \/ SerializeInteger \/ SerializeFloat \/ SerializeBool \/ SerializeText \/ SerializeNull
  \/ SerializeTupleVariant
  \/ SerializeSeq \/ SerializeMap \/ SerializeStruct \/ SerializeStructVariant
  \/ SerializeNewtypeVariant \/ EndNewtypeVariant
  \/ SerializeKey \/ EndKey \/ SerializeField \/ SkipField
  \/ EndContainer \/ EndVariant
  \/ Finish

EncoderSpec == EncoderInit /\ [][EncoderNext]_encoderVars

-----------------------------------------------------------------------------

\* What a serializer starts from.
Base(stack, i) == IF i = 1 THEN 0 ELSE stack[i - 1].depth + 1

Counted(stack) ==
  \A i \in DOMAIN stack :
    /\ stack[i].depth = Base(stack, i) + Len(stack[i].frames)
    /\ stack[i].depth <= MaxDepth

\* The bound that stops cyclic values counts all that is open, in whichever
\* serializer it was opened: the containers, and one level for each payload of a
\* newtype variant; and nothing is encoded beyond it (ser.rs, enter, leave and
\* serialize_newtype_variant).
DepthCountsWhatIsOpen == Counted(serializers)
=============================================================================

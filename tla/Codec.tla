------------------------------- MODULE Codec -------------------------------
(***************************************************************************)
(* A native value is encoded to a text and a text is decoded to a native   *)
(* value (rust/src/ser.rs, to_string; rust/src/de.rs, from_str_with): the  *)
(* serializer, canonical emission, the parser and the deserializer, one    *)
(* after the other.  The text may be decoded as a type that is not the one *)
(* it was encoded from.                                                    *)
(***************************************************************************)
EXTENDS Mapping

CONSTANTS
  Cases,         \* of a native type and a value of it
  Texts,         \* that are not encoded, but given
  Targets,       \* native types that any text is decoded as
  MaxFileSize,   \* in tokens
  NotIdentifiers, MultilineTexts

VARIABLES
  subject,
  input, open, pos, stack, expecting, buffer, depth, header, result,   \* of the parser
  decoded

parserVars == <<input, open, pos, stack, expecting, buffer, depth, header, result>>

codecVars == <<subject, encoderVars, parserVars, decoded>>

\* The list of a file is in no block.
O == INSTANCE Materialize
       WITH KeyName <- STRING, Datum <- Any, CommentName <- Nat, Nesting <- 2 * MaxDepth + 1

FoldNodes(nodes) == O!MergeNodes(<<>>, nodes)

\* A text that is given has no style; both limits of nesting are the same.
P == INSTANCE Emitter WITH
       Styles <- {}, style <- <<>>, MaxNestingDepth <- MaxDepth, Fold <- FoldNodes,
       AbsolutePaths <- {}, MalformedVersions <- {}, UnsupportedVersions <- {}

NotDecoded == [from |-> "nothing"]

Encoded(c) == subject = c /\ calls = Calls(c.value) /\ Fresh

Given(text) ==
  /\ subject = [type |-> Type("none"), value |-> NativeValue("none"), text |-> text]
  /\ calls = <<>> /\ serializers = <<>>
  /\ encoded = Outcome("given")

CodecInit ==
  /\ (\E c \in Cases : Encoded(c)) \/ (\E text \in Texts : Given(text))
  /\ input = <<>> /\ open = FALSE /\ pos = 0
  /\ stack = <<P!Frame("file")>>
  /\ expecting = "text"
  /\ buffer = <<>> /\ depth = 0
  /\ header = P!NoHeader
  /\ result = P!Pending
  /\ decoded = NotDecoded

Encode == EncoderNext /\ UNCHANGED <<subject, parserVars, decoded>>

DocumentOf(children) ==
  [skg |-> P!NoText, schema |-> P!NoText, imports |-> <<>>, children |-> children,
   leading |-> <<>>, trailing |-> <<>>]

\* The encoder refuses what the parser would.
TooLarge(text) == Len(text) > MaxFileSize

\* The end of to_string, and the beginning of parse_bytes.
ToText ==
  LET written == encoded.status = "done"
      text == IF written THEN P!Emit(DocumentOf(encoded.children)) ELSE subject.text
  IN
  /\ encoded.status \in {"done", "given"} /\ expecting = "text" /\ decoded = NotDecoded
  /\ IF written /\ TooLarge(text)
     THEN expecting' = "refused" /\ UNCHANGED <<input, result>>
     ELSE IF Len(text) > MaxFileSize
     THEN expecting' = "failed" /\ input' = text /\ result' = [status |-> "failed", code |-> "FILE_TOO_LARGE"]
     ELSE expecting' = "entry" /\ input' = text /\ UNCHANGED result
  /\ UNCHANGED <<subject, encoderVars, open, pos, stack, buffer, depth, header, decoded>>

Parse == expecting \notin {"text", "refused"} /\ P!Parse /\ UNCHANGED <<subject, encoderVars, decoded>>

DecodeOptions == [reject_unknown_fields : BOOLEAN, allow_lossy_numbers : BOOLEAN]

Materialized(children) == O!MaterializeNodes(children)

Decoded(from, type, children, options) ==
  decoded' = [from |-> from, type |-> type, options |-> options,
              result |-> FromDocument(type, Materialized(children), options)]

\* from_str_with.
FromText ==
  /\ expecting = "done" /\ decoded = NotDecoded
  /\ \E type \in Targets \cup ({subject.type} \ {Type("none")}), options \in DecodeOptions :
       Decoded("text", type, result.doc.children, options)
  /\ UNCHANGED <<subject, encoderVars, parserVars>>

\* from_document_with, of the document of to_document: without a text in between.
FromOwnDocument ==
  /\ encoded.status = "done" /\ expecting = "text" /\ decoded = NotDecoded
  /\ \E options \in DecodeOptions : Decoded("document", subject.type, encoded.children, options)
  /\ UNCHANGED <<subject, encoderVars, parserVars>>

CodecNext == Encode \/ ToText \/ Parse \/ FromText \/ FromOwnDocument

CodecSpec == CodecInit /\ [][CodecNext]_codecVars
-----------------------------------------------------------------------------

\* A native value is encoded exactly if SKG can express it, within the bound on
\* its nesting; and the document is the one that the mapping rules name, with the
\* fields of structs in their order and the entries of maps in that of their keys
\* (ser.rs; rust/README.md, Serde mapping rules).
EncodesWhatFits ==
  LET value == subject.value
      fits == Expressible(value) /\ Tree(value).type = "object" /\ Levels(value) <= MaxDepth
  IN
  /\ encoded.status = "done" => fits /\ encoded.children = Tree(value).children
  /\ encoded.status = "refused" => ~ fits

RECURSIVE Nesting(_)

\* The brackets inside one another in the text of a value.
Nesting(v) ==
  LET parts == {ViewNode(v.children[i]) : i \in DOMAIN v.children} \cup {v.items[i] : i \in DOMAIN v.items}
  IN  (IF parts = {} THEN 0 ELSE Max({Nesting(part) : part \in parts}))
        + (IF v.type \in {"object", "array"} THEN 1 ELSE 0)

Nests(children) == Nesting(Object(children, <<>>)) <= MaxDepth + 1

\* The text of a value that could be encoded is one that the parser takes, as the
\* same document, unless it is nested too deeply: arrays are of one type, keys
\* are spelled as keys and the size is within the cap (ser.rs, to_string and
\* check_homogeneous; emit.rs).
EncodedTextParses ==
  encoded.status = "done" =>
    /\ expecting = "failed" => ~ Nests(encoded.children)
    /\ expecting = "done" => result.doc = DocumentOf(encoded.children)

\* A struct variant is encoded as an object "which decodes symmetrically" (ser.rs:184),
\* and a wrapper "is a nesting level" (ser.rs:403): what the encoder lets through
\* the parser takes.
EveryEncodedTextParses == encoded.status = "done" => expecting # "failed"

\* What is decoded.
Source ==
  Object(Materialized(IF decoded.from = "text" THEN result.doc.children ELSE encoded.children), <<>>)

RECURSIVE Canonical(_)

\* A value without what its text does not tell: the order in which a map was
\* iterated, and which of its fields a struct left to their defaults.
Canonical(v) ==
  LET order == SortSeq([i \in DOMAIN v.keys |-> i],
                       LAMBDA i, j : Precedes(KeyText(v.keys[i]), KeyText(v.keys[j])))
      parts == [i \in DOMAIN v.of |-> Canonical(v.of[i])]
  IN
  IF v.v = "map"
  THEN MapOf([p \in DOMAIN order |-> Text("string", KeyText(v.keys[order[p]]))],
             [p \in DOMAIN order |-> parts[order[p]]])
  ELSE [v EXCEPT !.of = parts, !.skip = {}]

RECURSIVE TextKeys(_)

\* A value whose maps are keyed by strings.
TextKeys(v) ==
  /\ \A i \in DOMAIN v.keys : v.keys[i].v \in {"string", "some"}
  /\ \A i \in DOMAIN v.of : TextKeys(v.of[i])

\* What was encoded is decoded as itself, whatever the options, with a text in
\* between or without: however deeply a value is nested that could be encoded,
\* the decoder's own bound is not in its way (de.rs, MAX_NATIVE_NESTING_DEPTH;
\* rust/README.md, Serde mapping rules).
SurvivesRoundTrip ==
  decoded # NotDecoded /\ decoded.type = subject.type /\ TextKeys(subject.value) =>
    /\ decoded.result.ok
    /\ Canonical(decoded.result.v) = Canonical(subject.value)

\* A text is decoded as a type exactly if nothing in it keeps it from being one,
\* and then the value says what the text says: numbers are equal, or if that is
\* allowed the nearest that there are, null and absence are told apart, unknown
\* fields are rejected if they have to be (de.rs).
DecodesWhatConforms ==
  LET root == Source
      r == decoded.result
      defects == DocumentDefects(decoded.type, root, decoded.options)
  IN
  decoded # NotDecoded =>
    /\ r.ok <=> defects = {}
    /\ r.ok => Agrees(decoded.type, r.v, root)

\* Where an error is; the root if nobody placed it.
PlaceOf(r) == IF r.place = <<>> THEN [path |-> <<>>, source |-> <<>>] ELSE r.place[1]

\* An error is one of the text's defects: its path is that of the defect, and its
\* source that of the nearest named value.  If the defect is in the payload of a
\* variant, the path leads towards it (de.rs, at and fill_struct_error).
ErrorsArePlaced ==
  LET root == Source
      r == decoded.result
      place == PlaceOf(r)
  IN
  decoded # NotDecoded /\ ~ r.ok =>
    \E d \in DocumentDefects(decoded.type, root, decoded.options) :
      /\ d.code = r.code
      /\ IsPrefix(place.path, d.path)
      /\ ~ d.payload => place.path = d.path /\ place.source = NearestNamed(root, d.path)

\* Diagnostics have "the source file, line and byte column of the nearest named value"
\* (rust/README.md:188).
ErrorsNameTheNearest ==
  LET root == Source
      r == decoded.result
  IN
  decoded # NotDecoded /\ ~ r.ok =>
    \E d \in DocumentDefects(decoded.type, root, decoded.options) :
      d.code = r.code /\ PlaceOf(r).source = NearestNamed(root, d.path)
=============================================================================

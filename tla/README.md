# SKG in TLA+

SKG is a configuration language with three implementations (Rust, Go, Zig) that
keep one frozen contract: the same grammar, the same import resolution and
overlay composition, the same limits and the same canonical formatting. This
directory holds TLA+ models of the parts where that contract is hard to test,
the TLC configurations that check them on small instances, and theorems that
the TLA+ proof system checks for every instance.

Paths below are relative to the repository.

## 1. The system

| Component | State it keeps | Operations | What makes it correct |
|---|---|---|---|
| Lexer (`rust/src/lexer.rs`, `go/lexer.go`, `zig/lexer.zig`) | position, line and column | next token; comments are tokens | numbers and strings are those of the specification; positions survive `\r\n`, multi-line strings and errors |
| Parser (`rust/src/parser.rs`, `go/parser.go`, `zig/parser.zig`) | token position, nesting depth, pending comments, header seen so far | header directives, nodes, values, folding of repeated keys | the depth guard is left on every path; directives come once and in order; repeated keys fold as imports do; every comment goes somewhere |
| Document model (`rust/src/model.rs`, `go/ast.go`, `zig/ast.zig`) | the tree | lookup by path, typed getters | lookups agree with what composition produced |
| Overlay composition (`rust/src/merge.rs`, `go/merge.go`, `zig/merge.zig`) | none (a function), with retained deletion and replacement markers | merge, materialize | associative, so that nesting of imports and the cache cannot be seen; nothing deleted or replaced comes back; shared comments are there once |
| Import resolver (`rust/src/resolve.rs`, `go/imports.go`, `zig/root.zig`) | chain of open files, cache of finished ones, four running totals | resolve, with limits and a root | exactly the acyclic, shallow, small enough graphs are accepted; every diagnostic names a defect that is there, at the import that shows it; the ports agree |
| Emitter (`rust/src/emit.rs`, `go/emit.go`, `zig/emit.zig`) | output, indentation | emit | parsing what it wrote gives the same document; formatting is idempotent |
| Native decoding (`rust/src/de.rs`, `go/native.go`, `go/unmarshal.go`, `zig/native.zig`) | the target value, a path for diagnostics | decode into a type | numbers exact or refused; what does not conform is refused, at its place |
| Native encoding (`rust/src/ser.rs`, `go/marshal.go`) | stacks of open containers, nesting | encode | what cannot be represented is refused, never changed; what is written can be read |
| Diagnostics (`rust/src/error.rs`) | code, position, import chain | render | the chain is the route to the file |
| Formatter command (`zig/main.zig`) | the file system: inodes, links, timestamps; the open files and the snapshot of a run | `skg fmt`, `skg fmt --check`, `--stdin` | no edit of another program is lost, no torn text is written, metadata and links survive, exit codes tell the truth |
| Release automation (`.github/scripts`, `.github/workflows`) | tags, drafts and assets of the repository | edge release per commit, cut a release, publish | a version is published once, complete, from the commit it names |
| Contract checks (`tools/*.mjs`, `tools/differential.go`) | none | compare the ports | a test driver |
| Editor support (`tools/tree-sitter-skg`, `tools/vscode-skg`) | none of their own | highlight | the grammar accepts what the parsers accept |

How they interact. A resolution reads a file, has the parser build its tree
(repeated keys folded by overlay composition), walks its imports depth first,
composes the imports in order with the same merge, then the file's own nodes
over them, and caches the composed but not materialized overlay, which a later
import of the same file uses again. When the entry file is done its overlay is
materialized. Decoders work on a materialized document; encoders build one and
emit it. The formatter never resolves: it reads one file, parses it, emits it and
replaces it, while editors, version control and other formatters use the same
files. Releases are cut by one workflow, published by another, and beside them
every commit on master gets a prerelease of its own; people may push commits and
tags at any moment.

What is hard: the interplay of cache, chain and depth in the walk; composition
in a bracketing the files do not show; three walks that must not be told apart;
files that change while they are read; the file system between the formatter's
read and its rename; crashes there; the parser's depth guard, its look-ahead over
comments and arrays whose separators are judged late; that what is emitted means
the same; numbers at the ends of their ranges; errors that are placed while they
travel outwards; and workflows that race, break off and run again. `PROJECT.json`
lists these as hazards, each at its line.

## 2. The modules

| Module | What it is |
|---|---|
| `Document` | The tree: nodes, values, comments. |
| `Overlay` | `MergeNodes`, the merge of `rust/src/merge.rs`, for each depth to which blocks and values may nest. |
| `Materialize` | `MaterializeNodes`, the work a merge is charged, and the node count of `resolve.rs`, for each depth. |
| `Composition` | Overlays composed in every bracketing an import tree can ask for. |
| `Meaning` | `Denote`, the meaning of a list of files read without composing, for each depth. |
| `OverlayProofs` | The theorems about composing overlays, and about what composed layers mean. |
| `Resolver` | One call of `resolve_with`, the call stack of `load` made explicit. |
| `GoResolver`, `ZigResolver` | The walks of `go/imports.go` and `zig/root.zig`, as what they do differently. |
| `Ports` | The three walks, one after another, over the same files. |
| `ImportGraph` | The graph that files make: what is reached, its cycles, chains and totals, the document it means, and every defect it may have. |
| `ResolveContract` | What a resolution promises, a state machine over that graph. |
| `ResolverProofs` | The theorems about the three walks: their invariants, that each implements the contract, and that they agree. |
| `SequenceLemmas` | Sequences of anything, and induction over numbers and folds, for the proofs. |
| `Parser` | One call of `parse_bytes` from tokens on, the recursive descent made a stack. |
| `ParserProofs` | The theorems about its depth guard and about its arrays. |
| `Emitter` | `emit`, a function from documents to tokens and line breaks. Recursive, for TLC only. |
| `RoundTrip` | A text parsed, emitted, and parsed again. |
| `Spelling` | Texts byte by byte: what is bare and what is quoted, escapes, UTF-8. |
| `Lexer` | `rust/src/lexer.rs`, a token a step. |
| `LexerProofs` | The theorems about positions, numbers, strings, the encoding, and texts that are written and read again. |
| `Numbers` | Integers and binary floats at small widths: rounding and exactness. |
| `Native` | Native types and values, and the calls on a serializer that a value makes: serde's part, outside the repository. |
| `Encoder` | `rust/src/ser.rs`, one call of a serializer a step. |
| `EncoderProofs` | The theorem about its bound. |
| `Decoder` | `rust/src/de.rs`, a function from a value and a type to a native value or an error with its place. Recursive, for TLC only. |
| `Mapping` | What encoding and decoding promise, said without either. |
| `Codec` | Encoder, emitter, parser and decoder, one after the other. |
| `Formatter` | `skg fmt`, one system call a step, among other programs. |
| `FormatterProofs` | The theorems about what a rename replaces. |
| `Versions` | The arithmetic of `next-version.sh`. |
| `Release` | `cut-release.yml`, `release.yml`, and people's pushes. |
| `Edge` | `edge.yml` and its scripts, beside the releases. |
| `ReleaseProofs` | The theorems about releases and edge releases. |
| `MC...` | Values for the runs. |

### Document, Overlay, Materialize, Composition and Meaning

A document is a sequence of nodes, a node a record of key, kind (`field`,
`delete`, `block`, `array`), value, children, items, replacement flag and the
comments before it and at its end. Values are scalars, objects and arrays, as
deep as they come. Merging keeps the place of a known key and appends a new one. Two
blocks merge unless the second asks for replacement; anything else replaces,
and a block that replaces becomes a barrier itself, since the composed
document may be an overlay again. A comment is named by its provenance, so that
two comments are equal in the model exactly when `concat_comments` takes them
for one.

Merging recurs where two blocks meet, materializing and counting wherever a list or
a value holds another. These are therefore functions of a depth, and at each depth
functions on lists, pairs of lists or values: `Trees[d]` are the node lists (`Lists`)
and the values (`Values`) in which lists and values are at most `d` deep in one
another. The lists name no key twice, as the parser and merging make them, and
`Written(d)` are those that may repeat keys, as they are before the parser folds
them. `Nesting` is the depth of the whole document, any number: the parser refuses a
text that is deeper than its maximum, and each level of a text is at most one value
and one list. What scalars hold, keys and comments are parameters (`Datum`, `KeyName`,
`CommentName`).

Left out: nodes without a key, which only a program can build, positions, and the
work charge's overflow check (`checked_add` in `merge_nodes_budget`; the limits
of module `Resolver` are far below the width of a `usize`).

`Composition` has the flat list of layers and a partition of it into composed
runs. `Load` adds a new file, `LoadCached` one that is there already (a diamond)
and `Compose` merges two neighbouring runs, so that all bracketings are
reachable. `BracketingIrrelevant` says the composed document is that of the flat
list, and `ComposedMeaning` (in `Meaning`) compares its materialization with
`Denote`, which finds each key's first place, its last occurrence and the blocks
since its last barrier.

### Resolver, GoResolver, ZigResolver, Ports, ImportGraph and ResolveContract

`stack` is the recursion of `load`: each frame is the locals of one call (file,
next import, deepest chain below, overlay composed so far). `Chain` is the
stack's files (`self.chain`), `done` is `self.done` with the depth and the
overlay, `used` is the difference between each limit and what is left. `pc`
separates the places at which a call returns. Actions follow the code's order of
early returns: unresolvable, outside the root, cached, on the chain, too deep,
too many files; then read, bytes, parse, nodes; then the imports, their merges,
the file's own merge, cache, pop and return.

`source` is what was read from each file. It is not fixed beforehand: `Contents`
gives what a read may find, so that a file may have changed at any time before it
is read, and the properties speak of what was read. Paths are abstract: `File` are
the canonical paths inside the root, `Missing` one that cannot be canonicalized,
`Outside` one that leads out of the root. The overlay algebra is a parameter
(`Doc`, `Merge`, `MergeWork`, `Materialize`), which the runs take from `Overlay`
and the proofs leave open.

The other ports share these actions where they do the same, and have their own
where they do not. Go enters a file before it counts it, caches a file without
imports early and leaves the chain in a deferred call, none of which can be told
from the walk's order because an error ends the call; what can be told is that
it hands on the system's own error for the file the caller named, and looks the
depth below an import up in the cache. Zig takes limits as they are given, a
zero included, and calls every file that it cannot read to its end too large.
`Ports` calls the three in turn for the same entry and options, each finding in a
file what the others found (`SameWorld`), with a root that can be opened or not.

`ResolveContract` has only `entry`, `source`, `outcome` and the limits. A step of it
reads a file that is reached, or answers: with the materialized composition of the
flattened graph, provided that everything reachable was read, nothing lies on a
cycle, no chain is too long and every total is within its limit; or with a
diagnostic whose defect is there in the graph read so far, shown by the statement it
is anchored at. What these words mean is in `ImportGraph`, without a chain, a cache,
a counter or an order of traversal: `Reach` is what is in every set of paths that
imports do not lead out of, `Chains` are functions from positions to paths, `Flat`
gives each file the overlays below it in load order, and `Layered` lays a list of
them over one another. It has no recursive operator, so that theorems may speak of
it; `Flat` recurs over the depth limit, beyond which a chain means nothing. The
contract is instantiated for each port with what that port's caller sees, and
`KeepsContract` says that all three instances are implemented.

### Parser, Emitter and RoundTrip

`Parser` takes one token a step. `stack` is the recursion: the lists that
`parse_file`, `parse_object` and `parse_array` are building, each with the key
whose value is awaited; `expecting` is the place in the code at which the next
token is asked for; `buffer` is `comment_buf`, `depth` the guard, `header` the
directives and the file's leading comments. The loops of the three functions are
`FileEntry`, `ObjectEntry` and `ArrayEntry`; `NodeBody`, `FieldValue` and the
operations are the inside of `parse_node_body` and `parse_operation`; the header
has an action for each token it waits for. A completed value goes to the list
below by `Complete`, which turns a key and a value into a node or an array's
element, with the checks of `parse_array`. Comments are taken by `SkipComment`
as `peek` and `try_trailing_comment` do, except at `RawPlaces`, where the code
calls `consume` without having peeked and gets the comment itself.

The text is not fixed beforehand: it is revealed as the parser asks for tokens,
so that only texts that are valid up to their last token are ever continued. A
`style` says which tokens it is written with. A token is a tag, a text and whether
it is on the line of the one before it, which is all the parser asks of a
position. A comment is named by its place among the comments, its provenance in
the code. A token that the lexer rejects, or whose number is out of range, is
`invalid` and ends the parse wherever it stands. Repeated keys are folded by the
parameter `Fold`, in the runs `MergeNodes` of `Overlay`.

`Emitter` gives the tokens of the emitted text with the line breaks that
`emit.rs` writes, since a comment swallows what follows on its line; indentation,
blank lines and the digits of floats are left out, and how a string or a key is
spelled is in `Spelling`. `RoundTrip` parses a text, emits the document and lets
the parser loose on the emitted one, which is given whole. Two documents are
compared by `AsWritten`: in a file without a header, comments before the first
node are the file's, and those of the node, if it got any, cannot be told from
them in the text. That happens after `import []` and when a first key is
repeated.

### Spelling and Lexer

A text is a sequence of bytes, a byte standing for its class: `a` for the letters
other than `e`, `n` and `t`, `1` for the digits but zero, `lead2` to `lead4`, `more`
and `bad` for what makes or breaks UTF-8. Two short words stand for `true`,
`false`, `null` and the directives. `Lexer` has an action for each kind of token
and for each error; `cursor` is the position with line and column, advanced as
`advance` does, and `tokens` keeps the bytes each token came from. The check of
the encoding, `first_invalid_utf8`, comes first, as in `parse_bytes`. The source
is any short text, or what `Spelling` (the `emit.rs` half) writes for a string, a
key or a comment; `meant` is then what it was to say. The code's loops are functions
of the number of turns made (`StringTurn`, `MultilineTurn`, `DecodeTurn`,
`Validated`: one turn each), which stay as they are once the loop is left; `RunEnd`
is where a loop over the bytes of one class stops.

### Numbers, Native, Encoder, Decoder, Mapping and Codec

`Encoder` consumes a sequence of serde calls. `serializers` is the stack of
serializers, since the payload of a newtype variant is encoded by one of its own,
each with its frames, pending keys and variants and the depth that it started from;
a map's key goes through a slot of the serializer that has the map. `Native` gives the calls that the derived implementation of a type makes.
`Decoder` is recursive over values and types as `ValueDeserializer` is, with the
options, the place of every value (its path and the source that is reported) and
the errors as they pass `at`. Integers and floats are numbers of small widths:
`Numbers` has the rounding of an integer to a mantissa, ties to even, overflow
to infinity and the saturating casts.

`Mapping` says the same without stacks and places: which document a value is
(`Tree`), what can be expressed, how many levels a value has, and the set of all
`Defects` that keep a document from being of a type. `Codec` runs encoder, emitter,
parser and decoder, or the decoder on the document without a text in between, and
decodes any text as any of the types under each option.

Left out: identifiers, bytes (`serialize_bytes`, `deserialize_bytes`) and
self-describing types (`flatten`, untagged enums).

### Formatter

The file system has inodes, a directory (`names`) and the directory as the disk
has it (`disk`), which follows when the file system commits. A file is a sequence
of chunks, and a read or a write takes one at a time, so reads can be torn and
writes short. Each run of the program has its locals in `fmt[p]`: the resolved
path, the open file, its first stat (the snapshot), the text, the temporary, and
what `ensureUnchanged` opened. The actions are named for the calls: `Resolve`
(realpath), `StatPath`, `Open`, `TakeSnapshot`, `ReadChunk`, `Decide` (parse, emit,
compare), `EnsureSingleLink`, `CreateTemporary`, `WriteChunk`, `CopyMetadata`,
`Sync`, `Reopen`, `Restat`, `Relink`, `RereadChunk`, `CompareText`, `RestatAgain`,
`RelinkAgain`, `Rename`.

Other programs save in place or by renaming, change mode and attributes, make
hard links and symbolic links, remove and make directories. A call may fail
(`Fault`), a run may be killed, and power may be lost: then renames since the last
commit are undone and any part of data not synced is missing. What may happen in
a behaviour is its `setting`, chosen at the beginning.

`unseen` is a history variable: something changed where `p` no longer looks. With
timestamps that tell every change apart, that is after the second stat of
`ensureUnchanged`; with a coarse clock it is from the second opening on, because
a change in the tick of the last one cannot be seen in a stat. `docs/formatter.md`
admits the race between the last look and the rename, and the properties are
stated up to it.

Left out: `--stdin`, which touches no file; option parsing; the branches for
Windows and WASI; FIFOs, on which an open may block.

### Versions, Release and Edge

A version is a base and the number of its release candidate. `NextVersions` is
the script's case on the level. `Release` has the commits of master with the
version that each stamps, the tags, one cut at a time (the workflow's concurrency
group: `Checkout` works the version out, `PushRelease` pushes commit and tags, or
`PushRejected` none of them, `Dispatch` starts the build) and any number of runs of
`release.yml`, each with a gate, the look for the companion tag, the push of it, and
publishing. People commit, and tag by hand; any step may fail and any run that is
over may be started again. `Edge` adds the run that every pushed commit gets: the
tag of the day and the commit, the look at the release, the deletion of assets that
should not be there, as they were at the look (`stale`), then GoReleaser: the release
there is or a new draft, its assets, and publishing. Assets are uploaded in any order
and several at a time; one of the same name is deleted first, so that for a while it is
missing, and one that is begun is there but not uploaded. A cut keeps what it fetched
at its checkout (`seen`): people may tag versions before it pushes.

`byHand` is a history variable: what people pushed or changed themselves. `blind`
tells the runs whose look at the release failed, which the workflow takes for an
absent release.

Left out: what the builds put into an asset, and the editor packages' versions. Edge
releases can be changed by whoever may: `edge-release-complete.mjs:54` also knows
immutable ones, of which it deletes nothing, and the model has none. That a release is
a prerelease and has a date (`:29-31`) is what a published one of this workflow always
has, and a size (`:41`) what an uploaded asset has.

## 3. The runs

| Run | Instance | What it shows |
|---|---|---|
| `composition` | 3 layers, each any of 20 documents on two keys with nested blocks, values and comments (37,003 states) | Composition is associative and means what the layers say. |
| `resolver` | the three ports on 3 files, each with any list of up to 2 imports among them, a missing file and one outside the root, or broken in four ways; depth limit 2; a limit of zero (386,367 states) | Each walk implements the contract, keeps cache and chain apart, reads each file once and ends; the ports agree. |
| `resolver_limits` | the three ports on acyclic graphs of 4 small or large files; 10 bytes, 3 files, 11 nodes, 12 units of work, or one limit of 0; depth limit 2 (99,665 states) | No limit is overdrawn, the depth limit included, and none is reported that is not exceeded. |
| `round_trip` | texts of 9 tokens with comments anywhere, 10 with operations and repeated keys, 11 of nested lists, 8 of headers, and one array of up to 9 tokens; nesting limit 3 (4,958,251 states) | The guard counts the open brackets; arrays are taken exactly as specified; emitted text parses to the same document and is emitted as itself; comments are emitted once; no list names a key twice. |
| `lexer` | texts of 3 to 7 bytes over six alphabets; strings of up to 5 bytes to write (217,843 states) | Positions, numbers and encoding errors are right, escapes that are let through decode, and what the emitter spells is read as itself. |
| `codec` | 825 values of types of every constructor, nested in each other around the bound of 3; 11 texts against every type; integers of 6 bits, floats of 2 and 3 (31,540 states) | Exactly what can be expressed is encoded; it comes back as itself; decoding accepts exactly what conforms, and an error names a defect that is there, at its place unless that is in the payload of a variant. |
| `formatter` | one run on a symbolic link, 2 edits, a failing call and a crash; the same with 3 edits that timestamps do not tell apart; a formatter and a `--check` on overlapping arguments (599,552 states) | No torn text, no lost edit, metadata kept; exit codes; every change is whole. |
| `release` | 3 cuts alone, or 1 among commits and tags by hand, edge runs of two commits that break off twice, are started again, and meet assets added by hand; with a stable tag and without (194,930 states) | Versions advance, what is published is whole and consistent, artifacts are kept, and once nothing fails everything is published. |
| `comment_accepted`, `error_places`, `encoded_text`, `release_series` | small | The findings of section 6. |

The bounds. Three layers are what associativity speaks of, and two keys are what
order needs: one to keep its place and one to be appended. `Nesting` is the depth of
the documents there are: 5 with a list in an object in a block, 2 for the resolvers'
blocks of scalars, and twice the parser's limit and one more for texts. Three files hold
self-imports, cycles of two and three, and diamonds with a repeated import; four
files with a depth limit of two give a file that is cached near the entry and met
again at the end of a chain that fits, just fits and does not fit. The tight
limits are chosen so that each of the four is exceeded by some graph, at a read, at
an import's merge and at a file's own merge. A text of the round trip is long enough
for its style: nine tokens hold a block with a field and comments at every place
around them, ten an operation on a key that was there before, eleven arrays three
deep, the depth limit and beyond, and eight two imports in a list between comments
and a directive after them. Seven bytes hold a string in three quotes with an escape
in it; five a number with a sign, a zero, a point and what must not follow; four
the longest UTF-8 sequence. The codec's widths are the smallest at which an
integer is exact in neither, one or both floats and a float overflows one and not
the other, and rounding twice differs from rounding once. For the formatter, two
edits are what it takes to deceive two looks, and the coarse setting has three
because two changes may cancel in a tick; it saves over whole files only, see
section 7. Two chunks are enough for a torn read
and a short write, and five inodes for two named files, a link, a temporary and the
file an editor saves. Three cuts are a series, its next candidate and its
promotion. Symmetry over inodes is sound: no formula names one, and no run that
uses it checks liveness.

`LinkNames` restricts where other programs put symbolic links. In `formatter` only
`l`, which the argument names, is one: what happens where a file's own name becomes a
link is in section 7. `CHECK_DEADLOCK FALSE` is in `Composition.cfg`, where
nothing is left when all layers are composed into one, in the runs of `RoundTrip`
and `Codec`, which end with the last parse or decode, and in those of `Release`,
where nothing is left when the budget is spent and every workflow has ended.

Fairness. `Resolver` and `Ports` have weak fairness of the next step: a call is a
single thread that waits for nobody but the file system, and `PortsTermination`
would be false if a walk could go round a cycle. `Formatter` has weak fairness of
each run's steps and none of edits, ticks, commits, faults or crashes. `AutoSpec`
has weak fairness of the steps of every workflow run, which GitHub runs to their
end, and none of what people do or of failures; `EdgeRecovers` and `CutIsPublished`
speak of runs under way once no fault is left. An edge run that meets the tag
of its name at another commit would stay red, which the commit in the tag's name
rules out.

## 4. What is proved

`OverlayProofs`, for any keys, values and comments and any nesting
(`NestingAssumption`, a number), shows `OverlaysCompose`: merging is associative,
the empty overlay adds nothing, and what a merge is charged is a number. That is not obvious of the code. Merging a
block may turn on what lies below it: a block that replaced something keeps a
flag so that a later merge replaces too, a deletion stays as a node, and a comment
is dropped only if the base has it. The argument goes from the bottom up.
`CommentsAssociative`: what both bracketings drop is what an earlier list holds.
`CombineAssociative`: of three nodes on one key, both bracketings merge, or the
last that does not merge is what remains with its flag set, whichever way they
met; this needs that merging children, one depth less, is associative, and it is
where forgetting the flag would fail. `PutTwice` and `PutCommutes`: a key's
slot is found again after another was put, and one already there stays before
what is appended. `LaidPut` and `LaidAssociative` carry this along the overlay loop,
and `EveryDepthJoins` from each depth to the next. `RepeatsFold` is the same
argument for lists as they were written: to fold repeated keys when a file is
parsed changes nothing that its importers see. `AlwaysBracketingIrrelevant` is the
invariant of `Composition`, for any sources (`SourcesAssumption`: lists whose
repeated keys are folded) and any number of layers; it is inductive once it is known
that the parts are runs of layers, each behind the one before it (`PartsInOrder`).

Associativity says that every bracketing gives the same document, not that it is
the right one. `MaterializedMeaning` does: composing layers one after the other and
materializing the result gives `Denote` of them, which never composes. It reads the
layers' nodes as one text, and every key at its first place, what its last occurrence
leaves of it: nothing if that is a deletion, a block made of all blocks since the last
barrier if it is a block, itself otherwise. `AlwaysComposedMeaning` makes of it the
invariant of `Composition`. The induction over the text, for each key, is `Leaves`:
what a list has in the key's slot is the node that the visible blocks of the text
before it gather to, or the last node but for its flag. That it is preserved
(`LeavesNext`) is where the barrier counts: a block that meets anything else than a
block starts the visible ones anew, and what its flag says then is what the text's
last barrier says. The slot holds only what merging made of the children of these
blocks, so the two recursions meet in `Agrees`: finishing the list that a text was
folded to gives what the text means. `Folds` says that a list behind a text may be
merged with what was made of the text, which follows from associativity. Comments
gather one block at a time as they do all at once (`GatheredOne`), and the order of
keys is that of their first places (`LaidInOrder`), from which deletions drop out
(`KeptTwice`). `EveryDepthAgrees` ties the knot, for lists and values together.

`ResolverProofs`, for any finite or infinite set of files, any contents, limits and depth, and any overlay algebra. The assumptions are those of
`Resolver`: `NamesAssumption` (missing and outside are not files),
`SourceAssumption` (a read finds bytes, an error or a document), `LimitAssumption`
(limits are naturals, the defaults positive) and `OverlayAssumption` (merging stays
within `Doc` and costs a natural number). TLC evaluates all of them in the runs.

The heart is `Inductive`: `IInv` holds always. It is the conjunction of

- `TypeOK`;
- `CacheAvoidsChain`: no cached file is on the chain, and no file twice;
- `CacheIsRanked`: what a cached file imports is cached at a smaller depth;
- `DepthWithinLimit`: the chain above and below a frame fit in the limit;
- `WithinLimits`;
- `ChainIsRoute`: the frames are joined by import statements, and the imports a
  frame is past are cached and counted in its depth (`Scanned`).

None of the middle three is inductive alone. When `Finish` caches a file, that its
imports are cached at smaller depths is not in its guard: it follows from `Scanned`,
which every `MergeImport` extends by one import and which needs to know that what
returns is the file the statement names. And a cached file fits below the chain
because its depth was compared, while a new one fits because the chain's length was.
The proof has one lemma for each action, and `StepInv` puts them together.

The third part uses these lemmas for the other walks. Whatever a port does as the
Rust walk does is a step of `Resolver`; a read that fails charges nothing, whatever
diagnostic it gives; and the depth that Go looks up is the one that the load handed
back, which is itself a consequence of `ChainIsRoute`, so that `GoMergeImport`
implies `MergeImport`. `GoInductive`, `ZigInductive` and `PortsInductive` follow, and
from the last `PortsTypeCorrect`, `PortsCacheSound`, `PortsLimitsHold`,
`PortsRouteKept` and `PortsOneVersion`, which are properties of the runs.

`PortsAgreement` relates three whole calls, which no invariant of one walk does. It
follows a history: `HInv` says that there is a sequence of states that the Rust walk
of this call can pass (`RustTraced`), the `n`-th of which is where the walk is now.
A walk's step is determined by its state, the files and the call (`After`), but for
what a read finds, which is the same for a port that reads a file that was read
before. So a later port is either `OnTrack`, in the state that the Rust walk had
after as many steps, or it is `Parted` from it: it has failed, at a step where the
Rust walk failed too, with one of the two diagnostics that differ. `GoParts` and
`ZigParts` say of each step that differs that it parts or keeps the track.

`ContractKept` is that the Rust walk implements `ResolveContract`, and
`ContractsKept` that every port's does, which is `KeepsContract`. One more
assumption is needed, `LayeringAssumption` of `Resolver`: laying overlays over one
another is associative and an empty one adds nothing. The code depends on it, since
the walk composes in the bracketing of the imports and the contract in none.
`OverlaysCompose` is just that for the overlays of module `Overlay`, and TLC
evaluates the assumption over them in both runs.

The contract speaks of the graph, the walk has a chain, a cache and counters, and
`CInv` says what these mean. Beside `IInv`, whose ranks and routes it builds on:

- `CacheMeans`: the overlay of a finished file is the layering of its flattened
  subgraph, and its depth is that of a chain of imports from it;
- `FramesMean`: a frame's overlay is the layering of the imports before the next
  one, and its depth that of a chain as well;
- `Accounted`: bytes, files and nodes are those of the files read, and work is that
  of the merges made (`Paid`), of finished files and of frames up to their next
  import; each is the cardinality of a set of units, so a step charges what its set
  gains;
- `EndsMean`: what is handed back is what is cached.

Each is about a graph that still grows. Reading a file changes none of it: what is
finished leads only to finished files, which are read (`DoneClosed`), and what a
flattened list, a chain or a merge's cost depends on lies there (`Extends` and the
lemmas on it). That one level of `Flat` more adds nothing once a file's rank is
passed is where the depth limit comes in. At the end the entry is finished, so all
that is reached is, without a cycle, as ranks decrease, and with no longer chain than
its rank: `Sound`. A failure is `Justified` by what its guard says of the chain or of
a total, read off `CInv` (the lemmas `...Answers`). For the other ports only the steps
that differ are looked at again, and to the caller of one port the turns of the others
change nothing (`Stays`).

`EncoderProofs` shows `DepthCounted`: for every sequence of serde calls, balanced
or not, and every bound, a serializer's depth is the number of containers open in it
and in those below it, with one for each payload in between, and at most the bound.
The invariant is made inductive by saying of the stacks that they are
sequences; their entries need no type.

`ParserProofs` shows `DepthGuard`, for any style of texts, any maximum, any `Fold`
and texts of any length. Its invariant has that guard, stack and brackets are in
step: `depth` is what is open in the text but for the bracket of an import list,
which is of no call and is known by the place in the grammar, and the stack has one
list more. A lemma for each place says what its token changes (`Outcome`): one up,
one down, nothing, or a failure, which leaves the guard alone unless it is the
guard's own. That the file's list is at the bottom, and is not closed, needs the
kinds of the lists, which `Complete` must not change.

`ArraysTaken` of the same module says that a text of any length that is one array
goes on for as long as `ArraysAsSpecified` lets it, and makes the node it says. A text
with a beginning is one array (`ArraysAssumption`: scalars, empty objects, commas and
closers, as in the run's styles). `ArrayInv` follows the text through its phases: in the
beginning, in the array, in an empty object, behind the array, done, failed. In the
array, the frame `Fits` the elements so far: it holds their one type if it is known,
whether a value is due, and whether commas are missing, which between nulls only a
later element can excuse. `TypeTaken` and `ValueTaken` step that over an element,
`NodeMade` over the closing bracket. The other assumption is `TokensAssumption`
(tokens are records of a known tag). What the parser reads is `Fold`ed at the end, a constant of
`Parser`; the theorem is for any `Fold` that leaves a single node as it is
(`FoldsOne`), which `merge_nodes` does, as one node repeats no key: in `OverlayProofs`
the empty document is the unit of the merge. `FoldsOne` holds in every state of
`round_trip`, where `Fold` is that merge.

`LexerProofs` is for any source (`SourcesAssumption`: sequences of bytes) of any
length. Its invariant says that the cursor is `At` a place, with the line and the
column that the bytes before the place give (`LineIn`, `ColIn`), that nothing but UTF-8
is past `Validate`, and of every token and error what the properties ask (`TokenRight`,
`FailureRight`). `LexerPositionsExact` rests on `AdvanceIs` and `JumpIs`: an advance
from a place leads to the next one, and a jump does if no line ends in between, which
is what must be shown wherever the code moves the cursor without looking: in a comment
up to its end (`RunEndIs`), and over an escape (`StringTurnIs`), whose second byte is
known to be none of a line. `LexerNumbersAsSpecified` compares the places where
`lex_number` stops with the longest run of bytes that could belong to a number
(`RunIn`); both are said byte by byte first (`IntOn`, `FloatOn`), so that a literal is
known by where its digits, its point and its end are. `LexerStringsDecode` runs
`unescape_string` beside `lex_string`, turn by turn: while the decoder is before the
closing quote, the scan was open there (`QuotedDecodes`), so an escape that it meets is
one that the scan let through; and a scan that closes past a place was not closed at it
(`StringCloses`). What begins with three quotes is verbatim for both, because the scan
of a multiline string closes at three quotes that are not the ones it began with
(`ScanMultilineIs`). `LexerUtf8Located` has that the loop of `first_invalid_utf8` is
always between sequences (`FirstInvalidIs`), that a sequence may be added to UTF-8
(`Utf8More`), and that what begins with none is no UTF-8 however it goes on
(`Utf8Less`).

`LexerWrittenIsRead` follows a text of any length through the emitter, the lexer and
`unescape_string`. Its second assumption, `TextsAssumption`, is what the types of the
code say: strings are UTF-8, as Rust's are, and a comment is what a comment token
holds, a `#` and no line end. `write_escaped` is unrolled to the place at which each
byte of the text has its escape or itself (`SpelledIs`); from one place to the next the
scan takes one turn (`EscapedScans`) and so does the decoder (`EscapedDecodes`), so the
scan closes at the quote that was put behind the text and not before
(`QuotedScans`), and the decoder gives the text back (`EscapedReadsBack`). That an
escape never breaks up a sequence of UTF-8 is `EscapedUtf8`: no byte of a sequence is
escaped, so the sequence is copied as it is (`SpelledSequence`). Of a multiline string
`MultilineScans` says that no three quotes end it before its own do, even across its
end, which takes both conditions of `can_emit_multiline`. The last part is an invariant over
the tokens (`WInv`: nothing is read, or what is meant, or the colon behind it, or all),
for which `KindTells` rules out every token but the one that the next byte announces.

`ReleaseProofs` shows `PublishedConsistent` and `CutWhole`, and of edge releases
`PublishedComplete` and `CompleteKept`, for any number of people, cuts, runs,
commits and failures. Two facts carry the first: master only grows and tags never
move (`Grown`), so what was once true of a tag stays true; and a build that is past
its gate has seen its version in the tree of the commit that its tag names
(`Verified`), whatever was tagged since. For edge releases it is `EInv`: a tag has its
commit in its name, so that two runs never work on one prerelease; a prerelease that
nobody changed and no run was blind to is a draft as long as a run changes it, and only
of a draft may an expected asset be missing or half there; and `PublishEdge`, which has
seen all of them uploaded, finds no other ones. A run that was blind, or that
repairs what people changed, works on what is published, and then only what it leaves
when it ends green is known. The assumptions are `BoundsAssumption` of `Release` and
`AssetsAssumption` of `Edge` (expected assets are not other ones).

`CutsGoUp` and `SeriesContinue` are about the arithmetic of `next-version.sh`, for
any tags. Versions are totally ordered, so `Latest`, which the script gets from
`sort -V`, is what its name says whenever there is a latest one; the invariant
`VInv` carries that from each set of tags to the next, since one more version either
is later than all or leaves the latest where it was. A cut's version is what its level
stands for over the tags it fetched (`CutVersion`), and what was tagged since was
tagged by people, because only one cut is under way: so `CutsAdvance` compares the
version with all others, those that people tagged before the checkout included. What
they tag between the checkout and the push can be later than it, and is left out.
`SeriesGoesOn` is about repositories where nobody tags versions by hand. The rest is arithmetic: a bump is past what it bumps, and when a
stable version is tagged the open series with its base, or before it, is closed. The
assumption is `StartAssumption`: the tags that are there at first have a latest one,
as any finite number of them does, and one open series at most beside a stable one.

`FormatterProofs` is for any number of runs and files, edits, faults and crashes. Its
theorems have one hypothesis, `NamesStay`: no name is of a file at one time and of a
symbolic link at another. Without it a path that was resolved could be a link when it
is opened: what the run compares is then what the link leads to, and what the rename
replaces is the link.
There are three invariants, each inductive beside the ones before it.

`IInv` gives `ReplacesRead` and `MetadataIsKept`. It goes along the calls of a run.
From `TakeSnapshot` on, the file that was opened has the data and the metadata
of the snapshot as long as it has the snapshot's stamp, when stamps are exact; when
they are coarse nothing is said before the text is read a second time, and everything
after that opening counts as unseen. Each look that finds the stamp and the link count
unchanged therefore carries what was true at the first to its own moment. An inode
that is open is taken for no other file, and a temporary is its run's alone.

`NInv` gives `NothingIsInvented`. Every name, in the directory and on the disk, leads
to a file that is synced and holds a text; a run that reads may hold anything, but one
whose second stat finds the snapshot's stamp has read a text as it was (`Untorn`, by
`Exact` of `IInv`), its temporary begins its canonical form (`WriteChunk`) and then is
it (`CopyMetadata`), is synced (`Sync`), and has no name until `Rename` gives it one.
So a power loss, which spares what is synced, finds whole texts.

`UInv` gives `CanonicalOrBackHolds` and `ExitsTellTruth`, where nobody else changes
files. Names lead where they led, so an argument's target is what it was resolved to;
each file's content is what was on the disk or its canonical form, and what a run has
read is what its target holds or what that is the canonical form of (`Ahead`). Hence
what `Rename` puts there is the canonical form of what it replaces, even when another
run was faster, and a power loss takes a file back to what it is the canonical form
of. Arguments that are done stay canonical (`SoFar`), because no step of another run
makes a canonical file anything else.

The assumptions are `BoundsAssumption`, `SettingsAssumption` and `FormatAssumption`
of `Formatter`; the last says of the parameter `Format` that what it makes of a text
is chunks again and is its own canonical form, which `RoundTrip` checks of the emitter.

## 5. What is only model-checked

- Liveness (`PortsTermination`, `EdgeRecovers`, `CutIsPublished`): out of the
  prover's reach.
- `Emitter` and `RoundTrip`, `Decoder` and `Codec`: these
  are recursive operators, as documents are recursive, and no theorem can be
  stated in a module that reaches one. The library's induction theorems take an
  operator, which no prover here instantiates; where a recursion is a function over
  numbers, as in `Overlay`, `Materialize`, `Meaning`, `ImportGraph` and `Spelling`, `Least`,
  `Induct` and `SeqInduct` of `SequenceLemmas` take their place.

## 6. Findings

Each is a run that TLC finds violated.

- A comment between a key's colon and its value, after a directive's name or after
  `@` makes a text invalid for the Rust parser (`rust/src/parser.rs:139`: `consume`
  does not skip comments that were not peeked at), where `docs/spec.md:81` exempts
  no place and the Zig parser takes them (`comment_accepted`).
- An error in the payload of a variant has the source of the entry that the
  enumeration is in, and at the top of a document none: `payload_deserializer`
  (`rust/src/de.rs:1101`) hands its own context on. For `c { }`, decoded as an
  enumeration whose variant `c` has a field, the missing field is reported at `/c/a`
  without a line; `rust/README.md:188-189` says "the source file, line and byte column of
  the nearest named value", and a missing field's is its scope (`error_places`).
  `ErrorsArePlaced` asks for the source only of errors elsewhere.
- A struct variant counts one level in the encoder and is written as two
  (`rust/src/ser.rs:185`): at the bound a value is encoded to a text that the
  parser refuses (`encoded_text`).
- Without a stable tag, the first release candidate stamps a version that the seed
  pattern of `next-version.sh:24` does not match, so that the script ends with 1 for
  every level and the series can neither go on nor be promoted; `docs/releasing.md:52`
  describes just that flow (`release_series`).

## 7. Other divergences

Met while modelling, and modelled as the code has them:

- A node that replaces an earlier one of its key in the same file takes its place
  without its comments (`rust/src/merge.rs:96`);
  `openspec/specs/comment-preservation/spec.md:7` says "No comment text SHALL be lost
  or reordered."
- `skg fmt a b` stops at the first file that fails (`zig/main.zig:89`);
  `openspec/specs/skg-cli/spec.md:38` has it skip that file.
- `skg fmt --check` prints the names of files that are not canonical to the standard
  error output (`zig/main.zig:168`); `openspec/specs/skg-cli/spec.md:23` says "to stdout".
- The formatter resolves its argument once and then opens the path it got, following
  links, where the rename does not (`zig/main.zig:142`): if that path has become a
  symbolic link meanwhile, the link is replaced by a file. `docs/formatter.md:39` speaks
  of the link that the argument names, which remains.
- A map keyed by a struct of one string field ends with a key that was never taken,
  which the `debug_assert!` of `rust/src/ser.rs:152` rules out. Maps keyed by unit
  variants or newtypes are encoded, and their texts cannot be decoded as the same type.
- A comment that ends in `\r\r\n` loses a `\r` when its text is read again.
- Zig reports `FILE_TOO_LARGE` for a file that cannot be read (`zig/root.zig:231`).
- Rust accepts `skg_version: "+1.0"`, which `docs/conformance.md:69` does not.
- In `edge.yml:69` a failed `gh release view` is taken for an absent release, and an
  asset that was added makes a release incomplete: in both cases a run that is
  started again replaces the artifacts of a published release, one deletion and one
  upload after the other, and leaves it without some of them if it breaks off, where
  `docs/releasing.md:13` says that it replaces none. `ArtifactsKept` and the first part of
  `PublishedIsComplete` are stated up to these two.
- When the dispatch of a cut's build fails (`cut-release.yml:116`), its tags stay and
  nothing builds them until somebody starts `release.yml` for the tag, which no document
  asks for. `CutIsPublished` is about cuts whose build is about to be started, by the
  cut or then by hand.
- Three saves within one tick of a coarse clock, the last of which restores what was
  there before the first, get a mixture of two texts past both looks of
  `ensureUnchanged` (`zig/main.zig:211`), so `NothingInvented` is stated for exact
  timestamps or without editors.
- Two series can be open at once: without a stable tag, whether one is open is judged
  by the version in the tree (`next-version.sh:44`), so when people stamp one past the
  first candidate, a second series can be opened. `docs/releasing.md:53` says that only one can be. `SeriesGoesOn` says that
  the newest goes on, and that it is the only one if a stable version was there first.
- A stable release made past an open series closes it when its version is at or
  after the series' base; `docs/releasing.md:54` says that it "closes nothing".

## 8. The plan

Done: overlay composition, the resolvers of the three ports with their contract and
the proof that they keep it, the Rust lexer, parser, emitter, encoder and decoder, the formatter,
release automation, with proofs for overlays, the walks, the lexer, the parser's guard
and its arrays, the encoder's bound, the formatter's files and the releases. In this
order from here:

1. Proofs: the emitter as recursive functions, as `Overlay` is, so that something can
   be proved of the round trip.
2. The Go and Zig parsers and emitters as variants of `Parser` and `Emitter`: Zig
   skips comments wherever it consumes, Go keeps none.
3. Native decoding in Go, where a decode that fails half way must leave the caller's
   value as it was (`go/native.go:122`), against `Mapping`.

Not planned: the lexers of Go and Zig, which classify characters as Rust's does; the
wording of diagnostics; the contract check drivers; editor support.

---------------------------- MODULE MCFormatter ----------------------------
(***************************************************************************)
(* Texts of two chunks: one saved before and one saved meanwhile, either   *)
(* messy, and one that does not parse.  Any mixture of chunks that parse   *)
(* parses too, so that a torn read would be formatted and written back.    *)
(***************************************************************************)
EXTENDS Formatter, TLC

CONSTANTS a, b, l, p, q, i1, i2, i3, i4, i5

\* A chunk: which save it is of, and whether it is canonical.
Chunk(save, canonical) == [save |-> save, canonical |-> canonical]

Old == <<Chunk("old", FALSE), Chunk("old", FALSE)>>

New == <<Chunk("new", FALSE), Chunk("new", FALSE)>>

Bad == <<Chunk("bad", FALSE)>>

MCFormat(data) ==
  IF \E k \in DOMAIN data : data[k].save = "bad" THEN Invalid
  ELSE [k \in DOMAIN data |-> [data[k] EXCEPT !.canonical = TRUE]]

LinkToA == l :> a

ViaLink == p :> <<l>>

Modes == {"private", "shared"}

Extras == {"plain", "marked"}

\* A formatter given a link, with two changes by other programs, which may save
\* in two writes, a crash and a failing call.
Disturbed ==
  [args |-> ViaLink, check |-> {}, initial |-> {None, Old}, saves |-> {New, <<>>},
   modes |-> Modes, extras |-> Extras, coarse |-> FALSE,
   edits |-> 2, ticks |-> 0, crashes |-> 1, faults |-> 1]

\* Three changes that timestamps may not tell apart, and that may restore what
\* there was.
CoarseClock ==
  [args |-> ViaLink, check |-> {}, initial |-> {None, Old}, saves |-> {Old, New},
   modes |-> {"private"}, extras |-> {"plain"}, coarse |-> TRUE,
   edits |-> 3, ticks |-> 1, crashes |-> 0, faults |-> 0]

\* A formatter and a --check run with an argument each to themselves, and one
\* they share, which one of them knows by a link.
Pair ==
  [args |-> p :> <<a, l>> @@ q :> <<a, b>>, check |-> {q},
   initial |-> {None, Old, Bad, MCFormat(Old)}, saves |-> {},
   modes |-> {"private"}, extras |-> {"plain"}, coarse |-> FALSE,
   edits |-> 0, ticks |-> 0, crashes |-> 1, faults |-> 1]

AllSettings == {Disturbed, CoarseClock, Pair}

Alike == Permutations(Inode)
=============================================================================

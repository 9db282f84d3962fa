--------------------------- MODULE EncoderProofs ---------------------------
(***************************************************************************)
(* For every program of calls, balanced or not, the serializer's depth     *)
(* counts what is open.  The invariant is made inductive by saying of the  *)
(* stacks that they are sequences: their entries need no type, for depth   *)
(* and frames are all that the count is about.                             *)
(***************************************************************************)
EXTENDS Encoder, SequenceLemmas, SequenceTheorems, TLAPS

\* A serializer whose frames are a sequence.
Sound(s) == {"depth", "frames"} \subseteq DOMAIN s /\ s.depth \in Nat /\ IsSeq(s.frames)

Good(stack) ==
  /\ IsSeq(stack) /\ stack # <<>>
  /\ \A i \in DOMAIN stack : Sound(stack[i])
  /\ Counted(stack)

IInv == Good(serializers)

-----------------------------------------------------------------------------
\* The beginnings of sequences.

\* The beginning of a sequence has its elements.
LEMMA Beginning ==
  ASSUME NEW S, NEW f \in Seq(S), NEW m \in Nat, m <= Len(f)
  PROVE  /\ SubSeq(f, 1, m) \in Seq(S) /\ Len(SubSeq(f, 1, m)) = m
         /\ \A i \in 1..m : SubSeq(f, 1, m)[i] = f[i]
<1>1. m \in Int /\ \A i \in 1..m : f[i] \in S  OBVIOUS
<1>2. /\ SubSeq(f, 1, m) \in Seq(S)
      /\ Len(SubSeq(f, 1, m)) = IF 1 <= m THEN m - 1 + 1 ELSE 0
      /\ \A i \in 1..m - 1 + 1 : SubSeq(f, 1, m)[i] = f[1 + i - 1]
  BY <1>1, SubSeqProperties
<1>. QED  BY <1>2

\* Without its last element a sequence is one shorter and otherwise the same.
LEMMA SeqButLast ==
  ASSUME NEW f, IsSeq(f), f # <<>>
  PROVE  /\ IsSeq(AllButLast(f)) /\ Len(AllButLast(f)) = Len(f) - 1
         /\ \A i \in 1..Len(f) - 1 : AllButLast(f)[i] = f[i]
<1>1. PICK S : f \in Seq(S)  BY DEF IsSeq
<1>2. Len(f) - 1 \in Nat /\ Len(f) - 1 <= Len(f)  BY <1>1
<1>3. /\ AllButLast(f) \in Seq(S) /\ Len(AllButLast(f)) = Len(f) - 1
      /\ \A i \in 1..Len(f) - 1 : AllButLast(f)[i] = f[i]
  BY <1>1, <1>2, Beginning DEF AllButLast
<1>. QED  BY <1>3 DEF IsSeq

-----------------------------------------------------------------------------
\* What a step does to the stack of serializers.

\* What a serializer starts from depends on the one below.
LEMMA BaseSame ==
  ASSUME NEW stack, NEW new, NEW i \in Nat, i # 1 => new[i - 1] = stack[i - 1]
  PROVE  Base(new, i) = Base(stack, i)
BY DEF Base

\* A parked serializer leaves its depth and one more to the one above it.
LEMMA BaseAbove ==
  ASSUME NEW stack, NEW i \in Nat, i > 0
  PROVE  Base(stack, i + 1) = stack[i].depth + 1
BY DEF Base

\* The serializer on top changes, and counts what it has open from then on.
LEMMA PutGood ==
  ASSUME NEW stack, Good(stack), NEW t, Sound(t), t.depth <= MaxDepth,
         t.depth = Base(stack, Len(stack)) + Len(t.frames)
  PROVE  Good([stack EXCEPT ![Len(stack)] = t])
<1>. DEFINE n == Len(stack)
            new == [stack EXCEPT ![n] = t]
<1>1. n \in Nat /\ n > 0 /\ DOMAIN stack = 1..n  BY SeqLen DEF Good
<1>2. IsSeq(new) /\ Len(new) = n /\ new[n] = t /\ \A i \in 1..n : i # n => new[i] = stack[i]
  <2>1. IsSeq(stack) /\ n \in 1..Len(stack)  BY <1>1 DEF Good
  <2>. QED  BY <2>1, SeqExcept
<1>3. DOMAIN new = 1..n /\ new # <<>>  BY <1>1, <1>2, SeqLen
<1>4. ASSUME NEW i \in 1..n PROVE Base(new, i) = Base(stack, i)
  <2>1. i \in Nat /\ (i # 1 => i - 1 \in 1..n /\ i - 1 # n)  BY <1>1
  <2>2. i # 1 => new[i - 1] = stack[i - 1]  BY <1>2, <2>1
  <2>. QED  BY <2>1, <2>2, BaseSame
<1>5. \A i \in 1..n : Sound(new[i])  BY <1>1, <1>2 DEF Good
<1>6. Counted(new)  BY <1>1, <1>2, <1>3, <1>4 DEF Good, Counted
<1>. QED  BY <1>2, <1>3, <1>5, <1>6 DEF Good

\* A serializer is put on top that has nothing open but its own level.
LEMMA PushGood ==
  ASSUME NEW stack, Good(stack), NEW t, Sound(t), Len(t.frames) = 0, t.depth <= MaxDepth,
         t.depth = stack[Len(stack)].depth + 1
  PROVE  Good(Append(stack, t))
<1>. DEFINE n == Len(stack)
            new == Append(stack, t)
<1>1. n \in Nat /\ n > 0 /\ DOMAIN stack = 1..n  BY SeqLen DEF Good
<1>2. IsSeq(new) /\ Len(new) = n + 1 /\ new[n + 1] = t /\ \A i \in 1..n : new[i] = stack[i]
  BY <1>1, SeqAppend DEF Good
<1>3. DOMAIN new = 1..n + 1 /\ new # <<>>  BY <1>1, <1>2, SeqLen
<1>4. ASSUME NEW i \in 1..n PROVE Base(new, i) = Base(stack, i)
  <2>1. i \in Nat /\ (i # 1 => i - 1 \in 1..n /\ i - 1 # n)  BY <1>1
  <2>2. i # 1 => new[i - 1] = stack[i - 1]  BY <1>2, <2>1
  <2>. QED  BY <2>1, <2>2, BaseSame
<1>5. Base(new, n + 1) = stack[n].depth + 1
  <2>. HIDE DEF n, new
  <2>1. new[n] = stack[n]  BY <1>1, <1>2
  <2>. QED  BY <1>1, <2>1, BaseAbove
<1>6. \A i \in 1..n + 1 : Sound(new[i])  BY <1>1, <1>2 DEF Good
<1>7. t.depth = Base(new, n + 1) + Len(t.frames)  BY <1>5 DEF Sound
<1>8. Counted(new)
  <2>1. \A i \in 1..n : /\ new[i].depth = Base(new, i) + Len(new[i].frames)
                         /\ new[i].depth <= MaxDepth
    BY <1>1, <1>2, <1>4 DEF Good, Counted
  <2>. QED  BY <1>1, <1>2, <1>3, <1>7, <2>1 DEF Counted
<1>. QED  BY <1>2, <1>3, <1>6, <1>8 DEF Good

\* The serializer on top is taken off.
LEMMA PopGood ==
  ASSUME NEW stack, Good(stack), Len(stack) > 1
  PROVE  Good(AllButLast(stack))
<1>. DEFINE n == Len(stack)
            new == AllButLast(stack)
<1>1. n \in Nat /\ DOMAIN stack = 1..n  BY SeqLen DEF Good
<1>2. IsSeq(new) /\ Len(new) = n - 1 /\ \A i \in 1..n - 1 : new[i] = stack[i]
  BY <1>1, SeqButLast DEF Good
<1>3. DOMAIN new = 1..n - 1 /\ new # <<>>  BY <1>1, <1>2, SeqLen
<1>4. ASSUME NEW i \in 1..n - 1 PROVE Base(new, i) = Base(stack, i)
  <2>1. i \in Nat /\ (i # 1 => i - 1 \in 1..n - 1 /\ i - 1 # n)  BY <1>1
  <2>2. i # 1 => new[i - 1] = stack[i - 1]  BY <1>2, <2>1
  <2>. QED  BY <2>1, <2>2, BaseSame
<1>5. \A i \in 1..n - 1 : Sound(new[i])  BY <1>1, <1>2 DEF Good
<1>6. Counted(new)  BY <1>1, <1>2, <1>3, <1>4 DEF Good, Counted
<1>. QED  BY <1>2, <1>3, <1>5, <1>6 DEF Good

\* What is on top of a stack that counts.
LEMMA TopOf ==
  ASSUME NEW stack, Good(stack)
  PROVE  LET s == stack[Len(stack)] IN
         /\ Sound(s) /\ s.depth <= MaxDepth
         /\ s.depth = Base(stack, Len(stack)) + Len(s.frames)
<1>1. Len(stack) \in DOMAIN stack  BY SeqLen DEF Good
<1>. QED  BY <1>1 DEF Good, Counted

\* What the top serializer starts from is a natural number.
LEMMA BaseInt ==
  ASSUME NEW stack, Good(stack)
  PROVE  Base(stack, Len(stack)) \in Nat
<1>1. Len(stack) \in Nat /\ DOMAIN stack = 1..Len(stack)
  BY SeqLen DEF Good
<1>2. CASE Len(stack) = 1  BY <1>2 DEF Base
<1>3. CASE Len(stack) # 1
  <2>1. Len(stack) - 1 \in DOMAIN stack  BY <1>1, <1>3, SeqLen DEF Good
  <2>2. stack[Len(stack) - 1].depth \in Nat  BY <2>1 DEF Good, Sound
  <2>. QED  BY <1>3, <2>2 DEF Base
<1>. QED  BY <1>2, <1>3

\* The serializer keeps its frames and its depth.
Kept(s, t) == Sound(t) /\ t.depth = s.depth /\ Len(t.frames) = Len(s.frames)

\* A top serializer that keeps its frames and its depth keeps the count.
LEMMA KeptGood ==
  ASSUME NEW stack, Good(stack), NEW t, Kept(stack[Len(stack)], t)
  PROVE  Good([stack EXCEPT ![Len(stack)] = t])
BY TopOf, PutGood DEF Kept

\* Changing a frame in place keeps the frames, and a change of anything else too.
LEMMA FramesKept ==
  ASSUME NEW s, Sound(s), NEW k \in 1..Len(s.frames), NEW frame,
         NEW t, {"depth", "frames"} \subseteq DOMAIN t,
         t.frames = [s.frames EXCEPT ![k] = frame], t.depth = s.depth
  PROVE  Kept(s, t)
BY SeqExcept DEF Sound, Kept

\* Wherever a value goes, no container is opened or ended by it.
LEMMA AttachGood ==
  ASSUME NEW stack, Good(stack), NEW v, Attach(stack, v)
  PROVE  serializers' = serializers \/ Good(serializers')
<1>. DEFINE s == stack[Len(stack)]
            last == Len(s.frames)
            top == s.frames[last]
            put(t) == Proceed([stack EXCEPT ![Len(stack)] = t])
<1>1. Sound(s)  BY TopOf
<1>2. last \in Nat  BY <1>1, SeqLen DEF Sound
<1>3. ASSUME NEW t, Kept(s, t), put(t) PROVE Good(serializers')
  BY <1>3, KeptGood DEF Proceed
<1>4. ASSUME NEW error, Refuse(error) PROVE serializers' = serializers
  BY <1>4 DEF Refuse
<1>5. CASE s.key_slot /\ v.type = "string" /\ last # 0 /\ top.kind # "array"
  <2>. DEFINE t == [s EXCEPT !.key_slot = FALSE, !.frames[last].pending_key = v.val]
  <2>1. put(t)  BY <1>5 DEF Attach
  <2>2. Kept(s, t)
    <3>. DEFINE frame == [top EXCEPT !.pending_key = v.val]
    <3>1. t.frames = [s.frames EXCEPT ![last] = frame] /\ t.depth = s.depth
      BY <1>1 DEF Sound
    <3>2. {"depth", "frames"} \subseteq DOMAIN t  BY <1>1 DEF Sound
    <3>3. last \in 1..last  BY <1>2, <1>5
    <3>. HIDE DEF s, last, t
    <3>. QED  BY <1>1, <3>1, <3>2, <3>3, FramesKept DEF last
  <2>. QED  BY <1>3, <2>1, <2>2
<1>6. CASE ~ s.key_slot /\ last = 0 /\ s.root = NoValue
  <2>. DEFINE t == [s EXCEPT !.root = v]
  <2>1. put(t)  BY <1>6 DEF Attach
  <2>2. Kept(s, t)  BY <1>1 DEF Kept, Sound
  <2>. QED  BY <1>3, <2>1, <2>2
<1>7. CASE ~ s.key_slot /\ last # 0 /\ top.kind = "array"
  <2>. DEFINE t == [s EXCEPT !.frames[last].items = Append(@, v)]
  <2>1. put(t)  BY <1>7 DEF Attach
  <2>2. Kept(s, t)
    <3>. DEFINE frame == [top EXCEPT !.items = Append(@, v)]
    <3>1. t.frames = [s.frames EXCEPT ![last] = frame] /\ t.depth = s.depth
      BY <1>1 DEF Sound
    <3>2. {"depth", "frames"} \subseteq DOMAIN t  BY <1>1 DEF Sound
    <3>3. last \in 1..last  BY <1>2, <1>7
    <3>. HIDE DEF s, last, t
    <3>. QED  BY <1>1, <3>1, <3>2, <3>3, FramesKept DEF last
  <2>. QED  BY <1>3, <2>1, <2>2
<1>8. CASE ~ s.key_slot /\ last # 0 /\ top.kind # "array" /\ top.pending_key # NoKey
  <2>. DEFINE t == [s EXCEPT !.frames[last].pending_key = NoKey,
                             !.frames[last].entries = Append(@, [key |-> top.pending_key, value |-> v])]
  <2>1. put(t)  BY <1>8 DEF Attach
  <2>2. Kept(s, t)
    <3>1. PICK frame : t.frames = [s.frames EXCEPT ![last] = frame] /\ t.depth = s.depth
      BY <1>1 DEF Sound
    <3>2. {"depth", "frames"} \subseteq DOMAIN t  BY <1>1 DEF Sound
    <3>3. last \in 1..last  BY <1>2, <1>8
    <3>. HIDE DEF s, last, t
    <3>. QED  BY <1>1, <3>1, <3>2, <3>3, FramesKept DEF last
  <2>. QED  BY <1>3, <2>1, <2>2
<1>9. CASE /\ ~ (s.key_slot /\ v.type = "string" /\ last # 0 /\ top.kind # "array")
           /\ ~ (~ s.key_slot /\ last = 0 /\ s.root = NoValue)
           /\ ~ (~ s.key_slot /\ last # 0 /\ top.kind = "array")
           /\ ~ (~ s.key_slot /\ last # 0 /\ top.kind # "array" /\ top.pending_key # NoKey)
  <2>1. \E error : Refuse(error)  BY <1>9 DEF Attach
  <2>. QED  BY <1>4, <2>1
<1>. QED  BY <1>5, <1>6, <1>7, <1>8, <1>9

-----------------------------------------------------------------------------
\* What each operation does.

LEMMA EnterGood ==
  ASSUME IInv, NEW s, Kept(Current, s), NEW frame, Enter(s, frame)
  PROVE  serializers' = serializers \/ Good(serializers')
<1>. DEFINE t == [s EXCEPT !.depth = @ + 1, !.frames = Append(@, frame)]
<1>1. Sound(s) /\ s.depth = Base(serializers, Len(serializers)) + Len(s.frames)
  BY TopOf DEF IInv, Current, Kept
<1>2. CASE s.depth + 1 > MaxDepth  BY <1>2 DEF Enter, Refuse
<1>3. CASE ~ s.depth + 1 > MaxDepth
  <2>1. serializers' = [serializers EXCEPT ![Len(serializers)] = t]
    BY <1>3 DEF Enter, Proceed, With
  <2>2. t.depth = s.depth + 1 /\ t.frames = Append(s.frames, frame) /\ {"depth", "frames"} \subseteq DOMAIN t
    BY <1>1 DEF Sound
  <2>3. IsSeq(t.frames) /\ Len(t.frames) = Len(s.frames) + 1 /\ Len(s.frames) \in Nat
    BY <1>1, <2>2, SeqAppend, SeqLen DEF Sound
  <2>4. Sound(t)  BY <1>1, <2>2, <2>3 DEF Sound
  <2>5. Base(serializers, Len(serializers)) \in Int  BY BaseInt DEF IInv
  <2>6. t.depth = Base(serializers, Len(serializers)) + Len(t.frames)
    BY <1>1, <2>2, <2>3, <2>5
  <2>7. t.depth <= MaxDepth  BY <1>1, <1>3, <2>2, EncoderAssumption DEF Sound
  <2>. HIDE DEF t
  <2>. QED  BY <2>1, <2>4, <2>6, <2>7, PutGood DEF IInv
<1>. QED  BY <1>2, <1>3

\* Taking the top frame off, with the depth one less, keeps the count.
LEMMA LeaveGood ==
  ASSUME IInv, InContainer, NEW s, "depth" \in DOMAIN s, "frames" \in DOMAIN s,
         s.depth = Current.depth - 1, s.frames = AllButLast(Current.frames)
  PROVE  Good(With(s))
<1>. DEFINE n == Len(serializers)
<1>1. Sound(Current) /\ Current.depth <= MaxDepth /\ Current.depth = Base(serializers, n) + Len(Current.frames)
  BY TopOf DEF IInv, Current
<1>2. IsSeq(s.frames) /\ Len(s.frames) = Len(Current.frames) - 1
  BY <1>1, SeqButLast DEF Sound, InContainer
<1>3. Len(Current.frames) \in Nat /\ Len(Current.frames) > 0
  BY <1>1, SeqLen DEF Sound, InContainer
<1>4. Base(serializers, n) \in Nat  BY BaseInt DEF IInv
<1>5. s.depth \in Nat /\ s.depth = Base(serializers, n) + Len(s.frames) /\ s.depth <= MaxDepth
  <2>. HIDE DEF n
  <2>. QED  BY <1>1, <1>2, <1>3, <1>4, EncoderAssumption DEF Sound
<1>6. Sound(s)  BY <1>2, <1>5 DEF Sound
<1>. QED  BY <1>5, <1>6, PutGood DEF IInv, With

\* The end of a container keeps the count.
LEMMA EndContainerGood ==
  ASSUME IInv, EndContainer
  PROVE  serializers' = serializers \/ Good(serializers')
<1>. DEFINE s == Leave(Current)
<1>1. InContainer /\ (Refuse("invalid_value") \/ \E v : Attach(With(s), v))
  BY DEF EndContainer, End
<1>2. Good(With(s))
  <2>1. Sound(Current)  BY TopOf DEF IInv, Current
  <2>2. /\ "depth" \in DOMAIN s /\ "frames" \in DOMAIN s
        /\ s.depth = Current.depth - 1 /\ s.frames = AllButLast(Current.frames)
    BY <2>1 DEF Leave, Sound
  <2>. QED  BY <1>1, <2>2, LeaveGood
<1>. HIDE DEF s
<1>. QED  BY <1>1, <1>2, AttachGood DEF Refuse

\* The end of a struct or tuple variant keeps the count.
LEMMA EndVariantGood ==
  ASSUME IInv, EndVariant
  PROVE  serializers' = serializers \/ Good(serializers')
<1>. DEFINE s == [Leave(Current) EXCEPT !.pending_variants = AllButLast(@)]
<1>1. InContainer /\ (Refuse("invalid_value") \/ \E v : Attach(With(s), v))
  BY DEF EndVariant, End
<1>2. Good(With(s))
  <2>1. Sound(Current)  BY TopOf DEF IInv, Current
  <2>2. /\ "depth" \in DOMAIN s /\ "frames" \in DOMAIN s
        /\ s.depth = Current.depth - 1 /\ s.frames = AllButLast(Current.frames)
    BY <2>1 DEF Leave, Sound
  <2>. QED  BY <1>1, <2>2, LeaveGood
<1>. HIDE DEF s
<1>. QED  BY <1>1, <1>2, AttachGood DEF Refuse

\* A payload has a serializer of its own.
LEMMA EnterPayloadGood ==
  ASSUME IInv, NEW variant, EnterPayload(variant)
  PROVE  serializers' = serializers \/ Good(serializers')
<1>. DEFINE t == Serializer(Current.depth + 1, variant)
<1>1. Sound(Current)  BY TopOf DEF IInv, Current
<1>2. CASE Current.depth + 1 > MaxDepth  BY <1>2 DEF EnterPayload, Refuse
<1>3. CASE ~ Current.depth + 1 > MaxDepth
  <2>1. serializers' = Append(serializers, t)  BY <1>3 DEF EnterPayload, Proceed
  <2>2. /\ {"depth", "frames"} \subseteq DOMAIN t
        /\ t.depth = Current.depth + 1 /\ t.frames = <<>>
    BY DEF Serializer
  <2>3. IsSeq(t.frames) /\ Len(t.frames) = 0  BY <2>2, SeqEmpty
  <2>4. Sound(t) /\ t.depth <= MaxDepth
    BY <1>1, <1>3, <2>2, <2>3, EncoderAssumption DEF Sound
  <2>5. t.depth = serializers[Len(serializers)].depth + 1  BY <2>2 DEF Current
  <2>. HIDE DEF t
  <2>. QED  BY <2>1, <2>3, <2>4, <2>5, PushGood DEF IInv
<1>. QED  BY <1>2, <1>3

\* Keys are set where nothing is opened.
LEMMA SetKeyGood ==
  ASSUME IInv, InContainer, NEW key, Proceed(With(SetKey(key)))
  PROVE  Good(serializers')
<1>. DEFINE last == Len(Current.frames)
            t == SetKey(key)
<1>1. Sound(Current)  BY TopOf DEF IInv, Current
<1>2. last \in 1..last  BY <1>1, SeqLen DEF Sound, InContainer
<1>3. PICK frame : t.frames = [Current.frames EXCEPT ![last] = frame] /\ t.depth = Current.depth
  BY <1>1 DEF Sound, SetKey
<1>4. {"depth", "frames"} \subseteq DOMAIN t  BY <1>1 DEF Sound, SetKey
<1>5. Kept(Current, t)
  <2>. HIDE DEF t
  <2>. QED  BY <1>1, <1>2, <1>3, <1>4, FramesKept
<1>. QED  BY <1>5, KeptGood DEF IInv, Proceed, With, Current

\* A step that changes neither frames nor depth keeps the count.
LEMMA WithKept ==
  ASSUME IInv, NEW t, Kept(Current, t), Proceed(With(t))
  PROVE  Good(serializers')
BY KeptGood DEF IInv, Proceed, With, Current

\* A fresh serializer has nothing open and a depth of zero.
LEMMA InitIInv == EncoderInit => IInv
<1>. SUFFICES ASSUME EncoderInit PROVE IInv  OBVIOUS
<1>. DEFINE s == Serializer(0, NoKey)
<1>1. serializers = <<s>>  BY DEF EncoderInit, Fresh
<1>2. {"depth", "frames"} \subseteq DOMAIN s /\ s.depth = 0 /\ s.frames = <<>>
  BY DEF Serializer
<1>. HIDE DEF s
<1>3. Sound(s) /\ Len(s.frames) = 0  BY <1>2, SeqEmpty DEF Sound
<1>4. IsSeq(serializers) /\ serializers # <<>> /\ DOMAIN serializers = {1} /\ serializers[1] = s
  <2>1. <<s>> \in Seq({s}) /\ <<s>> # <<>> /\ DOMAIN <<s>> = {1} /\ <<s>>[1] = s  OBVIOUS
  <2>. QED  BY <1>1, <2>1, SeqIs
<1>5. Counted(serializers)
  BY <1>2, <1>3, <1>4, EncoderAssumption DEF Counted, Base
<1>. QED  BY <1>3, <1>4, <1>5 DEF IInv, Good

\* Every call of the serializer keeps the count, whatever came before it.
LEMMA NextIInv == IInv /\ [EncoderNext]_encoderVars => IInv'
<1>. SUFFICES ASSUME IInv, [EncoderNext]_encoderVars PROVE IInv'  OBVIOUS
<1>21. ASSUME Good(serializers') PROVE IInv'  BY <1>21 DEF IInv, Good, Counted, Base
<1>22. CASE serializers' = serializers  BY <1>22 DEF IInv, Good, Counted, Base
<1>. SUFFICES serializers' = serializers \/ Good(serializers')  BY <1>21, <1>22
<1>1. ASSUME NEW error, Refuse(error) PROVE serializers' = serializers
  BY <1>1 DEF Refuse
<1>2. ASSUME NEW v, Attach(serializers, v) PROVE serializers' = serializers \/ Good(serializers')
  BY <1>2, AttachGood DEF IInv
<1>3. Sound(Current)  BY TopOf DEF IInv, Current
<1>4. Kept(Current, Current)  BY <1>3 DEF Kept
<1>5. ASSUME SerializeInteger \/ SerializeFloat \/ SerializeBool \/ SerializeText \/ SerializeNull
      PROVE  serializers' = serializers \/ Good(serializers')
  <2>1. (\E error : Refuse(error)) \/ (\E v : Attach(serializers, v))
    BY <1>5 DEF SerializeInteger, SerializeFloat, SerializeBool, SerializeText, SerializeNull
  <2>. QED  BY <1>1, <1>2, <2>1
<1>6. CASE SerializeTupleVariant  BY <1>6, <1>1 DEF SerializeTupleVariant
<1>7. CASE SerializeSeq  BY <1>7, <1>4, EnterGood DEF SerializeSeq
<1>8. CASE SerializeMap  BY <1>8, <1>4, EnterGood DEF SerializeMap
<1>9. CASE SerializeStruct  BY <1>9, <1>4, EnterGood DEF SerializeStruct
<1>10. CASE SerializeStructVariant
  <2>. DEFINE t == [Current EXCEPT !.pending_variants = Append(@, calls[1].text)]
  <2>1. Kept(Current, t)  BY <1>3 DEF Kept, Sound
  <2>2. Enter(t, Frame("map", FALSE))  BY <1>10 DEF SerializeStructVariant
  <2>. HIDE DEF t
  <2>. QED  BY <2>1, <2>2, EnterGood
<1>11. CASE SerializeNewtypeVariant  BY <1>11, EnterPayloadGood DEF SerializeNewtypeVariant
<1>12. CASE EndNewtypeVariant
  <2>1. Len(serializers) > 1 /\ (Refuse("invalid_value") \/ \E v : Attach(AllButLast(serializers), v))
    BY <1>12 DEF EndNewtypeVariant
  <2>2. Good(AllButLast(serializers))  BY <2>1, PopGood DEF IInv
  <2>. QED  BY <1>1, <2>1, <2>2, AttachGood
<1>13. CASE SerializeKey
  <2>. DEFINE t == [Current EXCEPT !.key_slot = TRUE]
  <2>1. Kept(Current, t)  BY <1>3 DEF Kept, Sound
  <2>2. Proceed(With(t))  BY <1>13 DEF SerializeKey
  <2>. HIDE DEF t
  <2>. QED  BY <2>1, <2>2, WithKept
<1>14. CASE EndKey
  <2>. DEFINE t == [Current EXCEPT !.key_slot = FALSE]
  <2>1. Kept(Current, t)  BY <1>3 DEF Kept, Sound
  <2>2. Proceed(With(t))  BY <1>14 DEF EndKey
  <2>. HIDE DEF t
  <2>. QED  BY <2>1, <2>2, WithKept
<1>15. CASE SerializeField  BY <1>15, SetKeyGood DEF SerializeField
<1>16. CASE SkipField  BY <1>16, SetKeyGood DEF SkipField
<1>17. CASE EndContainer  BY <1>17, EndContainerGood
<1>18. CASE EndVariant  BY <1>18, EndVariantGood
<1>19. CASE Finish  BY <1>19 DEF Finish, Refuse
<1>20. CASE UNCHANGED encoderVars  BY <1>20 DEF encoderVars
<1>. QED
  BY <1>5, <1>6, <1>7, <1>8, <1>9, <1>10, <1>11, <1>12, <1>13, <1>14, <1>15, <1>16, <1>17, <1>18,
     <1>19, <1>20 DEF EncoderNext

-----------------------------------------------------------------------------

\* Whatever calls a value makes, in whatever order: the serializer's depth is the
\* number of levels that are open in all the serializers together, and it is
\* within the bound (ser.rs, enter, leave and serialize_newtype_variant).
THEOREM DepthCounted == EncoderSpec => []DepthCountsWhatIsOpen
<1>1. IInv => DepthCountsWhatIsOpen  BY DEF IInv, Good, DepthCountsWhatIsOpen
<1>. QED  BY InitIInv, NextIInv, <1>1, PTL DEF EncoderSpec
=============================================================================

------------------------ MODULE WhisperDecodeProofs ------------------------
(***************************************************************************)
(* What a native call promises holds for every length of audio, chunk,     *)
(* number of tokens, temperatures and decoders: segments come in order and *)
(* are reported once, and the call implements NativeCall.                  *)
(***************************************************************************)
EXTENDS WhisperDecode, TLAPS, WellFoundedInduction

-----------------------------------------------------------------------------
(* Induction, from the least element of a set of numbers.                  *)

Less == {pair \in Nat \X Nat : pair[1] < pair[2]}

\* A nonempty set of numbers has a least element.
LEMMA LeastElement ==
    ASSUME NEW S \in SUBSET Nat, S # {}
    PROVE  \E n \in S : \A m \in S : n <= m
<1>1. IsWellFoundedOn(Less, Nat)
  BY NatLessThanWellFounded DEF OpToRel, Less
<1>2. PICK n \in S : \A m \in S : ~ (<<m, n>> \in Less)
  BY <1>1, WFMin, Zenon
<1>3. ASSUME NEW m \in S PROVE n <= m
  <2>1. <<m, n>> \notin Less
    BY <1>2
  <2>2. <<m, n>> \in Nat \X Nat /\ <<m, n>>[1] = m /\ <<m, n>>[2] = n
    OBVIOUS
  <2>3. ~ (m < n)
    BY <2>1, <2>2 DEF Less
  <2> QED
    BY <2>3
<1> QED
  BY <1>3

\* The principle of induction, for sets.
LEMMA Induction ==
    ASSUME NEW S \in SUBSET Nat, 0 \in S, \A n \in S : n + 1 \in S
    PROVE  S = Nat
<1> SUFFICES ASSUME Nat \ S # {} PROVE FALSE
  OBVIOUS
<1>1. PICK n \in Nat \ S : \A m \in Nat \ S : n <= m
  BY LeastElement
<1>2. n # 0 /\ n - 1 \in Nat /\ n - 1 \in S
  BY <1>1
<1> QED
  BY <1>1, <1>2

-----------------------------------------------------------------------------
(* The emission of a sequence, token by token.                             *)

Nothing == [segments |-> <<>>, text |-> FALSE]

Heard(at, acc, s) ==
    IF s = Text THEN [acc EXCEPT !.text = TRUE]
    ELSE IF s > 0 /\ acc.text
    THEN [segments |-> Append(acc.segments, at + s), text |-> FALSE]
    ELSE acc

\* iter is the fold of the tokens at every set of positions up to k.
IsFold(at, seq, k, iter) ==
    iter = [p \in SUBSET (1..k) |->
               IF p = {} THEN Nothing ELSE Heard(at, iter[p \ {Max(p)}], seq[Max(p)])]

Fold(at, seq) == CHOOSE iter : IsFold(at, seq, Len(seq), iter)

\* What has been emitted after k tokens.
After(at, seq, k) == Fold(at, seq)[1..k]

\* The fold of the community modules is the recursion above.
LEMMA EmittedIsFold ==
    ASSUME NEW d, DOMAIN d.tokens = 1..Len(d.tokens)
    PROVE  LET all == After(seek, d.tokens, Len(d.tokens))
           IN  Emitted(d) = IF all.text THEN Append(all.segments, seek + d.delta)
                            ELSE all.segments
BY DEF Emitted, FoldLeft, MapThenFoldSet, After, Fold, IsFold, Heard, Nothing

\* The greatest position of a set that holds the last one.
LEMMA MaxIsLast ==
    ASSUME NEW k \in Nat, NEW p \in SUBSET (1..k), k \in p
    PROVE  Max(p) = k
<1>1. \A y \in p : k >= y
  OBVIOUS
<1>2. \A x \in p : (\A y \in p : x >= y) => x = k
  OBVIOUS
<1> QED
  BY <1>1, <1>2 DEF Max

\* The recursion has a solution.
LEMMA FoldExists ==
    ASSUME NEW at, NEW seq, NEW n \in Nat
    PROVE  \E iter : IsFold(at, seq, n, iter)
<1> DEFINE S == {k \in Nat : \E iter : IsFold(at, seq, k, iter)}
<1>1. 0 \in S
  <2> DEFINE first == [p \in SUBSET (1..0) |-> Nothing]
  <2>1. 1..0 = {}
    OBVIOUS
  <2>2. IsFold(at, seq, 0, first)
    BY <2>1, Zenon DEF IsFold
  <2> QED
    BY <2>2
<1>2. ASSUME NEW k \in S PROVE k + 1 \in S
  <2>1. PICK old : IsFold(at, seq, k, old)
    OBVIOUS
  <2> DEFINE new == [p \in SUBSET (1..k + 1) |->
                        IF k + 1 \in p THEN Heard(at, old[p \ {k + 1}], seq[k + 1]) ELSE old[p]]
  <2>2. ASSUME NEW p \in SUBSET (1..k + 1)
        PROVE  new[p] = IF p = {} THEN Nothing
                        ELSE Heard(at, new[p \ {Max(p)}], seq[Max(p)])
    <3>0. k \in Nat /\ k + 1 \in Nat
      OBVIOUS
    <3>1. CASE k + 1 \in p
      <4>1. Max(p) = k + 1
        BY <3>0, <3>1, MaxIsLast
      <4>2. p \ {k + 1} \in SUBSET (1..k + 1) /\ k + 1 \notin p \ {k + 1}
        OBVIOUS
      <4>3. new[p \ {k + 1}] = old[p \ {k + 1}]
        BY <4>2
      <4> QED
        BY <3>1, <4>1, <4>3
    <3>2. CASE k + 1 \notin p
      <4>1. p \in SUBSET (1..k)
        BY <3>0, <3>2
      <4>2. old[p] = IF p = {} THEN Nothing ELSE Heard(at, old[p \ {Max(p)}], seq[Max(p)])
        BY <2>1, <4>1, Zenon DEF IsFold
      <4>3. new[p \ {Max(p)}] = old[p \ {Max(p)}] /\ new[p] = old[p]
        BY <3>2
      <4> QED
        BY <4>2, <4>3
    <3> QED
      BY <3>1, <3>2
  <2>3. new = [p \in SUBSET (1..k + 1) |->
                  IF p = {} THEN Nothing ELSE Heard(at, new[p \ {Max(p)}], seq[Max(p)])]
    <3> HIDE DEF new
    <3>1. new = [p \in SUBSET (1..k + 1) |-> new[p]]
      BY DEF new
    <3> QED
      BY <2>2, <3>1
  <2>4. IsFold(at, seq, k + 1, new)
    BY <2>3 DEF IsFold
  <2> QED
    BY <2>4
<1>3. S = Nat
  <2> HIDE DEF S
  <2>1. S \in SUBSET Nat
    BY DEF S
  <2> QED
    BY <1>1, <1>2, <2>1, Induction
<1> QED
  BY <1>3

\* Before the first token nothing is emitted, and each token adds to what the
\* tokens before it left.
LEMMA AfterEachToken ==
    ASSUME NEW at, NEW seq, Len(seq) \in Nat
    PROVE  /\ After(at, seq, 0) = Nothing
           /\ \A k \in 1..Len(seq) :
                 After(at, seq, k) = Heard(at, After(at, seq, k - 1), seq[k])
<1> DEFINE iter == Fold(at, seq)
<1>1. IsFold(at, seq, Len(seq), iter)
  BY FoldExists DEF Fold
<1> HIDE DEF iter
<1>2. \A p \in SUBSET (1..Len(seq)) :
         iter[p] = IF p = {} THEN Nothing ELSE Heard(at, iter[p \ {Max(p)}], seq[Max(p)])
  BY <1>1, Zenon DEF IsFold
<1>3. iter[1..0] = Nothing
  <2>1. 1..0 = {} /\ {} \in SUBSET (1..Len(seq))
    OBVIOUS
  <2> QED
    BY <1>2, <2>1
<1>4. ASSUME NEW k \in 1..Len(seq)
      PROVE  iter[1..k] = Heard(at, iter[1..k - 1], seq[k])
  <2>1. 1..k \in SUBSET (1..Len(seq)) /\ (1..k) \ {k} = 1..k - 1
    OBVIOUS
  <2>3. k \in 1..k
    OBVIOUS
  <2>2. Max(1..k) = k
    BY MaxIsLast
  <2> QED
    BY <1>2, <2>1, <2>2, <2>3
<1> QED
  BY <1>3, <1>4 DEF After, iter

-----------------------------------------------------------------------------
(* What is emitted of a sequence whose timestamps do not go back.          *)

\* What the proofs need of the assumptions.
LEMMA Sizes ==
    /\ Chunk \in Nat /\ DeltaMin \in Nat /\ MaxTokens \in Nat /\ MaxTokens > 0
    /\ Temperatures \in Nat /\ Temperatures > 0 /\ BestOf \in Nat /\ BestOf > 0
    /\ Ends \subseteq Nat /\ MaxCalls \in Nat /\ Tokens \subseteq Int
BY SizesAssumption DEF Tokens, Text, Eot

Sorted(s) == \A i, j \in DOMAIN s : i < j => s[i] <= s[j]

Ordered(seq) ==
    \A i, j \in DOMAIN seq : i < j /\ seq[i] > 0 /\ seq[j] > 0 => seq[i] <= seq[j]

Spent(acc) == Len(acc.segments) + IF acc.text THEN 1 ELSE 0

\* After k tokens: no more segments than tokens, in order, each ending where
\* one of the timestamps points.
Emission(at, seq, k, acc) ==
    /\ acc \in [segments : Seq(Nat), text : BOOLEAN]
    /\ Spent(acc) <= k
    /\ Sorted(acc.segments)
    /\ \A i \in DOMAIN acc.segments :
          \E j \in 1..k : seq[j] > 0 /\ acc.segments[i] = at + seq[j]

\* One more token.
LEMMA TokenEmits ==
    ASSUME NEW at \in Nat, NEW seq \in Seq(Tokens), Ordered(seq),
           NEW k \in 1..Len(seq), NEW acc, Emission(at, seq, k - 1, acc)
    PROVE  Emission(at, seq, k, Heard(at, acc, seq[k]))
<1>0. /\ acc.segments \in Seq(Nat) /\ acc.text \in BOOLEAN /\ Spent(acc) <= k - 1
      /\ Len(acc.segments) \in Nat /\ seq[k] \in Int /\ k - 1 \in Nat
      /\ DOMAIN acc.segments = 1..Len(acc.segments)
      /\ acc \in [segments : Seq(Nat), text : BOOLEAN]
      /\ \A i \in DOMAIN seq : seq[i] \in Int
  <2>1. \A i \in DOMAIN seq : seq[i] \in Tokens
    OBVIOUS
  <2>2. \A i \in DOMAIN seq : seq[i] \in Int
    BY <2>1, Sizes
  <2> QED
    BY <2>2 DEF Emission
<1>1. \A i \in DOMAIN acc.segments :
         \E j \in 1..k - 1 : seq[j] > 0 /\ acc.segments[i] = at + seq[j]
  BY DEF Emission
<1>2. Sorted(acc.segments)
  BY DEF Emission
<1>3. CASE seq[k] = Text
  <2> DEFINE new == [acc EXCEPT !.text = TRUE]
  <2>1. /\ new.segments = acc.segments /\ new.text = TRUE
        /\ new \in [segments : Seq(Nat), text : BOOLEAN]
    BY <1>0
  <2>2. Heard(at, acc, seq[k]) = new
    BY <1>3 DEF Heard
  <2> HIDE DEF new
  <2>3. Spent(new) <= k
    BY <1>0, <2>1 DEF Spent
  <2>4. \A i \in DOMAIN new.segments :
           \E j \in 1..k : seq[j] > 0 /\ new.segments[i] = at + seq[j]
    BY <1>1, <2>1
  <2> QED
    BY <1>2, <2>1, <2>2, <2>3, <2>4 DEF Emission
<1>4. CASE seq[k] # Text /\ seq[k] > 0 /\ acc.text
  <2> DEFINE seg == Append(acc.segments, at + seq[k])
             new == [segments |-> seg, text |-> FALSE]
  <2>1. /\ seg \in Seq(Nat) /\ Len(seg) = Len(acc.segments) + 1
        /\ DOMAIN seg = 1..Len(acc.segments) + 1
        /\ \A i \in DOMAIN acc.segments : seg[i] = acc.segments[i]
        /\ seg[Len(acc.segments) + 1] = at + seq[k]
    BY <1>0, <1>4
  <2>2. Heard(at, acc, seq[k]) = new /\ new.segments = seg /\ new.text = FALSE
    BY <1>4 DEF Heard
  <2> HIDE DEF seg
  <2>3. Spent(new) <= k
    BY <1>0, <1>4, <2>1, <2>2 DEF Spent
  <2>4. \A i \in DOMAIN seg :
           \E j \in 1..k : seq[j] > 0 /\ seg[i] = at + seq[j]
    <3>1. ASSUME NEW i \in DOMAIN acc.segments
          PROVE  \E j \in 1..k : seq[j] > 0 /\ seg[i] = at + seq[j]
      BY <1>1, <2>1
    <3>2. \E j \in 1..k : seq[j] > 0 /\ seg[Len(acc.segments) + 1] = at + seq[j]
      BY <1>4, <2>1
    <3> SUFFICES ASSUME NEW i \in DOMAIN seg
                 PROVE  \E j \in 1..k : seq[j] > 0 /\ seg[i] = at + seq[j]
      OBVIOUS
    <3>3. i \in DOMAIN acc.segments \/ i = Len(acc.segments) + 1
      BY <1>0, <2>1
    <3> QED
      BY <3>1, <3>2, <3>3
  <2>5. Sorted(seg)
    <3>1. ASSUME NEW i \in DOMAIN acc.segments PROVE acc.segments[i] <= at + seq[k]
      <4>1. PICK j \in 1..k - 1 : seq[j] > 0 /\ acc.segments[i] = at + seq[j]
        BY <1>1
      <4>2. j \in DOMAIN seq /\ k \in DOMAIN seq /\ j < k /\ seq[j] \in Int
        BY <1>0
      <4>3. seq[j] <= seq[k]
        BY <1>4, <4>1, <4>2 DEF Ordered
      <4> QED
        BY <1>0, <4>1, <4>2, <4>3
    <3>2. ASSUME NEW i \in DOMAIN seg, NEW j \in DOMAIN seg, i < j PROVE seg[i] <= seg[j]
      <4>1. i \in DOMAIN acc.segments
        BY <1>0, <2>1, <3>2
      <4>2. CASE j \in DOMAIN acc.segments
        BY <1>2, <2>1, <3>2, <4>1, <4>2 DEF Sorted
      <4>3. CASE j = Len(acc.segments) + 1
        BY <2>1, <3>1, <4>1, <4>3
      <4> QED
        BY <1>0, <2>1, <4>2, <4>3
    <3> QED
      BY <3>2 DEF Sorted
  <2>6. new \in [segments : Seq(Nat), text : BOOLEAN]
    BY <2>1
  <2> HIDE DEF new
  <2> QED
    BY <2>2, <2>3, <2>4, <2>5, <2>6 DEF Emission
<1>5. CASE seq[k] # Text /\ ~(seq[k] > 0 /\ acc.text)
  <2>1. Heard(at, acc, seq[k]) = acc
    BY <1>5 DEF Heard
  <2>2. \A i \in DOMAIN acc.segments :
           \E j \in 1..k : seq[j] > 0 /\ acc.segments[i] = at + seq[j]
    BY <1>1
  <2>3. Spent(acc) <= k
    BY <1>0 DEF Spent
  <2> QED
    BY <1>0, <1>2, <2>1, <2>2, <2>3 DEF Emission
<1> QED
  BY <1>3, <1>4, <1>5

\* All of them.
LEMMA TokensEmit ==
    ASSUME NEW at \in Nat, NEW seq \in Seq(Tokens), Ordered(seq)
    PROVE  Emission(at, seq, Len(seq), After(at, seq, Len(seq)))
<1>0. Len(seq) \in Nat
  OBVIOUS
<1> DEFINE S == {k \in Nat : k <= Len(seq) => Emission(at, seq, k, After(at, seq, k))}
<1>1. 0 \in S
  <2>1. Emission(at, seq, 0, Nothing)
    BY DEF Emission, Nothing, Spent, Sorted
  <2> QED
    BY <1>0, <2>1, AfterEachToken
<1>2. ASSUME NEW k \in S PROVE k + 1 \in S
  <2>1. SUFFICES ASSUME k + 1 <= Len(seq)
                 PROVE  Emission(at, seq, k + 1, After(at, seq, k + 1))
    OBVIOUS
  <2>2. k + 1 \in 1..Len(seq) /\ (k + 1) - 1 = k
    BY <1>0, <2>1
  <2>3. Emission(at, seq, k, After(at, seq, k))
    BY <1>0, <2>1, <2>2
  <2>4. After(at, seq, k + 1) = Heard(at, After(at, seq, k), seq[k + 1])
    BY <1>0, <2>2, AfterEachToken
  <2> HIDE DEF S
  <2> QED
    BY <2>2, <2>3, <2>4, TokenEmits
<1>3. S = Nat
  <2> HIDE DEF S
  <2>1. S \in SUBSET Nat
    BY DEF S
  <2> QED
    BY <1>1, <1>2, <2>1, Induction
<1> QED
  BY <1>0, <1>3

-----------------------------------------------------------------------------
(* One decoder.                                                            *)

\* The positive timestamps do not go back and none is beyond delta.
Follows(d) ==
    /\ Len(d.tokens) <= MaxTokens /\ d.len <= Len(d.tokens)
    /\ \A i \in DOMAIN d.tokens : d.tokens[i] > 0 => d.hasTs /\ d.tokens[i] <= d.delta
    /\ Ordered(d.tokens)

\* The fields of a decoder.
LEMMA DecoderFields ==
    ASSUME NEW d \in Decoder
    PROVE  /\ d.tokens \in Seq(Tokens)
           /\ Len(d.tokens) \in Nat /\ DOMAIN d.tokens = 1..Len(d.tokens)
           /\ d.len \in 0..MaxTokens /\ d.delta \in 0..Chunk
           /\ d.len \in Nat /\ d.delta \in Nat
           /\ d.hasTs \in BOOLEAN /\ d.failed \in BOOLEAN /\ d.completed \in BOOLEAN
           /\ \A i \in DOMAIN d.tokens : d.tokens[i] \in Tokens /\ d.tokens[i] \in Int
<1>1. /\ d.tokens \in Seq(Tokens)
      /\ d.len \in 0..MaxTokens /\ d.delta \in 0..Chunk
      /\ d.hasTs \in BOOLEAN /\ d.failed \in BOOLEAN /\ d.completed \in BOOLEAN
  BY DEF Decoder
<1>2. \A i \in 1..Len(d.tokens) : d.tokens[i] \in Tokens
  BY <1>1
<1>3. Len(d.tokens) \in Nat /\ DOMAIN d.tokens = 1..Len(d.tokens)
  BY <1>1
<1>4. \A i \in DOMAIN d.tokens : d.tokens[i] \in Tokens /\ d.tokens[i] \in Int
  BY <1>2, <1>3, Sizes
<1>5. d.len \in Nat /\ d.delta \in Nat
  BY <1>1, Sizes
<1> QED
  BY <1>1, <1>3, <1>4, <1>5

\* A fresh decoder is one.
LEMMA FreshFollows == FreshDecoder \in Decoder /\ Follows(FreshDecoder) /\ ~Over(FreshDecoder)
                      /\ Len(FreshDecoder.tokens) = 0
<1>1. /\ FreshDecoder.tokens = <<>> /\ FreshDecoder.len = 0
      /\ FreshDecoder.failed = FALSE /\ FreshDecoder.completed = FALSE
  BY DEF FreshDecoder
<1>2. FreshDecoder \in Decoder
  BY Sizes DEF FreshDecoder, Decoder
<1> QED
  BY <1>1, <1>2, Sizes DEF Follows, Ordered, Over

\* The segments of a sequence: at most one for each token, in order, between
\* the start of the chunk and where the last timestamp points.
LEMMA EmittedSegments ==
    ASSUME seek \in Nat, NEW d \in Decoder, Follows(d)
    PROVE  /\ Emitted(d) \in Seq(Nat)
           /\ Len(Emitted(d)) <= MaxTokens
           /\ Sorted(Emitted(d))
           /\ \A i \in DOMAIN Emitted(d) :
                 seek <= Emitted(d)[i] /\ Emitted(d)[i] <= seek + d.delta
<1> DEFINE all == After(seek, d.tokens, Len(d.tokens))
<1>1. Emission(seek, d.tokens, Len(d.tokens), all)
  BY DecoderFields, TokensEmit DEF Follows
<1>2. Emitted(d) = IF all.text THEN Append(all.segments, seek + d.delta) ELSE all.segments
  BY DecoderFields, EmittedIsFold
<1> HIDE DEF all
<1>3. /\ all.segments \in Seq(Nat) /\ all.text \in BOOLEAN
      /\ Len(all.segments) \in Nat /\ DOMAIN all.segments = 1..Len(all.segments)
      /\ Sorted(all.segments)
      /\ Len(d.tokens) \in Nat /\ Len(d.tokens) <= MaxTokens /\ d.delta \in Nat
  BY <1>1, DecoderFields DEF Emission, Follows
<1>4. ASSUME NEW i \in DOMAIN all.segments
      PROVE  seek <= all.segments[i] /\ all.segments[i] <= seek + d.delta
  <2>1. PICK j \in 1..Len(d.tokens) :
            d.tokens[j] > 0 /\ all.segments[i] = seek + d.tokens[j]
    BY <1>1 DEF Emission
  <2>2. d.tokens[j] <= d.delta /\ d.tokens[j] \in Int
    BY <2>1, DecoderFields DEF Follows
  <2> QED
    BY <1>3, <2>1, <2>2
<1>5. CASE all.text
  <2> DEFINE seg == Append(all.segments, seek + d.delta)
  <2>1. /\ seg \in Seq(Nat) /\ Len(seg) = Len(all.segments) + 1
        /\ DOMAIN seg = 1..Len(all.segments) + 1
        /\ \A i \in DOMAIN all.segments : seg[i] = all.segments[i]
        /\ seg[Len(all.segments) + 1] = seek + d.delta
    BY <1>3
  <2> HIDE DEF seg
  <2>2. Len(all.segments) + 1 <= MaxTokens
    BY <1>1, <1>3, <1>5, Sizes DEF Emission, Spent
  <2>3. ASSUME NEW i \in DOMAIN seg
        PROVE  /\ i \in DOMAIN all.segments \/ i = Len(all.segments) + 1
               /\ seek <= seg[i] /\ seg[i] <= seek + d.delta
    <3>1. i \in DOMAIN all.segments \/ i = Len(all.segments) + 1
      BY <1>3, <2>1
    <3>2. CASE i \in DOMAIN all.segments
      BY <1>4, <2>1, <3>2
    <3>3. CASE i = Len(all.segments) + 1
      BY <1>3, <2>1, <3>3
    <3> QED
      BY <3>1, <3>2, <3>3
  <2>4. Sorted(seg)
    <3> SUFFICES ASSUME NEW i \in DOMAIN seg, NEW j \in DOMAIN seg, i < j
                 PROVE  seg[i] <= seg[j]
      BY DEF Sorted
    <3>1. i \in DOMAIN all.segments
      BY <1>3, <2>1
    <3>2. CASE j \in DOMAIN all.segments
      BY <1>3, <2>1, <3>1, <3>2 DEF Sorted
    <3>3. CASE j = Len(all.segments) + 1
      BY <2>1, <2>3, <3>3
    <3> QED
      BY <2>3, <3>2, <3>3
  <2>5. Emitted(d) = seg
    BY <1>2, <1>5 DEF seg
  <2> QED
    BY <2>1, <2>2, <2>3, <2>4, <2>5
<1>6. CASE ~all.text
  <2>1. Emitted(d) = all.segments
    BY <1>2, <1>6
  <2>2. Len(all.segments) <= MaxTokens
    BY <1>1, <1>3, <1>6, Sizes DEF Emission, Spent
  <2> QED
    BY <1>3, <1>4, <2>1, <2>2
<1> QED
  BY <1>3, <1>5, <1>6

\* The bookkeeping after a token that the filters allow: the result never
\* goes back.
LEMMA TakeFollows ==
    ASSUME NEW d \in Decoder, Follows(d), Len(d.tokens) < MaxTokens,
           NEW s \in Tokens, s \in Allowed(d), seek \in Nat, end \in Nat
    PROVE  /\ Take(d, s) \in Decoder /\ Follows(Take(d, s))
           /\ Len(Take(d, s).tokens) = Len(d.tokens) + 1
<1> DEFINE n     == Len(d.tokens) + 1
           moves == MovesWindow(s)
           delta == IF moves THEN s ELSE d.delta
           len   == IF moves THEN n ELSE d.len
           ends  == s = Eot \/ ((d.hasTs \/ moves) /\ AtEnd(delta))
           empty == len = 0 /\ ~AtEnd(delta)
           loops == n = MaxTokens /\ (len = 0 \/ 2 * delta < Chunk)
           toks  == Append(d.tokens, s)
           newLen == IF ends /\ len = 0 /\ ~empty THEN n ELSE len
           new   == [d EXCEPT !.tokens = toks, !.delta = delta, !.len = newLen,
                              !.hasTs = d.hasTs \/ moves,
                              !.failed = IF ends THEN empty ELSE loops,
                              !.completed = ends /\ ~empty]
<1>1. s \in Int /\ (moves <=> s > 0) /\ (moves => s \in 0..Chunk)
  BY Sizes DEF Tokens, Text, Eot, MovesWindow
<1>2. d.hasTs /\ moves => s >= d.delta
  BY <1>1 DEF Allowed, IsTimestamp
<1>3. Take(d, s) = new
  <2>1. ~(moves /\ d.hasTs /\ d.delta > s /\ d.len < n - 1)
    BY <1>1, <1>2, DecoderFields
  <2> QED
    BY <2>1 DEF Take
<1>4. delta \in 0..Chunk /\ len \in 0..MaxTokens /\ newLen \in 0..MaxTokens
      /\ newLen <= n /\ n <= MaxTokens /\ n \in Nat /\ len <= n
  BY <1>1, DecoderFields, Sizes DEF Follows
<1>5. /\ toks \in Seq(Tokens) /\ Len(toks) = n /\ DOMAIN toks = 1..n
      /\ toks[n] = s /\ \A i \in DOMAIN d.tokens : toks[i] = d.tokens[i]
  BY DecoderFields
<1> HIDE DEF n, moves, delta, len, ends, empty, loops, toks, newLen
<1>6. /\ new \in Decoder
      /\ new.tokens = toks /\ new.delta = delta /\ new.len = newLen
      /\ new.hasTs = (d.hasTs \/ moves)
  <2>1. \A p, q, r \in BOOLEAN : [d EXCEPT !.tokens = toks, !.delta = delta, !.len = newLen,
             !.hasTs = p, !.failed = q, !.completed = r] \in Decoder
    BY <1>4, <1>5 DEF Decoder
  <2>2. (d.hasTs \/ moves) \in BOOLEAN /\ (IF ends THEN empty ELSE loops) \in BOOLEAN
        /\ (ends /\ ~empty) \in BOOLEAN
    BY Zenon DEF moves, ends, empty, loops
  <2>3. new \in Decoder
    BY <2>1, <2>2, Zenon
  <2>4. /\ new.tokens = toks /\ new.delta = delta /\ new.len = newLen
        /\ new.hasTs = (d.hasTs \/ moves)
    BY DEF Decoder
  <2> QED
    BY <2>3, <2>4
<1> HIDE DEF new
<1>7. \A i \in DOMAIN toks : i \in DOMAIN d.tokens \/ i = n
  BY <1>5, DecoderFields DEF n
<1>8. ASSUME NEW i \in DOMAIN toks, toks[i] > 0
      PROVE  (d.hasTs \/ moves) /\ toks[i] <= delta
  <2>1. CASE i \in DOMAIN d.tokens
    <3>1. d.tokens[i] > 0 /\ d.hasTs /\ d.tokens[i] <= d.delta
      BY <1>5, <1>8, <2>1 DEF Follows
    <3>2. d.delta <= delta
      BY <1>1, <1>2, <3>1, DecoderFields DEF delta
    <3>3. d.tokens[i] \in Int /\ d.delta \in Int /\ delta \in Int
      BY <1>4, <2>1, DecoderFields
    <3> QED
      BY <1>5, <2>1, <3>1, <3>2, <3>3
  <2>2. CASE i = n
    BY <1>1, <1>5, <1>8, <2>2 DEF delta
  <2> QED
    BY <1>7, <2>1, <2>2
<1>9. Ordered(toks)
  <2> SUFFICES ASSUME NEW i \in DOMAIN toks, NEW j \in DOMAIN toks,
                      i < j, toks[i] > 0, toks[j] > 0
               PROVE  toks[i] <= toks[j]
    BY DEF Ordered
  <2>1. i \in DOMAIN d.tokens
    BY <1>5, DecoderFields DEF n
  <2>2. CASE j \in DOMAIN d.tokens
    BY <1>5, <2>1, <2>2 DEF Follows, Ordered
  <2>3. CASE j = n
    <3>1. toks[j] = s /\ s > 0
      BY <1>5, <2>3
    <3>2. toks[i] <= delta
      BY <1>8
    <3> QED
      BY <1>1, <3>1, <3>2 DEF delta
  <2> QED
    BY <1>7, <2>2, <2>3
<1> QED
  BY <1>3, <1>4, <1>5, <1>6, <1>8, <1>9 DEF Follows, n

\* A sequence that is cut to its result, and may be given up for its entropy.
LEMMA CutFollows ==
    ASSUME NEW d \in Decoder, Follows(d), NEW f \in BOOLEAN
    PROVE  LET new == [d EXCEPT !.tokens = SubSeq(d.tokens, 1, d.len), !.failed = f]
           IN  new \in Decoder /\ Follows(new)
<1> DEFINE toks == SubSeq(d.tokens, 1, d.len)
           new == [d EXCEPT !.tokens = toks, !.failed = f]
<1>1. /\ toks \in Seq(Tokens) /\ Len(toks) = d.len /\ DOMAIN toks = 1..d.len
      /\ \A i \in DOMAIN toks : i \in DOMAIN d.tokens /\ toks[i] = d.tokens[i]
  <2>1. /\ d.tokens \in Seq(Tokens) /\ d.len \in 0..Len(d.tokens)
        /\ DOMAIN d.tokens = 1..Len(d.tokens) /\ Len(d.tokens) \in Nat
    BY DecoderFields DEF Follows
  <2>2. /\ Len(toks) = d.len /\ DOMAIN toks = 1..d.len
        /\ \A i \in 1..d.len : toks[i] = d.tokens[i]
    BY <2>1
  <2>3. toks \in Seq(Tokens)
    BY <2>1
  <2> QED
    BY <2>1, <2>2, <2>3
<1> HIDE DEF toks
<1>2. /\ new \in Decoder /\ new.tokens = toks /\ new.len = d.len
      /\ new.delta = d.delta /\ new.hasTs = d.hasTs
  BY <1>1 DEF Decoder
<1>3. Ordered(toks)
  BY <1>1 DEF Follows, Ordered
<1> HIDE DEF new
<1>4. Follows(new)
  BY <1>1, <1>2, <1>3, DecoderFields DEF Follows
<1> QED
  BY <1>2, <1>4 DEF new, toks

-----------------------------------------------------------------------------
(* The invariant.                                                          *)

\* The decoders hold tokens, they are being sampled, ranked or emitted.
Decoding == {"token", "rank", "emit"}
InChunk == {"encode", "prompt"} \cup Decoding

DecoderInv ==
    /\ \A j \in DOMAIN decoder : Follows(decoder[j])
    /\ pc = "token" => \A j \in Active : Len(decoder[j].tokens) < MaxTokens
    /\ pc \in Decoding => DOMAIN decoder = 1..Decoders

\* Whoever is best at one temperature exists at the next.
BestInv ==
    /\ pc \notin Decoding \cup {"prompt"} => temp = 1
    /\ temp = 1 => best = 1

\* Where the call is, and that a cancel stops it before another report.
CallInv ==
    /\ language \in Languages \cup {"fixed"}
    /\ pc = "begin" => seek = 0 /\ reported = <<>>
    /\ pc \in InChunk => seek + DeltaMin < end
    /\ late => stop /\ pc \notin Decoding \cup {"prompt"}

\* The segments so far end before the chunk at hand, unless there is none.
Behind ==
    pc \in InChunk \cup {"loop"} =>
        seek >= end \/ \A i \in DOMAIN results : results[i] <= seek

IInv ==
    /\ TypeOK /\ DecoderInv /\ BestInv /\ CallInv /\ Behind
    /\ Sorted(results) /\ ReportedOnce

\* The invariant holds at the start.
LEMMA InitIInv == Init => IInv
<1> SUFFICES ASSUME Init PROVE IInv
  OBVIOUS
<1>1. /\ FreshDecoder \in Decoder /\ Follows(FreshDecoder)
      /\ decoder = [j \in 1..1 |-> FreshDecoder]
      /\ DOMAIN decoder = 1..1 /\ decoder[1] = FreshDecoder
  <2>1. <<FreshDecoder>> = [j \in 1..1 |-> FreshDecoder]
    OBVIOUS
  <2> QED
    BY <2>1, FreshFollows DEF Init
<1>2. decoder \in [1..1 -> Decoder]
  BY <1>1
<1>3. TypeOK
  <2>1. (\E n \in {1, BestOf} : decoder \in [1..n -> Decoder]) /\ best \in DOMAIN decoder
    BY <1>1, <1>2 DEF Init
  <2>2. temp \in 1..Temperatures /\ calls \in 0..MaxCalls /\ kv \in {0, 1, BestOf}
    BY Sizes DEF Init
  <2>3. results \in Seq(Segment) /\ reported \in Seq(Segment)
    BY DEF Init
  <2> QED
    BY <2>1, <2>2, <2>3 DEF Init, TypeOK
<1>4. DecoderInv
  BY <1>1 DEF DecoderInv, Init, Decoding
<1> QED
  BY <1>3, <1>4 DEF Init, IInv, BestInv, CallInv, Behind, Sorted, ReportedOnce, InChunk, Decoding

\* The chunk is forgotten.
LEMMA ForgetKeeps ==
    ASSUME ForgetChunk
    PROVE  /\ temp' = 1 /\ best' = 1 /\ silent' = FALSE
           /\ decoder' \in [1..1 -> Decoder] /\ DOMAIN decoder' = 1..1
           /\ \A j \in DOMAIN decoder' : Follows(decoder'[j])
<1>1. <<FreshDecoder>> = [j \in 1..1 |-> FreshDecoder]
  OBVIOUS
<1>2. FreshDecoder \in Decoder /\ Follows(FreshDecoder)
  BY FreshFollows
<1> QED
  BY <1>1, <1>2 DEF ForgetChunk

\* A call that returns keeps what it has reported.
LEMMA ReturnKeeps ==
    ASSUME IInv, NEW c \in {"ok", "failed"}, pc # "begin", pc # "undefined",
           pc' = "over", code' = c, ForgetChunk,
           UNCHANGED <<callVars, seek, results, reported, stop, late>>,
           kv' \in {0, 1, BestOf}
    PROVE  IInv'
<1>1. /\ temp' = 1 /\ best' = 1 /\ silent' = FALSE
      /\ decoder' \in [1..1 -> Decoder] /\ DOMAIN decoder' = 1..1
      /\ \A j \in DOMAIN decoder' : Follows(decoder'[j])
  BY ForgetKeeps
<1>2. TypeOK'
  <2>1. (\E n \in {1, BestOf} : decoder' \in [1..n -> Decoder]) /\ best' \in DOMAIN decoder'
    BY <1>1
  <2>2. temp' \in 1..Temperatures
    BY <1>1, Sizes
  <2> QED
    BY <1>1, <2>1, <2>2 DEF IInv, TypeOK, callVars
<1>3. DecoderInv'
  <2>1. \A j \in DOMAIN decoder' : Follows(decoder[j])'
    BY <1>1 DEF Follows
  <2> QED
    BY <2>1 DEF DecoderInv, Decoding
<1>4. (BestInv /\ CallInv /\ Behind)'
  BY <1>1 DEF IInv, BestInv, CallInv, Behind, InChunk, Decoding, callVars
<1>5. Sorted(results)' /\ ReportedOnce'
  BY DEF IInv, Sorted, ReportedOnce
<1> QED
  BY <1>2, <1>3, <1>4, <1>5 DEF IInv

\* The next call begins.
LEMMA CallKeeps == ASSUME IInv, NEW n \in Ends, NEW l \in Languages, Call(n, l) PROVE IInv'
<1>1. TypeOK'
  <2>1. language' \in {"auto", "fixed"} /\ seek' \in Nat /\ end' \in Ends \cup {0}
    BY LanguagesAssumption DEF Call
  <2>2. calls' \in 0..MaxCalls
    BY Sizes DEF Call, IInv, TypeOK
  <2>3. reported' \in Seq(Segment)
    BY DEF Call
  <2> QED
    BY <2>1, <2>2, <2>3 DEF Call, IInv, TypeOK, chunkVars
<1>2. DecoderInv'
  BY DEF Call, IInv, DecoderInv, Follows, Decoding, chunkVars
<1>3. (BestInv /\ CallInv /\ Behind)'
  BY DEF Call, IInv, BestInv, CallInv, Behind, InChunk, Decoding, chunkVars
<1> QED
  BY <1>1, <1>2, <1>3 DEF Call, IInv, Sorted, ReportedOnce

\* Steps that only decide where to go on, or that the caller cancels.
LEMMA AsideKeeps ==
    ASSUME IInv,
           UNCHANGED <<callVars, seek, chunkVars, reported, kv, late, results>>,
           code' \in {"none", "ok", "failed"},
           \/ CallOnFreedState \/ CallerCancels
           \/ LoopHead /\ seek + DeltaMin < end
           \/ Encode /\ GoesThrough
    PROVE  IInv'
<1>0. UNCHANGED <<language, end, calls, temp, decoder, best, silent>>
  BY DEF callVars, chunkVars
<1>1. \/ pc = "over" /\ pc' = "undefined" /\ stop' = stop
      \/ pc' = pc /\ stop' = TRUE /\ pc \notin {"over", "undefined"}
      \/ pc = "loop" /\ pc' = "encode" /\ seek + DeltaMin < end /\ stop' = stop
      \/ pc = "encode" /\ pc' = "prompt" /\ ~stop /\ stop' = stop
      \/ pc' = "over" /\ pc \in {"loop", "encode"} /\ stop' = stop
  BY DEF CallOnFreedState, CallerCancels, LoopHead, Encode, GoesThrough, ReturnCode
<1>2. TypeOK'
  <2>1. pc' \in {"over", "encode", "prompt", "undefined", "begin", "loop", "token", "rank", "emit"}
        /\ stop' \in BOOLEAN
    BY <1>1 DEF IInv, TypeOK
  <2> QED
    BY <1>0, <2>1 DEF IInv, TypeOK
<1>3. DecoderInv'
  BY <1>0, <1>1 DEF IInv, DecoderInv, Follows, Decoding, Active, Decoders, Over
<1>4. (BestInv /\ CallInv /\ Behind)'
  BY <1>0, <1>1 DEF IInv, BestInv, CallInv, Behind, InChunk, Decoding
<1>5. Sorted(results)' /\ ReportedOnce'
  BY <1>0, <1>1 DEF IInv, Sorted, ReportedOnce
<1> QED
  BY <1>2, <1>3, <1>4, <1>5 DEF IInv

\* The call begins to work, or has nothing to do.
LEMMA BeginCallKeeps == ASSUME IInv, BeginCall PROVE IInv'
<1>0. /\ UNCHANGED <<language, end, calls, temp, decoder, best, silent, seek, reported, kv, stop, late>>
      /\ results' = <<>> /\ reported = <<>> /\ pc = "begin"
      /\ pc' \in {"over", "loop"} /\ code' \in {"none", "ok", "failed"}
  BY DEF BeginCall, callVars, chunkVars, IInv, CallInv, TypeOK
<1>2. TypeOK'
  <2>1. results' \in Seq(Segment)
    BY <1>0
  <2> QED
    BY <1>0, <2>1 DEF IInv, TypeOK
<1>3. DecoderInv'
  BY <1>0 DEF IInv, DecoderInv, Follows, Decoding
<1>4. (BestInv /\ CallInv /\ Behind)'
  BY <1>0 DEF IInv, BestInv, CallInv, Behind, InChunk, Decoding
<1>5. Sorted(results)' /\ ReportedOnce'
  BY <1>0 DEF Sorted, ReportedOnce
<1> QED
  BY <1>2, <1>3, <1>4, <1>5 DEF IInv

\* The main loop goes round or ends.
LEMMA LoopHeadKeeps == ASSUME IInv, LoopHead PROVE IInv'
<1>1. end \in Nat /\ seek \in Nat
  BY Sizes DEF IInv, TypeOK
<1>2. CASE seek + DeltaMin >= end
  <2>1. ReturnCode("ok") /\ pc = "loop"
    BY <1>2 DEF LoopHead
  <2> QED
    BY <2>1, ReturnKeeps DEF ReturnCode, IInv, TypeOK
<1>3. CASE ~(seek + DeltaMin >= end)
  BY <1>1, <1>3, AsideKeeps, Sizes DEF LoopHead, IInv, TypeOK
<1> QED
  BY <1>2, <1>3

\* The encoder.
LEMMA EncodeKeeps == ASSUME IInv, Encode PROVE IInv'
<1>1. CASE ReturnCode("failed")
  BY <1>1, ReturnKeeps DEF Encode, ReturnCode, IInv, TypeOK
<1>2. CASE ~ReturnCode("failed")
  BY <1>2, AsideKeeps DEF Encode, IInv, TypeOK
<1> QED
  BY <1>1, <1>2

\* The decoders of this temperature.
LEMMA DecodersCount ==
    /\ Decoders \in {1, BestOf}
    /\ Decoders \in Nat /\ Decoders > 0
BY Sizes DEF Decoders

\* The decoders are set up for this temperature and the prompt is decoded,
LEMMA DecodePromptKeeps == ASSUME IInv, DecodePrompt PROVE IInv'
<1>0. /\ UNCHANGED <<language, end, calls, seek, temp, best, silent, results, reported, stop, late, code>>
      /\ pc = "prompt" /\ pc' = "token" /\ ~stop
      /\ decoder' = [j \in 1..Decoders |-> FreshDecoder]
      /\ kv' \in {0, 1, BestOf} /\ Decoders' = Decoders
  BY DecodersCount DEF DecodePrompt, callVars, GoesThrough, IInv, TypeOK, Decoders
<1>1. /\ decoder' \in [1..Decoders -> Decoder] /\ DOMAIN decoder' = 1..Decoders
      /\ \A j \in DOMAIN decoder' : decoder'[j] = FreshDecoder
  BY <1>0, FreshFollows
<1>2. best' \in DOMAIN decoder'
  <2>1. CASE temp = 1
    BY <1>0, <1>1, <2>1, DecodersCount DEF IInv, BestInv
  <2>2. CASE temp # 1
    <3>1. Decoders = BestOf
      BY <2>2 DEF Decoders
    <3>2. PICK n \in {1, BestOf} : DOMAIN decoder = 1..n
      BY DEF IInv, TypeOK
    <3>3. best \in 1..n
      BY <3>2 DEF IInv, TypeOK
    <3> QED
      BY <1>0, <1>1, <3>1, <3>3, Sizes
  <2> QED
    BY <2>1, <2>2
<1>3. TypeOK'
  <2>1. \E n \in {1, BestOf} : decoder' \in [1..n -> Decoder]
    BY <1>1, DecodersCount
  <2> QED
    BY <1>0, <1>2, <2>1 DEF IInv, TypeOK
<1>4. DecoderInv'
  <2>1. \A j \in DOMAIN decoder' : Follows(decoder[j])' /\ Len(decoder'[j].tokens) = 0
    BY <1>1, FreshFollows DEF Follows
  <2>2. \A j \in Active' : Len(decoder'[j].tokens) < MaxTokens
    BY <2>1, Sizes DEF Active
  <2> QED
    BY <1>0, <1>1, <2>1, <2>2 DEF DecoderInv
<1>5. (BestInv /\ CallInv /\ Behind)'
  BY <1>0 DEF IInv, BestInv, CallInv, Behind, InChunk, Decoding
<1>6. Sorted(results)' /\ ReportedOnce'
  BY <1>0 DEF IInv, Sorted, ReportedOnce
<1> QED
  BY <1>3, <1>4, <1>5, <1>6 DEF IInv

\* or not.
LEMMA DecodePromptFailsKeeps == ASSUME IInv, DecodePromptFails PROVE IInv'
<1>1. kv' \in {0, 1, BestOf}
  BY DecodersCount DEF DecodePromptFails, IInv, TypeOK
<1> QED
  BY <1>1, ReturnKeeps DEF DecodePromptFails

-----------------------------------------------------------------------------
(* The token loop, the choice of the best sequence and its emission.       *)

\* The decoders in use while a chunk is decoded.
LEMMA DecodersInUse ==
    ASSUME IInv
    PROVE  /\ \A j \in DOMAIN decoder : decoder[j] \in Decoder /\ Follows(decoder[j])
           /\ best \in DOMAIN decoder
           /\ decoder \in [DOMAIN decoder -> Decoder]
           /\ \E n \in {1, BestOf} : DOMAIN decoder = 1..n
           /\ seek \in Nat /\ end \in Nat /\ temp \in Nat
<1>1. PICK n \in {1, BestOf} : decoder \in [1..n -> Decoder]
  BY DEF IInv, TypeOK
<1>2. DOMAIN decoder = 1..n /\ \A j \in DOMAIN decoder : decoder[j] \in Decoder
  BY <1>1
<1>3. seek \in Nat /\ end \in Nat /\ temp \in Nat
  BY Sizes DEF IInv, TypeOK
<1> QED
  BY <1>1, <1>2, <1>3 DEF IInv, DecoderInv, TypeOK

\* Each decoder takes a token that its filters allow.
LEMMA SampleTokenKeeps == ASSUME IInv, SampleToken PROVE IInv'
<1>0. /\ UNCHANGED <<language, end, calls, seek, temp, best, silent, results, reported, kv, stop, late, code>>
      /\ pc = "token" /\ pc' \in {"token", "rank"} /\ Decoders' = Decoders
  BY DEF SampleToken, callVars, Decoders
<1>1. PICK s \in [Active -> Tokens] :
         /\ \A j \in Active : s[j] \in Allowed(decoder[j])
         /\ decoder' = [j \in DOMAIN decoder |->
               IF j \in Active THEN Take(decoder[j], s[j]) ELSE decoder[j]]
  BY DEF SampleToken
<1>2. ASSUME NEW j \in DOMAIN decoder
      PROVE  decoder'[j] \in Decoder /\ Follows(decoder'[j])
  <2>1. CASE j \in Active
    <3>1. /\ decoder[j] \in Decoder /\ Follows(decoder[j])
          /\ Len(decoder[j].tokens) < MaxTokens
      BY <1>0, <2>1, DecodersInUse DEF IInv, DecoderInv
    <3>2. s[j] \in Tokens /\ s[j] \in Allowed(decoder[j]) /\ seek \in Nat /\ end \in Nat
      BY <1>1, <2>1, DecodersInUse
    <3>3. Take(decoder[j], s[j]) \in Decoder /\ Follows(Take(decoder[j], s[j]))
      BY <3>1, <3>2, TakeFollows
    <3> QED
      BY <1>1, <2>1, <3>3
  <2>2. CASE j \notin Active
    BY <1>1, <2>2, DecodersInUse
  <2> QED
    BY <2>1, <2>2
<1>3. DOMAIN decoder' = DOMAIN decoder /\ decoder' \in [DOMAIN decoder -> Decoder]
  BY <1>1, <1>2
<1>4. pc' = "token" => \A j \in Active' : Len(decoder'[j].tokens) < MaxTokens
  <2> SUFFICES ASSUME pc' = "token", NEW j \in Active'
               PROVE  Len(decoder'[j].tokens) < MaxTokens
    OBVIOUS
  <2>1. j \in DOMAIN decoder /\ ~Over(decoder'[j])
    BY <1>3 DEF Active, Over
  <2>2. j \in Active
    BY <1>1, <2>1 DEF Active
  <2>3. Len(decoder'[j].tokens) # MaxTokens
    BY <2>2 DEF SampleToken
  <2>4. Len(decoder'[j].tokens) <= MaxTokens /\ Len(decoder'[j].tokens) \in Nat
    BY <1>2, <2>1, DecoderFields DEF Follows
  <2> QED
    BY <2>3, <2>4, Sizes
<1>5. TypeOK'
  <2>1. \E n \in {1, BestOf} : decoder' \in [1..n -> Decoder]
    BY <1>3, DecodersInUse
  <2> QED
    BY <1>0, <1>3, <2>1 DEF IInv, TypeOK
<1>6. DecoderInv'
  <2>1. \A j \in DOMAIN decoder' : Follows(decoder[j])'
    BY <1>2, <1>3 DEF Follows
  <2> QED
    BY <1>0, <1>3, <1>4, <2>1 DEF IInv, DecoderInv, Decoding
<1>7. (BestInv /\ CallInv /\ Behind)'
  BY <1>0 DEF IInv, BestInv, CallInv, Behind, InChunk, Decoding
<1>8. Sorted(results)' /\ ReportedOnce'
  BY <1>0 DEF IInv, Sorted, ReportedOnce
<1> QED
  BY <1>5, <1>6, <1>7, <1>8 DEF IInv

\* The next logits cannot be computed.
LEMMA NextLogitsFailKeeps == ASSUME IInv, NextLogitsFail PROVE IInv'
BY ReturnKeeps DEF NextLogitsFail, ReturnCode, IInv, TypeOK

\* Sequences are cut and ranked; the chunk is emitted or tried again.
LEMMA RankKeeps == ASSUME IInv, Rank PROVE IInv'
<1>0. /\ UNCHANGED <<language, end, calls, seek, results, reported, kv, stop, late, code>>
      /\ pc = "rank"
  BY DEF Rank, callVars
<1>1. PICK low \in SUBSET {j \in DOMAIN decoder :
                            ~decoder[j].failed /\ decoder[j].len > LongSequence} :
         LET cut(j) == SubSeq(decoder[j].tokens, 1, decoder[j].len)
             good   == {j \in DOMAIN decoder : ~decoder[j].failed} \ low
         IN /\ decoder' = [j \in DOMAIN decoder |->
                  IF decoder[j].failed THEN decoder[j]
                  ELSE [decoder[j] EXCEPT !.tokens = cut(j),
                                          !.failed = j \in low]]
            /\ best' \in IF good = {} THEN {best} ELSE good
  BY DEF Rank
<1>2. /\ silent' \in BOOLEAN
      /\ \/ pc' = "prompt" /\ temp < Temperatures /\ temp' = temp + 1
         \/ pc' = "emit" /\ temp' = temp
  <2>1. PICK unlikely \in BOOLEAN, noSpeech \in BOOLEAN :
            LET again == /\ temp < Temperatures
                         /\ decoder'[best'].failed \/ (unlikely /\ ~noSpeech)
            IN /\ silent' = (unlikely /\ noSpeech)
               /\ IF again
                  THEN pc' = "prompt" /\ temp' = temp + 1
                  ELSE pc' = "emit" /\ UNCHANGED temp
    BY DEF Rank
  <2> QED
    BY <2>1, Zenon
<1>3. ASSUME NEW j \in DOMAIN decoder
      PROVE  decoder'[j] \in Decoder /\ Follows(decoder'[j])
  <2>1. CASE decoder[j].failed
    BY <1>1, <2>1, DecodersInUse
  <2>2. CASE ~decoder[j].failed
    <3>1. (j \in low) \in BOOLEAN
      OBVIOUS
    <3>2. decoder'[j] = [decoder[j] EXCEPT
                !.tokens = SubSeq(decoder[j].tokens, 1, decoder[j].len), !.failed = j \in low]
      BY <1>1, <2>2
    <3>3. decoder[j] \in Decoder /\ Follows(decoder[j])
      BY DecodersInUse
    <3>4. \A f \in BOOLEAN :
             LET new == [decoder[j] EXCEPT
                           !.tokens = SubSeq(decoder[j].tokens, 1, decoder[j].len), !.failed = f]
             IN  new \in Decoder /\ Follows(new)
      BY <3>3, CutFollows
    <3> QED
      BY <3>1, <3>2, <3>4, Zenon
  <2> QED
    BY <2>1, <2>2
<1>4. DOMAIN decoder' = DOMAIN decoder /\ decoder' \in [DOMAIN decoder -> Decoder]
  BY <1>1, <1>3
<1>5. best' \in DOMAIN decoder
  BY <1>1, DecodersInUse
<1>6. temp' \in 1..Temperatures /\ temp' \in Nat /\ temp' >= temp /\ (temp' = 1 => temp = 1)
  BY <1>2, Sizes DEF IInv, TypeOK
<1>7. TypeOK'
  <2>1. \E n \in {1, BestOf} : decoder' \in [1..n -> Decoder]
    BY <1>4, DecodersInUse
  <2> QED
    BY <1>0, <1>2, <1>4, <1>5, <1>6, <2>1 DEF IInv, TypeOK
<1>8. DecoderInv'
  <2>1. \A j \in DOMAIN decoder' : Follows(decoder[j])'
    BY <1>3, <1>4 DEF Follows
  <2>2. pc' = "emit" => DOMAIN decoder' = (1..Decoders)'
    BY <1>0, <1>2, <1>4 DEF IInv, DecoderInv, Decoding, Decoders
  <2> QED
    BY <1>2, <2>1, <2>2 DEF DecoderInv, Decoding
<1>9. BestInv'
  <2>1. temp' = 1 => DOMAIN decoder = 1..1
    BY <1>0, <1>6 DEF IInv, DecoderInv, Decoding, Decoders
  <2>2. temp' = 1 => best' = 1
    BY <1>5, <2>1
  <2> QED
    BY <1>2, <2>2 DEF BestInv, Decoding
<1>10. (CallInv /\ Behind)'
  BY <1>0, <1>2 DEF IInv, CallInv, Behind, InChunk, Decoding
<1>11. Sorted(results)' /\ ReportedOnce'
  BY <1>0, <1>2 DEF IInv, Sorted, ReportedOnce
<1> QED
  BY <1>7, <1>8, <1>9, <1>10, <1>11 DEF IInv

\* One list of segments behind another.
LEMMA ConcatSorted ==
    ASSUME NEW a \in Seq(Nat), NEW b \in Seq(Nat), NEW m \in Nat,
           Sorted(a), Sorted(b),
           \A i \in DOMAIN a : a[i] <= m, \A i \in DOMAIN b : m <= b[i]
    PROVE  /\ Sorted(a \o b)
           /\ a \o b \in Seq(Nat) /\ Len(a \o b) = Len(a) + Len(b)
           /\ \A i \in DOMAIN (a \o b) :
                 (\E j \in DOMAIN a : (a \o b)[i] = a[j]) \/ (\E j \in DOMAIN b : (a \o b)[i] = b[j])
<1> DEFINE c == a \o b
<1>1. /\ c \in Seq(Nat) /\ Len(c) = Len(a) + Len(b)
      /\ Len(a) \in Nat /\ Len(b) \in Nat
      /\ DOMAIN a = 1..Len(a) /\ DOMAIN b = 1..Len(b)
      /\ DOMAIN c = 1..Len(a) + Len(b)
  OBVIOUS
<1>2. \A i \in 1..Len(a) + Len(b) : c[i] = IF i <= Len(a) THEN a[i] ELSE b[i - Len(a)]
  BY <1>1
<1> HIDE DEF c
<1>3. ASSUME NEW i \in DOMAIN c, i <= Len(a)
      PROVE  i \in DOMAIN a /\ c[i] = a[i]
  BY <1>1, <1>2, <1>3
<1>4. ASSUME NEW i \in DOMAIN c, i > Len(a)
      PROVE  i - Len(a) \in DOMAIN b /\ c[i] = b[i - Len(a)]
  <2>1. i \in 1..Len(a) + Len(b) /\ ~(i <= Len(a))
    BY <1>1, <1>4
  <2>2. c[i] = b[i - Len(a)]
    BY <1>2, <2>1
  <2>3. i - Len(a) \in 1..Len(b)
    BY <1>1, <2>1
  <2> QED
    BY <1>1, <2>2, <2>3
<1>5. \A i \in DOMAIN a : a[i] \in Nat
  BY <1>1
<1>6. \A i \in DOMAIN b : b[i] \in Nat
  BY <1>1
<1>7. ASSUME NEW i \in DOMAIN c, NEW j \in DOMAIN c, i < j
      PROVE  c[i] <= c[j]
  <2>0. i \in Int /\ j \in Int
    BY <1>1
  <2>1. CASE j <= Len(a)
    <3>1. i \in DOMAIN a /\ j \in DOMAIN a /\ c[i] = a[i] /\ c[j] = a[j]
      <4>1. i <= Len(a)
        BY <1>1, <1>7, <2>0, <2>1
      <4> QED
        BY <1>3, <2>1, <4>1
    <3> QED
      BY <1>7, <3>1 DEF Sorted
  <2>2. CASE i > Len(a)
    <3>1. /\ i - Len(a) \in DOMAIN b /\ j - Len(a) \in DOMAIN b
          /\ c[i] = b[i - Len(a)] /\ c[j] = b[j - Len(a)]
      <4>1. j > Len(a)
        BY <1>1, <1>7, <2>0, <2>2
      <4> QED
        BY <1>4, <2>2, <4>1
    <3>2. i - Len(a) < j - Len(a)
      BY <1>1, <1>7, <2>0
    <3> QED
      BY <3>1, <3>2 DEF Sorted
  <2>3. CASE i <= Len(a) /\ j > Len(a)
    <3>1. i \in DOMAIN a /\ c[i] = a[i] /\ j - Len(a) \in DOMAIN b /\ c[j] = b[j - Len(a)]
      BY <1>3, <1>4, <2>3
    <3>2. a[i] <= m /\ a[i] \in Nat /\ m <= b[j - Len(a)] /\ b[j - Len(a)] \in Nat
      BY <1>5, <1>6, <3>1
    <3> QED
      BY <3>1, <3>2
  <2> QED
    <3>1. j <= Len(a) \/ i > Len(a) \/ (i <= Len(a) /\ j > Len(a))
      <4>1. Len(a) \in Int
        BY <1>1
      <4> QED
        BY <2>0, <4>1
    <3> QED
      BY <2>1, <2>2, <2>3, <3>1
<1>8. Sorted(c)
  BY <1>7 DEF Sorted
<1>9. \A i \in DOMAIN c : (\E j \in DOMAIN a : c[i] = a[j]) \/ (\E j \in DOMAIN b : c[i] = b[j])
  <2>1. \A i \in DOMAIN c : i <= Len(a) \/ i > Len(a)
    BY <1>1
  <2> QED
    BY <1>3, <1>4, <2>1
<1> QED
  BY <1>1, <1>8, <1>9 DEF c

\* What a chunk reports: a list of segments in order, none before the chunk,
\* none behind the next one; the window moves by at most a chunk.
LEMMA ChunkReports ==
    ASSUME IInv, pc = "emit"
    PROVE  LET d   == decoder[best]
               new == IF silent THEN <<>> ELSE Emitted(d)
           IN  /\ new \in Seq(Nat) /\ Len(new) \in Nat /\ Len(new) <= MaxTokens /\ Sorted(new)
               /\ Advance(d) \in 0..Chunk
               /\ \A i \in DOMAIN new :
                     seek <= new[i] /\ (new[i] <= seek + Advance(d) \/ seek + Advance(d) = end)
<1> DEFINE d   == decoder[best]
           new == IF silent THEN <<>> ELSE Emitted(d)
<1>1. d \in Decoder /\ Follows(d) /\ seek \in Nat /\ end \in Nat /\ seek + DeltaMin < end
  BY DecodersInUse DEF IInv, CallInv, InChunk, Decoding
<1>2. d.delta \in 0..Chunk
  BY <1>1, DecoderFields
<1>3. Advance(d) \in 0..Chunk /\ (Advance(d) >= d.delta \/ seek + Advance(d) = end)
  BY <1>1, <1>2, Sizes DEF Advance, Smaller
<1>4. CASE silent
  <2>1. new = <<>> /\ DOMAIN new = {} /\ new \in Seq(Nat) /\ Len(new) = 0
    BY <1>4
  <2> HIDE DEF new, d
  <2>2. Sorted(new) /\ Len(new) <= MaxTokens
    BY <2>1, Sizes DEF Sorted
  <2> QED
    BY <1>3, <2>1, <2>2 DEF new, d
<1>5. CASE ~silent
  <2>1. /\ new \in Seq(Nat) /\ Len(new) <= MaxTokens /\ Sorted(new)
        /\ \A i \in DOMAIN new : seek <= new[i] /\ new[i] <= seek + d.delta
    BY <1>1, <1>5, EmittedSegments
  <2> HIDE DEF new, d
  <2>2. \A i \in DOMAIN new : new[i] \in Nat
    BY <2>1
  <2>3. \A i \in DOMAIN new : new[i] <= seek + Advance(d) \/ seek + Advance(d) = end
    BY <1>1, <1>2, <1>3, <2>1, <2>2, Sizes
  <2> QED
    BY <1>3, <2>1, <2>3 DEF new, d
<1> QED
  BY <1>4, <1>5

\* The segments are reported and the window moves.
LEMMA EmitSegmentsKeeps == ASSUME IInv, EmitSegments PROVE IInv'
<1> DEFINE d   == decoder[best]
           new == IF silent THEN <<>> ELSE Emitted(d)
<1>0. /\ UNCHANGED <<language, end, calls, kv, stop, code>>
      /\ pc = "emit" /\ pc' = "loop" /\ late' = stop /\ ForgetChunk
      /\ results' = results \o new /\ reported' = reported \o new
      /\ seek' = seek + Advance(d)
  BY DEF EmitSegments, callVars, ReportNew
<1>1. /\ new \in Seq(Nat) /\ Sorted(new) /\ Advance(d) \in 0..Chunk
      /\ \A i \in DOMAIN new :
            seek <= new[i] /\ (new[i] <= seek + Advance(d) \/ seek + Advance(d) = end)
  BY <1>0, ChunkReports
<1> HIDE DEF new, d
<1>2. /\ results \in Seq(Nat) /\ reported = results /\ Sorted(results)
      /\ \A i \in DOMAIN results : results[i] <= seek
      /\ seek \in Nat /\ end \in Nat /\ stop \in BOOLEAN
  BY <1>0, DecodersInUse, Sizes
     DEF IInv, TypeOK, Segment, ReportedOnce, Behind, InChunk, Decoding, CallInv
<1>3. /\ Sorted(results \o new) /\ results \o new \in Seq(Nat)
      /\ \A i \in DOMAIN (results \o new) :
            \/ \E j \in DOMAIN results : (results \o new)[i] = results[j]
            \/ \E j \in DOMAIN new : (results \o new)[i] = new[j]
  BY <1>1, <1>2, ConcatSorted
<1>4. /\ temp' = 1 /\ best' = 1 /\ silent' = FALSE
      /\ decoder' \in [1..1 -> Decoder] /\ DOMAIN decoder' = 1..1
      /\ \A j \in DOMAIN decoder' : Follows(decoder'[j])
  BY <1>0, ForgetKeeps
<1>5. seek' \in Nat /\ seek' >= seek
  BY <1>0, <1>1, <1>2, Sizes
<1>6. TypeOK'
  <2>1. (\E n \in {1, BestOf} : decoder' \in [1..n -> Decoder]) /\ best' \in DOMAIN decoder'
    BY <1>4
  <2>2. temp' \in 1..Temperatures /\ results' \in Seq(Segment) /\ reported' \in Seq(Segment)
    BY <1>0, <1>2, <1>3, <1>4, Sizes DEF Segment
  <2> QED
    BY <1>0, <1>2, <1>4, <1>5, <2>1, <2>2 DEF IInv, TypeOK
<1>7. DecoderInv'
  <2>1. \A j \in DOMAIN decoder' : Follows(decoder[j])'
    BY <1>4 DEF Follows
  <2> QED
    BY <1>0, <2>1 DEF DecoderInv, Decoding
<1>8. Behind'
  <2> SUFFICES ASSUME ~(seek' >= end), NEW i \in DOMAIN results'
               PROVE  results'[i] <= seek'
    BY <1>0 DEF Behind
  <2>1. CASE \E j \in DOMAIN results : results'[i] = results[j]
    <3>1. PICK j \in DOMAIN results : results'[i] = results[j]
      BY <2>1
    <3>2. results[j] <= seek /\ results[j] \in Nat
      BY <1>2
    <3> QED
      BY <1>2, <1>5, <3>1, <3>2
  <2>2. CASE \E j \in DOMAIN new : results'[i] = new[j]
    BY <1>0, <1>1, <1>2, <2>2
  <2> QED
    BY <1>0, <1>3, <2>1, <2>2
<1>9. (BestInv /\ CallInv)'
  BY <1>0, <1>4 DEF IInv, BestInv, CallInv, InChunk, Decoding
<1>10. Sorted(results)' /\ ReportedOnce'
  BY <1>0, <1>2, <1>3 DEF Sorted, ReportedOnce
<1> QED
  BY <1>6, <1>7, <1>8, <1>9, <1>10 DEF IInv

-----------------------------------------------------------------------------
(* The theorems.                                                           *)

\* Every step keeps the invariant.
LEMMA StepIInv == IInv /\ [Next]_vars => IInv'
<1> SUFFICES ASSUME IInv, [Next]_vars PROVE IInv'
  OBVIOUS
<1>1. CASE \E n \in Ends, l \in Languages : Call(n, l)
  BY <1>1, CallKeeps
<1>2. CASE CallOnFreedState \/ CallerCancels
  BY <1>2, AsideKeeps DEF CallOnFreedState, CallerCancels, IInv, TypeOK
<1>3. CASE CallStep
  BY <1>3, BeginCallKeeps, LoopHeadKeeps, EncodeKeeps, DecodePromptKeeps, DecodePromptFailsKeeps,
     SampleTokenKeeps, NextLogitsFailKeeps, RankKeeps, EmitSegmentsKeeps DEF CallStep
<1>4. CASE UNCHANGED vars
  <2>1. TypeOK'
    BY <1>4 DEF vars, IInv, TypeOK
  <2>2. DecoderInv'
    BY <1>4 DEF vars, IInv, DecoderInv, Follows, Active, Over, Decoders
  <2>3. (BestInv /\ CallInv /\ Behind)' /\ Sorted(results)' /\ ReportedOnce'
    BY <1>4 DEF vars, IInv, BestInv, CallInv, Behind, Sorted, ReportedOnce
  <2> QED
    BY <2>1, <2>2, <2>3 DEF IInv
<1> QED
  BY <1>1, <1>2, <1>3, <1>4 DEF Next

\* The invariant holds throughout.
THEOREM Invariance == Spec => []IInv
<1> QED
  BY InitIInv, StepIInv, PTL DEF Spec

\* Every variable of whisper_full_with_state() stays in its range; no sequence
\* is longer than n_max.
THEOREM TypeCorrect == Spec => []TypeOK
<1>1. IInv => TypeOK
  BY DEF IInv
<1> QED
  BY <1>1, Invariance, PTL

\* Whatever is sampled, cut, tried again or skipped: no segment ends before
\* the one reported before it.
THEOREM Ascending == Spec => []SegmentsInOrder
<1>1. IInv => SegmentsInOrder
  <2> SUFFICES ASSUME IInv, NEW i \in 1..Len(results) - 1
               PROVE  results[i] <= results[i + 1]
    BY DEF SegmentsInOrder
  <2>1. Len(results) \in Nat /\ DOMAIN results = 1..Len(results)
    BY DEF IInv, TypeOK
  <2>2. i \in DOMAIN results /\ i + 1 \in DOMAIN results /\ i < i + 1
    BY <2>1
  <2> QED
    BY <2>2 DEF IInv, Sorted
<1> QED
  BY <1>1, Invariance, PTL

\* The callback has been given exactly the segments that are stored.
THEOREM Reported == Spec => []ReportedOnce
<1>1. IInv => ReportedOnce
  BY DEF IInv
<1> QED
  BY <1>1, Invariance, PTL

-----------------------------------------------------------------------------
(* The call implements NativeCall, in every language but "auto": with it   *)
(* the call answers 0 without going through the audio.                     *)

\* The abstract step that a step is.
LEMMA StepAbstract ==
    ASSUME "auto" \notin Languages, IInv, [Next]_vars
    PROVE  [Abstract!CallNext]_(Abstract!callVars)
<1> USE DEF Abstract!callVars
<1>0. seek \in Nat /\ end \in Nat /\ reported \in Seq(Nat) /\ Len(reported) \in Nat
  BY Sizes DEF IInv, TypeOK, Segment
<1>1. ASSUME NEW c \in {"ok", "failed"}, pc \notin {"over", "undefined"}, pc' = "over",
             code' = c, UNCHANGED <<end, seek, reported, stop, late>>,
             c = "ok" => end - seek <= DeltaMin
      PROVE  Abstract!Return(c)
  BY <1>1 DEF Abstract!Return
<1>2. ASSUME UNCHANGED <<end, seek, reported, stop, late, code>>,
             pc \notin {"over", "undefined"}, pc' \notin {"over", "undefined"}
      PROVE  UNCHANGED Abstract!callVars
  BY <1>2
<1>3. CASE \E n \in Ends, l \in Languages : Call(n, l)
  <2>1. PICK n \in Ends, l \in Languages : Call(n, l)
    BY <1>3
  <2>2. Abstract!Begin(n)
    BY <2>1 DEF Call, Abstract!Begin
  <2> QED
    BY <2>2 DEF Abstract!CallNext
<1>4. CASE CallOnFreedState
  BY <1>4 DEF CallOnFreedState, callVars
<1>5. CASE CallerCancels
  <2>1. Abstract!AskToStop
    BY <1>5 DEF CallerCancels, callVars, Abstract!AskToStop
  <2> QED
    BY <2>1 DEF Abstract!CallNext
<1>6. CASE BeginCall
  <2>1. language # "auto" /\ seek = 0
    BY <1>6 DEF BeginCall, IInv, CallInv
  <2>2. CASE end < DeltaMin
    <3>1. /\ pc = "begin" /\ pc' = "over" /\ code' = "ok"
          /\ UNCHANGED <<end, seek, reported, stop, late>>
      BY <1>6, <2>1, <2>2 DEF BeginCall, callVars
    <3>2. end - seek <= DeltaMin
      BY <1>0, <2>1, <2>2, Sizes
    <3> QED
      BY <1>1, <3>1, <3>2 DEF Abstract!CallNext
  <2>3. CASE ~(end < DeltaMin)
    <3>1. /\ pc = "begin" /\ pc' = "loop"
          /\ UNCHANGED <<end, seek, reported, stop, late, code>>
      BY <1>6, <2>1, <2>3 DEF BeginCall, callVars
    <3> QED
      BY <1>2, <3>1
  <2> QED
    BY <2>2, <2>3
<1>7. CASE LoopHead
  <2>1. CASE seek + DeltaMin >= end
    <3>1. end - seek <= DeltaMin
      BY <1>0, <2>1, Sizes
    <3> QED
      BY <1>1, <1>7, <2>1, <3>1 DEF LoopHead, ReturnCode, callVars, Abstract!CallNext
  <2>2. CASE ~(seek + DeltaMin >= end)
    BY <1>2, <1>7, <2>2 DEF LoopHead, callVars
  <2> QED
    BY <2>1, <2>2
<1>8. CASE Encode
  <2>1. CASE ReturnCode("failed")
    BY <1>1, <1>8, <2>1 DEF Encode, ReturnCode, callVars, Abstract!CallNext
  <2>2. CASE ~ReturnCode("failed")
    BY <1>2, <1>8, <2>2 DEF Encode, callVars
  <2> QED
    BY <2>1, <2>2
<1>9. CASE DecodePrompt
  BY <1>2, <1>9 DEF DecodePrompt, callVars
<1>10. CASE DecodePromptFails
  BY <1>1, <1>10 DEF DecodePromptFails, callVars, Abstract!CallNext
<1>11. CASE SampleToken
  <2>1. /\ pc = "token" /\ pc' \in {"token", "rank"}
        /\ UNCHANGED <<end, seek, reported, stop, late, code>>
    BY <1>11 DEF SampleToken, callVars
  <2> QED
    BY <1>2, <2>1
<1>12. CASE NextLogitsFail
  BY <1>1, <1>12 DEF NextLogitsFail, ReturnCode, callVars, Abstract!CallNext
<1>13. CASE Rank
  <2>1. /\ pc = "rank" /\ pc' \in {"prompt", "emit"}
        /\ UNCHANGED <<end, seek, reported, stop, late, code>>
    BY <1>13 DEF Rank, callVars
  <2> QED
    BY <1>2, <2>1
<1>14. CASE EmitSegments
  <2> DEFINE d   == decoder[best]
             new == IF silent THEN <<>> ELSE Emitted(d)
  <2>1. /\ UNCHANGED <<end, stop, code>>
        /\ pc = "emit" /\ pc' = "loop" /\ late' = stop
        /\ reported' = reported \o new /\ seek' = seek + Advance(d)
    BY <1>14 DEF EmitSegments, callVars, ReportNew
  <2>2. /\ new \in Seq(Nat) /\ Len(new) \in Nat /\ Len(new) <= MaxTokens
        /\ Advance(d) \in 0..Chunk
    BY <2>1, ChunkReports
  <2> HIDE DEF new, d
  <2>3. Len(reported') = Len(reported) + Len(new)
    BY <1>0, <2>1, <2>2
  <2>4. seek' \in seek .. seek + Chunk /\ Len(reported') \in Len(reported) .. Len(reported) + MaxTokens
    BY <1>0, <2>1, <2>2, <2>3, Sizes
  <2>5. ~late
    BY <2>1 DEF IInv, CallInv, Decoding
  <2>6. Abstract!Report
    BY <2>1, <2>4, <2>5 DEF Abstract!Report
  <2> QED
    BY <2>6 DEF Abstract!CallNext
<1>15. CASE UNCHANGED vars
  BY <1>15 DEF vars
<1> QED
  BY <1>3, <1>4, <1>5, <1>6, <1>7, <1>8, <1>9, <1>10, <1>11, <1>12, <1>13, <1>14, <1>15
     DEF Next, CallStep

\* No audio is skipped unheard, a call that answers 0 is through, and after a
\* cancel at most one more chunk is reported: the call keeps what NativeCall
\* promises, unless the language may be "auto".
THEOREM RefinesNativeCall ==
    ASSUME "auto" \notin Languages PROVE Spec => ImplementsNativeCall
<1>1. Init => Abstract!CallInit
  BY DEF Init, Abstract!CallInit
<1>2. IInv /\ [Next]_vars => [Abstract!CallNext]_(Abstract!callVars)
  BY StepAbstract
<1> QED
  BY <1>1, <1>2, Invariance, PTL DEF Spec, ImplementsNativeCall, Abstract!CallSpec
=============================================================================

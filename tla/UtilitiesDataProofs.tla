------------------------- MODULE UtilitiesDataProofs -------------------------
(***************************************************************************)
(* Proofs about the parts of Utilities.tla that cut sequences up and put   *)
(* them together again: the tool agent's tokens, the rows of a validation  *)
(* and the samples that are divided among ranks and micro-batches.  At the *)
(* end the types of all seven parts.                                       *)
(***************************************************************************)
EXTENDS UtilitiesProofs

-----------------------------------------------------------------------------
(* Sequences of sequences                                                  *)

LEMMA FunctionIsSeq ==
    ASSUME NEW S, NEW n \in Nat, NEW f \in [1 .. n -> S]
    PROVE  f \in Seq(S) /\ Len(f) = n /\ DOMAIN f = 1 .. n
<1>1. f \in Seq(S)
  BY SeqDef
<1>2. Len(f) \in Nat /\ DOMAIN f = 1 .. Len(f) /\ DOMAIN f = 1 .. n
  BY <1>1, LenProperties
<1>. QED  BY <1>1, <1>2

\* The function that FlattenSeq evaluates
Prefixes(seqs) ==
    CHOOSE flatten : flatten = [i \in 1 .. Len(seqs) |->
        IF i = 1 THEN seqs[i] ELSE flatten[i - 1] \o seqs[i]]
Flat(seqs) == IF Len(seqs) = 0 THEN seqs ELSE Prefixes(seqs)[Len(seqs)]

PrefixesUpTo(seqs, n) ==
    \E g : /\ g = [i \in 1 .. Len(seqs) |-> g[i]]
           /\ \A i \in 1 .. Len(seqs) : i <= n =>
                g[i] = IF i = 1 THEN seqs[i] ELSE g[i - 1] \o seqs[i]

LEMMA PrefixesAre ==
    ASSUME NEW seqs, Len(seqs) \in Nat
    PROVE  \A i \in 1 .. Len(seqs) : Prefixes(seqs)[i] =
             IF i = 1 THEN seqs[i] ELSE Prefixes(seqs)[i - 1] \o seqs[i]
<1>. DEFINE Step(g, i) == IF i = 1 THEN seqs[i] ELSE g[i - 1] \o seqs[i]
            T == {n \in Nat : PrefixesUpTo(seqs, n)}
<1>1. 0 \in T
  <2>. DEFINE g == [i \in 1 .. Len(seqs) |-> 0]
  <2>1. g = [i \in 1 .. Len(seqs) |-> g[i]] /\ \A i \in 1 .. Len(seqs) : ~(i <= 0)
    OBVIOUS
  <2>. HIDE DEF g
  <2>. QED  BY <2>1 DEF PrefixesUpTo
<1>2. ASSUME NEW n \in Nat, n \in T PROVE n + 1 \in T
  <2>1. PICK g : \A i \in 1 .. Len(seqs) : i <= n => g[i] = Step(g, i)
    BY <1>2 DEF PrefixesUpTo
  <2>. DEFINE h == [i \in 1 .. Len(seqs) |-> Step(g, i)]
  <2>2. ASSUME NEW i \in 1 .. Len(seqs), i <= n + 1 PROVE h[i] = Step(h, i)
    <3>1. CASE i = 1
      BY <3>1
    <3>2. CASE i # 1
      <4>1. i - 1 \in 1 .. Len(seqs) /\ i - 1 <= n
        BY <2>2, <3>2
      <4>2. h[i - 1] = g[i - 1]
        BY <2>1, <4>1
      <4>. QED  BY <4>2, <3>2
    <3>. QED  BY <3>1, <3>2
  <2>3. h = [i \in 1 .. Len(seqs) |-> h[i]]
    OBVIOUS
  <2>. HIDE DEF h
  <2>4. PrefixesUpTo(seqs, n + 1)
    BY <2>2, <2>3 DEF PrefixesUpTo
  <2>. QED  BY <2>4
<1>3. \A n \in Nat : n \in T
  <2>. HIDE DEF T
  <2>. QED  BY <1>1, <1>2, Induction
<1>4. PICK g : /\ g = [i \in 1 .. Len(seqs) |-> g[i]]
               /\ \A i \in 1 .. Len(seqs) : i <= Len(seqs) => g[i] = Step(g, i)
  BY <1>3 DEF PrefixesUpTo
<1>5. g = [i \in 1 .. Len(seqs) |-> IF i = 1 THEN seqs[i] ELSE g[i - 1] \o seqs[i]]
  <2>1. ASSUME NEW i \in 1 .. Len(seqs) PROVE g[i] = Step(g, i)
    <3>1. i <= Len(seqs)
      OBVIOUS
    <3>. HIDE DEF Step
    <3>. QED  BY <1>4, <3>1
  <2>2. g = [i \in 1 .. Len(seqs) |-> Step(g, i)]
    BY <1>4, <2>1, Zenon
  <2>. QED  BY <2>2
<1>6. Prefixes(seqs) = [i \in 1 .. Len(seqs) |->
        IF i = 1 THEN seqs[i] ELSE Prefixes(seqs)[i - 1] \o seqs[i]]
  BY <1>5 DEF Prefixes
<1>. QED  BY <1>6

LEMMA SamePrefixes ==
    ASSUME NEW s, NEW t, Len(s) \in Nat, Len(t) \in Nat, NEW n \in Nat, n <= Len(s), n <= Len(t),
           \A i \in 1 .. n : s[i] = t[i]
    PROVE  \A i \in 1 .. n : Prefixes(s)[i] = Prefixes(t)[i]
<1>. DEFINE T == {m \in Nat : m \in 1 .. n => Prefixes(s)[m] = Prefixes(t)[m]}
<1>1. 0 \in T
  OBVIOUS
<1>2. ASSUME NEW m \in Nat, m \in T PROVE m + 1 \in T
  <2>1. SUFFICES ASSUME m + 1 \in 1 .. n PROVE Prefixes(s)[m + 1] = Prefixes(t)[m + 1]
    OBVIOUS
  <2>2. /\ Prefixes(s)[m + 1] = IF m + 1 = 1 THEN s[m + 1] ELSE Prefixes(s)[m + 1 - 1] \o s[m + 1]
        /\ Prefixes(t)[m + 1] = IF m + 1 = 1 THEN t[m + 1] ELSE Prefixes(t)[m + 1 - 1] \o t[m + 1]
    <3>1. m + 1 \in 1 .. Len(s) /\ m + 1 \in 1 .. Len(t)
      BY <2>1
    <3>. QED  BY <3>1, PrefixesAre
  <2>3. m + 1 # 1 => Prefixes(s)[m] = Prefixes(t)[m]
    BY <1>2, <2>1
  <2>4. m + 1 - 1 = m /\ s[m + 1] = t[m + 1]
    BY <2>1
  <2>. QED  BY <2>2, <2>3, <2>4
<1>3. \A m \in Nat : m \in T
  <2>. HIDE DEF T
  <2>. QED  BY <1>1, <1>2, Induction
<1>. QED  BY <1>3

\* One sequence more
LEMMA FlatAppend ==
    ASSUME NEW S, NEW seqs \in Seq(Seq(S)), NEW s \in Seq(S)
    PROVE  /\ Flat(<<>>) = <<>>
           /\ Flat(Append(seqs, s)) = IF seqs = <<>> THEN s ELSE Flat(seqs) \o s
<1>. DEFINE more == Append(seqs, s)
            n == Len(seqs)
<1>1. /\ n \in Nat /\ Len(more) = n + 1 /\ more[n + 1] = s
      /\ \A i \in 1 .. n : more[i] = seqs[i]
  BY LenProperties, AppendProperties
<1>2. Flat(<<>>) = <<>>
  BY DEF Flat
<1>3. Flat(more) = Prefixes(more)[n + 1]
  BY <1>1 DEF Flat
<1>4. Prefixes(more)[n + 1] = IF n + 1 = 1 THEN more[n + 1] ELSE Prefixes(more)[n + 1 - 1] \o more[n + 1]
  <2>. HIDE DEF n, more
  <2>. QED  BY <1>1, PrefixesAre
<1>5. CASE seqs = <<>>
  BY <1>1, <1>2, <1>3, <1>4, <1>5
<1>6. CASE seqs # <<>>
  <2>1. n \in Nat \ {0} /\ n + 1 - 1 = n
    BY <1>6, EmptySeq
  <2>2. Prefixes(more)[n] = Prefixes(seqs)[n]
    <3>1. Len(seqs) = n
      OBVIOUS
    <3>. HIDE DEF n, more
    <3>2. n <= Len(seqs) /\ n <= Len(more) /\ Len(more) \in Nat /\ Len(seqs) \in Nat /\ n \in 1 .. n
      BY <1>1, <2>1, <3>1
    <3>. QED  BY <1>1, <3>2, SamePrefixes
  <2>3. Flat(seqs) = Prefixes(seqs)[n]
    BY <2>1 DEF Flat
  <2>. HIDE DEF n, more
  <2>4. n + 1 # 1
    BY <2>1
  <2>5. Flat(more) = Prefixes(more)[n] \o s
    BY <1>1, <1>3, <1>4, <2>1, <2>4
  <2>. QED  BY <1>2, <1>6, <2>2, <2>3, <2>5 DEF more
<1>. QED  BY <1>5, <1>6

\* The same, for the sequences up to the n-th
LEMMA FlatPrefix ==
    ASSUME NEW S, NEW seqs \in Seq(Seq(S))
    PROVE  /\ Flat(SubSeq(seqs, 1, 0)) = <<>>
           /\ Flat(SubSeq(seqs, 1, Len(seqs))) = Flat(seqs)
           /\ \A n \in 0 .. Len(seqs) : Flat(SubSeq(seqs, 1, n)) \in Seq(S)
           /\ \A n \in 1 .. Len(seqs) :
                Flat(SubSeq(seqs, 1, n)) = Flat(SubSeq(seqs, 1, n - 1)) \o seqs[n]
<1>0. /\ Len(seqs) \in Nat /\ Flat(<<>>) = <<>> /\ SubSeq(seqs, 1, 0) = <<>> /\ <<>> \in Seq(S)
      /\ <<>> \in Seq(Seq(S))
  <2>1. <<>> \in Seq(S) /\ <<>> \in Seq(Seq(S))
    BY EmptySeq
  <2>. QED  BY <2>1, SubSeqEmpty, LenProperties, FlatAppend
<1>. DEFINE T == {n \in Nat : n <= Len(seqs) => Flat(SubSeq(seqs, 1, n)) \in Seq(S)}
<1>1. ASSUME NEW n \in Nat, n + 1 <= Len(seqs)
      PROVE  /\ SubSeq(seqs, 1, n) \in Seq(Seq(S)) /\ seqs[n + 1] \in Seq(S)
             /\ SubSeq(seqs, 1, n + 1) = Append(SubSeq(seqs, 1, n), seqs[n + 1])
  <2>1. \A i \in 1 .. Len(seqs) : seqs[i] \in Seq(S)
    BY ElementOfSeq
  <2>2. \A i \in 1 .. n : seqs[i] \in Seq(S)
    BY <1>0, <1>1, <2>1
  <2>3. SubSeq(seqs, 1, n) \in Seq(Seq(S))
    BY <2>2, SubSeqProperties
  <2>4. seqs[n + 1] \in Seq(S)
    BY <1>0, <1>1, <2>1
  <2>5. SubSeq(seqs, 1, n + 1) = SubSeq(seqs, 1, n) \o <<seqs[n + 1]>>
    <3>1. 1 \in 1 .. Len(seqs) /\ n + 1 \in 1 .. Len(seqs) /\ n + 1 - 1 = n
      BY <1>0, <1>1
    <3>. QED  BY <3>1, SubSeqRecursiveSecond
  <2>. QED  BY <2>3, <2>4, <2>5, AppendIsConcat
<1>2. ASSUME NEW n \in Nat, n + 1 <= Len(seqs), Flat(SubSeq(seqs, 1, n)) \in Seq(S)
      PROVE  /\ Flat(SubSeq(seqs, 1, n + 1)) = Flat(SubSeq(seqs, 1, n)) \o seqs[n + 1]
             /\ Flat(SubSeq(seqs, 1, n + 1)) \in Seq(S)
  <2>1. Flat(SubSeq(seqs, 1, n + 1)) =
          IF SubSeq(seqs, 1, n) = <<>> THEN seqs[n + 1]
          ELSE Flat(SubSeq(seqs, 1, n)) \o seqs[n + 1]
    BY <1>1, <1>2, FlatAppend
  <2>2. SubSeq(seqs, 1, n) = <<>> => Flat(SubSeq(seqs, 1, n)) \o seqs[n + 1] = seqs[n + 1]
    <3>1. <<>> \o seqs[n + 1] = seqs[n + 1]
      BY <1>1, ConcatEmptySeq
    <3>. QED  BY <1>0, <3>1
  <2>3. Flat(SubSeq(seqs, 1, n)) \o seqs[n + 1] \in Seq(S)
    BY <1>1, <1>2, ConcatProperties
  <2>. QED  BY <2>1, <2>2, <2>3
<1>3. 0 \in T
  BY <1>0
<1>4. ASSUME NEW n \in Nat, n \in T PROVE n + 1 \in T
  <2>1. SUFFICES ASSUME n + 1 <= Len(seqs) PROVE Flat(SubSeq(seqs, 1, n + 1)) \in Seq(S)
    OBVIOUS
  <2>2. n <= Len(seqs)
    BY <1>0, <2>1
  <2>3. Flat(SubSeq(seqs, 1, n)) \in Seq(S)
    BY <1>4, <2>2
  <2>. QED  BY <1>2, <2>1, <2>3
<1>5. \A n \in Nat : n \in T
  <2>. HIDE DEF T
  <2>. QED  BY <1>3, <1>4, Induction
<1>6. ASSUME NEW n \in 1 .. Len(seqs)
      PROVE  Flat(SubSeq(seqs, 1, n)) = Flat(SubSeq(seqs, 1, n - 1)) \o seqs[n]
  <2>1. n - 1 \in Nat /\ (n - 1) + 1 = n /\ n <= Len(seqs) /\ n - 1 <= Len(seqs)
    BY <1>0
  <2>. QED  BY <1>2, <1>5, <2>1
<1>7. SubSeq(seqs, 1, Len(seqs)) = seqs
  BY SubSeqFull
<1>8. \A n \in 0 .. Len(seqs) : Flat(SubSeq(seqs, 1, n)) \in Seq(S)
  BY <1>0, <1>5
<1>9. Flat(SubSeq(seqs, 1, 0)) = <<>>
  BY <1>0
<1>. QED  BY <1>6, <1>7, <1>8, <1>9

LEMMA FlatType ==
    ASSUME NEW S, NEW seqs \in Seq(Seq(S)) PROVE Flat(seqs) \in Seq(S)
<1>1. Len(seqs) \in 0 .. Len(seqs)
  BY LenProperties
<1>. QED  BY <1>1, FlatPrefix

LEMMA FlatConcat ==
    ASSUME NEW S, NEW s \in Seq(Seq(S)), NEW t \in Seq(Seq(S))
    PROVE  Flat(s \o t) = Flat(s) \o Flat(t)
<1>. DEFINE First(n) == SubSeq(t, 1, n)
            T == {n \in Nat : n <= Len(t) => Flat(s \o First(n)) = Flat(s) \o Flat(First(n))}
<1>0. /\ Len(t) \in Nat /\ Flat(s) \in Seq(S) /\ <<>> \in Seq(S) /\ First(0) = <<>>
      /\ Flat(<<>>) = <<>>
  <2>1. <<>> \in Seq(S)
    BY EmptySeq
  <2>. QED  BY <2>1, LenProperties, FlatType, SubSeqEmpty, FlatAppend
<1>1. 0 \in T
  BY <1>0, ConcatEmptySeq
<1>2. ASSUME NEW n \in Nat, n \in T PROVE n + 1 \in T
  <2>1. SUFFICES ASSUME n + 1 <= Len(t)
                 PROVE  Flat(s \o First(n + 1)) = Flat(s) \o Flat(First(n + 1))
    OBVIOUS
  <2>. DEFINE x == t[n + 1]
  <2>2. Flat(s \o First(n)) = Flat(s) \o Flat(First(n))
    BY <1>0, <1>2, <2>1
  <2>3. x \in Seq(S) /\ \A i \in 1 .. n : t[i] \in Seq(S)
    BY <1>0, <2>1, ElementOfSeq
  <2>4. First(n) \in Seq(Seq(S))
    BY <2>3, SubSeqProperties
  <2>5. First(n + 1) = First(n) \o <<x>>
    <3>1. 1 \in 1 .. Len(t) /\ n + 1 \in 1 .. Len(t) /\ n + 1 - 1 = n
      BY <1>0, <2>1
    <3>. QED  BY <3>1, SubSeqRecursiveSecond
  <2>6. Flat(First(n)) \in Seq(S) /\ Flat(First(n + 1)) = Flat(First(n)) \o x
    <3>1. n + 1 \in 1 .. Len(t) /\ n \in 0 .. Len(t) /\ n + 1 - 1 = n
      BY <1>0, <2>1
    <3>2. /\ \A m \in 0 .. Len(t) : Flat(SubSeq(t, 1, m)) \in Seq(S)
          /\ \A m \in 1 .. Len(t) :
               Flat(SubSeq(t, 1, m)) = Flat(SubSeq(t, 1, m - 1)) \o t[m]
      BY FlatPrefix
    <3>3. Flat(SubSeq(t, 1, n)) \in Seq(S)
      BY <3>1, <3>2
    <3>4. PICK m \in 1 .. Len(t) : m = n + 1
      BY <3>1
    <3>5. Flat(SubSeq(t, 1, m)) = Flat(SubSeq(t, 1, m - 1)) \o t[m]
      BY <3>2
    <3>6. m - 1 = n
      BY <3>4
    <3>. QED  BY <3>3, <3>4, <3>5, <3>6
  <2>. HIDE DEF First, x
  <2>7. s \o First(n + 1) = Append(s \o First(n), x) /\ s \o First(n) \in Seq(Seq(S))
    <3>1. <<x>> \in Seq(Seq(S))
      BY <2>3
    <3>2. s \o First(n) \in Seq(Seq(S))
      BY <2>4, ConcatProperties
    <3>4. (s \o First(n)) \o <<x>> = s \o (First(n) \o <<x>>)
      BY <2>4, <3>1, ConcatAssociative
    <3>5. Append(s \o First(n), x) = (s \o First(n)) \o <<x>>
      BY <2>3, <3>2, AppendIsConcat
    <3>. QED  BY <2>5, <3>2, <3>4, <3>5
  <2>8. Flat(s \o First(n + 1)) = Flat(s \o First(n)) \o x
    <3>1. Flat(s \o First(n + 1)) = IF s \o First(n) = <<>> THEN x ELSE Flat(s \o First(n)) \o x
      BY <2>3, <2>7, FlatAppend
    <3>2. s \o First(n) = <<>> => Flat(s \o First(n)) \o x = x
      BY <1>0, <2>3, ConcatEmptySeq
    <3>. QED  BY <3>1, <3>2
  <2>9. (Flat(s) \o Flat(First(n))) \o x = Flat(s) \o (Flat(First(n)) \o x)
    <3>1. Flat(s) \in Seq(S) /\ Flat(First(n)) \in Seq(S) /\ x \in Seq(S)
      BY <1>0, <2>3, <2>6
    <3>. QED  BY <3>1, ConcatAssociative, SMTT(30)
  <2>. QED  BY <2>2, <2>6, <2>8, <2>9
<1>3. \A n \in Nat : n \in T
  <2>. HIDE DEF T
  <2>. QED  BY <1>1, <1>2, Induction
<1>4. First(Len(t)) = t
  BY SubSeqFull
<1>5. Flat(s \o First(Len(t))) = Flat(s) \o Flat(First(Len(t)))
  BY <1>0, <1>3
<1>. QED  BY <1>4, <1>5

-----------------------------------------------------------------------------
(* Tokens and the images among them *)

Token == {<<"prompt">>, <<"model">>, <<"tool">>} \cup {<<"image", t, c>> : t \in Nat, c \in Nat}

LEMMA ToolFlattens == \A s : Tools!FlattenSeq(s) = Flat(s)
BY DEF Tools!FlattenSeq, Flat, Prefixes

LEMMA Tokens ==
    /\ <<"prompt">> \in Token /\ <<"model">> \in Token /\ <<"tool">> \in Token
    /\ ~Tools!IsImage(<<"prompt">>) /\ ~Tools!IsImage(<<"model">>) /\ ~Tools!IsImage(<<"tool">>)
    /\ <<"model">> # <<"prompt">> /\ <<"tool">> # <<"model">>
    /\ \A t, c \in Nat : /\ <<"image", t, c>> \in Token /\ Tools!IsImage(<<"image", t, c>>)
                         /\ <<"image", t, c>> # <<"model">>
<1>1. <<"prompt">>[1] = "prompt" /\ <<"model">>[1] = "model" /\ <<"tool">>[1] = "tool"
  OBVIOUS
<1>2. \A t, c \in Nat : <<"image", t, c>>[1] = "image"
  OBVIOUS
<1>3. "prompt" # "image" /\ "model" # "image" /\ "tool" # "image" /\ "model" # "prompt" /\ "tool" # "model"
  OBVIOUS
<1>4. <<"model">> # <<"prompt">> /\ <<"tool">> # <<"model">>
  BY <1>1, <1>3
<1>5. \A t, c \in Nat : <<"image", t, c>> # <<"model">>
  BY <1>1, <1>2, <1>3
<1>6. /\ ~Tools!IsImage(<<"prompt">>) /\ ~Tools!IsImage(<<"model">>) /\ ~Tools!IsImage(<<"tool">>)
  BY <1>1, <1>3 DEF Tools!IsImage
<1>7. \A t, c \in Nat : Tools!IsImage(<<"image", t, c>>)
  BY <1>2 DEF Tools!IsImage
<1>8. \A t, c \in Nat : <<"image", t, c>> \in Token
  BY DEF Token
<1>9. <<"prompt">> \in Token /\ <<"model">> \in Token /\ <<"tool">> \in Token
  BY DEF Token
<1>. QED  BY <1>4, <1>5, <1>6, <1>7, <1>8, <1>9

Shown(s) == [i \in DOMAIN s |-> IF Tools!IsImage(s[i]) THEN <<s[i]>> ELSE <<>>]

LEMMA ShownType ==
    ASSUME NEW s \in Seq(Token)
    PROVE  /\ Shown(s) \in Seq(Seq(Token)) /\ Len(Shown(s)) = Len(s)
           /\ \A i \in 1 .. Len(s) :
                Shown(s)[i] = IF Tools!IsImage(s[i]) THEN <<s[i]>> ELSE <<>>
           /\ Tools!ImagesIn(s) = Flat(Shown(s))
           /\ Tools!ImagesIn(s) \in Seq(Token)
<1>1. /\ Len(s) \in Nat /\ DOMAIN s = 1 .. Len(s) /\ \A i \in 1 .. Len(s) : s[i] \in Token
  BY LenProperties
<1>2. \A i \in 1 .. Len(s) :
        Shown(s)[i] = IF Tools!IsImage(s[i]) THEN <<s[i]>> ELSE <<>>
  BY <1>1 DEF Shown
<1>3. <<>> \in Seq(Token) /\ \A x \in Token : <<x>> \in Seq(Token)
  OBVIOUS
<1>4. Shown(s) \in [1 .. Len(s) -> Seq(Token)]
  <2>1. \A i \in 1 .. Len(s) :
          (IF Tools!IsImage(s[i]) THEN <<s[i]>> ELSE <<>>) \in Seq(Token)
    BY <1>1, <1>3
  <2>. QED  BY <1>1, <2>1 DEF Shown
<1>5. Shown(s) \in Seq(Seq(Token)) /\ Len(Shown(s)) = Len(s)
  BY <1>1, <1>4, FunctionIsSeq
<1>6. Tools!ImagesIn(s) = Flat(Shown(s))
  BY ToolFlattens DEF Tools!ImagesIn, Shown
<1>. QED  BY <1>2, <1>5, <1>6, FlatType

LEMMA ImagesConcat ==
    ASSUME NEW s \in Seq(Token), NEW t \in Seq(Token)
    PROVE  Tools!ImagesIn(s \o t) = Tools!ImagesIn(s) \o Tools!ImagesIn(t)
<1>1. s \o t \in Seq(Token) /\ Len(s \o t) = Len(s) + Len(t) /\ Len(s) \in Nat /\ Len(t) \in Nat
  BY ConcatProperties, LenProperties
<1>2. Shown(s \o t) = Shown(s) \o Shown(t)
  <2>1. /\ Shown(s) \o Shown(t) \in Seq(Seq(Token)) /\ Len(Shown(s) \o Shown(t)) = Len(s) + Len(t)
    <3>1. /\ Shown(s) \in Seq(Seq(Token)) /\ Len(Shown(s)) = Len(s)
          /\ Shown(t) \in Seq(Seq(Token)) /\ Len(Shown(t)) = Len(t)
      BY ShownType
    <3>2. /\ Shown(s) \o Shown(t) \in Seq(Seq(Token))
          /\ Len(Shown(s) \o Shown(t)) = Len(Shown(s)) + Len(Shown(t))
      BY <3>1, ConcatProperties
    <3>. QED  BY <3>1, <3>2
  <2>2. Shown(s \o t) \in Seq(Seq(Token)) /\ Len(Shown(s \o t)) = Len(s) + Len(t)
    BY <1>1, ShownType
  <2>3. ASSUME NEW i \in 1 .. Len(s) + Len(t)
        PROVE  Shown(s \o t)[i] = (Shown(s) \o Shown(t))[i]
    <3>1. /\ (s \o t)[i] = IF i <= Len(s) THEN s[i] ELSE t[i - Len(s)]
      BY <1>1, ConcatProperties
    <3>2. /\ (Shown(s) \o Shown(t))[i] = IF i <= Len(s) THEN Shown(s)[i] ELSE Shown(t)[i - Len(s)]
      BY <1>1, ShownType, ConcatProperties
    <3>3. Shown(s \o t)[i] = IF Tools!IsImage((s \o t)[i]) THEN <<(s \o t)[i]>> ELSE <<>>
      BY <1>1, ShownType
    <3>4. CASE i <= Len(s)
      <4>1. i \in 1 .. Len(s)
        BY <3>4, <1>1
      <4>. QED  BY <3>1, <3>2, <3>3, <3>4, <4>1, ShownType
    <3>5. CASE ~(i <= Len(s))
      <4>1. i - Len(s) \in 1 .. Len(t)
        BY <3>5, <1>1
      <4>. QED  BY <3>1, <3>2, <3>3, <3>5, <4>1, ShownType
    <3>. QED  BY <3>4, <3>5
  <2>. QED  BY <2>1, <2>2, <2>3, SeqEqual
<1>3. Flat(Shown(s) \o Shown(t)) = Flat(Shown(s)) \o Flat(Shown(t))
  BY ShownType, FlatConcat
<1>. QED  BY <1>1, <1>2, <1>3, ShownType

LEMMA AllEmpty ==
    ASSUME NEW S, NEW seqs \in Seq(Seq(S)), \A i \in 1 .. Len(seqs) : seqs[i] = <<>>
    PROVE  Flat(seqs) = <<>>
<1>. DEFINE T == {n \in Nat : n <= Len(seqs) => Flat(SubSeq(seqs, 1, n)) = <<>>}
<1>0. Len(seqs) \in Nat /\ <<>> \o <<>> = <<>>
  BY LenProperties, EmptySeq, ConcatEmptySeq
<1>1. 0 \in T
  BY FlatPrefix
<1>2. ASSUME NEW n \in Nat, n \in T PROVE n + 1 \in T
  <2>1. SUFFICES ASSUME n + 1 <= Len(seqs) PROVE Flat(SubSeq(seqs, 1, n + 1)) = <<>>
    OBVIOUS
  <2>2. n <= Len(seqs) /\ n + 1 \in 1 .. Len(seqs)
    BY <1>0, <2>1
  <2>3. Flat(SubSeq(seqs, 1, n)) = <<>>
    BY <1>2, <2>2
  <2>4. PICK m \in 1 .. Len(seqs) : m = n + 1
    BY <2>2
  <2>5. Flat(SubSeq(seqs, 1, m)) = Flat(SubSeq(seqs, 1, m - 1)) \o seqs[m] /\ seqs[m] = <<>>
    BY FlatPrefix
  <2>6. m - 1 = n
    BY <2>4
  <2>. QED  BY <1>0, <2>3, <2>4, <2>5, <2>6
<1>3. \A n \in Nat : n \in T
  <2>. HIDE DEF T
  <2>. QED  BY <1>1, <1>2, Induction
<1>4. Flat(SubSeq(seqs, 1, Len(seqs))) = <<>>
  BY <1>0, <1>3
<1>. QED  BY <1>4, FlatPrefix

LEMMA NoImages ==
    ASSUME NEW s \in Seq(Token), \A i \in 1 .. Len(s) : ~Tools!IsImage(s[i])
    PROVE  Tools!ImagesIn(s) = <<>>
<1>1. Shown(s) \in Seq(Seq(Token)) /\ \A i \in 1 .. Len(Shown(s)) : Shown(s)[i] = <<>>
  BY ShownType
<1>. QED  BY <1>1, AllEmpty, ShownType

LEMMA OneImage ==
    ASSUME NEW x \in Token, Tools!IsImage(x)
    PROVE  Tools!ImagesIn(<<x>>) = <<x>>
<1>1. <<x>> \in Seq(Token) /\ Len(<<x>>) = 1 /\ <<x>>[1] = x
  OBVIOUS
<1>2. Shown(<<x>>) \in Seq(Seq(Token)) /\ Len(Shown(<<x>>)) = 1 /\ Shown(<<x>>)[1] = <<x>>
  <2>1. /\ Shown(<<x>>) \in Seq(Seq(Token)) /\ Len(Shown(<<x>>)) = Len(<<x>>)
        /\ \A i \in 1 .. Len(<<x>>) :
             Shown(<<x>>)[i] = IF Tools!IsImage(<<x>>[i]) THEN <<<<x>>[i]>> ELSE <<>>
    BY <1>1, ShownType
  <2>2. 1 \in 1 .. Len(<<x>>)
    BY <1>1
  <2>3. Shown(<<x>>)[1] = IF Tools!IsImage(<<x>>[1]) THEN <<<<x>>[1]>> ELSE <<>>
    BY <2>1, <2>2
  <2>. QED  BY <1>1, <2>1, <2>3
<1>3. Shown(<<x>>) = Append(<<>>, <<x>>) /\ <<>> \in Seq(Seq(Token))
  <2>1. Append(<<>>, <<x>>) \in Seq(Seq(Token)) /\ Len(Append(<<>>, <<x>>)) = 1
        /\ Append(<<>>, <<x>>)[1] = <<x>>
    BY <1>1
  <2>2. Len(Shown(<<x>>)) = Len(Append(<<>>, <<x>>))
        /\ \A i \in 1 .. Len(Shown(<<x>>)) : Shown(<<x>>)[i] = Append(<<>>, <<x>>)[i]
    BY <1>2, <2>1
  <2>. QED  BY <1>2, <2>1, <2>2, SeqEqual, EmptySeq
<1>4. Flat(Append(<<>>, <<x>>)) = <<x>>
  BY <1>1, <1>3, FlatAppend
<1>. QED  BY <1>1, <1>3, <1>4, ShownType

-----------------------------------------------------------------------------
(* The trajectory: the inductive invariant *)

CallStates == {"called", "created", "executed", "answered", "broken"}

Asked == Len(promptIds) - Len(mask)

ToolTypes ==
    /\ agent \in {"off", "generating", "tools", "terminated", "raised"}
    /\ scored \in BOOLEAN
    /\ promptIds \in Seq(Token) /\ mask \in Seq({0, 1}) /\ images \in Seq(Token)
    /\ Len(promptIds) <= PromptLength + ResponseLength
    /\ turns \in [assistant : Nat, user : Nat]
    /\ turns.assistant - turns.user \in {0, 1}
    /\ calls \in Seq(CallStates) /\ messages \in Seq(Tools!Kinds)
    /\ Len(calls) <= MaxParallelCalls /\ Len(messages) = Len(calls)

\* The mask, and the log-probs if there are any, go with the tokens after the
\* prompt.
Tracked(ids, ms, probs, with) ==
    /\ Len(ids) - Len(ms) \in 1 .. PromptLength
    /\ \A i \in 1 .. Len(ids) - Len(ms) : ids[i] = <<"prompt">>
    /\ \A i \in 1 .. Len(ms) :
         ms[i] = 1 <=> ids[(Len(ids) - Len(ms)) + i] = <<"model">>
    /\ probs = IF with THEN [i \in 1 .. Len(ms) |-> ms[i] = 1] ELSE <<>>

ToolInv ==
    /\ ToolTypes
    /\ agent = "off" => /\ promptIds = <<>> /\ mask = <<>> /\ logprobs = <<>> /\ images = <<>>
                        /\ scored = FALSE /\ turns.assistant = turns.user
    /\ agent # "off" => /\ Tracked(promptIds, mask, logprobs, scored)
                        /\ Tools!Shows(Tools!ImagesIn(promptIds), images)
    /\ agent = "generating" => /\ turns.assistant = turns.user
                               /\ Len(mask) < ResponseLength
    /\ agent = "tools" => /\ turns.assistant = turns.user + 1
                          /\ Len(mask) \in 1 .. ResponseLength - 1
    /\ calls # <<>> => agent \in {"tools", "raised"}
    /\ agent = "terminated" => Tools!Aligned

LEMMA ToolConstants ==
    /\ PromptLength \in Nat \ {0} /\ ResponseLength \in Nat \ {0} /\ MaxParallelCalls \in Nat \ {0}
    /\ MaxAssistantTurns \in Nat /\ MaxUserTurns \in Nat /\ MaxCalls \in Nat /\ MaxImages \in Nat
BY UtilAssumption DEF UtilAssumption

LEMMA ToolMin ==
    ASSUME NEW a \in Int, NEW b \in Int
    PROVE  Tools!Min({a, b}) = IF a <= b THEN a ELSE b
<1>1. \E x \in {a, b} : \A y \in {a, b} : x <= y
  OBVIOUS
<1>. QED  BY <1>1 DEF Tools!Min

LEMMA TimesIs ==
    ASSUME NEW S, NEW x \in S, NEW n \in Nat
    PROVE  /\ Tools!Times(x, n) \in Seq(S) /\ Len(Tools!Times(x, n)) = n
           /\ \A i \in 1 .. n : Tools!Times(x, n)[i] = x
<1>1. Tools!Times(x, n) \in [1 .. n -> S]
  BY DEF Tools!Times
<1>. QED  BY <1>1, FunctionIsSeq DEF Tools!Times

-----------------------------------------------------------------------------
(* Places and the images they stand for *)

\* The images of each place, n[i] for the i-th
Spread(s, n) == [i \in DOMAIN s |-> Tools!Times(s[i], n[i])]

LEMMA SpreadIs ==
    ASSUME NEW s \in Seq(Token), NEW n \in [1 .. Len(s) -> 1 .. MaxImages]
    PROVE  /\ Spread(s, n) \in Seq(Seq(Token)) /\ Len(Spread(s, n)) = Len(s)
           /\ \A i \in 1 .. Len(s) : Spread(s, n)[i] = Tools!Times(s[i], n[i])
<1>1. DOMAIN s = 1 .. Len(s) /\ Len(s) \in Nat /\ \A i \in 1 .. Len(s) : s[i] \in Token
  BY LenProperties
<1>2. \A i \in 1 .. Len(s) : n[i] \in Nat
  BY ToolConstants
<1>3. \A i \in 1 .. Len(s) : Tools!Times(s[i], n[i]) \in Seq(Token)
  BY <1>1, <1>2, TimesIs
<1>4. Spread(s, n) \in [1 .. Len(s) -> Seq(Token)]
  BY <1>1, <1>3 DEF Spread
<1>5. \A i \in 1 .. Len(s) : Spread(s, n)[i] = Tools!Times(s[i], n[i])
  BY <1>1 DEF Spread
<1>. QED  BY <1>1, <1>4, <1>5, FunctionIsSeq

LEMMA ShowsIs ==
    ASSUME NEW s \in Seq(Token), NEW u
    PROVE  Tools!Shows(s, u) <=> \E n \in [1 .. Len(s) -> 1 .. MaxImages] : u = Flat(Spread(s, n))
<1>1. DOMAIN s = 1 .. Len(s)
  BY LenProperties
<1>2. \A n : Tools!FlattenSeq(Spread(s, n)) = Flat(Spread(s, n))
  BY ToolFlattens
<1>. QED  BY <1>1, <1>2 DEF Tools!Shows, Spread

LEMMA ShowsNone == Tools!Shows(<<>>, <<>>)
<1>1. <<>> \in Seq(Token) /\ Len(<<>>) = 0
  BY EmptySeq
<1>. DEFINE n == [i \in 1 .. 0 |-> 1]
<1>2. n \in [1 .. 0 -> 1 .. MaxImages]
  OBVIOUS
<1>. HIDE DEF n
<1>3. Spread(<<>>, n) \in Seq(Seq(Token)) /\ Len(Spread(<<>>, n)) = 0
  BY <1>1, <1>2, SpreadIs
<1>4. Spread(<<>>, n) = <<>>
  BY <1>3, EmptySeq
<1>5. Flat(<<>>) = <<>>
  BY <1>1, <1>3, FlatAppend
<1>6. <<>> = Flat(Spread(<<>>, n)) /\ n \in [1 .. Len(<<>>) -> 1 .. MaxImages]
  BY <1>1, <1>2, <1>4, <1>5
<1>. QED  BY <1>1, <1>6, ShowsIs

LEMMA ShowsOne ==
    ASSUME NEW x \in Token, NEW m \in 1 .. MaxImages
    PROVE  Tools!Shows(<<x>>, Tools!Times(x, m))
<1>1. <<x>> \in Seq(Token) /\ Len(<<x>>) = 1 /\ <<x>>[1] = x /\ <<>> \in Seq(Seq(Token))
  OBVIOUS
<1>. DEFINE n == [i \in 1 .. 1 |-> m]
            shown == Tools!Times(x, m)
<1>2. n \in [1 .. 1 -> 1 .. MaxImages] /\ n[1] = m
  OBVIOUS
<1>3. shown \in Seq(Token)
  BY ToolConstants, TimesIs
<1>. HIDE DEF n, shown
<1>4. /\ Spread(<<x>>, n) \in Seq(Seq(Token)) /\ Len(Spread(<<x>>, n)) = 1
      /\ Spread(<<x>>, n)[1] = shown
  <2>1. /\ Spread(<<x>>, n) \in Seq(Seq(Token)) /\ Len(Spread(<<x>>, n)) = Len(<<x>>)
        /\ \A i \in 1 .. Len(<<x>>) : Spread(<<x>>, n)[i] = Tools!Times(<<x>>[i], n[i])
    BY <1>1, <1>2, SpreadIs
  <2>2. 1 \in 1 .. Len(<<x>>)
    BY <1>1
  <2>. QED  BY <1>1, <1>2, <2>1, <2>2 DEF shown
<1>5. Spread(<<x>>, n) = Append(<<>>, shown)
  <2>1. Append(<<>>, shown) \in Seq(Seq(Token)) /\ Len(Append(<<>>, shown)) = 1
        /\ Append(<<>>, shown)[1] = shown
    BY <1>1, <1>3
  <2>2. \A i \in 1 .. 1 : Spread(<<x>>, n)[i] = Append(<<>>, shown)[i]
    BY <1>4, <2>1
  <2>. QED  BY <1>4, <2>1, <2>2, SeqEqual
<1>6. Flat(Append(<<>>, shown)) = shown
  BY <1>1, <1>3, FlatAppend
<1>7. shown = Flat(Spread(<<x>>, n)) /\ n \in [1 .. Len(<<x>>) -> 1 .. MaxImages]
  BY <1>1, <1>2, <1>5, <1>6
<1>. QED  BY <1>1, <1>7, ShowsIs DEF shown

LEMMA ShowsConcat ==
    ASSUME NEW s \in Seq(Token), NEW t \in Seq(Token), NEW u, NEW v,
           Tools!Shows(s, u), Tools!Shows(t, v)
    PROVE  Tools!Shows(s \o t, u \o v)
<1>1. PICK m \in [1 .. Len(s) -> 1 .. MaxImages] : u = Flat(Spread(s, m))
  BY ShowsIs
<1>2. PICK n \in [1 .. Len(t) -> 1 .. MaxImages] : v = Flat(Spread(t, n))
  BY ShowsIs
<1>3. s \o t \in Seq(Token) /\ Len(s \o t) = Len(s) + Len(t) /\ Len(s) \in Nat /\ Len(t) \in Nat
  BY ConcatProperties, LenProperties
<1>. DEFINE q == [i \in 1 .. Len(s) + Len(t) |-> IF i <= Len(s) THEN m[i] ELSE n[i - Len(s)]]
<1>4. /\ q \in [1 .. Len(s) + Len(t) -> 1 .. MaxImages]
      /\ \A i \in 1 .. Len(s) : i \in 1 .. Len(s) + Len(t) /\ q[i] = m[i]
      /\ \A i \in 1 .. Len(s) + Len(t) :
           ~(i <= Len(s)) => i - Len(s) \in 1 .. Len(t) /\ q[i] = n[i - Len(s)]
  BY <1>3
<1>. HIDE DEF q
<1>5. /\ Spread(s, m) \in Seq(Seq(Token)) /\ Len(Spread(s, m)) = Len(s)
      /\ \A i \in 1 .. Len(s) : Spread(s, m)[i] = Tools!Times(s[i], m[i])
  BY SpreadIs
<1>6. /\ Spread(t, n) \in Seq(Seq(Token)) /\ Len(Spread(t, n)) = Len(t)
      /\ \A i \in 1 .. Len(t) : Spread(t, n)[i] = Tools!Times(t[i], n[i])
  BY SpreadIs
<1>7. /\ Spread(s \o t, q) \in Seq(Seq(Token)) /\ Len(Spread(s \o t, q)) = Len(s) + Len(t)
      /\ \A i \in 1 .. Len(s) + Len(t) : Spread(s \o t, q)[i] = Tools!Times((s \o t)[i], q[i])
  <2>1. q \in [1 .. Len(s \o t) -> 1 .. MaxImages]
    BY <1>3, <1>4
  <2>2. /\ Spread(s \o t, q) \in Seq(Seq(Token)) /\ Len(Spread(s \o t, q)) = Len(s \o t)
        /\ \A i \in 1 .. Len(s \o t) : Spread(s \o t, q)[i] = Tools!Times((s \o t)[i], q[i])
    BY <1>3, <2>1, SpreadIs
  <2>. QED  BY <1>3, <2>2
<1>8. Spread(s \o t, q) = Spread(s, m) \o Spread(t, n)
  <2>. DEFINE both == Spread(s, m) \o Spread(t, n)
  <2>1. /\ both \in Seq(Seq(Token)) /\ Len(both) = Len(s) + Len(t)
        /\ \A i \in 1 .. Len(s) + Len(t) :
             both[i] = IF i <= Len(s) THEN Spread(s, m)[i] ELSE Spread(t, n)[i - Len(s)]
    <3>. DEFINE one == Spread(s, m)
                other == Spread(t, n)
    <3>1. one \in Seq(Seq(Token)) /\ other \in Seq(Seq(Token))
      BY <1>5, <1>6
    <3>. HIDE DEF one, other
    <3>2. /\ one \o other \in Seq(Seq(Token)) /\ Len(one \o other) = Len(one) + Len(other)
          /\ \A i \in 1 .. Len(one) + Len(other) :
               (one \o other)[i] = IF i <= Len(one) THEN one[i] ELSE other[i - Len(one)]
      BY <3>1, ConcatProperties
    <3>. QED  BY <1>5, <1>6, <3>2 DEF one, other
  <2>. HIDE DEF both
  <2>2. ASSUME NEW i \in 1 .. Len(s) + Len(t) PROVE Spread(s \o t, q)[i] = both[i]
    <3>1. (s \o t)[i] = IF i <= Len(s) THEN s[i] ELSE t[i - Len(s)]
      BY <1>3, ConcatProperties
    <3>2. CASE i <= Len(s)
      <4>1. i \in 1 .. Len(s)
        BY <1>3, <3>2
      <4>. QED  BY <1>4, <1>5, <1>7, <2>1, <3>1, <3>2, <4>1
    <3>3. CASE ~(i <= Len(s))
      <4>1. i - Len(s) \in 1 .. Len(t) /\ q[i] = n[i - Len(s)]
        BY <1>4, <3>3
      <4>. QED  BY <1>6, <1>7, <2>1, <3>1, <3>3, <4>1
    <3>. QED  BY <3>2, <3>3
  <2>3. Spread(s \o t, q) = both
    BY <1>7, <2>1, <2>2, SeqEqual
  <2>. QED  BY <2>3 DEF both
<1>9. Flat(Spread(s \o t, q)) = u \o v
  BY <1>1, <1>2, <1>5, <1>6, <1>8, FlatConcat
<1>10. q \in [1 .. Len(s \o t) -> 1 .. MaxImages]
  BY <1>3, <1>4
<1>. QED  BY <1>3, <1>9, <1>10, ShowsIs

-----------------------------------------------------------------------------
(* Tokens at the end of a trajectory *)

\* The log-probs that go with n more tokens, of the model or not
Marks(bit, n, with) == Tools!Times(bit = 1, IF with THEN n ELSE 0)

\* More tokens at the end, of the model or not
GrowsFrom(ids, ms, probs, with, more, bit) ==
    /\ ids \in Seq(Token) /\ ms \in Seq({0, 1}) /\ with \in BOOLEAN
    /\ Tracked(ids, ms, probs, with) /\ more \in Seq(Token) /\ bit \in {0, 1}
    /\ \A i \in 1 .. Len(more) : bit = 1 <=> more[i] = <<"model">>

GrowsTo(ids, ms, probs, with, more, bit) ==
    /\ ids \o more \in Seq(Token) /\ Len(ids \o more) = Len(ids) + Len(more)
    /\ ms \o Tools!Times(bit, Len(more)) \in Seq({0, 1})
    /\ Len(ms \o Tools!Times(bit, Len(more))) = Len(ms) + Len(more)
    /\ Tracked(ids \o more, ms \o Tools!Times(bit, Len(more)),
               probs \o Marks(bit, Len(more), with), with)

LEMMA TrackedGrows ==
    ASSUME NEW ids, NEW ms, NEW probs, NEW with, NEW more, NEW bit,
           GrowsFrom(ids, ms, probs, with, more, bit)
    PROVE  GrowsTo(ids, ms, probs, with, more, bit)
<1>0. /\ ids \in Seq(Token) /\ ms \in Seq({0, 1}) /\ with \in BOOLEAN
      /\ Tracked(ids, ms, probs, with) /\ more \in Seq(Token) /\ bit \in {0, 1}
      /\ \A i \in 1 .. Len(more) : bit = 1 <=> more[i] = <<"model">>
  BY DEF GrowsFrom
<1>. USE <1>0
<1>. DEFINE n == Len(more)
            bits == Tools!Times(bit, n)
            m2 == ms \o bits
            i2 == ids \o more
            a == Len(ids) - Len(ms)
<1>1. n \in Nat /\ Len(ids) \in Nat /\ Len(ms) \in Nat /\ a \in 1 .. PromptLength
  BY LenProperties DEF Tracked
<1>2. bits \in Seq({0, 1}) /\ Len(bits) = n /\ \A i \in 1 .. n : bits[i] = bit
  BY <1>1, TimesIs
<1>. HIDE DEF bits
<1>3. /\ i2 \in Seq(Token) /\ Len(i2) = Len(ids) + n
      /\ \A i \in 1 .. Len(ids) + n : i2[i] = IF i <= Len(ids) THEN ids[i] ELSE more[i - Len(ids)]
  BY ConcatProperties
<1>4. /\ m2 \in Seq({0, 1}) /\ Len(m2) = Len(ms) + n
      /\ \A i \in 1 .. Len(ms) + n : m2[i] = IF i <= Len(ms) THEN ms[i] ELSE bits[i - Len(ms)]
  <2>1. /\ m2 \in Seq({0, 1}) /\ Len(m2) = Len(ms) + Len(bits)
        /\ \A i \in 1 .. Len(ms) + Len(bits) :
             m2[i] = IF i <= Len(ms) THEN ms[i] ELSE bits[i - Len(ms)]
    BY <1>2, ConcatProperties
  <2>. HIDE DEF m2
  <2>. QED  BY <1>2, <2>1
<1>. HIDE DEF m2, i2
<1>5. Len(i2) - Len(m2) = a
  BY <1>1, <1>3, <1>4
<1>6. \A i \in 1 .. a : i2[i] = <<"prompt">>
  <2>1. \A i \in 1 .. a : i \in 1 .. Len(ids) + n /\ i <= Len(ids) /\ ids[i] = <<"prompt">>
    BY <1>1 DEF Tracked
  <2>. QED  BY <1>3, <2>1
<1>7. ASSUME NEW i \in 1 .. Len(ms) + n PROVE m2[i] = 1 <=> i2[a + i] = <<"model">>
  <2>1. CASE i <= Len(ms)
    <3>1. i \in 1 .. Len(ms) /\ a + i \in 1 .. Len(ids) + n /\ a + i <= Len(ids)
      BY <1>1, <2>1
    <3>2. m2[i] = ms[i] /\ i2[a + i] = ids[a + i]
      BY <1>3, <1>4, <2>1, <3>1
    <3>. QED  BY <3>1, <3>2 DEF Tracked
  <2>2. CASE ~(i <= Len(ms))
    <3>1. /\ i - Len(ms) \in 1 .. n /\ a + i \in 1 .. Len(ids) + n /\ ~(a + i <= Len(ids))
          /\ a + i - Len(ids) = i - Len(ms)
      BY <1>1, <2>2
    <3>2. m2[i] = bits[i - Len(ms)]
      BY <1>4, <2>2
    <3>4. i2[a + i] = more[a + i - Len(ids)]
      <4>1. PICK j \in 1 .. Len(ids) + n : j = a + i
        BY <3>1
      <4>2. i2[j] = more[j - Len(ids)]
        BY <1>3, <3>1, <4>1
      <4>. QED  BY <4>1, <4>2
    <3>3. m2[i] = bit /\ i2[a + i] = more[i - Len(ms)]
      BY <3>1, <3>2, <3>4, <1>2
    <3>. QED  BY <3>1, <3>3
  <2>. QED  BY <2>1, <2>2
<1>. DEFINE p2 == probs \o Marks(bit, n, with)
<1>8. p2 = IF with THEN [i \in 1 .. Len(m2) |-> m2[i] = 1] ELSE <<>>
  <2>1. CASE ~with
    <3>0. Marks(bit, n, with) = Tools!Times(bit = 1, 0)
      BY <2>1 DEF Marks
    <3>1. probs = <<>> /\ Tools!Times(bit = 1, 0) = <<>>
      <4>1. Tools!Times(bit = 1, 0) \in Seq(BOOLEAN) /\ Len(Tools!Times(bit = 1, 0)) = 0
        BY TimesIs
      <4>. QED  BY <2>1, <4>1, EmptySeq DEF Tracked
    <3>2. <<>> \o <<>> = <<>>
      BY EmptySeq, ConcatEmptySeq
    <3>. QED  BY <2>1, <3>0, <3>1, <3>2
  <2>2. CASE with
    <3>. DEFINE q == Tools!Times(bit = 1, n)
                f == [i \in 1 .. Len(m2) |-> m2[i] = 1]
    <3>1. q \in Seq(BOOLEAN) /\ Len(q) = n /\ \A i \in 1 .. n : q[i] = (bit = 1)
      BY <1>1, TimesIs
    <3>2. probs = [i \in 1 .. Len(ms) |-> ms[i] = 1]
      BY <2>2 DEF Tracked
    <3>3. probs \in [1 .. Len(ms) -> BOOLEAN]
      BY <3>2
    <3>4. probs \in Seq(BOOLEAN) /\ Len(probs) = Len(ms)
      BY <1>1, <3>3, FunctionIsSeq
    <3>. HIDE DEF q
    <3>5. /\ probs \o q \in Seq(BOOLEAN) /\ Len(probs \o q) = Len(ms) + n
          /\ \A i \in 1 .. Len(ms) + n :
               (probs \o q)[i] = IF i <= Len(ms) THEN probs[i] ELSE q[i - Len(ms)]
      <4>0. probs \in Seq(BOOLEAN) /\ q \in Seq(BOOLEAN)
        BY <3>1, <3>4
      <4>. HIDE DEF p2
      <4>1. probs \o q \in Seq(BOOLEAN) /\ Len(probs \o q) = Len(probs) + Len(q)
        BY <4>0, ConcatProperties
      <4>2. \A i \in 1 .. Len(probs) + Len(q) :
                 (probs \o q)[i] = IF i <= Len(probs) THEN probs[i] ELSE q[i - Len(probs)]
        BY <4>0, ConcatProperties, ZenonT(30)
      <4>. QED  BY <3>1, <3>4, <4>1, <4>2
    <3>6. f \in [1 .. Len(ms) + n -> BOOLEAN] /\ Len(ms) + n \in Nat
      BY <1>1, <1>4
    <3>7. f \in Seq(BOOLEAN) /\ Len(f) = Len(ms) + n
      BY <3>6, FunctionIsSeq
    <3>8. ASSUME NEW i \in 1 .. Len(ms) + n PROVE (probs \o q)[i] = f[i]
      <4>1. f[i] = (m2[i] = 1)
        BY <1>4
      <4>2. CASE i <= Len(ms)
        <5>1. i \in 1 .. Len(ms)
          BY <1>1, <4>2
        <5>2. (probs \o q)[i] = probs[i] /\ m2[i] = ms[i]
          BY <1>4, <3>5, <4>2
        <5>. QED  BY <4>1, <5>1, <5>2, <3>2
      <4>3. CASE ~(i <= Len(ms))
        <5>1. i - Len(ms) \in 1 .. n
          BY <1>1, <4>3
        <5>2. (probs \o q)[i] = q[i - Len(ms)] /\ m2[i] = bits[i - Len(ms)]
          BY <1>4, <3>5, <4>3
        <5>. QED  BY <4>1, <5>1, <5>2, <3>1, <1>2
      <4>. QED  BY <4>2, <4>3
    <3>. HIDE DEF f
    <3>9. probs \o q = f
      BY <3>5, <3>7, <3>8, SeqEqual
    <3>10. Marks(bit, n, with) = q
      BY <2>2 DEF Marks, q
    <3>. QED  BY <2>2, <3>9, <3>10 DEF f
  <2>. QED  BY <2>1, <2>2
<1>. HIDE DEF p2, n, a
<1>9. Tracked(i2, m2, p2, with)
  BY <1>1, <1>4, <1>5, <1>6, <1>7, <1>8 DEF Tracked
<1>. QED  BY <1>3, <1>4, <1>9 DEF GrowsTo, i2, m2, p2, n, bits

LEMMA CappedIs ==
    ASSUME NEW S, NEW s \in Seq(S)
    PROVE  LET r == IF Len(s) <= ResponseLength THEN Len(s) ELSE ResponseLength
           IN  /\ r \in Nat /\ r <= Len(s) /\ r <= ResponseLength
               /\ Tools!Capped(s) = SubSeq(s, 1, r)
               /\ Tools!Capped(s) \in Seq(S) /\ Len(Tools!Capped(s)) = r
               /\ DOMAIN Tools!Capped(s) = 1 .. r
               /\ \A i \in 1 .. r : Tools!Capped(s)[i] = s[i]
<1>. DEFINE r == IF Len(s) <= ResponseLength THEN Len(s) ELSE ResponseLength
<1>1. Len(s) \in Nat /\ ResponseLength \in Nat /\ \A i \in 1 .. Len(s) : s[i] \in S
  BY LenProperties, ToolConstants
<1>2. Tools!Min({Len(s), ResponseLength}) = r
  BY <1>1, ToolMin
<1>3. r \in Nat /\ r <= Len(s) /\ r <= ResponseLength
  BY <1>1
<1>4. Tools!Capped(s) = SubSeq(s, 1, r)
  BY <1>2 DEF Tools!Capped
<1>. HIDE DEF r
<1>5. \A i \in 1 .. r : s[i] \in S
  BY <1>1, <1>3
<1>6. /\ SubSeq(s, 1, r) \in Seq(S) /\ Len(SubSeq(s, 1, r)) = IF 1 <= r THEN r - 1 + 1 ELSE 0
      /\ \A i \in 1 .. r - 1 + 1 : SubSeq(s, 1, r)[i] = s[1 + i - 1]
  BY <1>3, <1>5, SubSeqProperties
<1>7. Len(SubSeq(s, 1, r)) = r /\ \A i \in 1 .. r : SubSeq(s, 1, r)[i] = s[i]
  BY <1>3, <1>6
<1>8. DOMAIN SubSeq(s, 1, r) = 1 .. r
  BY <1>6, <1>7, LenProperties
<1>. QED  BY <1>3, <1>4, <1>6, <1>7, <1>8 DEF r

\* What the end of run makes of tokens and mask that are tracked, if what is
\* cut off at the end has no images
LEMMA EndsAligned ==
    ASSUME NEW ids \in Seq(Token), NEW ms \in Seq({0, 1}), NEW probs,
           Tracked(ids, ms, probs, scored), scored \in BOOLEAN, scored' = scored,
           Len(ms) # 0, Tools!Shows(Tools!ImagesIn(ids), images'),
           \A i \in 1 .. Len(ms) :
             i > ResponseLength => ids[(Len(ids) - Len(ms)) + i] = <<"model">>,
           Tools!Terminate(ids, ms, probs)
    PROVE  Tools!Aligned'
<1>. DEFINE a == Len(ids) - Len(ms)
            n == Len(ms)
            r == IF n <= ResponseLength THEN n ELSE ResponseLength
            asked == SubSeq(ids, 1, a)
            said == SubSeq(ids, a + 1, Len(ids))
            resp == Tools!Capped(said)
            m2 == Tools!Capped(ms)
            p2 == Tools!Capped(probs)
<1>1. /\ n \in Nat /\ n > 0 /\ Len(ids) \in Nat /\ a \in 1 .. PromptLength /\ a + n = Len(ids)
      /\ ResponseLength \in Nat /\ ResponseLength > 0
      /\ \A i \in 1 .. Len(ids) : ids[i] \in Token
  BY LenProperties, ToolConstants DEF Tracked
<1>2. output' = [prompt |-> asked, response |-> resp, mask |-> m2, logprobs |-> p2]
  BY DEF Tools!Terminate
<1>3. r \in 1 .. ResponseLength /\ r <= n
  BY <1>1
<1>4. /\ said \in Seq(Token) /\ Len(said) = n /\ \A i \in 1 .. n : said[i] = ids[a + i]
  <2>1. /\ a + 1 \in Int /\ Len(ids) \in Int /\ \A i \in a + 1 .. Len(ids) : ids[i] \in Token
    BY <1>1
  <2>2. /\ said \in Seq(Token)
        /\ Len(said) = IF a + 1 <= Len(ids) THEN Len(ids) - (a + 1) + 1 ELSE 0
        /\ \A i \in 1 .. Len(ids) - (a + 1) + 1 : said[i] = ids[(a + 1) + i - 1]
    <3>. HIDE DEF a
    <3>. QED  BY <2>1, SubSeqProperties
  <2>3. Len(ids) - (a + 1) + 1 = n /\ a + 1 <= Len(ids)
    BY <1>1
  <2>. HIDE DEF a, n, said
  <2>4. \A i \in 1 .. n : said[i] = ids[a + i]
    <3>1. TAKE i \in 1 .. n
    <3>2. (a + 1) + i - 1 = a + i
      BY <1>1
    <3>. QED  BY <2>2, <2>3, <3>2
  <2>. QED  BY <2>2, <2>3, <2>4
<1>5. /\ asked \in Seq(Token) /\ Len(asked) = a /\ \A i \in 1 .. a : asked[i] = <<"prompt">>
      /\ DOMAIN asked = 1 .. a
  <2>1. \A i \in 1 .. a : ids[i] \in Token
    BY <1>1
  <2>2. a \in Nat /\ 1 <= a
    BY <1>1
  <2>3. \A i \in 1 .. a : ids[i] = <<"prompt">>
    BY DEF Tracked
  <2>. HIDE DEF a
  <2>4. /\ SubSeq(ids, 1, a) \in Seq(Token)
        /\ Len(SubSeq(ids, 1, a)) = IF 1 <= a THEN a - 1 + 1 ELSE 0
        /\ \A i \in 1 .. a - 1 + 1 : SubSeq(ids, 1, a)[i] = ids[1 + i - 1]
    BY <2>1, <2>2, SubSeqProperties
  <2>5. Len(asked) = a /\ \A i \in 1 .. a : asked[i] = ids[i]
    BY <2>2, <2>4
  <2>. QED  BY <2>3, <2>4, <2>5, LenProperties
<1>6. /\ resp = SubSeq(said, 1, r) /\ resp \in Seq(Token) /\ Len(resp) = r
      /\ \A i \in 1 .. r : resp[i] = said[i]
  <2>. HIDE DEF said
  <2>. QED  BY <1>4, CappedIs
<1>7. m2 \in Seq({0, 1}) /\ Len(m2) = r /\ DOMAIN m2 = 1 .. r /\ \A i \in 1 .. r : m2[i] = ms[i]
  BY CappedIs
<1>8. \A i \in 1 .. r : m2[i] = 1 <=> resp[i] = <<"model">>
  <2>1. TAKE i \in 1 .. r
  <2>2. i \in 1 .. n
    BY <1>1, <1>3
  <2>3. ms[i] = 1 <=> ids[a + i] = <<"model">>
    BY <2>2 DEF Tracked
  <2>. HIDE DEF a, n, r, said, resp, m2
  <2>. QED  BY <2>2, <2>3, <1>4, <1>6, <1>7
<1>9. p2 = IF scored THEN [i \in 1 .. r |-> m2[i] = 1] ELSE <<>>
  <2>1. CASE ~scored
    <3>1. probs = <<>> /\ <<>> \in Seq(BOOLEAN) /\ Len(<<>>) = 0
      BY <2>1, EmptySeq DEF Tracked
    <3>2. Tools!Capped(<<>>) = SubSeq(<<>>, 1, 0)
      <4>1. Tools!Min({0, ResponseLength}) = 0
        BY <1>1, ToolMin
      <4>. QED  BY <3>1, <4>1 DEF Tools!Capped
    <3>3. SubSeq(<<>>, 1, 0) = <<>>
      BY SubSeqEmpty
    <3>. QED  BY <2>1, <3>1, <3>2, <3>3
  <2>2. CASE scored
    <3>1. probs = [i \in 1 .. n |-> ms[i] = 1]
      BY <2>2 DEF Tracked
    <3>2. probs \in [1 .. n -> BOOLEAN]
      BY <3>1
    <3>3. probs \in Seq(BOOLEAN) /\ Len(probs) = n
      BY <1>1, <3>2, FunctionIsSeq
    <3>4. p2 \in Seq(BOOLEAN) /\ Len(p2) = r /\ \A i \in 1 .. r : p2[i] = probs[i]
      BY <3>3, CappedIs
    <3>. DEFINE f == [i \in 1 .. r |-> m2[i] = 1]
    <3>5. f \in [1 .. r -> BOOLEAN] /\ r \in Nat
      BY <1>3
    <3>6. f \in Seq(BOOLEAN) /\ Len(f) = r
      <4>. HIDE DEF f, r
      <4>. QED  BY <3>5, FunctionIsSeq
    <3>7. \A i \in 1 .. r : p2[i] = f[i]
      <4>1. TAKE i \in 1 .. r
      <4>2. i \in 1 .. n
        BY <1>1, <1>3
      <4>3. probs[i] = (ms[i] = 1)
        BY <3>1, <4>2
      <4>4. f[i] = (m2[i] = 1)
        OBVIOUS
      <4>5. m2[i] = ms[i] /\ p2[i] = probs[i]
        BY <1>7, <3>4
      <4>. HIDE DEF f, m2, p2, r, n
      <4>. QED  BY <4>3, <4>4, <4>5
    <3>8. p2 = f
      <4>. HIDE DEF f, p2, r
      <4>. QED  BY <3>4, <3>6, <3>7, SeqEqual
    <3>. QED  BY <2>2, <3>8
  <2>. QED  BY <2>1, <2>2
<1>10. Tools!ImagesIn(resp) = Tools!ImagesIn(ids)
  <2>. DEFINE rest == SubSeq(said, r + 1, n)
  <2>1. ids = asked \o said
    <3>1. 1 \in 1 .. Len(ids) + 1 /\ a \in 1 - 1 .. Len(ids) /\ Len(ids) \in a .. Len(ids)
      BY <1>1
    <3>2. SubSeq(ids, 1, a) \o SubSeq(ids, a + 1, Len(ids)) = SubSeq(ids, 1, Len(ids))
      <4>. HIDE DEF a
      <4>. QED  BY <3>1, ConcatAdjacentSubSeq
    <3>. QED  BY <3>2, SubSeqFull
  <2>2. said = resp \o rest
    <3>. HIDE DEF said, resp, r, n
    <3>1. 1 \in 1 .. Len(said) + 1 /\ r \in 1 - 1 .. Len(said) /\ Len(said) \in r .. Len(said)
      BY <1>1, <1>3, <1>4
    <3>2. SubSeq(said, 1, r) \o SubSeq(said, r + 1, Len(said)) = SubSeq(said, 1, Len(said))
      BY <1>4, <3>1, ConcatAdjacentSubSeq
    <3>. QED  BY <1>4, <1>6, <3>2, SubSeqFull
  <2>3. rest \in Seq(Token) /\ \A i \in 1 .. Len(rest) : rest[i] = <<"model">>
    <3>. HIDE DEF said
    <3>1. \A i \in 1 .. n : said[i] \in Token
      BY <1>4, LenProperties
    <3>2. r + 1 \in Int /\ n \in Int /\ \A i \in r + 1 .. n : said[i] \in Token
      BY <1>1, <1>3, <3>1
    <3>3. ASSUME NEW i \in r + 1 .. n PROVE said[i] = <<"model">>
      <4>1. i \in 1 .. n /\ i > ResponseLength
        BY <1>1, <1>3, <3>3
      <4>. QED  BY <4>1, <1>4
    <3>. HIDE DEF r, n
    <3>4. /\ rest \in Seq(Token)
          /\ Len(rest) = IF r + 1 <= n THEN n - (r + 1) + 1 ELSE 0
          /\ \A i \in 1 .. n - (r + 1) + 1 : rest[i] = said[(r + 1) + i - 1]
      BY <3>2, SubSeqProperties
    <3>5. ASSUME NEW i \in 1 .. Len(rest) PROVE rest[i] = <<"model">>
      <4>1. i \in 1 .. n - (r + 1) + 1 /\ (r + 1) + i - 1 \in r + 1 .. n
        BY <1>1, <1>3, <3>4
      <4>2. rest[i] = said[(r + 1) + i - 1]
        BY <3>4, <4>1
      <4>. QED  BY <3>3, <4>1, <4>2
    <3>. QED  BY <3>4, <3>5
  <2>. HIDE DEF asked, said, resp, rest
  <2>4. Tools!ImagesIn(asked) = <<>> /\ Tools!ImagesIn(rest) = <<>>
    <3>1. /\ \A i \in 1 .. Len(asked) : ~Tools!IsImage(asked[i])
          /\ \A i \in 1 .. Len(rest) : ~Tools!IsImage(rest[i])
      BY <1>5, <2>3, Tokens
    <3>. QED  BY <3>1, <1>5, <2>3, NoImages
  <2>5. /\ Tools!ImagesIn(ids) = <<>> \o Tools!ImagesIn(said)
        /\ Tools!ImagesIn(said) = Tools!ImagesIn(resp) \o <<>>
    <3>1. /\ asked \in Seq(Token) /\ said \in Seq(Token) /\ resp \in Seq(Token)
          /\ rest \in Seq(Token)
      BY <1>4, <1>5, <1>6, <2>3
    <3>2. Tools!ImagesIn(asked \o said) = Tools!ImagesIn(asked) \o Tools!ImagesIn(said)
      BY <3>1, ImagesConcat
    <3>3. Tools!ImagesIn(resp \o rest) = Tools!ImagesIn(resp) \o Tools!ImagesIn(rest)
      BY <3>1, ImagesConcat
    <3>. QED  BY <2>1, <2>2, <2>4, <3>2, <3>3
  <2>6. Tools!ImagesIn(said) \in Seq(Token) /\ Tools!ImagesIn(resp) \in Seq(Token)
    BY <1>4, <1>6, ShownType
  <2>. QED  BY <2>5, <2>6, ConcatEmptySeq
<1>11. asked # <<>> /\ Tools!Range(asked) = {<<"prompt">>}
  <2>1. 1 \in 1 .. a
    BY <1>1
  <2>. HIDE DEF asked, a
  <2>2. asked[1] = <<"prompt">> /\ asked # <<>>
    BY <1>5, <2>1, EmptySeq
  <2>3. \A x : x \in Tools!Range(asked) <=> \E i \in 1 .. a : x = asked[i]
    BY <1>5 DEF Tools!Range
  <2>. QED  BY <1>5, <2>1, <2>2, <2>3
<1>. HIDE DEF a, n, r, asked, said, resp, m2, p2
<1>12. /\ output'.prompt = asked /\ output'.response = resp /\ output'.mask = m2
       /\ output'.logprobs = p2
  BY <1>2
<1>. QED  BY <1>3, <1>6, <1>7, <1>8, <1>9, <1>10, <1>11, <1>12 DEF Tools!Aligned

LEMMA ToolStutters == ASSUME ToolInv, UNCHANGED toolVars PROVE ToolInv'
<1>1. /\ agent' = agent /\ promptIds' = promptIds /\ mask' = mask /\ logprobs' = logprobs
      /\ scored' = scored /\ images' = images /\ turns' = turns /\ calls' = calls
      /\ messages' = messages /\ output' = output
  BY DEF toolVars
<1>2. ToolTypes' = ToolTypes /\ Tools!Aligned' = Tools!Aligned
  BY <1>1 DEF ToolTypes, Tools!Aligned
<1>3. Tools!Shows(Tools!ImagesIn(promptIds), images)'
        = Tools!Shows(Tools!ImagesIn(promptIds), images)
  BY <1>1
<1>. QED  BY <1>1, <1>2, <1>3 DEF ToolInv

LEMMA ToolInit == Tools!Init => ToolInv
<1>. SUFFICES ASSUME Tools!Init PROVE ToolInv
  OBVIOUS
<1>1. /\ <<>> \in Seq(Token) /\ <<>> \in Seq({0, 1}) /\ <<>> \in Seq(CallStates)
      /\ <<>> \in Seq(Tools!Kinds) /\ Len(<<>>) = 0
  BY EmptySeq
<1>2. 0 <= PromptLength + ResponseLength /\ 0 <= MaxParallelCalls
  BY ToolConstants
<1>3. /\ agent = "off" /\ promptIds = <<>> /\ mask = <<>> /\ logprobs = <<>> /\ images = <<>>
      /\ scored = FALSE /\ turns = [assistant |-> 0, user |-> 0] /\ calls = <<>> /\ messages = <<>>
  BY DEF Tools!Init
<1>4. turns \in [assistant : Nat, user : Nat] /\ turns.assistant = turns.user
      /\ turns.assistant - turns.user \in {0, 1}
  BY <1>3
<1>5. ToolTypes
  BY <1>1, <1>2, <1>3, <1>4 DEF ToolTypes
<1>. QED  BY <1>3, <1>4, <1>5 DEF ToolInv

LEMMA PendingKeeps == ASSUME ToolInv, Tools!Pending PROVE ToolInv'
<1>. USE DEF Tools!Pending
<1>1. /\ agent = "off" /\ agent' = "generating" /\ mask' = mask /\ mask = <<>>
      /\ logprobs' = logprobs /\ logprobs = <<>> /\ images' = images /\ images = <<>>
      /\ turns' = turns /\ turns.assistant = turns.user /\ calls' = calls /\ messages' = messages
      /\ calls = <<>> /\ scored' \in BOOLEAN
  BY DEF ToolInv
<1>2. PICK n \in 1 .. PromptLength : promptIds' = Tools!Times(<<"prompt">>, n)
  OBVIOUS
<1>. HIDE DEF Tools!Pending
<1>3. /\ promptIds' \in Seq(Token) /\ Len(promptIds') = n
      /\ \A i \in 1 .. n : promptIds'[i] = <<"prompt">>
  <2>1. n \in Nat /\ <<"prompt">> \in Token
    BY ToolConstants, Tokens
  <2>. QED  BY <1>2, <2>1, TimesIs
<1>4. Len(mask') = 0 /\ n \in Nat /\ n - 0 = n /\ n <= PromptLength
  BY <1>1, ToolConstants
<1>5. Tracked(promptIds', mask', logprobs', scored')
  <2>1. [i \in 1 .. 0 |-> mask'[i] = 1] = <<>>
    <3>1. [i \in 1 .. 0 |-> mask'[i] = 1] \in [1 .. 0 -> BOOLEAN] /\ 0 \in Nat
      OBVIOUS
    <3>2. /\ [i \in 1 .. 0 |-> mask'[i] = 1] \in Seq(BOOLEAN)
          /\ Len([i \in 1 .. 0 |-> mask'[i] = 1]) = 0
      BY <3>1, FunctionIsSeq
    <3>. QED  BY <3>2, EmptySeq
  <2>2. \A i \in 1 .. 0 : FALSE
    OBVIOUS
  <2>3. n \in 1 .. PromptLength
    OBVIOUS
  <2>. QED  BY <1>1, <1>3, <1>4, <2>1, <2>2, <2>3 DEF Tracked
<1>6. Tools!Shows(Tools!ImagesIn(promptIds), images)'
  <2>1. \A i \in 1 .. Len(promptIds') : ~Tools!IsImage(promptIds'[i])
    BY <1>3, Tokens
  <2>2. Tools!ImagesIn(promptIds') = <<>>
    BY <1>3, <2>1, NoImages
  <2>. QED  BY <1>1, <2>2, ShowsNone
<1>7. ToolTypes'
  <2>1. Len(promptIds') <= PromptLength + ResponseLength
    BY <1>3, <1>4, ToolConstants
  <2>. QED  BY <1>1, <1>3, <2>1 DEF ToolInv, ToolTypes
<1>8. Len(mask') < ResponseLength
  BY <1>4, ToolConstants
<1>. QED  BY <1>1, <1>5, <1>6, <1>7, <1>8 DEF ToolInv

LEMMA GenerateKeeps == ASSUME ToolInv, Tools!Generate PROVE ToolInv'
<1>. DEFINE Ids(n) == promptIds \o Tools!Times(<<"model">>, n)
            Ms(n) == mask \o Tools!Times(1, n)
            Probs(n) == logprobs \o Tools!Times(TRUE, IF scored THEN n ELSE 0)
            Ended(n, called) == Tools!AtLimit(Len(Ms(n)), turns.assistant + 1) \/ called = 0
<1>1. PICK n \in 1 .. Tools!NewTokens, called \in 0 .. MaxCalls :
        /\ promptIds' = Ids(n) /\ mask' = Ms(n) /\ logprobs' = Probs(n)
        /\ agent' = IF Ended(n, called) THEN "terminated" ELSE "tools"
        /\ calls' = IF Ended(n, called) THEN <<>>
                    ELSE Tools!Times("called", Tools!Min({called, MaxParallelCalls}))
        /\ IF Ended(n, called) THEN Tools!Terminate(Ids(n), Ms(n), Probs(n)) ELSE UNCHANGED output
  BY DEF Tools!Generate
<1>2. /\ agent = "generating" /\ turns' = [turns EXCEPT !.assistant = @ + 1]
      /\ messages' = Tools!Times(0, Len(calls')) /\ scored' = scored /\ images' = images
  BY DEF Tools!Generate
<1>. HIDE DEF Ended
<1>3. /\ promptIds \in Seq(Token) /\ mask \in Seq({0, 1}) /\ scored \in BOOLEAN
      /\ Tracked(promptIds, mask, logprobs, scored)
      /\ Tools!Shows(Tools!ImagesIn(promptIds), images)
      /\ images \in Seq(Token) /\ turns.assistant = turns.user
      /\ Len(mask) < ResponseLength /\ turns \in [assistant : Nat, user : Nat]
      /\ Len(promptIds) <= PromptLength + ResponseLength
  BY <1>2 DEF ToolInv, ToolTypes
<1>4. /\ Len(promptIds) \in Nat /\ Len(mask) \in Nat
      /\ Len(promptIds) - Len(mask) \in 1 .. PromptLength
  BY <1>3, LenProperties DEF Tracked
<1>5. n \in Nat /\ n >= 1 /\ Len(promptIds) + n <= PromptLength + ResponseLength
  <2>1. PromptLength + ResponseLength - Len(promptIds) \in Int /\ ResponseLength \in Int
    BY <1>4, ToolConstants
  <2>2. Tools!NewTokens = IF ResponseLength <= PromptLength + ResponseLength - Len(promptIds)
                          THEN ResponseLength
                          ELSE PromptLength + ResponseLength - Len(promptIds)
    BY <2>1, ToolMin DEF Tools!NewTokens
  <2>. QED  BY <1>4, <2>1, <2>2, ToolConstants
<1>. DEFINE more == Tools!Times(<<"model">>, n)
<1>6. more \in Seq(Token) /\ Len(more) = n /\ \A i \in 1 .. n : more[i] = <<"model">>
  BY <1>5, Tokens, TimesIs
<1>7. /\ Ids(n) \in Seq(Token) /\ Len(Ids(n)) = Len(promptIds) + n
      /\ Ms(n) \in Seq({0, 1}) /\ Len(Ms(n)) = Len(mask) + n
      /\ Tracked(Ids(n), Ms(n), Probs(n), scored)
  <2>0. PICK bit \in {0, 1} : bit = 1
    OBVIOUS
  <2>1. \A i \in 1 .. Len(more) : bit = 1 <=> more[i] = <<"model">>
    BY <1>6, <2>0
  <2>. HIDE DEF more
  <2>2. /\ promptIds \o more \in Seq(Token) /\ Len(promptIds \o more) = Len(promptIds) + Len(more)
        /\ mask \o Tools!Times(bit, Len(more)) \in Seq({0, 1})
        /\ Len(mask \o Tools!Times(bit, Len(more))) = Len(mask) + Len(more)
        /\ Tracked(promptIds \o more, mask \o Tools!Times(bit, Len(more)),
                   logprobs \o Marks(bit, Len(more), scored), scored)
    <3>1. GrowsFrom(promptIds, mask, logprobs, scored, more, bit)
      BY <1>3, <1>6, <2>1 DEF GrowsFrom
    <3>2. GrowsTo(promptIds, mask, logprobs, scored, more, bit)
      BY <3>1, TrackedGrows
    <3>. QED  BY <3>2 DEF GrowsTo
  <2>3. (bit = 1) = TRUE
    BY <2>0
  <2>. QED  BY <1>6, <2>0, <2>2, <2>3 DEF more, Marks
<1>8. Tools!Shows(Tools!ImagesIn(Ids(n)), images)
  <2>1. \A i \in 1 .. Len(more) : ~Tools!IsImage(more[i])
    BY <1>6, Tokens
  <2>. HIDE DEF more
  <2>2. Tools!ImagesIn(more) = <<>>
    BY <1>6, <2>1, NoImages
  <2>3. Tools!ImagesIn(promptIds \o more) = Tools!ImagesIn(promptIds) \o <<>>
    BY <1>3, <1>6, <2>2, ImagesConcat
  <2>4. Tools!ImagesIn(promptIds) \in Seq(Token)
    BY <1>3, ShownType
  <2>5. Tools!ImagesIn(promptIds \o more) = Tools!ImagesIn(promptIds)
    BY <2>3, <2>4, ConcatEmptySeq
  <2>. QED  BY <1>3, <2>5 DEF more
<1>9. /\ turns' \in [assistant : Nat, user : Nat] /\ turns'.assistant = turns'.user + 1
  BY <1>2, <1>3
<1>10. CASE Ended(n, called)
  <2>1. /\ agent' = "terminated" /\ calls' = <<>> /\ Tools!Terminate(Ids(n), Ms(n), Probs(n))
    BY <1>1, <1>10
  <2>2. messages' \in Seq(Tools!Kinds) /\ Len(messages') = 0 /\ Len(calls') = 0
        /\ calls' \in Seq(CallStates)
    <3>1. 0 \in Tools!Kinds
      BY ToolConstants DEF Tools!Kinds, Tools!Video
    <3>2. calls' \in Seq(CallStates) /\ Len(calls') = 0
      BY <2>1, EmptySeq
    <3>. QED  BY <1>2, <3>1, <3>2, TimesIs
  <2>3. \A i \in 1 .. Len(Ms(n)) :
          i > ResponseLength => Ids(n)[(Len(Ids(n)) - Len(Ms(n))) + i] = <<"model">>
    <3>1. ASSUME NEW i \in 1 .. Len(mask) + n, i > ResponseLength
          PROVE  Ids(n)[(Len(Ids(n)) - Len(Ms(n))) + i] = <<"model">>
      <4>. DEFINE a == Len(promptIds) - Len(mask)
      <4>0. Len(Ids(n)) - Len(Ms(n)) = a
        <5>1. Len(Ids(n)) = Len(promptIds) + n /\ Len(Ms(n)) = Len(mask) + n
          BY <1>7
        <5>. HIDE DEF Ids, Ms
        <5>. QED  BY <1>4, <1>5, <5>1
      <4>1. PICK j \in 1 .. Len(promptIds) + Len(more) : j = a + i
        <5>1. Len(more) = n
          BY <1>6
        <5>. HIDE DEF more
        <5>2. a + i \in 1 .. Len(promptIds) + n
          BY <1>4, <1>5
        <5>. QED  BY <5>1, <5>2
      <4>2. /\ ~(j <= Len(promptIds)) /\ j - Len(promptIds) \in 1 .. n
        BY <1>3, <1>4, <1>5, <4>1, <3>1, ToolConstants
      <4>. HIDE DEF more
      <4>3. (promptIds \o more)[j] = more[j - Len(promptIds)]
        BY <1>3, <1>6, <4>1, <4>2, ConcatProperties
      <4>4. more[j - Len(promptIds)] = <<"model">>
        BY <1>6, <4>2
      <4>5. Ids(n)[j] = <<"model">>
        BY <4>3, <4>4 DEF more
      <4>. HIDE DEF a, Ids, Ms
      <4>. QED  BY <4>0, <4>1, <4>5
    <3>. HIDE DEF Ids, Ms
    <3>. QED  BY <1>7, <3>1
  <2>4. Len(Ms(n)) # 0
    BY <1>4, <1>5, <1>7
  <2>. HIDE DEF Ids, Ms, Probs
  <2>5. Tools!Aligned'
    BY <1>2, <1>3, <1>7, <1>8, <2>1, <2>3, <2>4, EndsAligned
  <2>6. Tools!Shows(Tools!ImagesIn(promptIds), images)'
    BY <1>1, <1>2, <1>8
  <2>7. ToolTypes'
    <3>1. Len(promptIds') <= PromptLength + ResponseLength
      BY <1>1, <1>5, <1>7
    <3>2. turns'.assistant - turns'.user \in {0, 1}
      BY <1>9
    <3>3. Len(calls') <= MaxParallelCalls /\ Len(messages') = Len(calls')
      BY <2>2, ToolConstants
    <3>. QED  BY <1>1, <1>2, <1>3, <1>7, <1>9, <2>1, <2>2, <3>1, <3>2, <3>3 DEF ToolTypes
  <2>8. Tracked(promptIds, mask, logprobs, scored)'
    BY <1>1, <1>2, <1>7
  <2>. QED  BY <2>1, <2>5, <2>6, <2>7, <2>8 DEF ToolInv
<1>11. CASE ~Ended(n, called)
  <2>1. /\ agent' = "tools"
        /\ calls' = Tools!Times("called", Tools!Min({called, MaxParallelCalls}))
    BY <1>1, <1>11
  <2>2. called # 0 /\ ~(Len(Ms(n)) >= ResponseLength)
    BY <1>11 DEF Ended, Tools!AtLimit
  <2>3. /\ calls' \in Seq(CallStates) /\ Len(calls') <= MaxParallelCalls
        /\ messages' \in Seq(Tools!Kinds) /\ Len(messages') = Len(calls')
    <3>1. called \in Int /\ MaxParallelCalls \in Int /\ called >= 0 /\ MaxParallelCalls >= 0
      BY ToolConstants
    <3>. DEFINE size == Tools!Min({called, MaxParallelCalls})
    <3>2. size \in Nat /\ size <= MaxParallelCalls
      BY <3>1, ToolMin
    <3>3. "called" \in CallStates /\ 0 \in Tools!Kinds
      BY ToolConstants DEF CallStates, Tools!Kinds, Tools!Video
    <3>4. calls' = Tools!Times("called", size)
      BY <2>1
    <3>. HIDE DEF size
    <3>5. calls' \in Seq(CallStates) /\ Len(calls') = size
      BY <3>2, <3>3, <3>4, TimesIs
    <3>6. messages' \in Seq(Tools!Kinds) /\ Len(messages') = size
      BY <1>2, <3>2, <3>3, <3>5, TimesIs
    <3>. QED  BY <3>2, <3>5, <3>6
  <2>4. Len(Ms(n)) \in 1 .. ResponseLength - 1
    BY <1>4, <1>5, <1>7, <2>2, ToolConstants
  <2>. HIDE DEF Ids, Ms, Probs
  <2>5. Tools!Shows(Tools!ImagesIn(promptIds), images)'
    BY <1>1, <1>2, <1>8
  <2>6. ToolTypes'
    <3>1. Len(promptIds') <= PromptLength + ResponseLength
      BY <1>1, <1>5, <1>7
    <3>2. turns'.assistant - turns'.user \in {0, 1}
      BY <1>9
    <3>. QED  BY <1>1, <1>2, <1>3, <1>7, <1>9, <2>1, <2>3, <3>1, <3>2 DEF ToolTypes
  <2>7. Tracked(promptIds, mask, logprobs, scored)'
    BY <1>1, <1>2, <1>7
  <2>8. Len(mask') \in 1 .. ResponseLength - 1
    BY <1>1, <2>4
  <2>. QED  BY <1>9, <2>1, <2>5, <2>6, <2>7, <2>8 DEF ToolInv
<1>. QED  BY <1>10, <1>11

LEMMA CallKeeps == ASSUME ToolInv, NEW c \in DOMAIN calls, Tools!Call(c) PROVE ToolInv'
<1>1. /\ calls \in Seq(CallStates) /\ messages \in Seq(Tools!Kinds) /\ Len(messages) = Len(calls)
      /\ DOMAIN calls = 1 .. Len(calls) /\ Len(calls) \in Nat /\ calls # <<>>
      /\ agent \in {"tools", "raised"} /\ ToolTypes
  <2>1. calls \in Seq(CallStates) /\ messages \in Seq(Tools!Kinds) /\ Len(messages) = Len(calls)
        /\ ToolTypes
    BY DEF ToolInv, ToolTypes
  <2>2. DOMAIN calls = 1 .. Len(calls) /\ Len(calls) \in Nat
    BY <2>1, LenProperties
  <2>3. calls # <<>>
    <3>1. 1 .. Len(calls) # {}
      BY <2>2
    <3>. QED  BY <3>1, <2>2, EmptySeq
  <2>. QED  BY <2>1, <2>2, <2>3 DEF ToolInv
<1>2. c \in 1 .. Len(calls) /\ c \in 1 .. Len(messages)
  BY <1>1
<1>3. \A to \in CallStates : /\ [calls EXCEPT ![c] = to] \in Seq(CallStates)
                            /\ Len([calls EXCEPT ![c] = to]) = Len(calls)
  BY <1>1, <1>2, ExceptSeq
<1>4. \A kind \in Tools!Kinds : /\ [messages EXCEPT ![c] = kind] \in Seq(Tools!Kinds)
                               /\ Len([messages EXCEPT ![c] = kind]) = Len(messages)
  BY <1>1, <1>2, ExceptSeq
<1>5. /\ "created" \in CallStates /\ "executed" \in CallStates /\ "answered" \in CallStates
      /\ "broken" \in CallStates
  BY DEF CallStates
<1>6. \E to \in CallStates : calls' = [calls EXCEPT ![c] = to]
  BY <1>5 DEF Tools!Call, Tools!AnswerAtOnce, Tools!Create, Tools!Execute, Tools!Release,
             Tools!ReleaseRaises, Tools!Goes
<1>7. messages' = messages \/ \E kind \in Tools!Kinds : messages' = [messages EXCEPT ![c] = kind]
  BY DEF Tools!Call, Tools!AnswerAtOnce, Tools!Create, Tools!Execute, Tools!Release,
        Tools!ReleaseRaises, Tools!Says
<1>8. /\ agent' \in {agent, "raised"} /\ promptIds' = promptIds /\ mask' = mask
      /\ logprobs' = logprobs /\ scored' = scored /\ images' = images /\ turns' = turns
  BY DEF Tools!Call, Tools!AnswerAtOnce, Tools!Create, Tools!Execute, Tools!Release,
        Tools!ReleaseRaises, Tools!agentVars
<1>9. /\ calls' \in Seq(CallStates) /\ messages' \in Seq(Tools!Kinds)
      /\ Len(messages') = Len(calls') /\ Len(calls') = Len(calls)
  BY <1>1, <1>3, <1>4, <1>6, <1>7
<1>10. agent' \in {"tools", "raised"}
  BY <1>1, <1>8
<1>11. ToolTypes'
  BY <1>1, <1>8, <1>9, <1>10 DEF ToolTypes
<1>12. Tools!ImagesIn(promptIds)' = Tools!ImagesIn(promptIds)
  BY <1>8
<1>13. agent # "off" /\ agent' # "off" /\ agent' # "generating" /\ agent' # "terminated"
       /\ (agent' = "tools" => agent = "tools")
  BY <1>1, <1>8, <1>10
<1>14. /\ Tracked(promptIds, mask, logprobs, scored)'
       /\ Tools!Shows(Tools!ImagesIn(promptIds), images)'
  BY <1>8, <1>12, <1>13 DEF ToolInv
<1>15. agent' = "tools" => /\ turns'.assistant = turns'.user + 1
                           /\ Len(mask') \in 1 .. ResponseLength - 1
  BY <1>8, <1>13 DEF ToolInv
<1>. QED  BY <1>10, <1>11, <1>13, <1>14, <1>15 DEF ToolInv

LEMMA VideoKeeps == ASSUME ToolInv, Tools!VideoRaises PROVE ToolInv'
<1>1. /\ agent = "tools" /\ agent' = "raised" /\ promptIds' = promptIds /\ mask' = mask
      /\ logprobs' = logprobs /\ scored' = scored /\ images' = images /\ turns' = turns
      /\ calls' = calls /\ messages' = messages
  BY DEF Tools!VideoRaises, Tools!Answered, Tools!agentVars
<1>2. ToolTypes'
  BY <1>1 DEF ToolInv, ToolTypes
<1>3. Tools!ImagesIn(promptIds)' = Tools!ImagesIn(promptIds)
  BY <1>1
<1>. QED  BY <1>1, <1>2, <1>3 DEF ToolInv

-----------------------------------------------------------------------------
(* The answer of the tools                                                 *)

\* Message by message, the places of the whole show the images of the whole.
LEMMA ImagesOfFlat ==
    ASSUME NEW cs \in Seq(Seq(Token)), NEW news \in Seq(Seq(Token)), Len(cs) = Len(news),
           \A i \in 1 .. Len(cs) : Tools!Shows(Tools!ImagesIn(cs[i]), news[i])
    PROVE  Tools!Shows(Tools!ImagesIn(Flat(cs)), Flat(news))
<1>. DEFINE T == {n \in Nat : n <= Len(cs) =>
                    Tools!Shows(Tools!ImagesIn(Flat(SubSeq(cs, 1, n))), Flat(SubSeq(news, 1, n)))}
<1>0. Len(cs) \in Nat /\ \A i \in 1 .. Len(cs) : cs[i] \in Seq(Token)
  BY LenProperties
<1>1. 0 \in T
  <2>1. Flat(SubSeq(cs, 1, 0)) = <<>> /\ Flat(SubSeq(news, 1, 0)) = <<>>
    BY FlatPrefix
  <2>2. <<>> \in Seq(Token) /\ Len(<<>>) = 0 /\ \A i \in 1 .. 0 : FALSE
    BY EmptySeq
  <2>3. Tools!ImagesIn(<<>>) = <<>>
    BY <2>2, NoImages
  <2>. QED  BY <2>1, <2>3, ShowsNone
<1>2. ASSUME NEW n \in Nat, n \in T PROVE n + 1 \in T
  <2>1. SUFFICES ASSUME n + 1 <= Len(cs)
                 PROVE Tools!Shows(Tools!ImagesIn(Flat(SubSeq(cs, 1, n + 1))),
                                   Flat(SubSeq(news, 1, n + 1)))
    OBVIOUS
  <2>2. n <= Len(cs) /\ n + 1 \in 1 .. Len(cs) /\ n \in 0 .. Len(cs)
    BY <1>0, <2>1
  <2>3. Tools!Shows(Tools!ImagesIn(Flat(SubSeq(cs, 1, n))), Flat(SubSeq(news, 1, n)))
    BY <1>2, <2>2
  <2>4. PICK m \in 1 .. Len(cs) : m = n + 1
    BY <2>2
  <2>5. /\ Flat(SubSeq(cs, 1, m)) = Flat(SubSeq(cs, 1, m - 1)) \o cs[m]
        /\ Flat(SubSeq(news, 1, m)) = Flat(SubSeq(news, 1, m - 1)) \o news[m]
    BY FlatPrefix
  <2>6. m - 1 = n
    BY <2>4
  <2>7. Flat(SubSeq(cs, 1, n)) \in Seq(Token) /\ cs[m] \in Seq(Token)
    BY <1>0, <2>2, FlatPrefix
  <2>8. Tools!ImagesIn(Flat(SubSeq(cs, 1, n)) \o cs[m])
          = Tools!ImagesIn(Flat(SubSeq(cs, 1, n))) \o Tools!ImagesIn(cs[m])
    BY <2>7, ImagesConcat
  <2>9. Tools!Shows(Tools!ImagesIn(cs[m]), news[m])
    OBVIOUS
  <2>10. /\ Tools!ImagesIn(Flat(SubSeq(cs, 1, n))) \in Seq(Token)
         /\ Tools!ImagesIn(cs[m]) \in Seq(Token)
    BY <2>7, ShownType
  <2>11. Tools!Shows(Tools!ImagesIn(Flat(SubSeq(cs, 1, n))) \o Tools!ImagesIn(cs[m]),
                     Flat(SubSeq(news, 1, n)) \o news[m])
    BY <2>3, <2>9, <2>10, ShowsConcat
  <2>. HIDE DEF T
  <2>. QED  BY <2>4, <2>5, <2>6, <2>8, <2>11
<1>3. \A n \in Nat : n \in T
  <2>. HIDE DEF T
  <2>. QED  BY <1>1, <1>2, Induction
<1>4. Tools!Shows(Tools!ImagesIn(Flat(SubSeq(cs, 1, Len(cs)))), Flat(SubSeq(news, 1, Len(cs))))
  BY <1>0, <1>3
<1>. QED  BY <1>4, FlatPrefix

NotModel == Token \ {<<"model">>}

\* A message is a token of text and, with images, one place for them.
LEMMA SaidIs ==
    ASSUME turns.user \in Nat, NEW c \in Nat, messages[c] \in 0 .. MaxImages
    PROVE  /\ Tools!Said(c) \in Seq(NotModel) /\ Tools!Said(c) \in Seq(Token)
           /\ Tools!Times(Tools!PlaceOf(c), messages[c]) \in Seq(Token)
           /\ Tools!Shows(Tools!ImagesIn(Tools!Said(c)),
                          Tools!Times(Tools!PlaceOf(c), messages[c]))
<1>. DEFINE place == Tools!PlaceOf(c)
            word == <<"tool">>
<1>1. /\ place \in Token /\ place # <<"model">> /\ Tools!IsImage(place)
      /\ word \in Token /\ word # <<"model">> /\ ~Tools!IsImage(word)
  BY Tokens DEF Tools!PlaceOf
<1>2. place \in NotModel /\ word \in NotModel
  BY <1>1 DEF NotModel
<1>. HIDE DEF place, word
<1>3. /\ <<word>> \in Seq(NotModel) /\ <<word, place>> \in Seq(NotModel)
      /\ <<word>> \in Seq(Token) /\ <<word, place>> \in Seq(Token) /\ <<place>> \in Seq(Token)
  BY <1>1, <1>2
<1>4. Tools!Times(place, messages[c]) \in Seq(Token)
  <2>1. messages[c] \in Nat
    BY ToolConstants
  <2>. QED  BY <1>1, <2>1, TimesIs
<1>5. Tools!ImagesIn(<<word>>) = <<>>
  <2>1. \A i \in 1 .. Len(<<word>>) : ~Tools!IsImage(<<word>>[i])
    BY <1>1
  <2>. QED  BY <1>3, <2>1, NoImages
<1>6. CASE messages[c] = 0
  <2>1. Tools!Said(c) = <<word>>
    BY <1>6 DEF Tools!Said, word
  <2>2. Tools!Times(place, 0) = <<>>
    <3>1. Tools!Times(place, 0) \in Seq(Token) /\ Len(Tools!Times(place, 0)) = 0
      BY <1>1, TimesIs
    <3>. QED  BY <3>1, EmptySeq
  <2>. QED  BY <1>3, <1>4, <1>5, <1>6, <2>1, <2>2, ShowsNone DEF place
<1>7. CASE messages[c] > 0
  <2>1. Tools!Said(c) = <<word, place>>
    BY <1>7 DEF Tools!Said, word, place
  <2>2. <<word, place>> = <<word>> \o <<place>>
    OBVIOUS
  <2>3. Tools!ImagesIn(<<place>>) = <<place>>
    BY <1>1, OneImage
  <2>4. Tools!ImagesIn(<<word, place>>) = <<>> \o <<place>>
    BY <1>3, <1>5, <2>2, <2>3, ImagesConcat
  <2>5. Tools!ImagesIn(<<word, place>>) = <<place>>
    BY <1>3, <2>4, ConcatEmptySeq
  <2>6. messages[c] \in 1 .. MaxImages
    BY <1>7, ToolConstants
  <2>7. Tools!Shows(<<place>>, Tools!Times(place, messages[c]))
    BY <1>1, <2>6, ShowsOne
  <2>. QED  BY <1>3, <1>4, <2>1, <2>5, <2>7 DEF place
<1>8. messages[c] = 0 \/ messages[c] > 0
  BY ToolConstants
<1>. QED  BY <1>6, <1>7, <1>8

LEMMA ResponseIs ==
    ASSUME ToolInv, \A c \in DOMAIN calls : messages[c] # Tools!Video
    PROVE  /\ Tools!Response \in Seq(NotModel) /\ Tools!Response \in Seq(Token)
           /\ Tools!NewImages \in Seq(Token)
           /\ Tools!Shows(Tools!ImagesIn(Tools!Response), Tools!NewImages)
<1>. DEFINE cs == [c \in DOMAIN calls |-> Tools!Said(c)]
            news == [c \in DOMAIN calls |-> Tools!Times(Tools!PlaceOf(c), messages[c])]
<1>1. /\ DOMAIN calls = 1 .. Len(calls) /\ Len(calls) \in Nat /\ turns.user \in Nat
      /\ \A c \in 1 .. Len(calls) : messages[c] \in Tools!Kinds
  BY LenProperties DEF ToolInv, ToolTypes
<1>2. \A c \in 1 .. Len(calls) : c \in Nat /\ messages[c] \in 0 .. MaxImages
  BY <1>1, ToolConstants DEF Tools!Kinds, Tools!Video
<1>3. ASSUME NEW c \in 1 .. Len(calls)
      PROVE  /\ Tools!Said(c) \in Seq(NotModel) /\ Tools!Said(c) \in Seq(Token)
             /\ Tools!Times(Tools!PlaceOf(c), messages[c]) \in Seq(Token)
             /\ Tools!Shows(Tools!ImagesIn(Tools!Said(c)),
                            Tools!Times(Tools!PlaceOf(c), messages[c]))
  BY <1>1, <1>2, SaidIs
<1>4. /\ cs \in [1 .. Len(calls) -> Seq(NotModel)] /\ cs \in [1 .. Len(calls) -> Seq(Token)]
      /\ news \in [1 .. Len(calls) -> Seq(Token)]
      /\ \A i \in 1 .. Len(calls) : Tools!Shows(Tools!ImagesIn(cs[i]), news[i])
  BY <1>1, <1>3
<1>5. Tools!Response = Flat(cs) /\ Tools!NewImages = Flat(news)
  BY ToolFlattens DEF Tools!Response, Tools!NewImages
<1>. HIDE DEF cs, news
<1>6. /\ cs \in Seq(Seq(NotModel)) /\ cs \in Seq(Seq(Token)) /\ Len(cs) = Len(calls)
      /\ news \in Seq(Seq(Token)) /\ Len(news) = Len(calls)
  BY <1>1, <1>4, FunctionIsSeq
<1>7. Tools!Shows(Tools!ImagesIn(Flat(cs)), Flat(news))
  BY <1>4, <1>6, ImagesOfFlat
<1>. QED  BY <1>5, <1>6, <1>7, FlatType

LEMMA RespondKeeps == ASSUME ToolInv, Tools!Respond PROVE ToolInv'
<1>1. /\ agent = "tools" /\ \A c \in DOMAIN calls : messages[c] # Tools!Video
      /\ calls' = <<>> /\ messages' = <<>> /\ scored' = scored
  BY DEF Tools!Respond, Tools!Answered
<1>2. /\ promptIds \in Seq(Token) /\ mask \in Seq({0, 1}) /\ scored \in BOOLEAN
      /\ images \in Seq(Token) /\ turns \in [assistant : Nat, user : Nat]
      /\ turns.assistant = turns.user + 1 /\ Len(mask) \in 1 .. ResponseLength - 1
      /\ Tracked(promptIds, mask, logprobs, scored)
      /\ Tools!Shows(Tools!ImagesIn(promptIds), images)
      /\ Len(promptIds) <= PromptLength + ResponseLength
  BY <1>1 DEF ToolInv, ToolTypes
<1>3. /\ Len(promptIds) \in Nat /\ Len(mask) \in Nat /\ Len(promptIds) - Len(mask) <= PromptLength
  BY <1>2, LenProperties, ToolConstants DEF Tracked
<1>4. /\ Tools!Response \in Seq(NotModel) /\ Tools!Response \in Seq(Token)
      /\ Tools!NewImages \in Seq(Token)
      /\ Tools!Shows(Tools!ImagesIn(Tools!Response), Tools!NewImages)
  BY <1>1, ResponseIs
<1>5. /\ calls' \in Seq(CallStates) /\ messages' \in Seq(Tools!Kinds)
      /\ Len(calls') = 0 /\ Len(messages') = 0 /\ Len(calls') <= MaxParallelCalls
  BY <1>1, EmptySeq, ToolConstants
<1>6. CASE Tools!Fits
  <2>. DEFINE more == Tools!Response
              n == Len(more)
  <2>1. /\ agent' = "generating" /\ images' = images \o Tools!NewImages
        /\ promptIds' = promptIds \o more /\ mask' = mask \o Tools!Times(0, n)
        /\ logprobs' = IF logprobs = <<>> THEN <<>> ELSE logprobs \o Tools!Times(FALSE, n)
        /\ turns' = [turns EXCEPT !.user = @ + 1]
    BY <1>6 DEF Tools!Respond
  <2>2. n \in Nat /\ \A i \in 1 .. n : more[i] # <<"model">>
    <3>1. more \in Seq(NotModel)
      BY <1>4
    <3>. HIDE DEF more
    <3>2. n \in Nat /\ \A i \in 1 .. n : more[i] \in NotModel
      BY <3>1, LenProperties
    <3>. QED  BY <3>2 DEF NotModel
  <2>3. Len(mask) + n < ResponseLength
    BY <1>6 DEF Tools!Fits
  <2>. HIDE DEF more, n
  <2>4. GrowsTo(promptIds, mask, logprobs, scored, more, 0)
    <3>1. \A i \in 1 .. Len(more) : 0 = 1 <=> more[i] = <<"model">>
      BY <2>2 DEF n
    <3>2. GrowsFrom(promptIds, mask, logprobs, scored, more, 0)
      BY <1>2, <1>4, <3>1 DEF GrowsFrom, more
    <3>. QED  BY <3>2, TrackedGrows
  <2>5. logprobs' = logprobs \o Marks(0, n, scored)
    <3>1. CASE scored
      <4>1. logprobs = [i \in 1 .. Len(mask) |-> mask[i] = 1]
        BY <1>2, <3>1 DEF Tracked
      <4>2. logprobs \in [1 .. Len(mask) -> BOOLEAN]
        BY <4>1
      <4>3. Len(logprobs) = Len(mask)
        BY <1>3, <4>2, FunctionIsSeq
      <4>4. logprobs # <<>>
        BY <1>2, <4>3, EmptySeq
      <4>5. Marks(0, n, scored) = Tools!Times(FALSE, n)
        <5>1. (0 = 1) = FALSE
          OBVIOUS
        <5>. QED  BY <3>1, <5>1 DEF Marks
      <4>. QED  BY <2>1, <4>4, <4>5
    <3>2. CASE ~scored
      <4>1. logprobs = <<>>
        BY <1>2, <3>2 DEF Tracked
      <4>2. Marks(0, n, scored) = <<>>
        <5>1. Marks(0, n, scored) = Tools!Times(0 = 1, 0)
          BY <3>2 DEF Marks
        <5>2. Tools!Times(0 = 1, 0) \in Seq(BOOLEAN) /\ Len(Tools!Times(0 = 1, 0)) = 0
          BY TimesIs
        <5>. QED  BY <5>1, <5>2, EmptySeq
      <4>3. <<>> \o <<>> = <<>>
        BY EmptySeq, ConcatEmptySeq
      <4>. QED  BY <2>1, <4>1, <4>2, <4>3
    <3>. QED  BY <3>1, <3>2
  <2>6. /\ promptIds' \in Seq(Token) /\ Len(promptIds') = Len(promptIds) + n
        /\ mask' \in Seq({0, 1}) /\ Len(mask') = Len(mask) + n
        /\ Tracked(promptIds', mask', logprobs', scored')
    BY <1>1, <2>1, <2>4, <2>5 DEF GrowsTo, n
  <2>7. Tools!Shows(Tools!ImagesIn(promptIds), images)'
    <3>1. Tools!ImagesIn(promptIds \o more)
            = Tools!ImagesIn(promptIds) \o Tools!ImagesIn(Tools!Response)
      BY <1>2, <1>4, ImagesConcat DEF more
    <3>2. /\ Tools!ImagesIn(promptIds) \in Seq(Token)
          /\ Tools!ImagesIn(Tools!Response) \in Seq(Token)
      BY <1>2, <1>4, ShownType
    <3>3. Tools!Shows(Tools!ImagesIn(promptIds) \o Tools!ImagesIn(Tools!Response),
                      images \o Tools!NewImages)
      BY <1>2, <1>4, <3>2, ShowsConcat
    <3>. QED  BY <2>1, <3>1, <3>3
  <2>8. /\ turns' \in [assistant : Nat, user : Nat] /\ turns'.assistant = turns'.user
        /\ turns'.assistant - turns'.user \in {0, 1}
    <3>1. /\ turns' \in [assistant : Nat, user : Nat] /\ turns'.assistant = turns.assistant
          /\ turns'.user = turns.user + 1
      BY <1>2, <2>1
    <3>. QED  BY <1>2, <3>1
  <2>9. ToolTypes'
    <3>1. Len(promptIds') <= PromptLength + ResponseLength
      BY <1>3, <2>2, <2>3, <2>6, ToolConstants
    <3>2. images' \in Seq(Token)
      BY <1>2, <1>4, <2>1, ConcatProperties
    <3>. QED  BY <1>1, <1>2, <1>5, <2>1, <2>6, <2>8, <3>1, <3>2 DEF ToolTypes
  <2>10. Len(mask') < ResponseLength
    BY <2>3, <2>6
  <2>11. Tracked(promptIds, mask, logprobs, scored)'
    BY <2>6
  <2>. QED  BY <1>1, <2>1, <2>7, <2>8, <2>9, <2>10, <2>11 DEF ToolInv
<1>7. CASE ~Tools!Fits
  <2>1. /\ agent' = "terminated" /\ images' = images /\ promptIds' = promptIds /\ mask' = mask
        /\ logprobs' = logprobs /\ turns' = turns
        /\ Tools!Terminate(promptIds, mask, logprobs)
    BY <1>7 DEF Tools!Respond, Tools!ImagesIfTooLong
  <2>2. Tools!Shows(Tools!ImagesIn(promptIds), images)'
    BY <1>2, <2>1
  <2>3. Tools!Aligned'
    <3>2. /\ Len(mask) # 0
          /\ \A i \in 1 .. Len(mask) :
               i > ResponseLength => promptIds[(Len(promptIds) - Len(mask)) + i] = <<"model">>
      <4>1. \A i \in 1 .. Len(mask) : ~(i > ResponseLength)
        BY <1>2, ToolConstants
      <4>. QED  BY <1>2, <4>1
    <3>3. Tools!Shows(Tools!ImagesIn(promptIds), images')
      BY <1>2, <2>1
    <3>. QED  BY <1>1, <1>2, <2>1, <3>2, <3>3, EndsAligned
  <2>4. ToolTypes'
    <3>1. turns'.assistant - turns'.user \in {0, 1}
      BY <1>2, <2>1
    <3>. QED  BY <1>1, <1>2, <1>5, <2>1, <3>1 DEF ToolTypes
  <2>5. /\ Tracked(promptIds, mask, logprobs, scored)'
        /\ Tools!Shows(Tools!ImagesIn(promptIds), images)'
    BY <1>1, <1>2, <2>1, <2>2
  <2>. QED  BY <1>1, <2>1, <2>3, <2>4, <2>5 DEF ToolInv
<1>. QED  BY <1>6, <1>7

LEMMA ToolKeeps == ASSUME ToolInv, [UtilNext]_all PROVE ToolInv'
<1>1. CASE InTools /\ Tools!Next
  BY <1>1, PendingKeeps, GenerateKeeps, CallKeeps, RespondKeeps, VideoKeeps DEF Tools!Next
<1>2. CASE UNCHANGED toolVars
  BY <1>2, ToolStutters
<1>3. \/ InTools /\ Tools!Next
      \/ UNCHANGED toolVars
  BY DEF UtilNext, all, InWeights, InResults, InRewards, InBalance, InTools, InValid, InOneStep,
        Stop, secondVars
<1>. QED  BY <1>1, <1>2, <1>3

LEMMA ToolAlways == FairSpec => []ToolInv
<1>1. UtilInit => ToolInv
  BY ToolInit DEF UtilInit
<1>2. ToolInv /\ [UtilNext]_all => ToolInv'
  BY ToolKeeps
<1>. QED  BY <1>1, <1>2, PTL DEF FairSpec

\* Whatever the limits on tokens, turns and calls, however many images a tool
\* returns and wherever the trajectory ends: what is trained on is exactly what
\* the model said.  Mask and log-probs are as long as the response and mark the
\* tokens of the model, and the images are those of the messages that have a place
\* in it, at least one each and in order: none of a response that was too long is
\* there, and none has lost its place with the end that was cut off.
THEOREM TrainedOnWhatWasSaid == FairSpec => []Aligned
<1>1. ToolInv => Aligned
  <2>1. SUFFICES ASSUME ToolInv PROVE Tools!Aligned
    BY DEF Aligned
  <2>2. CASE agent = "terminated"
    BY <2>1, <2>2 DEF ToolInv
  <2>3. CASE agent # "terminated"
    BY <2>3 DEF Tools!Aligned
  <2>. QED  BY <2>2, <2>3
<1>. QED  BY <1>1, ToolAlways, PTL

LEMMA ToolInvTypes == ToolInv => Tools!TypeOK
<1>. SUFFICES ASSUME ToolInv PROVE Tools!TypeOK
  OBVIOUS
<1>1. ToolTypes
  BY DEF ToolInv
<1>2. /\ DOMAIN mask = 1 .. Len(mask) /\ \A i \in 1 .. Len(mask) : mask[i] \in {0, 1}
      /\ DOMAIN calls = 1 .. Len(calls) /\ \A i \in 1 .. Len(calls) : calls[i] \in CallStates
      /\ \A i \in 1 .. Len(messages) : messages[i] \in Tools!Kinds
  BY <1>1, LenProperties DEF ToolTypes
<1>. QED  BY <1>1, <1>2 DEF ToolTypes, Tools!TypeOK, CallStates

-----------------------------------------------------------------------------
(* Arithmetic of the padding                                               *)

LEMMA DivMod ==
    ASSUME NEW a \in Int, NEW m \in Nat \ {0}
    PROVE  /\ a % m \in 0 .. m - 1 /\ a \div m \in Int /\ a = m * (a \div m) + (a % m)
OBVIOUS

LEMMA DivTimes ==
    ASSUME NEW d \in Int, NEW m \in Nat \ {0} PROVE (m * d) \div m = d
OBVIOUS

LEMMA ModSmall ==
    ASSUME NEW m \in Nat \ {0}, NEW a \in 0 .. m - 1 PROVE a % m = a
OBVIOUS

LEMMA TimesGrows ==
    ASSUME NEW n \in Nat, NEW m \in Nat, n <= m, NEW q \in Nat
    PROVE  n * q \in Nat /\ m * q \in Nat /\ n * q <= m * q /\ (n + 1) * q = n * q + q
OBVIOUS

LEMMA PadsUp ==
    ASSUME NEW a \in Nat, NEW m \in Nat \ {0}
    PROVE  /\ (-a) % m \in Nat /\ (a + ((-a) % m)) \div m \in Nat
           /\ a + ((-a) % m) = m * ((a + ((-a) % m)) \div m)
<1>. DEFINE p == (-a) % m
            d == (-a) \div m
<1>1. p \in 0 .. m - 1 /\ d \in Int /\ -a = m * d + p
  <2>1. -a \in Int
    OBVIOUS
  <2>. QED  BY <2>1, DivMod
<1>. HIDE DEF p, d
<1>2. -d \in Int /\ m * (-d) = -(m * d) /\ m * d \in Int
  BY <1>1
<1>3. a + p = m * (-d)
  BY <1>1, <1>2
<1>4. (a + p) \div m = -d
  BY <1>2, <1>3, DivTimes
<1>5. -d >= 0
  <2>1. SUFFICES ASSUME -d < 0 PROVE FALSE
    BY <1>2
  <2>2. -d <= -1
    BY <1>2, <2>1
  <2>3. m * (-d) <= -1
    BY <1>2, <2>2
  <2>4. a + p >= 0
    BY <1>1
  <2>. QED  BY <1>1, <1>3, <2>3, <2>4
<1>. QED  BY <1>1, <1>2, <1>3, <1>4, <1>5 DEF p

LEMMA ValidConstants ==
    /\ LoopWorkers \in Nat \ {0} /\ ValBatches \in Nat \ {0} /\ ValSizes \subseteq Nat \ {0}
    /\ MaxRaises \in Nat
BY UtilAssumption DEF UtilAssumption

LEMMA ValidFlattens == \A s : Validate!FlattenSeq(s) = Flat(s)
BY DEF Validate!FlattenSeq, Flat, Prefixes

-----------------------------------------------------------------------------
(* Equal chunks, one after the other, are the whole.                       *)

LEMMA ChunksAre ==
    ASSUME NEW S, NEW s \in Seq(S), NEW q \in Nat, Len(s) = LoopWorkers * q
    PROVE  /\ \A w \in Validate!LoopIds : /\ Validate!ChunkOf(s, w) \in Seq(S)
                                          /\ Len(Validate!ChunkOf(s, w)) = q
           /\ Flat([w \in Validate!LoopIds |-> Validate!ChunkOf(s, w)]) = s
<1>. DEFINE cs == [w \in Validate!LoopIds |-> Validate!ChunkOf(s, w)]
            T == {n \in Nat : n <= LoopWorkers =>
                                Flat(SubSeq(cs, 1, n)) = SubSeq(s, 1, n * q)}
<1>0. /\ Len(s) \in Nat /\ \A i \in 1 .. Len(s) : s[i] \in S
      /\ LoopWorkers \in Nat /\ Validate!LoopIds = 1 .. LoopWorkers
  BY ValidConstants, LenProperties DEF Validate!LoopIds
<1>1. Len(s) \div LoopWorkers = q
  BY ValidConstants, DivTimes
<1>2. ASSUME NEW w \in Validate!LoopIds
      PROVE  /\ Validate!ChunkOf(s, w) = SubSeq(s, (w - 1) * q + 1, w * q)
             /\ Validate!ChunkOf(s, w) \in Seq(S) /\ Len(Validate!ChunkOf(s, w)) = q
             /\ (w - 1) * q \in Nat /\ w * q = (w - 1) * q + q /\ w * q <= Len(s)
  <2>1. Validate!ChunkOf(s, w) = SubSeq(s, (w - 1) * q + 1, w * q)
    BY <1>1 DEF Validate!ChunkOf
  <2>2. w \in Nat /\ w - 1 \in Nat /\ w <= LoopWorkers /\ w - 1 <= w /\ (w - 1) + 1 = w
    BY <1>0
  <2>3. (w - 1) * q \in Nat /\ w * q \in Nat /\ w * q = (w - 1) * q + q
    BY <2>2, TimesGrows
  <2>4. w * q <= Len(s)
    BY <1>0, <2>2, TimesGrows
  <2>. DEFINE a == (w - 1) * q
              b == w * q
  <2>5. a \in Nat /\ b \in Nat /\ b = a + q /\ b <= Len(s)
    BY <2>3, <2>4
  <2>. HIDE DEF a, b
  <2>6. a + 1 \in Int /\ b \in Int /\ \A i \in a + 1 .. b : s[i] \in S
    BY <1>0, <2>5
  <2>7. /\ SubSeq(s, a + 1, b) \in Seq(S)
        /\ Len(SubSeq(s, a + 1, b)) = IF a + 1 <= b THEN b - (a + 1) + 1 ELSE 0
    BY <2>6, SubSeqProperties
  <2>8. Len(SubSeq(s, a + 1, b)) = q
    BY <2>5, <2>7
  <2>. QED  BY <2>1, <2>3, <2>4, <2>7, <2>8 DEF a, b
<1>3. cs \in Seq(Seq(S)) /\ Len(cs) = LoopWorkers
  <2>1. cs \in [1 .. LoopWorkers -> Seq(S)]
    BY <1>0, <1>2
  <2>. HIDE DEF cs
  <2>. QED  BY <1>0, <2>1, FunctionIsSeq
<1>4. 0 \in T
  <2>1. Flat(SubSeq(cs, 1, 0)) = <<>>
    BY <1>3, FlatPrefix
  <2>2. 0 * q = 0 /\ SubSeq(s, 1, 0) = <<>>
    BY SubSeqEmpty
  <2>. QED  BY <2>1, <2>2
<1>5. ASSUME NEW n \in Nat, n \in T PROVE n + 1 \in T
  <2>1. SUFFICES ASSUME n + 1 <= LoopWorkers
                 PROVE Flat(SubSeq(cs, 1, n + 1)) = SubSeq(s, 1, (n + 1) * q)
    OBVIOUS
  <2>2. n <= LoopWorkers /\ n + 1 \in 1 .. LoopWorkers
    BY <1>0, <2>1
  <2>3. Flat(SubSeq(cs, 1, n)) = SubSeq(s, 1, n * q)
    BY <1>5, <2>2
  <2>4. PICK w \in Validate!LoopIds : w = n + 1
    BY <1>0, <2>2
  <2>5. w - 1 = n /\ w \in 1 .. Len(cs)
    BY <1>0, <1>3, <2>4
  <2>6. cs[w] = SubSeq(s, (w - 1) * q + 1, w * q)
    BY <1>2
  <2>7. Flat(SubSeq(cs, 1, w)) = Flat(SubSeq(cs, 1, w - 1)) \o cs[w]
    <3>. HIDE DEF cs
    <3>. QED  BY <1>3, <2>5, FlatPrefix
  <2>8. (w - 1) * q \in Nat /\ w * q = (w - 1) * q + q /\ w * q <= Len(s)
    BY <1>2
  <2>. DEFINE a == (w - 1) * q
              b == w * q
  <2>9. SubSeq(s, 1, a) \o SubSeq(s, a + 1, b) = SubSeq(s, 1, b)
    <3>. HIDE DEF cs, T, a, b
    <3>1. 1 \in 1 .. Len(s) + 1 /\ a \in 1 - 1 .. Len(s) /\ b \in a .. Len(s)
      BY <1>0, <2>8 DEF a, b
    <3>. QED  BY <3>1, ConcatAdjacentSubSeq
  <2>. HIDE DEF cs, T
  <2>. QED  BY <2>3, <2>4, <2>5, <2>6, <2>7, <2>9 DEF a, b
<1>6. \A n \in Nat : n \in T
  <2>. HIDE DEF T
  <2>. QED  BY <1>4, <1>5, Induction
<1>7. Flat(SubSeq(cs, 1, LoopWorkers)) = SubSeq(s, 1, LoopWorkers * q)
  BY <1>0, <1>6
<1>8. Flat(cs) = s
  <2>. HIDE DEF cs, T
  <2>1. Flat(SubSeq(cs, 1, Len(cs))) = Flat(cs)
    BY <1>3, FlatPrefix
  <2>. QED  BY <1>3, <1>7, <2>1, SubSeqFull
<1>. QED  BY <1>2, <1>8

-----------------------------------------------------------------------------
(* A batch, padded, and cut back                                           *)

Entry == Nat \X Nat

\* The rows of batch b, as many as there are
BatchIs(those, b) ==
    /\ those \in Seq(Entry) /\ Len(those) \in Nat \ {0}
    /\ \A i \in 1 .. Len(those) : those[i] = <<b, i>>

LEMMA PaddedIs ==
    ASSUME NEW those, NEW b \in Nat \ {0}, BatchIs(those, b)
    PROVE  LET padded == Validate!Padded(those)
               n == Validate!PadSize(those)
           IN  /\ n \in Nat /\ padded \in Seq(Entry) /\ Len(padded) = Len(those) + n
               /\ DOMAIN padded = 1 .. Len(those) + n
               /\ \A i \in 1 .. Len(those) : padded[i] = those[i]
               /\ \A i \in 1 .. Len(padded) : padded[i] # Validate!Unscored
               /\ Len(padded) \div LoopWorkers \in Nat
               /\ Len(padded) = LoopWorkers * (Len(padded) \div LoopWorkers)
<1>. DEFINE padded == Validate!Padded(those)
            n == Validate!PadSize(those)
            m == Len(those)
<1>1. m \in Nat \ {0} /\ \A i \in 1 .. m : those[i] = <<b, i>> /\ those[i] \in Entry
  <2>1. those \in Seq(Entry) /\ m \in Nat \ {0} /\ \A i \in 1 .. m : those[i] = <<b, i>>
    BY DEF BatchIs
  <2>2. \A i \in 1 .. m : <<b, i>> \in Entry
    BY <2>1 DEF Entry
  <2>. QED  BY <2>1, <2>2
<1>2. n \in Nat /\ (m + n) \div LoopWorkers \in Nat /\ m + n = LoopWorkers * ((m + n) \div LoopWorkers)
  BY <1>1, ValidConstants, PadsUp DEF Validate!PadSize
<1>3. padded = [i \in 1 .. m + n |-> those[((i - 1) % m) + 1]]
  BY DEF Validate!Padded
<1>. HIDE DEF n, m, padded
<1>4. ASSUME NEW i \in 1 .. m + n PROVE ((i - 1) % m) + 1 \in 1 .. m
  <2>1. i - 1 \in Int
    BY <1>1, <1>2
  <2>2. (i - 1) % m \in 0 .. m - 1
    BY <1>1, <2>1, DivMod
  <2>. QED  BY <1>1, <2>2
<1>5. padded \in [1 .. m + n -> Entry] /\ m + n \in Nat
  BY <1>1, <1>2, <1>3, <1>4
<1>6. padded \in Seq(Entry) /\ Len(padded) = m + n /\ DOMAIN padded = 1 .. m + n
  BY <1>5, FunctionIsSeq
<1>7. ASSUME NEW i \in 1 .. m PROVE padded[i] = those[i]
  <2>1. i - 1 \in 0 .. m - 1 /\ i \in 1 .. m + n
    BY <1>1, <1>2
  <2>2. (i - 1) % m = i - 1
    BY <1>1, <2>1, ModSmall
  <2>3. padded[i] = those[((i - 1) % m) + 1]
    BY <1>3, <2>1
  <2>4. ((i - 1) % m) + 1 = i
    BY <1>1, <2>2
  <2>. QED  BY <2>3, <2>4
<1>8. ASSUME NEW i \in 1 .. m + n PROVE padded[i] # Validate!Unscored
  <2>1. PICK j \in 1 .. m : padded[i] = those[j]
    BY <1>3, <1>4
  <2>2. padded[i] = <<b, j>>
    BY <1>1, <2>1
  <2>. QED  BY <2>2 DEF Validate!Unscored
<1>. QED  BY <1>2, <1>6, <1>7, <1>8 DEF n, m, padded

ChunkIs(chunk, n) ==
    chunk \in Seq(Entry) /\ Len(chunk) = n /\ \A i \in 1 .. n : chunk[i] # Validate!Unscored

LEMMA BatchChunks ==
    ASSUME NEW those, NEW b \in Nat \ {0}, BatchIs(those, b)
    PROVE  /\ \E n \in Nat : \A w \in Validate!LoopIds :
                ChunkIs(Validate!ChunkOf(Validate!Padded(those), w), n)
           /\ Flat([w \in Validate!LoopIds |-> Validate!ChunkOf(Validate!Padded(those), w)])
                = Validate!Padded(those)
<1>. DEFINE padded == Validate!Padded(those)
            n == Len(padded) \div LoopWorkers
            Good == Entry \ {Validate!Unscored}
<1>1. /\ padded \in Seq(Entry) /\ n \in Nat /\ Len(padded) = LoopWorkers * n
      /\ \A i \in 1 .. Len(padded) : padded[i] # Validate!Unscored
  BY PaddedIs
<1>. HIDE DEF padded, n
<1>2. padded \in Seq(Good)
  <2>1. /\ Len(padded) \in Nat /\ padded \in [1 .. Len(padded) -> Entry]
    BY <1>1, LenProperties
  <2>2. padded \in [1 .. Len(padded) -> Good]
    BY <1>1, <2>1
  <2>. HIDE DEF Good
  <2>. QED  BY <2>1, <2>2, FunctionIsSeq
<1>3. /\ \A w \in Validate!LoopIds : /\ Validate!ChunkOf(padded, w) \in Seq(Good)
                                     /\ Len(Validate!ChunkOf(padded, w)) = n
      /\ Flat([w \in Validate!LoopIds |-> Validate!ChunkOf(padded, w)]) = padded
  <2>. HIDE DEF Good
  <2>. QED  BY <1>1, <1>2, ChunksAre
<1>4. ASSUME NEW chunk \in Seq(Good), Len(chunk) = n PROVE ChunkIs(chunk, n)
  <2>. HIDE DEF Good
  <2>1. chunk \in [1 .. n -> Good]
    BY <1>4, LenProperties
  <2>2. chunk \in [1 .. n -> Entry] /\ \A i \in 1 .. n : chunk[i] # Validate!Unscored
    BY <2>1 DEF Good
  <2>. QED  BY <1>1, <1>4, <2>2, FunctionIsSeq DEF ChunkIs
<1>. QED  BY <1>1, <1>3, <1>4 DEF padded

LEMMA CutsBack ==
    ASSUME NEW those, NEW b \in Nat \ {0}, BatchIs(those, b)
    PROVE  LET padded == Validate!Padded(those)
               n == Validate!PadSize(those)
           IN  /\ Validate!Unpad(padded, n) = those
               /\ Validate!Unpad([i \in DOMAIN padded |-> i], n) = [i \in 1 .. Len(those) |-> i]
<1>. DEFINE padded == Validate!Padded(those)
            n == Validate!PadSize(those)
            m == Len(those)
            places == [i \in DOMAIN padded |-> i]
            kept == [i \in 1 .. m |-> i]
<1>1. /\ n \in Nat /\ padded \in Seq(Entry) /\ Len(padded) = m + n /\ DOMAIN padded = 1 .. m + n
      /\ \A i \in 1 .. m : padded[i] = those[i]
  BY PaddedIs
<1>2. m \in Nat /\ those \in Seq(Entry)
  BY DEF BatchIs
<1>3. m + n - n = m /\ m + n \in Nat
  BY <1>1, <1>2
<1>4. places \in [1 .. m + n -> Nat] /\ kept \in [1 .. m -> Nat]
      /\ \A i \in 1 .. m : places[i] = kept[i]
  BY <1>1, <1>2
<1>. HIDE DEF padded, n, m, places, kept
<1>5. /\ places \in Seq(Nat) /\ Len(places) = m + n /\ kept \in Seq(Nat) /\ Len(kept) = m
  BY <1>2, <1>3, <1>4, FunctionIsSeq
<1>6. ASSUME NEW S, NEW s \in Seq(S), NEW t \in Seq(S), Len(s) = m + n, Len(t) = m,
             \A i \in 1 .. m : s[i] = t[i]
      PROVE  Validate!Unpad(s, n) = t
  <2>1. Validate!Unpad(s, n) = SubSeq(s, 1, m)
    <3>1. Len(s) - n = m
      BY <1>1, <1>2, <1>6
    <3>. QED  BY <3>1 DEF Validate!Unpad
  <2>2. \A i \in 1 .. m : s[i] \in S
    <3>1. \A i \in 1 .. Len(s) : s[i] \in S
      BY LenProperties
    <3>2. \A i \in 1 .. m : i \in 1 .. Len(s)
      BY <1>1, <1>2, <1>6
    <3>. QED  BY <3>1, <3>2
  <2>3. /\ SubSeq(s, 1, m) \in Seq(S)
        /\ Len(SubSeq(s, 1, m)) = IF 1 <= m THEN m - 1 + 1 ELSE 0
        /\ \A i \in 1 .. m - 1 + 1 : SubSeq(s, 1, m)[i] = s[1 + i - 1]
    BY <1>2, <2>2, SubSeqProperties
  <2>4. Len(SubSeq(s, 1, m)) = m /\ \A i \in 1 .. m : SubSeq(s, 1, m)[i] = s[i]
    BY <1>2, <2>3
  <2>5. Len(SubSeq(s, 1, m)) = Len(t) /\ \A i \in 1 .. Len(SubSeq(s, 1, m)) : SubSeq(s, 1, m)[i] = t[i]
    BY <1>6, <2>4
  <2>. QED  BY <2>1, <2>3, <2>5, SeqEqual
<1>7. those \in Seq(Entry) /\ Len(those) = m
  BY <1>2 DEF m
<1>8. Validate!Unpad(padded, n) = those
  BY <1>1, <1>6, <1>7
<1>9. Validate!Unpad(places, n) = kept
  BY <1>4, <1>5, <1>6
<1>. QED  BY <1>8, <1>9 DEF padded, n, m, places, kept

-----------------------------------------------------------------------------
(* The streams of rewards                                                  *)

\* The scores so far of a chunk
Scored(s, chunk) ==
    /\ s \in Seq(Entry) /\ Len(s) = Len(chunk)
    /\ \A i \in 1 .. Len(s) : s[i] \in {Validate!Unscored, chunk[i]}

Streams(rw, rr) ==
    \A b \in DOMAIN rw :
        /\ rw[b] = [w \in Validate!LoopIds |-> rw[b][w]]
        /\ \A w \in Validate!LoopIds :
             Scored(rw[b][w], Validate!ChunkOf(Validate!Padded(rr[b]), w))

\* Nothing unscored is left.
AllScored(s) == {i \in DOMAIN s : s[i] = Validate!Unscored} = {}

RowsAre(rr) == /\ rr = [b \in 1 .. ValBatches |-> rr[b]]
               /\ \A b \in 1 .. ValBatches : BatchIs(rr[b], b)

LEMMA NothingScored ==
    ASSUME NEW chunk, NEW n \in Nat, ChunkIs(chunk, n)
    PROVE  Scored([i \in DOMAIN chunk |-> Validate!Unscored], chunk)
<1>. DEFINE s == [i \in DOMAIN chunk |-> Validate!Unscored]
<1>1. DOMAIN chunk = 1 .. n /\ Len(chunk) = n
  BY LenProperties DEF ChunkIs
<1>2. Validate!Unscored \in Entry
  BY DEF Validate!Unscored, Entry
<1>3. s \in [1 .. n -> Entry] /\ \A i \in 1 .. n : s[i] = Validate!Unscored
  BY <1>1, <1>2
<1>. HIDE DEF s
<1>4. s \in Seq(Entry) /\ Len(s) = n
  BY <1>3, FunctionIsSeq
<1>. QED  BY <1>1, <1>3, <1>4 DEF Scored, s

LEMMA OneMoreScored ==
    ASSUME NEW chunk, NEW n \in Nat, ChunkIs(chunk, n), NEW s, Scored(s, chunk),
           NEW i \in DOMAIN s
    PROVE  Scored([s EXCEPT ![i] = chunk[i]], chunk)
<1>. DEFINE t == [s EXCEPT ![i] = chunk[i]]
<1>1. s \in Seq(Entry) /\ Len(s) = n /\ DOMAIN s = 1 .. n /\ Len(chunk) = n /\ chunk \in Seq(Entry)
  BY LenProperties DEF ChunkIs, Scored
<1>2. i \in 1 .. Len(s) /\ chunk[i] \in Entry
  <2>1. \A j \in 1 .. n : chunk[j] \in Entry
    BY <1>1, LenProperties
  <2>. QED  BY <1>1, <2>1
<1>3. /\ t \in Seq(Entry) /\ Len(t) = Len(s)
      /\ \A j \in 1 .. Len(s) : t[j] = IF j = i THEN chunk[i] ELSE s[j]
  BY <1>1, <1>2, ExceptSeq
<1>. HIDE DEF t
<1>4. \A j \in 1 .. n : t[j] \in {Validate!Unscored, chunk[j]}
  BY <1>1, <1>3 DEF Scored
<1>. QED  BY <1>1, <1>3, <1>4 DEF Scored, t

\* Once all scores of a batch are there, they are the scores of its rows.
LEMMA AllScoredIs ==
    ASSUME NEW chunk, NEW n \in Nat, ChunkIs(chunk, n), NEW s, Scored(s, chunk), AllScored(s)
    PROVE  s = chunk
<1>1. s \in Seq(Entry) /\ Len(s) = n /\ DOMAIN s = 1 .. n /\ Len(chunk) = n /\ chunk \in Seq(Entry)
  BY LenProperties DEF ChunkIs, Scored
<1>2. \A i \in 1 .. n : s[i] = chunk[i]
  BY <1>1 DEF Scored, AllScored
<1>. QED  BY <1>1, <1>2, SeqEqual

LEMMA BatchScored ==
    ASSUME NEW rw, NEW rr, NEW b \in 1 .. ValBatches, RowsAre(rr), b \in DOMAIN rw, Streams(rw, rr),
           \A w \in Validate!LoopIds : AllScored(rw[b][w])
    PROVE  Validate!Concat(rw[b]) = Validate!Padded(rr[b])
<1>. DEFINE Chunk(w) == Validate!ChunkOf(Validate!Padded(rr[b]), w)
<1>1. b \in Nat \ {0} /\ BatchIs(rr[b], b)
  BY ValidConstants DEF RowsAre
<1>2. PICK n \in Nat : \A w \in Validate!LoopIds : ChunkIs(Chunk(w), n)
  BY <1>1, BatchChunks
<1>3. ASSUME NEW w \in Validate!LoopIds PROVE rw[b][w] = Chunk(w)
  <2>1. Scored(rw[b][w], Chunk(w)) /\ AllScored(rw[b][w]) /\ ChunkIs(Chunk(w), n)
    BY <1>2 DEF Streams
  <2>. HIDE DEF Chunk
  <2>. QED  BY <2>1, AllScoredIs
<1>4. [w \in Validate!LoopIds |-> rw[b][w]] = [w \in Validate!LoopIds |-> Chunk(w)]
  BY <1>3
<1>5. Validate!Concat(rw[b]) = Flat([w \in Validate!LoopIds |-> rw[b][w]])
  BY ValidFlattens DEF Validate!Concat
<1>. QED  BY <1>1, <1>4, <1>5, BatchChunks

LEMMA AnswersAre ==
    ASSUME NEW b \in 1 .. ValBatches, RowsAre(rows)
    PROVE  Validate!Concat([w \in Validate!LoopIds |-> Validate!Sent(b, w)])
             = Validate!Padded(rows[b])
<1>. DEFINE f == [w \in Validate!LoopIds |-> Validate!Sent(b, w)]
<1>1. b \in Nat \ {0} /\ BatchIs(rows[b], b)
  BY ValidConstants DEF RowsAre
<1>2. [w \in Validate!LoopIds |-> f[w]] =
        [w \in Validate!LoopIds |-> Validate!ChunkOf(Validate!Padded(rows[b]), w)]
  BY DEF Validate!Sent
<1>3. Validate!Concat(f) = Flat([w \in Validate!LoopIds |-> f[w]])
  BY ValidFlattens DEF Validate!Concat
<1>. QED  BY <1>1, <1>2, <1>3, BatchChunks

\* A batch is sent to the workers.
LEMMA DispatchKeeps ==
    ASSUME NEW rr, NEW b \in Nat \ {0}, BatchIs(rr[b], b), Streams(rewards, rr),
           Validate!Dispatch(b, rr[b])
    PROVE  /\ Streams(rewards', rr) /\ DOMAIN rewards' = DOMAIN rewards \cup {b}
           /\ rewards' = [c \in DOMAIN rewards' |-> rewards'[c]]
           /\ sent' = b /\ answering' = Validate!LoopIds
<1>. DEFINE Chunk(w) == Validate!ChunkOf(Validate!Padded(rr[b]), w)
            new == [w \in Validate!LoopIds |-> [i \in DOMAIN Chunk(w) |-> Validate!Unscored]]
<1>1. /\ rewards' = [c \in DOMAIN rewards \cup {b} |-> IF c \in DOMAIN rewards THEN rewards[c] ELSE new]
      /\ sent' = b /\ answering' = Validate!LoopIds
  BY DEF Validate!Dispatch
<1>2. PICK n \in Nat : \A w \in Validate!LoopIds : ChunkIs(Chunk(w), n)
  BY BatchChunks
<1>3. \A w \in Validate!LoopIds : new[w] = [i \in DOMAIN Chunk(w) |-> Validate!Unscored]
  OBVIOUS
<1>4. new = [w \in Validate!LoopIds |-> new[w]]
  OBVIOUS
<1>5. ASSUME NEW w \in Validate!LoopIds PROVE Scored(new[w], Chunk(w))
  <2>1. ChunkIs(Chunk(w), n) /\ new[w] = [i \in DOMAIN Chunk(w) |-> Validate!Unscored]
    BY <1>2, <1>3
  <2>. HIDE DEF Chunk, new
  <2>. QED  BY <2>1, NothingScored
<1>6. ASSUME NEW c \in DOMAIN rewards'
      PROVE  /\ rewards'[c] = [w \in Validate!LoopIds |-> rewards'[c][w]]
             /\ \A w \in Validate!LoopIds :
                  Scored(rewards'[c][w], Validate!ChunkOf(Validate!Padded(rr[c]), w))
  <2>1. CASE c \in DOMAIN rewards
    <3>1. rewards'[c] = rewards[c]
      BY <1>1, <2>1
    <3>. QED  BY <2>1, <3>1 DEF Streams
  <2>2. CASE c \notin DOMAIN rewards
    <3>1. c = b /\ rewards'[c] = new
      BY <1>1, <2>2
    <3>2. \A w \in Validate!LoopIds :
            Scored(new[w], Validate!ChunkOf(Validate!Padded(rr[b]), w))
      BY <1>5
    <3>. HIDE DEF new
    <3>. QED  BY <1>4, <3>1, <3>2
  <2>. QED  BY <2>1, <2>2
<1>7. DOMAIN rewards' = DOMAIN rewards \cup {b}
  BY <1>1
<1>8. rewards' = [c \in DOMAIN rewards' |-> rewards'[c]]
  <2>. DEFINE f == [c \in DOMAIN rewards \cup {b} |-> IF c \in DOMAIN rewards THEN rewards[c] ELSE new]
  <2>1. f = [c \in DOMAIN f |-> f[c]]
    OBVIOUS
  <2>. QED  BY <1>1, <2>1
<1>. QED  BY <1>1, <1>6, <1>7, <1>8 DEF Streams

-----------------------------------------------------------------------------
(* The inductive invariant of the validation                               *)

Triple(rr, b) == [i \in DOMAIN rr[b] |-> <<rr[b][i], rr[b][i], rr[b][i]>>]
Triples(rr)   == [b \in 1 .. ValBatches |-> Triple(rr, b)]

RecordOf(rr, how, b) ==
    [batch |-> b, answers |-> rr[b], indices |-> [i \in 1 .. Len(rr[b]) |-> i],
     scores |-> IF how = "blocking" THEN rr[b] ELSE <<>>]

RecordsOf(rr, how) == {RecordOf(rr, how, b) : b \in Nat}

\* The records of the n batches after batch from
Recorded(rr, how, from, n) == [j \in 1 .. n |-> RecordOf(rr, how, from + j)]

\* So many batches are in the report, the others in records and rewards.
Redeemed(n) ==
    /\ records = Recorded(rows, streaming, n, ValBatches - n)
    /\ DOMAIN rewards = n + 1 .. ValBatches
    /\ report = Flat(SubSeq(Triples(rows), 1, n))

ValidInv ==
    /\ Validate!TypeOK
    /\ rewards = [b \in DOMAIN rewards |-> rewards[b]]
    /\ Streams(rewards, rows)
    /\ validator = "off" => rewards = <<>> /\ records = <<>> /\ report = <<>> /\ raised = {}
    /\ validator # "off" => RowsAre(rows) /\ sent \in 1 .. ValBatches
    /\ validator = "generate" =>
         /\ records = Recorded(rows, streaming, 0, sent - 1) /\ report = <<>>
         /\ DOMAIN rewards = 1 .. sent
         /\ streaming = "blocking" =>
              \A w \in Validate!LoopIds \ answering : AllScored(rewards[sent][w])
    /\ validator = "redeem" => sent = ValBatches /\ \E n \in 0 .. ValBatches : Redeemed(n)
    /\ validator = "done" => Validate!RowsInPlace

LEMMA TriplesAre ==
    ASSUME NEW rr, RowsAre(rr)
    PROVE  \E S : /\ Triples(rr) \in Seq(Seq(S)) /\ Len(Triples(rr)) = ValBatches
                  /\ \A b \in 1 .. ValBatches : Triples(rr)[b] = Triple(rr, b)
<1>. DEFINE S == Entry \X Entry \X Entry
<1>1. ASSUME NEW b \in 1 .. ValBatches PROVE Triple(rr, b) \in Seq(S)
  <2>1. rr[b] \in Seq(Entry)
    BY DEF RowsAre, BatchIs
  <2>2. DOMAIN rr[b] = 1 .. Len(rr[b]) /\ Len(rr[b]) \in Nat /\ \A i \in 1 .. Len(rr[b]) : rr[b][i] \in Entry
    BY <2>1, LenProperties
  <2>. HIDE DEF Entry
  <2>3. Triple(rr, b) \in [1 .. Len(rr[b]) -> S]
    BY <2>2 DEF Triple
  <2>. HIDE DEF S
  <2>. QED  BY <2>2, <2>3, FunctionIsSeq
<1>2. Triples(rr) \in [1 .. ValBatches -> Seq(S)] /\ ValBatches \in Nat
  <2>. HIDE DEF S
  <2>. QED  BY <1>1, ValidConstants DEF Triples
<1>3. Triples(rr) \in Seq(Seq(S)) /\ Len(Triples(rr)) = ValBatches
  <2>. HIDE DEF S
  <2>. QED  BY <1>2, FunctionIsSeq
<1>4. \A b \in 1 .. ValBatches : Triples(rr)[b] = Triple(rr, b)
  BY DEF Triples
<1>. QED  BY <1>3, <1>4

InOrder(r, rr, how, from, n) == \A j \in 1 .. n : r[j] = RecordOf(rr, how, from + j)

LEMMA RecordedAre ==
    \A rr, how : \A from, n \in Nat :
           /\ Recorded(rr, how, from, n) \in Seq(RecordsOf(rr, how))
           /\ Len(Recorded(rr, how, from, n)) = n
           /\ InOrder(Recorded(rr, how, from, n), rr, how, from, n)
<1>. TAKE rr, how
<1>. TAKE from, n \in Nat
<1>. DEFINE S == RecordsOf(rr, how)
<1>1. Recorded(rr, how, from, n) \in [1 .. n -> S]
  BY DEF Recorded, RecordsOf
<1>. HIDE DEF S
<1>2. Recorded(rr, how, from, n) \in Seq(S) /\ Len(Recorded(rr, how, from, n)) = n
  BY <1>1, FunctionIsSeq
<1>3. \A j \in 1 .. n : Recorded(rr, how, from, n)[j] = RecordOf(rr, how, from + j)
  BY DEF Recorded
<1>. QED  BY <1>2, <1>3 DEF S, InOrder

LEMMA OneMoreRecorded ==
    ASSUME NEW rr, NEW how, NEW from \in Nat, NEW n \in Nat
    PROVE  Append(Recorded(rr, how, from, n), RecordOf(rr, how, from + n + 1))
             = Recorded(rr, how, from, n + 1)
<1>. DEFINE r == Recorded(rr, how, from, n)
            s == Recorded(rr, how, from, n + 1)
            S == RecordsOf(rr, how)
            new == RecordOf(rr, how, from + n + 1)
<1>1. /\ r \in Seq(S) /\ Len(r) = n /\ \A j \in 1 .. n : r[j] = RecordOf(rr, how, from + j)
      /\ s \in Seq(S) /\ Len(s) = n + 1 /\ \A j \in 1 .. n + 1 : s[j] = RecordOf(rr, how, from + j)
  <2>1. /\ r \in Seq(S) /\ Len(r) = n /\ \A j \in 1 .. n : r[j] = RecordOf(rr, how, from + j)
    BY RecordedAre DEF InOrder
  <2>2. PICK m \in Nat : m = n + 1
    OBVIOUS
  <2>3. /\ Recorded(rr, how, from, m) \in Seq(S) /\ Len(Recorded(rr, how, from, m)) = m
        /\ \A j \in 1 .. m : Recorded(rr, how, from, m)[j] = RecordOf(rr, how, from + j)
    <3>1. /\ Recorded(rr, how, from, m) \in Seq(S) /\ Len(Recorded(rr, how, from, m)) = m
          /\ InOrder(Recorded(rr, how, from, m), rr, how, from, m)
      BY RecordedAre
    <3>. QED  BY <3>1 DEF InOrder
  <2>. HIDE DEF r, S
  <2>. QED  BY <2>1, <2>2, <2>3
<1>2. new \in S
  <2>1. from + n + 1 \in Nat
    OBVIOUS
  <2>. QED  BY <2>1 DEF RecordsOf
<1>. HIDE DEF r, s, S
<1>4. /\ Append(r, new) \in Seq(S) /\ Len(Append(r, new)) = n + 1
      /\ \A j \in 1 .. n : Append(r, new)[j] = r[j]
      /\ Append(r, new)[n + 1] = new
  <2>. HIDE DEF new
  <2>. QED  BY <1>1, <1>2, AppendProperties
<1>5. ASSUME NEW j \in 1 .. n + 1 PROVE Append(r, new)[j] = s[j]
  <2>1. CASE j \in 1 .. n
    BY <1>1, <1>4, <2>1
  <2>2. CASE j = n + 1
    <3>1. s[j] = RecordOf(rr, how, from + j)
      BY <1>1
    <3>2. from + j = from + n + 1
      BY <2>2
    <3>3. s[j] = new
      BY <3>1, <3>2
    <3>. HIDE DEF new
    <3>. QED  BY <1>4, <2>2, <3>3
  <2>3. j \in 1 .. n \/ j = n + 1
    OBVIOUS
  <2>. QED  BY <2>1, <2>2, <2>3
<1>6. Append(r, new) = s
  <2>. HIDE DEF new
  <2>. QED  BY <1>1, <1>4, <1>5, SeqEqual
<1>. QED  BY <1>6 DEF r, s

LEMMA OneLessRecorded ==
    ASSUME NEW rr, NEW how, NEW from \in Nat, NEW n \in Nat, n > 0
    PROVE  /\ Recorded(rr, how, from, n) # <<>>
           /\ Head(Recorded(rr, how, from, n)) = RecordOf(rr, how, from + 1)
           /\ Tail(Recorded(rr, how, from, n)) = Recorded(rr, how, from + 1, n - 1)
<1>. DEFINE r == Recorded(rr, how, from, n)
            s == Recorded(rr, how, from + 1, n - 1)
            S == RecordsOf(rr, how)
<1>1. /\ r \in Seq(S) /\ Len(r) = n /\ \A j \in 1 .. n : r[j] = RecordOf(rr, how, from + j)
      /\ s \in Seq(S) /\ Len(s) = n - 1
      /\ \A j \in 1 .. n - 1 : s[j] = RecordOf(rr, how, (from + 1) + j)
  <2>1. /\ r \in Seq(S) /\ Len(r) = n /\ \A j \in 1 .. n : r[j] = RecordOf(rr, how, from + j)
    BY RecordedAre DEF InOrder
  <2>2. PICK m \in Nat : m = n - 1
    OBVIOUS
  <2>4. PICK a \in Nat : a = from + 1
    OBVIOUS
  <2>. HIDE DEF r, s
  <2>3. /\ Recorded(rr, how, a, m) \in Seq(S) /\ Len(Recorded(rr, how, a, m)) = m
        /\ \A j \in 1 .. m : Recorded(rr, how, a, m)[j] = RecordOf(rr, how, a + j)
    <3>1. Recorded(rr, how, a, m) \in Seq(S)
      BY RecordedAre
    <3>2. Len(Recorded(rr, how, a, m)) = m
      BY RecordedAre
    <3>3. InOrder(Recorded(rr, how, a, m), rr, how, a, m)
      BY RecordedAre
    <3>. QED  BY <3>1, <3>2, <3>3 DEF InOrder
  <2>. HIDE DEF S
  <2>. QED  BY <2>1, <2>2, <2>3, <2>4 DEF s
<1>. HIDE DEF r, s, S
<1>2. r # <<>>
  BY <1>1, EmptySeq
<1>3. /\ Tail(r) \in Seq(S) /\ Len(Tail(r)) = n - 1
      /\ \A j \in 1 .. n - 1 : Tail(r)[j] = r[j + 1]
  BY <1>1, <1>2, HeadTailProperties
<1>4. ASSUME NEW j \in 1 .. n - 1 PROVE Tail(r)[j] = s[j]
  <2>1. j + 1 \in 1 .. n /\ (from + 1) + j = from + (j + 1)
    OBVIOUS
  <2>2. r[j + 1] = RecordOf(rr, how, from + (j + 1))
    BY <1>1, <2>1
  <2>. QED  BY <1>1, <1>3, <2>1, <2>2
<1>5. Tail(r) = s
  BY <1>1, <1>3, <1>4, SeqEqual
<1>6. Head(r) = r[1] /\ 1 \in 1 .. n
  BY <1>1, <1>2
<1>. QED  BY <1>1, <1>2, <1>5, <1>6 DEF r, s

-----------------------------------------------------------------------------
(* Its steps                                                               *)

LEMMA ValidStutters == ASSUME ValidInv, UNCHANGED validVars PROVE ValidInv'
<1>1. /\ validator' = validator /\ rows' = rows /\ streaming' = streaming /\ answering' = answering
      /\ sent' = sent /\ rewards' = rewards /\ raised' = raised /\ records' = records
      /\ report' = report
  BY DEF validVars
<1>2. /\ Validate!TypeOK' = Validate!TypeOK /\ Validate!RowsInPlace' = Validate!RowsInPlace
      /\ \A n : Redeemed(n)' = Redeemed(n)
  BY <1>1 DEF Validate!TypeOK, Validate!RowsInPlace, Redeemed
<1>. QED  BY <1>1, <1>2 DEF ValidInv

LEMMA NoStreams == \A rr : Streams(<<>>, rr)
BY DEF Streams

LEMMA ValidInit == Validate!Init => ValidInv
<1>. SUFFICES ASSUME Validate!Init PROVE ValidInv
  OBVIOUS
<1>1. /\ validator = "off" /\ rows = <<>> /\ streaming = "blocking" /\ answering = {}
      /\ sent = 0 /\ rewards = <<>> /\ raised = {} /\ records = <<>> /\ report = <<>>
  BY DEF Validate!Init
<1>2. DOMAIN rewards = {} /\ Len(records) = 0 /\ rewards = [b \in {} |-> rewards[b]]
  BY <1>1, EmptySeq
<1>3. Validate!TypeOK
  BY <1>1, <1>2, ValidConstants DEF Validate!TypeOK
<1>4. Streams(rewards, rows)
  BY <1>1, NoStreams
<1>. QED  BY <1>1, <1>2, <1>3, <1>4 DEF ValidInv

LEMMA BatchMade ==
    ASSUME NEW b \in Nat, NEW n \in Nat \ {0}
    PROVE  BatchIs([i \in 1 .. n |-> <<b, i>>], b)
<1>1. [i \in 1 .. n |-> <<b, i>>] \in [1 .. n -> Entry] /\ n \in Nat
  BY DEF Entry
<1>2. /\ [i \in 1 .. n |-> <<b, i>>] \in Seq(Entry) /\ Len([i \in 1 .. n |-> <<b, i>>]) = n
  <2>. DEFINE f == [i \in 1 .. n |-> <<b, i>>]
  <2>. HIDE DEF f
  <2>1. f \in [1 .. n -> Entry] /\ n \in Nat
    BY <1>1 DEF f
  <2>2. f \in Seq(Entry) /\ Len(f) = n
    BY <2>1, FunctionIsSeq
  <2>. QED  BY <2>2 DEF f
<1>. QED  BY <1>2 DEF BatchIs

LEMMA ValidBegins == ASSUME ValidInv, Validate!Begin PROVE ValidInv'
<1>1. /\ validator = "off" /\ validator' = "generate" /\ streaming' \in {"blocking", "nonblocking"}
      /\ Validate!Dispatch(1, rows'[1]) /\ raised' = raised /\ records' = records /\ report' = report
  BY DEF Validate!Begin
<1>2. rewards = <<>> /\ records = <<>> /\ report = <<>> /\ raised = {} /\ DOMAIN rewards = {}
  BY <1>1, EmptySeq DEF ValidInv
<1>3. PICK sizes \in [1 .. ValBatches -> ValSizes] :
        rows' = [b \in 1 .. ValBatches |-> [i \in 1 .. sizes[b] |-> <<b, i>>]]
  BY DEF Validate!Begin
<1>4. RowsAre(rows')
  <2>1. ASSUME NEW b \in 1 .. ValBatches PROVE BatchIs(rows'[b], b)
    <3>1. b \in Nat /\ sizes[b] \in Nat \ {0}
      <4>1. sizes[b] \in ValSizes
        OBVIOUS
      <4>2. b \in Nat
        BY ValidConstants
      <4>3. sizes[b] \in Nat \ {0}
        BY <4>1, ValidConstants
      <4>. QED  BY <4>2, <4>3
    <3>. QED  BY <1>3, <3>1, BatchMade
  <2>2. rows' = [b \in 1 .. ValBatches |-> rows'[b]]
    BY <1>3
  <2>. QED  BY <2>1, <2>2 DEF RowsAre
<1>5. 1 \in 1 .. ValBatches /\ 1 \in Nat \ {0}
  BY ValidConstants
<1>6. /\ Streams(rewards', rows') /\ DOMAIN rewards' = {1}
      /\ rewards' = [c \in DOMAIN rewards' |-> rewards'[c]]
      /\ sent' = 1 /\ answering' = Validate!LoopIds
  <2>1. BatchIs(rows'[1], 1) /\ Streams(rewards, rows')
    BY <1>2, <1>4, <1>5, NoStreams DEF RowsAre
  <2>. QED  BY <1>1, <1>2, <1>5, <2>1, DispatchKeeps
<1>7. Validate!TypeOK'
  <2>1. Len(records') = 0 /\ 0 <= ValBatches
    BY <1>1, <1>2, EmptySeq, ValidConstants
  <2>. QED  BY <1>1, <1>2, <1>5, <1>6, <2>1 DEF Validate!TypeOK
<1>8. records' = Recorded(rows', streaming', 0, sent' - 1)
  <2>1. 0 \in Nat /\ 1 - 1 = 0
    OBVIOUS
  <2>2. /\ Recorded(rows', streaming', 0, 0) \in Seq(RecordsOf(rows', streaming'))
        /\ Len(Recorded(rows', streaming', 0, 0)) = 0
    BY <2>1, RecordedAre
  <2>3. Recorded(rows', streaming', 0, 0) = <<>>
    BY <2>2, EmptySeq
  <2>. QED  BY <1>1, <1>2, <1>6, <2>1, <2>3
<1>9. DOMAIN rewards' = 1 .. sent' /\ Validate!LoopIds \ answering' = {}
  BY <1>6
<1>. QED  BY <1>1, <1>2, <1>4, <1>5, <1>6, <1>7, <1>8, <1>9 DEF ValidInv

LEMMA ScoreKeeps ==
    ASSUME ValidInv, NEW b \in DOMAIN rewards, NEW w \in Validate!LoopIds, Validate!Score(b, w)
    PROVE  ValidInv'
<1>1. PICK i \in Validate!Unscoreds(b, w) : rewards' = Validate!ScoredAt(b, w, i)
  BY DEF Validate!Score
<1>2. /\ validator' = validator /\ rows' = rows /\ streaming' = streaming /\ answering' = answering
      /\ sent' = sent /\ raised' = raised /\ records' = records /\ report' = report
  BY DEF Validate!Score
<1>3. i \in DOMAIN rewards[b][w] /\ rewards[b][w][i] = Validate!Unscored
  BY DEF Validate!Unscoreds
<1>. DEFINE new == [rewards[b][w] EXCEPT ![i] = Validate!Sent(b, w)[i]]
<1>4. validator # "off" /\ validator # "done" /\ RowsAre(rows) /\ b \in 1 .. ValBatches
      /\ sent \in 1 .. ValBatches
  <2>1. rewards # <<>>
    BY EmptySeq
  <2>2. b \in 1 .. sent /\ sent \in 0 .. ValBatches
    BY DEF ValidInv, Validate!TypeOK
  <2>3. b \in 1 .. ValBatches
    BY <2>2, ValidConstants
  <2>. QED  BY <2>1, <2>3 DEF ValidInv, Validate!RowsInPlace
<1>5. /\ rewards[b] = [u \in Validate!LoopIds |-> rewards[b][u]]
      /\ rewards = [c \in DOMAIN rewards |-> rewards[c]]
      /\ \A c \in DOMAIN rewards : rewards[c] = [u \in Validate!LoopIds |-> rewards[c][u]]
  BY DEF ValidInv, Streams
<1>6. /\ DOMAIN rewards' = DOMAIN rewards
      /\ rewards' = [c \in DOMAIN rewards' |-> rewards'[c]]
      /\ \A c \in DOMAIN rewards : c # b => rewards'[c] = rewards[c]
      /\ rewards'[b] = [rewards[b] EXCEPT ![w] = new]
  BY <1>1, <1>5 DEF Validate!ScoredAt
<1>7. /\ rewards'[b] = [u \in Validate!LoopIds |-> rewards'[b][u]]
      /\ rewards'[b][w] = new
      /\ \A u \in Validate!LoopIds : u # w => rewards'[b][u] = rewards[b][u]
  <2>. HIDE DEF new
  <2>. QED  BY <1>5, <1>6
<1>8. Streams(rewards', rows)
  <2>1. BatchIs(rows[b], b) /\ b \in Nat \ {0}
    BY <1>4, ValidConstants DEF RowsAre
  <2>2. PICK n \in Nat : ChunkIs(Validate!Sent(b, w), n)
    BY <2>1, BatchChunks DEF Validate!Sent
  <2>3. Scored(rewards[b][w], Validate!Sent(b, w))
    BY DEF ValidInv, Streams, Validate!Sent
  <2>4. Scored(new, Validate!Sent(b, w))
    BY <1>3, <2>2, <2>3, OneMoreScored
  <2>. HIDE DEF new
  <2>5. ASSUME NEW c \in DOMAIN rewards', NEW u \in Validate!LoopIds
        PROVE  Scored(rewards'[c][u], Validate!ChunkOf(Validate!Padded(rows[c]), u))
    <3>1. CASE c = b /\ u = w
      BY <1>7, <2>4, <3>1 DEF Validate!Sent
    <3>2. CASE ~(c = b /\ u = w)
      <4>1. rewards'[c][u] = rewards[c][u] /\ c \in DOMAIN rewards
        BY <1>6, <1>7, <3>2
      <4>. QED  BY <4>1 DEF ValidInv, Streams
    <3>. QED  BY <3>1, <3>2
  <2>6. ASSUME NEW c \in DOMAIN rewards'
        PROVE  rewards'[c] = [u \in Validate!LoopIds |-> rewards'[c][u]]
    <3>1. CASE c = b
      BY <1>7, <3>1
    <3>2. CASE c # b
      <4>1. rewards'[c] = rewards[c] /\ c \in DOMAIN rewards
        BY <1>6, <3>2
      <4>. QED  BY <4>1, <1>5
    <3>. QED  BY <3>1, <3>2
  <2>. QED  BY <2>5, <2>6 DEF Streams
<1>9. validator = "generate" /\ streaming = "blocking" =>
        \A u \in Validate!LoopIds \ answering : AllScored(rewards'[sent][u])
  <2>1. SUFFICES ASSUME validator = "generate", streaming = "blocking",
                        NEW u \in Validate!LoopIds \ answering
                 PROVE  AllScored(rewards'[sent][u])
    OBVIOUS
  <2>2. AllScored(rewards[sent][u]) /\ sent \in DOMAIN rewards
    BY <1>4, <2>1 DEF ValidInv
  <2>3. ~(sent = b /\ u = w)
    BY <1>3, <2>2 DEF AllScored
  <2>4. rewards'[sent][u] = rewards[sent][u]
    BY <1>6, <1>7, <2>2, <2>3
  <2>. QED  BY <2>2, <2>4
<1>10. \A n : Redeemed(n)' = Redeemed(n)
  BY <1>2, <1>6 DEF Redeemed
<1>11. Validate!TypeOK'
  BY <1>2, <1>6 DEF ValidInv, Validate!TypeOK
<1>12. validator = "redeem" => sent = ValBatches /\ \E n \in 0 .. ValBatches : Redeemed(n)'
  BY <1>10 DEF ValidInv
<1>13. validator = "generate" =>
         /\ records = Recorded(rows, streaming, 0, sent - 1) /\ report = <<>>
         /\ DOMAIN rewards' = 1 .. sent
  BY <1>6 DEF ValidInv
<1>. QED  BY <1>2, <1>4, <1>6, <1>8, <1>9, <1>11, <1>12, <1>13 DEF ValidInv

\* A step that changes neither rows nor records nor streams, but perhaps where
\* the validation is, or who has answered
LEMMA Moves ==
    ASSUME ValidInv, UNCHANGED <<rows, streaming, sent, rewards, records, report>>,
           validator' \in {validator, "raised"}, validator # "off",
           raised' \subseteq (1 .. sent) \X Validate!LoopIds, answering' \subseteq Validate!LoopIds,
           validator' = "generate" /\ streaming = "blocking" =>
             \A w \in Validate!LoopIds \ answering' : AllScored(rewards[sent][w])
    PROVE  ValidInv'
<1>1. /\ rows' = rows /\ streaming' = streaming /\ sent' = sent /\ rewards' = rewards
      /\ records' = records /\ report' = report
  OBVIOUS
<1>2. /\ \A n : Redeemed(n)' = Redeemed(n)
      /\ validator' = validator => Validate!RowsInPlace' = Validate!RowsInPlace
  BY <1>1 DEF Redeemed, Validate!RowsInPlace
<1>3. Validate!TypeOK'
  <2>1. validator' \in {"off", "generate", "redeem", "done", "raised"}
    BY DEF ValidInv, Validate!TypeOK
  <2>. QED  BY <1>1, <2>1 DEF ValidInv, Validate!TypeOK
<1>4. /\ rewards' = [b \in DOMAIN rewards' |-> rewards'[b]] /\ Streams(rewards', rows')
      /\ validator' # "off" /\ RowsAre(rows') /\ sent' \in 1 .. ValBatches
  BY <1>1 DEF ValidInv
<1>5. validator' = "generate" =>
        /\ records' = Recorded(rows', streaming', 0, sent' - 1) /\ report' = <<>>
        /\ DOMAIN rewards' = 1 .. sent'
        /\ streaming' = "blocking" =>
              \A w \in Validate!LoopIds \ answering' : AllScored(rewards'[sent'][w])
  BY <1>1 DEF ValidInv
<1>6. validator' = "redeem" => sent' = ValBatches /\ \E n \in 0 .. ValBatches : Redeemed(n)'
  BY <1>1, <1>2 DEF ValidInv
<1>7. validator' = "done" => Validate!RowsInPlace'
  BY <1>2 DEF ValidInv
<1>. QED  BY <1>3, <1>4, <1>5, <1>6, <1>7 DEF ValidInv

LEMMA ScoreRaisesKeeps ==
    ASSUME ValidInv, NEW b \in DOMAIN rewards, NEW w \in Validate!LoopIds,
           Validate!ScoreRaises(b, w)
    PROVE  ValidInv'
<1>1. /\ UNCHANGED <<rows, streaming, sent, rewards, records, report>> /\ validator' = validator
      /\ answering' = answering /\ raised' = raised \cup {<<b, w>>}
  BY DEF Validate!ScoreRaises
<1>2. validator # "off"
  BY EmptySeq DEF ValidInv
<1>3. /\ raised' \subseteq (1 .. sent) \X Validate!LoopIds /\ answering' \subseteq Validate!LoopIds
  BY <1>1 DEF ValidInv, Validate!TypeOK
<1>4. validator' = "generate" /\ streaming = "blocking" =>
        \A u \in Validate!LoopIds \ answering' : AllScored(rewards[sent][u])
  BY <1>1 DEF ValidInv
<1>. QED  BY <1>1, <1>2, <1>3, <1>4, Moves

LEMMA ValidAnswers ==
    ASSUME ValidInv, NEW w \in Validate!LoopIds, Validate!Answer(w) PROVE ValidInv'
<1>1. /\ UNCHANGED <<rows, streaming, sent, rewards, records, report>> /\ validator' = validator
      /\ answering' = answering \ {w} /\ raised' = raised /\ validator = "generate"
      /\ streaming = "blocking" => Validate!Unscoreds(sent, w) = {}
  BY DEF Validate!Answer
<1>2. /\ raised' \subseteq (1 .. sent) \X Validate!LoopIds /\ answering' \subseteq Validate!LoopIds
  BY <1>1 DEF ValidInv, Validate!TypeOK
<1>3. streaming = "blocking" =>
        \A u \in Validate!LoopIds \ answering' : AllScored(rewards[sent][u])
  <2>1. streaming = "blocking" => AllScored(rewards[sent][w])
    BY <1>1 DEF Validate!Unscoreds, AllScored
  <2>2. streaming = "blocking" =>
          \A u \in Validate!LoopIds \ answering : AllScored(rewards[sent][u])
    BY <1>1 DEF ValidInv
  <2>. QED  BY <1>1, <2>1, <2>2
<1>. QED  BY <1>1, <1>2, <1>3, Moves

LEMMA RaisesKeep ==
    ASSUME ValidInv, Validate!GenerateRaises \/ Validate!RedeemRaises PROVE ValidInv'
<1>1. /\ UNCHANGED <<rows, streaming, sent, rewards, records, report>> /\ validator' = "raised"
      /\ answering' = answering /\ raised' = raised /\ validator # "off"
  BY DEF Validate!GenerateRaises, Validate!RedeemRaises
<1>2. /\ raised' \subseteq (1 .. sent) \X Validate!LoopIds /\ answering' \subseteq Validate!LoopIds
  BY <1>1 DEF ValidInv, Validate!TypeOK
<1>. QED  BY <1>1, <1>2, Moves

LEMMA ValidCollects == ASSUME ValidInv, Validate!Collect PROVE ValidInv'
<1>. DEFINE padded == Validate!Padded(rows[sent])
            answers == Validate!Concat([w \in Validate!LoopIds |-> Validate!Sent(sent, w)])
            scores == Validate!Concat(rewards[sent])
            n == Validate!PadSize(rows[sent])
            record == [batch |-> sent, answers |-> Validate!Unpad(answers, n),
                       indices |-> Validate!Unpad([i \in DOMAIN padded |-> i], n),
                       scores |-> IF streaming = "blocking" THEN Validate!Unpad(scores, n) ELSE <<>>]
<1>1. /\ validator = "generate" /\ answering = {} /\ rows' = rows /\ streaming' = streaming
      /\ raised' = raised /\ report' = report /\ records' = Append(records, record)
  BY DEF Validate!Collect
<1>2. /\ \/ sent < ValBatches /\ Validate!Dispatch(sent + 1, rows[sent + 1]) /\ validator' = validator
         \/ /\ ~(sent < ValBatches) /\ validator' = "redeem" /\ sent' = sent
            /\ answering' = answering /\ rewards' = rewards
  BY DEF Validate!Collect
<1>3. /\ RowsAre(rows) /\ sent \in 1 .. ValBatches /\ ValBatches \in Nat
      /\ records = Recorded(rows, streaming, 0, sent - 1) /\ report = <<>>
      /\ DOMAIN rewards = 1 .. sent /\ Streams(rewards, rows)
      /\ rewards = [b \in DOMAIN rewards |-> rewards[b]]
      /\ streaming = "blocking" => \A w \in Validate!LoopIds : AllScored(rewards[sent][w])
  BY <1>1, ValidConstants DEF ValidInv
<1>4. record = RecordOf(rows, streaming, sent)
  <2>1. BatchIs(rows[sent], sent) /\ sent \in Nat \ {0} /\ sent \in DOMAIN rewards
    BY <1>3 DEF RowsAre
  <2>2. /\ Validate!Unpad(padded, n) = rows[sent]
        /\ Validate!Unpad([i \in DOMAIN padded |-> i], n) = [i \in 1 .. Len(rows[sent]) |-> i]
    BY <2>1, CutsBack
  <2>3. answers = padded
    BY <1>3, AnswersAre
  <2>4. streaming = "blocking" => scores = padded
    BY <1>3, <2>1, BatchScored
  <2>5. Validate!Unpad(answers, n) = rows[sent]
    <3>. HIDE DEF answers, padded
    <3>. QED  BY <2>2, <2>3
  <2>6. streaming = "blocking" => Validate!Unpad(scores, n) = rows[sent]
    <3>. HIDE DEF scores, padded
    <3>. QED  BY <2>2, <2>4
  <2>7. record = [batch |-> sent, answers |-> rows[sent],
                  indices |-> [i \in 1 .. Len(rows[sent]) |-> i],
                  scores |-> IF streaming = "blocking" THEN rows[sent] ELSE <<>>]
    <3>. DEFINE places == Validate!Unpad([i \in DOMAIN padded |-> i], n)
                kept == [i \in 1 .. Len(rows[sent]) |-> i]
    <3>1. places = kept
      BY <2>2
    <3>2. record = [batch |-> sent, answers |-> Validate!Unpad(answers, n), indices |-> places,
                    scores |-> IF streaming = "blocking" THEN Validate!Unpad(scores, n) ELSE <<>>]
      OBVIOUS
    <3>. HIDE DEF answers, scores, padded, n, places, kept, record
    <3>3. record = [batch |-> sent, answers |-> rows[sent], indices |-> kept,
                    scores |-> IF streaming = "blocking" THEN rows[sent] ELSE <<>>]
      BY <2>5, <2>6, <3>1, <3>2
    <3>. QED  BY <3>3 DEF kept
  <2>. HIDE DEF record
  <2>. QED  BY <2>7 DEF RecordOf
<1>. HIDE DEF record
<1>5. /\ records' = Recorded(rows, streaming, 0, sent)
      /\ Len(records') = sent
  <2>1. PICK m \in Nat : m = sent - 1
    BY <1>3
  <2>2. 0 + m + 1 = sent /\ m + 1 = sent
    BY <1>3, <2>1
  <2>3. Append(Recorded(rows, streaming, 0, m), RecordOf(rows, streaming, 0 + m + 1))
          = Recorded(rows, streaming, 0, m + 1)
    BY OneMoreRecorded
  <2>4. Append(Recorded(rows, streaming, 0, sent - 1), RecordOf(rows, streaming, sent))
          = Recorded(rows, streaming, 0, sent)
    BY <2>1, <2>2, <2>3
  <2>5. sent \in Nat /\ 0 \in Nat
    BY <1>3
  <2>6. Len(Recorded(rows, streaming, 0, sent)) = sent
    BY <2>5, RecordedAre
  <2>7. records' = Append(Recorded(rows, streaming, 0, sent - 1), RecordOf(rows, streaming, sent))
    BY <1>1, <1>3, <1>4
  <2>. QED  BY <2>4, <2>6, <2>7
<1>6. CASE sent < ValBatches
  <2>1. Validate!Dispatch(sent + 1, rows[sent + 1]) /\ validator' = "generate"
    BY <1>1, <1>2, <1>6
  <2>2. sent + 1 \in Nat \ {0} /\ sent + 1 \in 1 .. ValBatches
    BY <1>3, <1>6
  <2>3. BatchIs(rows[sent + 1], sent + 1)
    BY <1>3, <2>2 DEF RowsAre
  <2>4. /\ Streams(rewards', rows) /\ DOMAIN rewards' = DOMAIN rewards \cup {sent + 1}
        /\ rewards' = [c \in DOMAIN rewards' |-> rewards'[c]]
        /\ sent' = sent + 1 /\ answering' = Validate!LoopIds
    BY <1>3, <2>1, <2>2, <2>3, DispatchKeeps
  <2>5. DOMAIN rewards' = 1 .. sent'
    BY <1>3, <2>4
  <2>6. records' = Recorded(rows', streaming', 0, sent' - 1)
    <3>1. sent' - 1 = sent
      BY <1>3, <2>4
    <3>. QED  BY <1>1, <1>5, <3>1
  <2>7. Validate!TypeOK'
    <3>1. raised' \subseteq (1 .. sent') \X Validate!LoopIds
      <4>1. 1 .. sent \subseteq 1 .. sent'
        BY <1>3, <2>4
      <4>2. raised \subseteq (1 .. sent) \X Validate!LoopIds
        BY DEF ValidInv, Validate!TypeOK
      <4>. QED  BY <1>1, <4>1, <4>2
    <3>2. streaming' \in {"blocking", "nonblocking"}
      BY <1>1 DEF ValidInv, Validate!TypeOK
    <3>3. sent' \in 0 .. ValBatches /\ Len(records') <= ValBatches
      BY <1>3, <1>5, <2>2, <2>4
    <3>. QED  BY <2>1, <2>4, <2>5, <3>1, <3>2, <3>3 DEF Validate!TypeOK
  <2>8. Validate!LoopIds \ answering' = {}
    BY <2>4
  <2>. QED  BY <1>1, <1>3, <2>1, <2>2, <2>4, <2>5, <2>6, <2>7, <2>8 DEF ValidInv
<1>7. CASE ~(sent < ValBatches)
  <2>1. /\ validator' = "redeem" /\ sent' = sent /\ answering' = answering /\ rewards' = rewards
        /\ sent = ValBatches
    BY <1>2, <1>3, <1>7
  <2>2. Redeemed(0)'
    <3>1. ValBatches - 0 = ValBatches /\ 0 + 1 = 1
      BY <1>3
    <3>2. Flat(SubSeq(Triples(rows), 1, 0)) = <<>>
      BY <1>3, TriplesAre, FlatPrefix
    <3>3. records' = Recorded(rows', streaming', 0, ValBatches - 0)
      BY <1>1, <1>5, <2>1, <3>1
    <3>4. DOMAIN rewards' = 0 + 1 .. ValBatches
      BY <1>3, <2>1
    <3>5. report' = Flat(SubSeq(Triples(rows'), 1, 0))
      BY <1>1, <1>3, <3>2
    <3>. QED  BY <3>3, <3>4, <3>5 DEF Redeemed
  <2>3. 0 \in 0 .. ValBatches
    BY <1>3
  <2>4. Validate!TypeOK'
    <3>1. Len(records') <= ValBatches
      BY <1>3, <1>5, <2>1
    <3>. QED  BY <1>1, <2>1, <3>1 DEF ValidInv, Validate!TypeOK
  <2>5. \E m \in 0 .. ValBatches : Redeemed(m)'
    BY <2>2, <2>3
  <2>. QED  BY <1>1, <1>3, <2>1, <2>4, <2>5 DEF ValidInv
<1>. QED  BY <1>6, <1>7

LEMMA RedeemedLen ==
    ASSUME NEW n \in 0 .. ValBatches, Redeemed(n) PROVE Len(records) = ValBatches - n
<1>1. n \in Nat /\ ValBatches - n \in Nat
  BY ValidConstants
<1>. QED  BY <1>1, RecordedAre DEF Redeemed

LEMMA RedeemKeeps == ASSUME ValidInv, Validate!Redeem PROVE ValidInv'
<1>. DEFINE record == Head(records)
            scores == Validate!Redeemed(record)
<1>1. /\ validator = "redeem" /\ records # <<>> /\ validator' = validator /\ rows' = rows
      /\ streaming' = streaming /\ answering' = answering /\ sent' = sent /\ raised' = raised
      /\ \A w \in Validate!LoopIds : Validate!Unscoreds(record.batch, w) = {}
      /\ report' = report \o [i \in DOMAIN scores |->
                        <<rows[record.batch][i], record.answers[i], scores[i]>>]
      /\ rewards' = Validate!Without(record.batch) /\ records' = Tail(records)
  BY DEF Validate!Redeem
<1>2. PICK n \in 0 .. ValBatches : Redeemed(n)
  BY <1>1 DEF ValidInv
<1>3. /\ ValBatches \in Nat /\ RowsAre(rows) /\ sent = ValBatches /\ Streams(rewards, rows)
      /\ rewards = [b \in DOMAIN rewards |-> rewards[b]]
  BY <1>1, ValidConstants DEF ValidInv
<1>4. n \in Nat /\ n < ValBatches
  <2>1. n # ValBatches
    <3>1. SUFFICES ASSUME n = ValBatches PROVE FALSE
      OBVIOUS
    <3>2. ValBatches - n = 0 /\ n \in Nat /\ 0 \in Nat
      BY <1>3, <3>1
    <3>3. records = Recorded(rows, streaming, n, 0)
      BY <1>2, <3>2 DEF Redeemed
    <3>4. records \in Seq(RecordsOf(rows, streaming)) /\ Len(records) = 0
      BY <3>2, <3>3, RecordedAre
    <3>. QED  BY <1>1, <3>4, EmptySeq
  <2>. QED  BY <1>3, <2>1
<1>5. PICK b \in 1 .. ValBatches : b = n + 1
  BY <1>3, <1>4
<1>6. /\ record = RecordOf(rows, streaming, b)
      /\ records' = Recorded(rows, streaming, b, ValBatches - b)
  <2>1. ValBatches - n \in Nat /\ ValBatches - n > 0 /\ (ValBatches - n) - 1 = ValBatches - b
    BY <1>3, <1>4, <1>5
  <2>2. /\ Head(Recorded(rows, streaming, n, ValBatches - n)) = RecordOf(rows, streaming, n + 1)
        /\ Tail(Recorded(rows, streaming, n, ValBatches - n))
             = Recorded(rows, streaming, n + 1, (ValBatches - n) - 1)
    BY <1>4, <2>1, OneLessRecorded
  <2>. QED  BY <1>1, <1>2, <1>5, <2>1, <2>2 DEF Redeemed
<1>7. /\ record.batch = b /\ record.answers = rows[b]
      /\ record.indices = [i \in 1 .. Len(rows[b]) |-> i]
      /\ record.scores = IF streaming = "blocking" THEN rows[b] ELSE <<>>
  <2>. HIDE DEF record
  <2>. QED  BY <1>6 DEF RecordOf
<1>8. b \in DOMAIN rewards /\ BatchIs(rows[b], b) /\ b \in Nat \ {0}
      /\ DOMAIN rewards = b .. ValBatches
  BY <1>2, <1>3, <1>5 DEF Redeemed, RowsAre
<1>9. rows[b] \in Seq(Entry) /\ Len(rows[b]) \in Nat /\ DOMAIN rows[b] = 1 .. Len(rows[b])
  <2>1. rows[b] \in Seq(Entry)
    BY <1>8 DEF BatchIs
  <2>. QED  BY <2>1, LenProperties
<1>10. scores = rows[b]
  <2>1. CASE streaming = "blocking"
    <3>1. scores = record.scores
      BY <2>1 DEF Validate!Redeemed
    <3>. HIDE DEF scores, record
    <3>. QED  BY <1>7, <2>1, <3>1
  <2>2. CASE streaming # "blocking"
    <3>1. \A w \in Validate!LoopIds : AllScored(rewards[b][w])
      <4>. HIDE DEF record
      <4>. QED  BY <1>1, <1>7 DEF Validate!Unscoreds, AllScored
    <3>2. Validate!Concat(rewards[b]) = Validate!Padded(rows[b])
      BY <1>3, <1>8, <3>1, BatchScored
    <3>3. \A i \in 1 .. Len(rows[b]) : Validate!Padded(rows[b])[i] = rows[b][i]
      BY <1>8, PaddedIs
    <3>4. scores = Validate!Reordered(Validate!Concat(rewards[record.batch]), record.indices)
      BY <2>2 DEF Validate!Redeemed
    <3>. DEFINE places == [i \in 1 .. Len(rows[b]) |-> i]
    <3>. HIDE DEF scores, record
    <3>5. scores = Validate!Reordered(Validate!Padded(rows[b]), places)
      BY <1>7, <3>2, <3>4
    <3>6. scores = [i \in 1 .. Len(rows[b]) |-> Validate!Padded(rows[b])[i]]
      BY <3>5 DEF Validate!Reordered
    <3>7. scores = [i \in 1 .. Len(rows[b]) |-> rows[b][i]]
      BY <3>3, <3>6
    <3>8. rows[b] = [i \in 1 .. Len(rows[b]) |-> rows[b][i]]
      BY <1>9
    <3>. QED  BY <3>7, <3>8
  <2>. QED  BY <2>1, <2>2
<1>. HIDE DEF scores, record
<1>11. report' = report \o Triple(rows, b)
  BY <1>1, <1>7, <1>10 DEF Triple
<1>12. report' = Flat(SubSeq(Triples(rows), 1, b))
  <2>1. PICK S : /\ Triples(rows) \in Seq(Seq(S)) /\ Len(Triples(rows)) = ValBatches
                 /\ \A c \in 1 .. ValBatches : Triples(rows)[c] = Triple(rows, c)
    BY <1>3, TriplesAre
  <2>2. Flat(SubSeq(Triples(rows), 1, b)) = Flat(SubSeq(Triples(rows), 1, b - 1)) \o Triples(rows)[b]
    BY <2>1, FlatPrefix
  <2>3. b - 1 = n
    BY <1>4, <1>5
  <2>4. report = Flat(SubSeq(Triples(rows), 1, n))
    BY <1>2 DEF Redeemed
  <2>. QED  BY <1>11, <2>1, <2>2, <2>3, <2>4
<1>13. /\ DOMAIN rewards' = DOMAIN rewards \ {b}
       /\ \A c \in DOMAIN rewards' : rewards'[c] = rewards[c]
       /\ rewards' = [c \in DOMAIN rewards' |-> rewards'[c]]
  <2>1. rewards' = [c \in DOMAIN rewards \ {b} |-> rewards[c]]
    BY <1>1, <1>7 DEF Validate!Without
  <2>. QED  BY <2>1
<1>14. Streams(rewards', rows)
  <2>1. \A c \in DOMAIN rewards' : c \in DOMAIN rewards /\ rewards'[c] = rewards[c]
    BY <1>13
  <2>. QED  BY <1>3, <2>1 DEF Streams
<1>15. Redeemed(b)'
  <2>1. DOMAIN rewards' = b + 1 .. ValBatches
    BY <1>8, <1>13
  <2>. QED  BY <1>1, <1>6, <1>12, <2>1 DEF Redeemed
<1>16. b \in 0 .. ValBatches
  BY <1>8
<1>17. Validate!TypeOK'
  <2>1. Len(records') <= ValBatches
    <3>1. b \in Nat /\ ValBatches - b \in Nat
      BY <1>3, <1>8
    <3>2. Len(records') = ValBatches - b
      BY <1>6, <3>1, RecordedAre
    <3>. QED  BY <1>3, <1>8, <3>2
  <2>2. DOMAIN rewards' \subseteq 1 .. sent'
    BY <1>1, <1>13 DEF ValidInv, Validate!TypeOK
  <2>. QED  BY <1>1, <2>1, <2>2 DEF ValidInv, Validate!TypeOK
<1>18. \E m \in 0 .. ValBatches : Redeemed(m)'
  BY <1>15, <1>16
<1>19. sent' \in 1 .. ValBatches
  BY <1>1 DEF ValidInv
<1>. QED  BY <1>1, <1>3, <1>13, <1>14, <1>17, <1>18, <1>19 DEF ValidInv

LEMMA ValidFinishes == ASSUME ValidInv, Validate!Finish PROVE ValidInv'
<1>1. /\ validator = "redeem" /\ records = <<>> /\ validator' = "done"
      /\ rows' = rows /\ streaming' = streaming /\ answering' = answering /\ sent' = sent
      /\ rewards' = rewards /\ raised' = raised /\ records' = records /\ report' = report
  BY DEF Validate!Finish
<1>2. PICK n \in 0 .. ValBatches : Redeemed(n)
  BY <1>1 DEF ValidInv
<1>3. n = ValBatches
  <2>1. Len(records) = 0
    BY <1>1, EmptySeq
  <2>. QED  BY <1>2, <2>1, RedeemedLen, ValidConstants
<1>4. RowsAre(rows) /\ sent \in 1 .. ValBatches /\ rewards = [b \in DOMAIN rewards |-> rewards[b]]
      /\ Streams(rewards, rows)
  BY <1>1 DEF ValidInv
<1>5. rewards = <<>>
  <2>1. DOMAIN rewards = {}
    BY <1>2, <1>3, ValidConstants DEF Redeemed
  <2>2. rewards \in [1 .. 0 -> {}]
    BY <1>4, <2>1
  <2>3. rewards \in Seq({}) /\ Len(rewards) = 0
    BY <2>2, FunctionIsSeq
  <2>. QED  BY <2>3, EmptySeq
<1>6. report = Flat(Triples(rows))
  <2>1. PICK S : Triples(rows) \in Seq(Seq(S)) /\ Len(Triples(rows)) = ValBatches
    BY <1>4, TriplesAre
  <2>2. report = Flat(SubSeq(Triples(rows), 1, Len(Triples(rows))))
    BY <1>2, <1>3, <2>1 DEF Redeemed
  <2>. QED  BY <2>1, <2>2, FlatPrefix
<1>7. Validate!RowsInPlace'
  <2>1. report' = Validate!FlattenSeq([b \in 1 .. ValBatches |->
                    [i \in DOMAIN rows'[b] |-> <<rows'[b][i], rows'[b][i], rows'[b][i]>>]])
    BY <1>1, <1>6, ValidFlattens DEF Triples, Triple
  <2>. QED  BY <1>1, <1>5, <2>1 DEF Validate!RowsInPlace
<1>8. Validate!TypeOK'
  BY <1>1 DEF ValidInv, Validate!TypeOK
<1>. QED  BY <1>1, <1>4, <1>7, <1>8 DEF ValidInv

LEMMA ValidKeeps == ASSUME ValidInv, [UtilNext]_all PROVE ValidInv'
<1>1. CASE InValid /\ Validate!Next
  BY <1>1, ValidBegins, ScoreKeeps, ScoreRaisesKeeps, ValidAnswers, RaisesKeep, ValidCollects,
     RedeemKeeps, ValidFinishes DEF Validate!Next, Validate!Drives, Validate!Scores
<1>2. CASE UNCHANGED validVars
  BY <1>2, ValidStutters
<1>3. \/ InValid /\ Validate!Next
      \/ UNCHANGED validVars
  BY DEF UtilNext, all, InWeights, InResults, InRewards, InBalance, InTools, InValid, InOneStep,
        Stop, secondVars
<1>. QED  BY <1>1, <1>2, <1>3

LEMMA ValidAlways == FairSpec => []ValidInv
<1>1. UtilInit => ValidInv
  BY ValidInit DEF UtilInit
<1>2. ValidInv /\ [UtilNext]_all => ValidInv'
  BY ValidKeeps
<1>. QED  BY <1>1, <1>2, PTL DEF FairSpec

LEMMA RowsReported == FairSpec => [](Validate!TypeOK /\ Validate!RowsInPlace)
<1>1. ValidInv => Validate!TypeOK /\ Validate!RowsInPlace
  BY DEF ValidInv, Validate!RowsInPlace
<1>. QED  BY <1>1, ValidAlways, PTL

-----------------------------------------------------------------------------
(* The division of the samples                                             *)

Units == Balance!Samples
Kinds == {"dp", "micro"}

LEMMA BalConstants ==
    /\ Batch \in Nat \ {0} /\ Units = 0 .. Batch - 1 /\ Units # {}
    /\ IsFiniteSet(Units) /\ Cardinality(Units) = Batch
    /\ Lengths \subseteq Nat \ {0} /\ Limits \subseteq Nat \ {0} /\ Worlds \subseteq Nat \ {0}
<1>1. Batch \in Nat \ {0} /\ Lengths \subseteq Nat \ {0} /\ Limits \subseteq Nat \ {0}
      /\ Worlds \subseteq Nat \ {0}
  BY UtilAssumption DEF UtilAssumption
<1>2. Units = 0 .. Batch - 1
  BY DEF Units, Balance!Samples
<1>3. 0 \in Int /\ Batch - 1 \in Int /\ Units # {}
  BY <1>1, <1>2
<1>4. IsFiniteSet(Units) /\ Cardinality(Units) = IF 0 > Batch - 1 THEN 0 ELSE (Batch - 1) - 0 + 1
  BY <1>2, <1>3, FS_Interval
<1>. QED  BY <1>1, <1>2, <1>3, <1>4

\* What the samples of a set weigh, w being what each weighs.
Weighed(w) == w \in [Units -> Nat \ {0}]

LEMMA LoadIs == \A A : Balance!Load(A) = SumOf(Balance!Workload, A)
BY DEF Balance!Load, Balance!MapThenSumSet, Balance!MapThenFoldSet, SumOf, Partial, Pick

LEMMA LoadTypes ==
    ASSUME NEW w, Weighed(w)
    PROVE  \A A \in SUBSET Units : /\ IsFiniteSet(A) /\ Cardinality(A) \in Nat
                                   /\ SumOf(w, A) \in Nat
                                   /\ A = {} <=> SumOf(w, A) = 0
                                   /\ A = {} <=> Cardinality(A) = 0
<1>1. TAKE A \in SUBSET Units
<1>2. IsFiniteSet(A) /\ \A x \in A : w[x] \in Nat /\ w[x] > 0
  <2>1. IsFiniteSet(A)
    BY BalConstants, FS_Subset
  <2>2. \A x \in A : w[x] \in Nat \ {0}
    BY DEF Weighed
  <2>. QED  BY <2>1, <2>2
<1>3. SumOf(w, A) \in Nat /\ Cardinality(A) \in Nat
  BY <1>2, SumType, FS_CardinalityType
<1>4. A = {} => SumOf(w, A) = 0 /\ Cardinality(A) = 0
  BY FS_EmptySet, SumPicks
<1>5. ASSUME A # {} PROVE SumOf(w, A) # 0 /\ Cardinality(A) # 0
  <2>1. PICK x \in A : TRUE
    BY <1>5
  <2>2. IsFiniteSet(A \ {x}) /\ \A y \in A \ {x} : w[y] \in Nat
    BY <1>2, FS_Subset
  <2>3. SumOf(w, A) = w[x] + SumOf(w, A \ {x}) /\ SumOf(w, A \ {x}) \in Nat
    BY <1>2, <2>2, SumTakes, SumType
  <2>. QED  BY <1>2, <1>5, <2>3, FS_EmptySet
<1>. QED  BY <1>2, <1>3, <1>4, <1>5

LEMMA LoadsAdd ==
    ASSUME NEW w, Weighed(w), NEW A \in SUBSET Units, NEW B \in SUBSET Units, A \cap B = {}
    PROVE  /\ SumOf(w, A \cup B) = SumOf(w, A) + SumOf(w, B)
           /\ Cardinality(A \cup B) = Cardinality(A) + Cardinality(B)
<1>1. /\ A \cup B \in SUBSET Units /\ A \in SUBSET (A \cup B) /\ (A \cup B) \ A = B
      /\ A \cap B = {}
  OBVIOUS
<1>2. IsFiniteSet(A) /\ IsFiniteSet(B) /\ IsFiniteSet(A \cup B) /\ Cardinality(A) \in Nat
      /\ Cardinality(B) \in Nat
  BY <1>1, LoadTypes
<1>3. \A x \in A \cup B : w[x] \in Nat
  BY DEF Weighed
<1>4. SumOf(w, A \cup B) = SumOf(w, A) + SumOf(w, (A \cup B) \ A)
  BY <1>1, <1>2, <1>3, SumSplits
<1>5. Cardinality(A \cup B) = Cardinality(A) + Cardinality(B) - Cardinality(A \cap B)
      /\ Cardinality(A \cap B) = 0
  BY <1>1, <1>2, FS_Union, FS_EmptySet
<1>. QED  BY <1>1, <1>2, <1>4, <1>5

LEMMA LoadOfOne ==
    ASSUME NEW w, Weighed(w), NEW x \in Units PROVE SumOf(w, {x}) = w[x]
<1>1. IsFiniteSet({x}) /\ \A y \in {x} : w[y] \in Nat
  BY FS_Singleton DEF Weighed
<1>2. {x} \ {x} = {} /\ SumOf(w, {}) = 0
  BY FS_EmptySet, SumPicks
<1>3. SumOf(w, {x}) = w[x] + SumOf(w, {x} \ {x})
  BY <1>1, SumTakes
<1>. QED  BY <1>1, <1>2, <1>3

\* The most one of them weighs
Heaviest(w) == Balance!Max({w[i] : i \in Units})

LEMMA MostIs ==
    ASSUME NEW M \in SUBSET Nat, M # {}, NEW most \in Nat, \A x \in M : x <= most
    PROVE  \E x \in M : \A y \in M : x >= y
<1>. DEFINE T == {most - x : x \in M}
<1>1. T \in SUBSET Nat /\ T # {}
  <2>1. \A x \in M : most - x \in Nat
    OBVIOUS
  <2>2. PICK x \in M : TRUE
    OBVIOUS
  <2>3. most - x \in T
    OBVIOUS
  <2>. QED  BY <2>1, <2>3
<1>2. PICK d \in T : \A e \in T : d <= e
  BY <1>1, Least
<1>3. PICK x \in M : d = most - x
  OBVIOUS
<1>. QED  BY <1>2, <1>3

LEMMA Bounded ==
    ASSUME NEW w, Weighed(w) PROVE \E most \in Nat : \A i \in Units : w[i] <= most
<1>. DEFINE most == SumOf(w, Units)
<1>1. most \in Nat
  BY LoadTypes
<1>2. ASSUME NEW i \in Units PROVE w[i] <= most
  <2>1. {i} \in SUBSET Units /\ IsFiniteSet(Units) /\ \A x \in Units : w[x] \in Nat
    BY BalConstants DEF Weighed
  <2>2. SumOf(w, {i}) <= SumOf(w, Units)
    BY <2>1, SumGrows
  <2>. QED  BY <2>2, LoadOfOne
<1>. QED  BY <1>1, <1>2

LEMMA HeaviestIs ==
    ASSUME NEW w, Weighed(w)
    PROVE  Heaviest(w) \in Nat /\ \A i \in Units : w[i] <= Heaviest(w)
<1>. DEFINE M == {w[i] : i \in Units}
<1>1. M \in SUBSET Nat /\ M # {}
  BY BalConstants DEF Weighed
<1>2. PICK most \in Nat : \A i \in Units : w[i] <= most
  BY Bounded
<1>3. \A x \in M : x <= most
  BY <1>2
<1>. HIDE DEF M
<1>4. \E x \in M : \A y \in M : x >= y
  BY <1>1, <1>3, MostIs
<1>5. Balance!Max(M) \in M /\ \A y \in M : Balance!Max(M) >= y
  BY <1>4 DEF Balance!Max
<1>. QED  BY <1>1, <1>5 DEF Heaviest, M

-----------------------------------------------------------------------------
(* States of the differencing method                                       *)

\* A state: n disjoint sets of samples, no two further apart than the heaviest
\* sample; with equal sizes they are equally large, otherwise none is empty
\* unless each has at most one sample.
Even(w, n, kind, s) ==
    /\ s \in [1 .. n -> SUBSET Units]
    /\ \A i, j \in 1 .. n : i # j => s[i] \cap s[j] = {}
    /\ \A i, j \in 1 .. n : SumOf(w, s[i]) - SumOf(w, s[j]) <= Heaviest(w)
    /\ kind = "dp" => \A i, j \in 1 .. n : s[i] # {} /\ Cardinality(s[i]) = Cardinality(s[j])
    /\ kind = "micro" => \/ \A i \in 1 .. n : s[i] # {}
                         \/ \A i \in 1 .. n : Cardinality(s[i]) <= 1

Falling(w, n, s) == \A i, j \in 1 .. n : i < j => SumOf(w, s[j]) <= SumOf(w, s[i])

Apart(n, s, t) == \A i, j \in 1 .. n : s[i] \cap t[j] = {}

LEMMA JoinedIs ==
    ASSUME NEW n \in Nat, NEW s \in [1 .. n -> SUBSET Units], NEW t \in [1 .. n -> SUBSET Units]
    PROVE  /\ Balance!Joined(s, t) \in [1 .. n -> SUBSET Units]
           /\ \A i \in 1 .. n : /\ n + 1 - i \in 1 .. n
                                /\ Balance!Joined(s, t)[i] = s[i] \cup t[n + 1 - i]
<1>1. Len(s) = n /\ DOMAIN s = 1 .. n
  BY FunctionIsSeq
<1>2. \A i \in 1 .. n : n + 1 - i \in 1 .. n
  OBVIOUS
<1>3. Balance!Joined(s, t) = [i \in 1 .. n |-> s[i] \cup t[n + 1 - i]]
  BY <1>1 DEF Balance!Joined
<1>. QED  BY <1>2, <1>3

LEMMA JoinedEven ==
    ASSUME NEW w, Weighed(w), NEW n \in Nat, NEW kind \in Kinds, NEW s, NEW t,
           Even(w, n, kind, s), Even(w, n, kind, t),
           Falling(w, n, s), Falling(w, n, t), Apart(n, s, t)
    PROVE  Even(w, n, kind, Balance!Joined(s, t))
<1>. DEFINE u == Balance!Joined(s, t)
<1>1. s \in [1 .. n -> SUBSET Units] /\ t \in [1 .. n -> SUBSET Units]
  BY DEF Even
<1>2. /\ u \in [1 .. n -> SUBSET Units]
      /\ \A i \in 1 .. n : n + 1 - i \in 1 .. n /\ u[i] = s[i] \cup t[n + 1 - i]
  BY <1>1, JoinedIs
<1>. HIDE DEF u
<1>3. \A i \in 1 .. n : /\ s[i] \in SUBSET Units /\ t[n + 1 - i] \in SUBSET Units
                        /\ s[i] \cap t[n + 1 - i] = {}
                        /\ SumOf(w, u[i]) = SumOf(w, s[i]) + SumOf(w, t[n + 1 - i])
                        /\ Cardinality(u[i]) = Cardinality(s[i]) + Cardinality(t[n + 1 - i])
  <2>1. TAKE i \in 1 .. n
  <2>2. s[i] \in SUBSET Units /\ t[n + 1 - i] \in SUBSET Units /\ s[i] \cap t[n + 1 - i] = {}
    BY <1>1, <1>2 DEF Apart
  <2>3. /\ SumOf(w, s[i] \cup t[n + 1 - i]) = SumOf(w, s[i]) + SumOf(w, t[n + 1 - i])
        /\ Cardinality(s[i] \cup t[n + 1 - i]) = Cardinality(s[i]) + Cardinality(t[n + 1 - i])
    <3>. DEFINE A == s[i]
                B == t[n + 1 - i]
    <3>1. A \in SUBSET Units /\ B \in SUBSET Units /\ A \cap B = {}
      BY <2>2
    <3>. HIDE DEF A, B
    <3>2. SumOf(w, A \cup B) = SumOf(w, A) + SumOf(w, B)
          /\ Cardinality(A \cup B) = Cardinality(A) + Cardinality(B)
      BY <3>1, LoadsAdd
    <3>. QED  BY <3>2 DEF A, B
  <2>. QED  BY <1>2, <2>2, <2>3
<1>4. \A i \in 1 .. n : /\ SumOf(w, s[i]) \in Nat /\ SumOf(w, t[n + 1 - i]) \in Nat
                        /\ Cardinality(s[i]) \in Nat /\ Cardinality(t[n + 1 - i]) \in Nat
  BY <1>3, LoadTypes
<1>5. ASSUME NEW i \in 1 .. n, NEW j \in 1 .. n, i # j PROVE u[i] \cap u[j] = {}
  <2>1. n + 1 - i # n + 1 - j
    BY <1>5
  <2>2. s[i] \cap s[j] = {} /\ t[n + 1 - i] \cap t[n + 1 - j] = {}
    BY <1>2, <1>5, <2>1 DEF Even
  <2>3. s[i] \cap t[n + 1 - j] = {} /\ s[j] \cap t[n + 1 - i] = {}
    BY <1>2 DEF Apart
  <2>. QED  BY <1>2, <2>2, <2>3
<1>6. ASSUME NEW i \in 1 .. n, NEW j \in 1 .. n
      PROVE  SumOf(w, u[i]) - SumOf(w, u[j]) <= Heaviest(w)
  <2>0. Heaviest(w) \in Nat
    BY HeaviestIs
  <2>1. PICK a \in 1 .. n : a = n + 1 - i
    BY <1>2
  <2>2. PICK b \in 1 .. n : b = n + 1 - j
    BY <1>2
  <2>3. SumOf(w, s[i]) - SumOf(w, s[j]) <= Heaviest(w)
        /\ SumOf(w, t[a]) - SumOf(w, t[b]) <= Heaviest(w)
    BY DEF Even
  <2>4. CASE i < j
    <3>1. b < a
      BY <2>1, <2>2, <2>4
    <3>2. SumOf(w, t[a]) <= SumOf(w, t[b])
      BY <3>1 DEF Falling
    <3>. QED  BY <1>3, <1>4, <2>0, <2>1, <2>2, <2>3, <3>2
  <2>5. CASE j < i
    <3>1. SumOf(w, s[i]) <= SumOf(w, s[j])
      BY <2>5 DEF Falling
    <3>. QED  BY <1>3, <1>4, <2>0, <2>1, <2>2, <2>3, <3>1
  <2>6. CASE i = j
    <3>1. SumOf(w, u[i]) \in Nat
      BY <1>2, LoadTypes
    <3>. QED  BY <2>0, <2>6, <3>1
  <2>. QED  BY <2>4, <2>5, <2>6
<1>7. ASSUME kind = "dp", NEW i \in 1 .. n, NEW j \in 1 .. n
      PROVE  u[i] # {} /\ Cardinality(u[i]) = Cardinality(u[j])
  <2>1. PICK a \in 1 .. n : a = n + 1 - i
    BY <1>2
  <2>2. PICK b \in 1 .. n : b = n + 1 - j
    BY <1>2
  <2>3. s[i] # {} /\ Cardinality(s[i]) = Cardinality(s[j])
        /\ Cardinality(t[a]) = Cardinality(t[b])
    BY <1>7 DEF Even
  <2>. QED  BY <1>2, <1>3, <2>1, <2>2, <2>3
<1>8. ASSUME kind = "micro", NEW e \in 1 .. n, u[e] = {}, NEW i \in 1 .. n
      PROVE  Cardinality(u[i]) <= 1
  <2>1. PICK a \in 1 .. n : a = n + 1 - i
    BY <1>2
  <2>2. PICK b \in 1 .. n : b = n + 1 - e
    BY <1>2
  <2>3. s[e] = {} /\ t[b] = {}
    BY <1>2, <1>8, <2>2
  <2>4. Cardinality(s[i]) <= 1 /\ Cardinality(t[a]) <= 1
    BY <1>8, <2>3 DEF Even
  <2>5. SumOf(w, s[e]) = 0 /\ SumOf(w, t[b]) = 0
    BY <1>1, <2>3, LoadTypes
  <2>6. s[i] # {} => i < e
    <3>1. SUFFICES ASSUME s[i] # {}, e < i PROVE FALSE
      BY <2>3
    <3>2. SumOf(w, s[i]) <= 0
      BY <2>5, <3>1 DEF Falling
    <3>3. SumOf(w, s[i]) \in Nat /\ SumOf(w, s[i]) # 0
      BY <1>1, <3>1, LoadTypes
    <3>. QED  BY <3>2, <3>3
  <2>7. t[a] # {} => a < b
    <3>1. SUFFICES ASSUME t[a] # {}, b < a PROVE FALSE
      BY <2>3
    <3>2. SumOf(w, t[a]) <= 0
      BY <2>5, <3>1 DEF Falling
    <3>3. SumOf(w, t[a]) \in Nat /\ SumOf(w, t[a]) # 0
      BY <1>1, <3>1, LoadTypes
    <3>. QED  BY <3>2, <3>3
  <2>8. s[i] = {} \/ t[a] = {}
    BY <2>1, <2>2, <2>6, <2>7
  <2>9. Cardinality(s[i]) = 0 \/ Cardinality(t[a]) = 0
    BY <1>1, <2>8, LoadTypes
  <2>10. /\ Cardinality(u[i]) = Cardinality(s[i]) + Cardinality(t[a])
         /\ Cardinality(s[i]) \in Nat /\ Cardinality(t[a]) \in Nat
    BY <1>3, <1>4, <2>1
  <2>. QED  BY <2>4, <2>9, <2>10
<1>9. kind = "micro" => \/ \A i \in 1 .. n : u[i] # {}
                        \/ \A i \in 1 .. n : Cardinality(u[i]) <= 1
  BY <1>8
<1>10. kind = "dp" => \A i, j \in 1 .. n : u[i] # {} /\ Cardinality(u[i]) = Cardinality(u[j])
  BY <1>7
<1>. HIDE DEF Balance!Joined
<1>. QED  BY <1>2, <1>5, <1>6, <1>9, <1>10 DEF Even, u

\* Shuffling does not matter.
Shuffle(n) == Balance!Bijection(1 .. n, 1 .. n)

LEMMA ShuffleIs ==
    ASSUME NEW n, NEW p \in Shuffle(n)
    PROVE  /\ p \in [1 .. n -> 1 .. n]
           /\ \A i, j \in 1 .. n : i # j => p[i] # p[j]
           /\ \A j \in 1 .. n : \E i \in 1 .. n : p[i] = j
BY DEF Shuffle, Balance!Bijection, Balance!Injection, Balance!Surjection, Balance!IsInjective

LEMMA ShuffledEven ==
    ASSUME NEW w, NEW n, NEW kind, NEW u, Even(w, n, kind, u), NEW p \in Shuffle(n)
    PROVE  Even(w, n, kind, [i \in 1 .. n |-> u[p[i]]])
<1>. DEFINE v == [i \in 1 .. n |-> u[p[i]]]
<1>1. /\ \A i \in 1 .. n : p[i] \in 1 .. n /\ v[i] = u[p[i]]
      /\ \A i, j \in 1 .. n : i # j => p[i] # p[j]
      /\ u \in [1 .. n -> SUBSET Units]
  <2>1. p \in [1 .. n -> 1 .. n] /\ \A i, j \in 1 .. n : i # j => p[i] # p[j]
    BY ShuffleIs
  <2>2. u \in [1 .. n -> SUBSET Units]
    BY DEF Even
  <2>. QED  BY <2>1, <2>2
<1>2. v \in [1 .. n -> SUBSET Units]
  BY <1>1
<1>. HIDE DEF v
<1>3. \A i, j \in 1 .. n : i # j => v[i] \cap v[j] = {}
  BY <1>1 DEF Even
<1>4. \A i, j \in 1 .. n : SumOf(w, v[i]) - SumOf(w, v[j]) <= Heaviest(w)
  BY <1>1 DEF Even
<1>5. kind = "dp" => \A i, j \in 1 .. n : v[i] # {} /\ Cardinality(v[i]) = Cardinality(v[j])
  BY <1>1 DEF Even
<1>6. kind = "micro" => \/ \A i \in 1 .. n : v[i] # {}
                        \/ \A i \in 1 .. n : Cardinality(v[i]) <= 1
  BY <1>1 DEF Even
<1>. QED  BY <1>2, <1>3, <1>4, <1>5, <1>6 DEF Even, v

LEMMA OrdersAre ==
    ASSUME NEW n \in Nat, NEW s \in [1 .. n -> SUBSET Units], NEW v \in Balance!Orders(s),
           Weighed(Balance!Workload)
    PROVE  /\ \E p \in Shuffle(n) : v = [i \in 1 .. n |-> s[p[i]]]
           /\ Falling(Balance!Workload, n, v)
<1>1. Len(s) = n /\ DOMAIN s = 1 .. n
  BY FunctionIsSeq
<1>2. PICK p \in Shuffle(n) : v = [i \in 1 .. n |-> s[p[i]]]
  BY <1>1 DEF Balance!Orders, Shuffle
<1>3. Balance!Descending(v)
  BY DEF Balance!Orders
<1>4. p \in [1 .. n -> 1 .. n]
  BY ShuffleIs
<1>5. v \in [1 .. n -> SUBSET Units] /\ DOMAIN v = 1 .. n
  BY <1>2, <1>4
<1>6. ASSUME NEW i \in 1 .. n, NEW j \in 1 .. n, i < j
      PROVE  SumOf(Balance!Workload, v[j]) <= SumOf(Balance!Workload, v[i])
  <2>1. ~(Balance!Load(v[j]) > Balance!Load(v[i]))
    BY <1>3, <1>5, <1>6 DEF Balance!Descending, Balance!Heavier
  <2>2. /\ Balance!Load(v[j]) = SumOf(Balance!Workload, v[j])
        /\ Balance!Load(v[i]) = SumOf(Balance!Workload, v[i])
    BY LoadIs
  <2>3. SumOf(Balance!Workload, v[j]) \in Nat /\ SumOf(Balance!Workload, v[i]) \in Nat
    BY <1>5, LoadTypes
  <2>. QED  BY <2>1, <2>2, <2>3
<1>. QED  BY <1>2, <1>6 DEF Falling

Covers(n, s) == \A x \in Units : \E j \in 1 .. n : x \in s[j]

\* What is left when one state is left.
Divided(w, n, kind, s) ==
    /\ s \in [1 .. n -> SUBSET Units]
    /\ \A i, j \in 1 .. n : i # j => s[i] \cap s[j] = {}
    /\ Covers(n, s)
    /\ \A i \in 1 .. n : s[i] # {}
    /\ \A i, j \in 1 .. n : SumOf(w, s[i]) - SumOf(w, s[j]) <= Heaviest(w)
    /\ kind = "dp" => \A i \in 1 .. n : Cardinality(s[i]) * n = Batch

LEMMA EqualsAdd ==
    ASSUME NEW w, Weighed(w), NEW n \in Nat, NEW s \in [1 .. n -> SUBSET Units], NEW c \in Nat,
           \A i, j \in 1 .. n : i # j => s[i] \cap s[j] = {},
           \A i \in 1 .. n : Cardinality(s[i]) = c
    PROVE  Cardinality(UNION {s[i] : i \in 1 .. n}) = n * c
<1>. DEFINE First(m) == UNION {s[i] : i \in 1 .. m}
            T == {m \in Nat : m <= n => Cardinality(First(m)) = m * c}
<1>1. 0 \in T
  <2>1. First(0) = {}
    OBVIOUS
  <2>2. 0 * c = 0
    OBVIOUS
  <2>. HIDE DEF First
  <2>. QED  BY <2>1, <2>2, FS_EmptySet
<1>2. ASSUME NEW m \in Nat, m \in T PROVE m + 1 \in T
  <2>1. SUFFICES ASSUME m + 1 <= n PROVE Cardinality(First(m + 1)) = (m + 1) * c
    OBVIOUS
  <2>2. m + 1 \in 1 .. n /\ m <= n /\ 1 .. m \subseteq 1 .. n
    BY <2>1
  <2>3. First(m + 1) = First(m) \cup s[m + 1]
    <3>1. 1 .. m + 1 = (1 .. m) \cup {m + 1}
      OBVIOUS
    <3>. QED  BY <3>1
  <2>4. First(m) \in SUBSET Units /\ s[m + 1] \in SUBSET Units
    <3>1. \A i \in 1 .. m : s[i] \in SUBSET Units
      BY <2>2
    <3>. QED  BY <2>2, <3>1
  <2>5. First(m) \cap s[m + 1] = {}
    <3>1. \A i \in 1 .. m : s[i] \cap s[m + 1] = {}
      BY <2>2
    <3>. QED  BY <3>1
  <2>6. Cardinality(First(m)) = m * c /\ Cardinality(s[m + 1]) = c
    BY <1>2, <2>2
  <2>. HIDE DEF First
  <2>7. Cardinality(First(m) \cup s[m + 1]) = Cardinality(First(m)) + Cardinality(s[m + 1])
    BY <2>4, <2>5, LoadsAdd
  <2>8. m * c + c = (m + 1) * c
    OBVIOUS
  <2>. QED  BY <2>3, <2>6, <2>7, <2>8
<1>3. \A m \in Nat : m \in T
  <2>. HIDE DEF T
  <2>. QED  BY <1>1, <1>2, Induction
<1>. QED  BY <1>3

\* More samples than partitions: sets of one sample at most do not cover them.
LEMMA OnesTooFew ==
    ASSUME NEW w, Weighed(w), NEW n \in 1 .. Batch, NEW s \in [1 .. n -> SUBSET Units],
           Covers(n, s), \A i \in 1 .. n : Cardinality(s[i]) <= 1, NEW e \in 1 .. n, s[e] = {}
    PROVE  FALSE
<1>. DEFINE Others == (1 .. n) \ {e}
            f == [x \in Units |-> CHOOSE j \in 1 .. n : x \in s[j]]
<1>1. \A x \in Units : f[x] \in Others /\ x \in s[f[x]]
  BY DEF Covers
<1>2. f \in [Units -> Others]
  BY <1>1
<1>3. IsFiniteSet(1 .. n) /\ Cardinality(1 .. n) = n /\ n \in Nat \ {0} /\ n <= Batch
  <2>1. n \in Nat \ {0} /\ n <= Batch
    BY BalConstants
  <2>2. 1 \in Int /\ n \in Int
    BY <2>1
  <2>. QED  BY <2>1, <2>2, FS_Interval
<1>4. IsFiniteSet(Others) /\ Cardinality(Others) = n - 1
  BY <1>3, OneLess
<1>. HIDE DEF Others, f
<1>5. PICK x, y \in Units : x # y /\ f[x] = f[y]
  <2>1. Cardinality(Others) < Cardinality(Units)
    BY <1>3, <1>4, BalConstants
  <2>. QED  BY <1>2, <1>4, <2>1, FS_PigeonHole, BalConstants
<1>6. PICK j \in 1 .. n : x \in s[j] /\ y \in s[j]
  BY <1>1, <1>5 DEF Others
<1>7. IsFiniteSet(s[j]) /\ Cardinality(s[j]) \in Nat
  BY LoadTypes
<1>8. IsFiniteSet(s[j] \ {x}) /\ Cardinality(s[j] \ {x}) = Cardinality(s[j]) - 1
  BY <1>6, <1>7, FS_RemoveElement
<1>9. Cardinality(s[j] \ {x}) = 0
  <2>1. Cardinality(s[j]) <= 1 /\ Cardinality(s[j] \ {x}) \in Nat
    BY <1>8, FS_CardinalityType
  <2>. QED  BY <1>7, <1>8, <2>1
<1>10. s[j] \ {x} = {}
  BY <1>8, <1>9, FS_EmptySet
<1>. QED  BY <1>5, <1>6, <1>10

LEMMA LastIsDivided ==
    ASSUME NEW w, Weighed(w), NEW n \in 1 .. Batch, NEW kind \in Kinds, NEW s,
           Even(w, n, kind, s), Covers(n, s)
    PROVE  Divided(w, n, kind, s)
<1>1. s \in [1 .. n -> SUBSET Units] /\ n \in Nat /\ 1 \in 1 .. n
  BY BalConstants DEF Even
<1>2. \A i, j \in 1 .. n : i # j => s[i] \cap s[j] = {}
  BY DEF Even
<1>3. \A i \in 1 .. n : s[i] # {}
  <2>1. CASE kind = "dp"
    BY <2>1 DEF Even
  <2>2. CASE kind = "micro"
    <3>1. SUFFICES ASSUME NEW e \in 1 .. n, s[e] = {} PROVE FALSE
      OBVIOUS
    <3>2. \A i \in 1 .. n : Cardinality(s[i]) <= 1
      BY <2>2, <3>1 DEF Even
    <3>. QED  BY <1>1, <3>1, <3>2, OnesTooFew
  <2>. QED  BY <2>1, <2>2 DEF Kinds
<1>4. ASSUME kind = "dp", NEW i \in 1 .. n PROVE Cardinality(s[i]) * n = Batch
  <2>1. PICK c \in Nat : c = Cardinality(s[i])
    BY <1>1, LoadTypes
  <2>2. \A j \in 1 .. n : Cardinality(s[j]) = c
    BY <1>4, <2>1 DEF Even
  <2>3. Cardinality(UNION {s[j] : j \in 1 .. n}) = n * c
    BY <1>1, <1>2, <2>2, EqualsAdd
  <2>4. UNION {s[j] : j \in 1 .. n} = Units
    BY <1>1 DEF Covers
  <2>5. Cardinality(Units) = Batch
    BY BalConstants
  <2>6. n * c = Batch
    BY <2>3, <2>4, <2>5
  <2>7. n * c = c * n
    BY <1>1
  <2>. QED  BY <2>1, <2>6, <2>7
<1>. QED  BY <1>1, <1>2, <1>3, <1>4 DEF Even, Divided

LEMMA ShuffledCovers ==
    ASSUME NEW n, NEW s, Covers(n, s), NEW p \in Shuffle(n)
    PROVE  Covers(n, [i \in 1 .. n |-> s[p[i]]])
BY ShuffleIs DEF Covers

LEMMA ShuffledDivided ==
    ASSUME NEW w, NEW n, NEW kind, NEW u, Divided(w, n, kind, u), NEW p \in Shuffle(n)
    PROVE  Divided(w, n, kind, [i \in 1 .. n |-> u[p[i]]])
<1>. DEFINE v == [i \in 1 .. n |-> u[p[i]]]
<1>1. /\ \A i \in 1 .. n : p[i] \in 1 .. n /\ v[i] = u[p[i]]
      /\ \A i, j \in 1 .. n : i # j => p[i] # p[j]
      /\ u \in [1 .. n -> SUBSET Units]
  <2>1. p \in [1 .. n -> 1 .. n] /\ \A i, j \in 1 .. n : i # j => p[i] # p[j]
    BY ShuffleIs
  <2>2. u \in [1 .. n -> SUBSET Units]
    BY DEF Divided
  <2>. QED  BY <2>1, <2>2
<1>2. v \in [1 .. n -> SUBSET Units]
  BY <1>1
<1>3. Covers(n, v)
  <2>1. Covers(n, u)
    BY DEF Divided
  <2>. QED  BY <2>1, ShuffledCovers
<1>. HIDE DEF v
<1>4. \A i, j \in 1 .. n : i # j => v[i] \cap v[j] = {}
  BY <1>1 DEF Divided
<1>5. /\ \A i, j \in 1 .. n : SumOf(w, v[i]) - SumOf(w, v[j]) <= Heaviest(w)
      /\ \A i \in 1 .. n : v[i] # {}
  BY <1>1 DEF Divided
<1>6. kind = "dp" => \A i \in 1 .. n : Cardinality(v[i]) * n = Batch
  BY <1>1 DEF Divided
<1>. QED  BY <1>2, <1>3, <1>4, <1>5, <1>6 DEF Divided, v

\* The states in the heap share no sample and have all of them.
Heaped(w, n, kind, H) ==
    /\ IsFiniteSet(H)
    /\ \A s \in H : Even(w, n, kind, s) /\ Falling(w, n, s)
    /\ \A s, t \in H : s # t => Apart(n, s, t)
    /\ \A x \in Units : \E s \in H : \E j \in 1 .. n : x \in s[j]

LEMMA SameCardinality == \A S : Balance!Cardinality(S) = Cardinality(S)
BY DEF Balance!Cardinality, Cardinality

LEMMA MergeHeaped ==
    ASSUME Weighed(Balance!Workload), NEW n \in 1 .. Batch, NEW kind \in Kinds, NEW H,
           Heaped(Balance!Workload, n, kind, H), NEW s \in H, NEW t \in H \ {s},
           NEW u \in Balance!Orders(Balance!Joined(s, t))
    PROVE  Heaped(Balance!Workload, n, kind, (H \ {s, t}) \cup {u})
<1>. DEFINE w == Balance!Workload
            J == Balance!Joined(s, t)
            H2 == (H \ {s, t}) \cup {u}
<1>0. n \in Nat
  BY BalConstants
<1>1. /\ Even(w, n, kind, s) /\ Falling(w, n, s) /\ Even(w, n, kind, t) /\ Falling(w, n, t)
      /\ Apart(n, s, t)
  BY DEF Heaped
<1>. HIDE DEF w
<1>2. s \in [1 .. n -> SUBSET Units] /\ t \in [1 .. n -> SUBSET Units]
  BY <1>1 DEF Even
<1>3. /\ J \in [1 .. n -> SUBSET Units]
      /\ \A i \in 1 .. n : n + 1 - i \in 1 .. n /\ J[i] = s[i] \cup t[n + 1 - i]
  BY <1>0, <1>2, JoinedIs
<1>4. Even(w, n, kind, J)
  BY <1>0, <1>1, JoinedEven DEF w
<1>. HIDE DEF J
<1>5. PICK p \in Shuffle(n) : u = [i \in 1 .. n |-> J[p[i]]]
  BY <1>0, <1>3, OrdersAre DEF J
<1>6. Falling(w, n, u)
  BY <1>0, <1>3, OrdersAre DEF J, w
<1>7. Even(w, n, kind, u)
  BY <1>4, <1>5, ShuffledEven
<1>8. /\ p \in [1 .. n -> 1 .. n]
      /\ \A i \in 1 .. n : \E j \in 1 .. n : p[j] = i
  BY ShuffleIs
<1>9. ASSUME NEW r \in H \ {s, t} PROVE Apart(n, r, u) /\ Apart(n, u, r)
  <2>1. Apart(n, r, s) /\ Apart(n, r, t)
    BY DEF Heaped
  <2>2. ASSUME NEW i \in 1 .. n, NEW j \in 1 .. n PROVE r[i] \cap u[j] = {}
    <3>1. PICK a \in 1 .. n : a = p[j]
      BY <1>8
    <3>2. PICK b \in 1 .. n : b = n + 1 - a
      BY <1>3
    <3>3. u[j] = s[a] \cup t[b]
      BY <1>3, <1>5, <3>1, <3>2
    <3>4. r[i] \cap s[a] = {} /\ r[i] \cap t[b] = {}
      BY <2>1 DEF Apart
    <3>. QED  BY <3>3, <3>4
  <2>. QED  BY <2>2 DEF Apart
<1>10. ASSUME NEW x \in Units PROVE \E r \in H2 : \E j \in 1 .. n : x \in r[j]
  <2>1. PICK r \in H, j \in 1 .. n : x \in r[j]
    BY DEF Heaped
  <2>2. ASSUME NEW a \in 1 .. n, x \in J[a] PROVE \E i \in 1 .. n : x \in u[i]
    <3>1. PICK i \in 1 .. n : p[i] = a
      BY <1>8
    <3>. QED  BY <1>5, <2>2, <3>1
  <2>3. CASE r = s
    <3>1. x \in J[j]
      BY <1>3, <2>1, <2>3
    <3>. QED  BY <2>2, <3>1
  <2>4. CASE r = t
    <3>1. PICK a \in 1 .. n : a = n + 1 - j
      BY <1>3
    <3>2. j = n + 1 - a
      BY <1>0, <3>1
    <3>3. x \in J[a]
      BY <1>3, <2>1, <2>4, <3>2
    <3>. QED  BY <2>2, <3>3
  <2>5. CASE r \notin {s, t}
    BY <2>1, <2>5
  <2>. QED  BY <2>3, <2>4, <2>5
<1>11. IsFiniteSet(H2)
  <2>1. IsFiniteSet(H)
    BY DEF Heaped
  <2>2. IsFiniteSet(H \ {s, t})
    BY <2>1, FS_Subset
  <2>. QED  BY <2>2, FS_AddElement
<1>12. \A r \in H2 : Even(w, n, kind, r) /\ Falling(w, n, r)
  BY <1>6, <1>7 DEF Heaped, w
<1>13. \A r, q \in H2 : r # q => Apart(n, r, q)
  <2>1. \A r, q \in H : r # q => Apart(n, r, q)
    BY DEF Heaped
  <2>. QED  BY <1>9, <2>1
<1>. HIDE DEF H2
<1>14. Heaped(w, n, kind, H2)
  BY <1>10, <1>11, <1>12, <1>13 DEF Heaped
<1>. QED  BY <1>14 DEF w, H2

LEMMA ImageFinite ==
    ASSUME NEW A, IsFiniteSet(A), NEW f PROVE IsFiniteSet({f[x] : x \in A})
<1>. DEFINE B == {f[x] : x \in A}
            g == [x \in A |-> f[x]]
<1>1. g \in Surjection(A, B)
  BY DEF Surjection
<1>. QED  BY <1>1, FS_Surjection

LEMMA Slots ==
    ASSUME NEW n \in Nat \ {0}, NEW q \in Nat
    PROVE  /\ \A c \in 0 .. q - 1 : \A i \in 1 .. n : (c + 1) * n + 1 - i \in 1 .. n * q
           /\ \A c, d \in 0 .. q - 1 : \A i, j \in 1 .. n :
                c # d => (c + 1) * n + 1 - i # (d + 1) * n + 1 - j
           /\ \A p \in 1 .. n * q : \E c \in 0 .. q - 1 : \E i \in 1 .. n :
                p = (c + 1) * n + 1 - i
<1>0. n * q \in Nat /\ q * n = n * q
  OBVIOUS
<1>1. ASSUME NEW c \in 0 .. q - 1, NEW i \in 1 .. n
      PROVE  (c + 1) * n + 1 - i \in 1 .. n * q
  <2>1. c + 1 \in Nat /\ 1 <= c + 1 /\ c + 1 <= q
    OBVIOUS
  <2>2. (c + 1) * n \in Nat /\ 1 * n <= (c + 1) * n /\ (c + 1) * n <= q * n /\ 1 * n = n
    BY <2>1, TimesGrows
  <2>. QED  BY <1>0, <2>2
<1>2. ASSUME NEW c \in 0 .. q - 1, NEW d \in 0 .. q - 1, NEW i \in 1 .. n, NEW j \in 1 .. n,
             c < d
      PROVE  (c + 1) * n + 1 - i < (d + 1) * n + 1 - j
  <2>1. c + 1 \in Nat /\ d \in Nat /\ c + 1 <= d
    BY <1>2
  <2>2. (c + 1) * n \in Nat /\ (c + 1) * n <= d * n /\ (d + 1) * n = d * n + n /\ d * n \in Nat
    BY <2>1, TimesGrows
  <2>. QED  BY <2>2
<1>3. ASSUME NEW c \in 0 .. q - 1, NEW d \in 0 .. q - 1, NEW i \in 1 .. n, NEW j \in 1 .. n,
             c # d
      PROVE  (c + 1) * n + 1 - i # (d + 1) * n + 1 - j
  <2>1. (c + 1) * n + 1 - i \in Int /\ (d + 1) * n + 1 - j \in Int
    BY <1>0, <1>1
  <2>2. c < d \/ d < c
    BY <1>3
  <2>. QED  BY <1>2, <2>1, <2>2
<1>4. ASSUME NEW p \in 1 .. n * q
      PROVE  \E c \in 0 .. q - 1 : \E i \in 1 .. n : p = (c + 1) * n + 1 - i
  <2>1. p - 1 \in Nat /\ p - 1 < n * q
    BY <1>0
  <2>2. PICK c \in Int : c = (p - 1) \div n
    BY <2>1, DivMod
  <2>3. PICK r \in 0 .. n - 1 : p - 1 = n * c + r
    <3>1. PICK a \in Nat : a = p - 1
      BY <2>1
    <3>2. a % n \in 0 .. n - 1 /\ a = n * (a \div n) + (a % n)
      BY DivMod
    <3>. QED  BY <2>2, <3>1, <3>2
  <2>4. c \in Nat
    BY <2>1, <2>2
  <2>5. c < q
    <3>1. SUFFICES ASSUME q <= c PROVE FALSE
      BY <2>4
    <3>2. q * n <= c * n /\ c * n = n * c /\ c * n \in Nat
      BY <2>4, <3>1, TimesGrows
    <3>. QED  BY <1>0, <2>1, <2>3, <3>2
  <2>6. (c + 1) * n = n * c + n
    BY <2>4
  <2>7. n - r \in 1 .. n /\ p = (c + 1) * n + 1 - (n - r)
    <3>1. n * c \in Nat
      BY <2>4
    <3>. QED  BY <2>3, <2>6, <3>1
  <2>8. c \in 0 .. q - 1
    BY <2>4, <2>5
  <2>. QED  BY <2>7, <2>8
<1>. QED  BY <1>1, <1>3, <1>4

\* An enumeration of a finite set
LEMMA OrderIs ==
    ASSUME NEW A, IsFiniteSet(A), NEW order \in Balance!SetToSeqs(A)
    PROVE  /\ order \in [1 .. Cardinality(A) -> A] /\ Cardinality(A) \in Nat
           /\ \A i, j \in 1 .. Cardinality(A) : i # j => order[i] # order[j]
           /\ \A x \in A : \E i \in 1 .. Cardinality(A) : order[i] = x
<1>. DEFINE D == 1 .. Cardinality(A)
<1>1. Cardinality(A) \in Nat
  BY FS_CardinalityType
<1>2. order \in [D -> A] /\ \A i, j \in D : i # j => order[i] # order[j]
  <2>1. /\ order \in [1 .. Balance!Cardinality(A) -> A]
        /\ \A i, j \in 1 .. Balance!Cardinality(A) : i # j => order[i] # order[j]
    BY DEF Balance!SetToSeqs
  <2>2. Balance!Cardinality(A) = Cardinality(A)
    BY SameCardinality
  <2>. QED  BY <2>1, <2>2
<1>3. IsFiniteSet(D) /\ Cardinality(D) = Cardinality(A)
  <2>1. 1 \in Int /\ Cardinality(A) \in Int
    BY <1>1
  <2>2. IsFiniteSet(D) /\ Cardinality(D) = IF 1 > Cardinality(A) THEN 0 ELSE Cardinality(A) - 1 + 1
    BY <2>1, FS_Interval
  <2>. HIDE DEF D
  <2>. QED  BY <1>1, <2>2
<1>. HIDE DEF D
<1>4. order \in Injection(D, A)
  BY <1>2 DEF Injection, IsInjective
<1>5. order \in Surjection(D, A)
  BY <1>3, <1>4, FS_Injection
<1>6. \A x \in A : \E i \in D : order[i] = x
  BY <1>5 DEF Surjection
<1>. QED  BY <1>1, <1>2, <1>6 DEF D

LEMMA RankIs ==
    ASSUME NEW order, NEW c, NEW n
    PROVE  /\ DOMAIN Balance!Chunk(order, c, n) = 1 .. n
           /\ \A i \in 1 .. n : Balance!Chunk(order, c, n)[i] = {order[(c + 1) * n + 1 - i]}
           /\ Balance!Chunk(order, c, n) = [i \in 1 .. n |-> {order[(c + 1) * n + 1 - i]}]
BY DEF Balance!Chunk

\* Sets of one sample each, heaviest first
LEMMA OnesEven ==
    ASSUME NEW w, Weighed(w), NEW n, NEW s \in [1 .. n -> SUBSET Units], NEW f \in [1 .. n -> Units],
           \A i \in 1 .. n : s[i] = {f[i]}, \A i, j \in 1 .. n : i # j => f[i] # f[j]
    PROVE  Even(w, n, "dp", s)
<1>1. \A i \in 1 .. n : /\ SumOf(w, s[i]) = w[f[i]] /\ w[f[i]] \in Nat
                        /\ w[f[i]] <= Heaviest(w) /\ Heaviest(w) \in Nat
  <2>1. TAKE i \in 1 .. n
  <2>2. PICK x \in Units : x = f[i]
    OBVIOUS
  <2>. QED  BY <2>2, LoadOfOne, HeaviestIs DEF Weighed
<1>2. \A i, j \in 1 .. n : SumOf(w, s[i]) - SumOf(w, s[j]) <= Heaviest(w)
  <2>1. TAKE i, j \in 1 .. n
  <2>. QED  BY <1>1
<1>3. \A i, j \in 1 .. n : s[i] # {} /\ Cardinality(s[i]) = Cardinality(s[j])
  BY FS_Singleton
<1>. QED  BY <1>2, <1>3 DEF Even

Slot(c, n, i) == (c + 1) * n + 1 - i

LEMMA ChunkEven ==
    ASSUME Weighed(Balance!Workload), NEW order \in Balance!SetToSeqs(Units), Balance!BySize(order),
           NEW n \in Nat \ {0}, NEW q \in Nat, Batch = n * q, NEW c \in 0 .. q - 1
    PROVE  /\ Even(Balance!Workload, n, "dp", Balance!Chunk(order, c, n))
           /\ Falling(Balance!Workload, n, Balance!Chunk(order, c, n))
<1>. DEFINE s == Balance!Chunk(order, c, n)
            f == [i \in 1 .. n |-> order[Slot(c, n, i)]]
            w == Balance!Workload
<1>1. /\ order \in [1 .. Batch -> Units]
      /\ \A i, j \in 1 .. Batch : i # j => order[i] # order[j]
  <2>1. IsFiniteSet(Units) /\ Cardinality(Units) = Batch
    BY BalConstants
  <2>2. /\ order \in [1 .. Cardinality(Units) -> Units]
        /\ \A i, j \in 1 .. Cardinality(Units) : i # j => order[i] # order[j]
    BY <2>1, OrderIs
  <2>. QED  BY <2>1, <2>2
<1>2. \A i \in 1 .. n : Slot(c, n, i) \in 1 .. Batch
  BY Slots DEF Slot
<1>3. \A i, j \in 1 .. n : i < j => Slot(c, n, j) < Slot(c, n, i)
  <2>1. (c + 1) * n \in Int
    OBVIOUS
  <2>. QED  BY <2>1 DEF Slot
<1>4. f \in [1 .. n -> Units]
  BY <1>1, <1>2
<1>5. /\ s \in [1 .. n -> SUBSET Units] /\ \A i \in 1 .. n : s[i] = {f[i]}
  <2>1. /\ DOMAIN s = 1 .. n /\ \A i \in 1 .. n : s[i] = {order[(c + 1) * n + 1 - i]}
        /\ s = [i \in 1 .. n |-> {order[(c + 1) * n + 1 - i]}]
    BY RankIs
  <2>. HIDE DEF s
  <2>2. \A i \in 1 .. n : s[i] = {f[i]}
    BY <2>1 DEF Slot
  <2>3. s = [i \in 1 .. n |-> s[i]]
    BY <2>1
  <2>. HIDE DEF f
  <2>. QED  BY <1>4, <2>2, <2>3
<1>6. \A i, j \in 1 .. n : i # j => f[i] # f[j]
  <2>1. SUFFICES ASSUME NEW i \in 1 .. n, NEW j \in 1 .. n, i # j PROVE f[i] # f[j]
    OBVIOUS
  <2>2. i < j \/ j < i
    BY <2>1
  <2>3. Slot(c, n, i) # Slot(c, n, j)
    BY <1>2, <1>3, <2>2
  <2>. QED  BY <1>1, <1>2, <2>3
<1>7. ASSUME NEW i \in 1 .. n, NEW j \in 1 .. n, i < j PROVE w[f[j]] <= w[f[i]]
  <2>1. PICK a \in 1 .. Batch : a = Slot(c, n, j)
    BY <1>2
  <2>2. PICK b \in 1 .. Batch : b = Slot(c, n, i)
    BY <1>2
  <2>3. a < b
    BY <1>3, <1>7, <2>1, <2>2
  <2>4. DOMAIN order = 1 .. Batch
    BY <1>1
  <2>5. \/ Balance!Workload[order[a]] < Balance!Workload[order[b]]
        \/ Balance!Workload[order[a]] = Balance!Workload[order[b]]
    BY <2>3, <2>4 DEF Balance!BySize
  <2>6. w[order[a]] \in Nat /\ w[order[b]] \in Nat
    BY <1>1 DEF Weighed
  <2>. HIDE DEF w
  <2>7. f[j] = order[a] /\ f[i] = order[b]
    BY <2>1, <2>2
  <2>. QED  BY <2>5, <2>6, <2>7 DEF w
<1>. HIDE DEF s, f, w
<1>8. Even(w, n, "dp", s)
  BY <1>4, <1>5, <1>6, OnesEven DEF w
<1>9. ASSUME NEW i \in 1 .. n PROVE SumOf(w, s[i]) = w[f[i]]
  <2>1. PICK x \in Units : x = f[i]
    BY <1>4
  <2>. QED  BY <1>5, <2>1, LoadOfOne DEF w
<1>10. Falling(w, n, s)
  BY <1>7, <1>9 DEF Falling
<1>. QED  BY <1>8, <1>10 DEF s, w

LEMMA RanksHeaped ==
    ASSUME Weighed(Balance!Workload), NEW order \in Balance!SetToSeqs(Units), Balance!BySize(order),
           NEW n \in Nat \ {0}, NEW q \in Nat, Batch = n * q
    PROVE  Heaped(Balance!Workload, n, "dp", {Balance!Chunk(order, c, n) : c \in 0 .. q - 1})
<1>. DEFINE H == {Balance!Chunk(order, c, n) : c \in 0 .. q - 1}
<1>1. /\ order \in [1 .. Batch -> Units]
      /\ \A i, j \in 1 .. Batch : i # j => order[i] # order[j]
      /\ \A x \in Units : \E i \in 1 .. Batch : order[i] = x
  <2>1. IsFiniteSet(Units) /\ Cardinality(Units) = Batch
    BY BalConstants
  <2>2. /\ order \in [1 .. Cardinality(Units) -> Units]
        /\ \A i, j \in 1 .. Cardinality(Units) : i # j => order[i] # order[j]
        /\ \A x \in Units : \E i \in 1 .. Cardinality(Units) : order[i] = x
    BY <2>1, OrderIs
  <2>. QED  BY <2>1, <2>2
<1>2. IsFiniteSet(H)
  <2>. DEFINE f == [c \in 0 .. q - 1 |-> Balance!Chunk(order, c, n)]
  <2>1. IsFiniteSet(0 .. q - 1)
    <3>1. 0 \in Int /\ q - 1 \in Int
      OBVIOUS
    <3>. QED  BY <3>1, FS_Interval
  <2>2. IsFiniteSet({f[c] : c \in 0 .. q - 1})
    <3>. HIDE DEF f
    <3>. QED  BY <2>1, ImageFinite
  <2>. QED  BY <2>2
<1>3. \A s \in H : Even(Balance!Workload, n, "dp", s) /\ Falling(Balance!Workload, n, s)
  BY ChunkEven
<1>4. ASSUME NEW c \in 0 .. q - 1, NEW d \in 0 .. q - 1, c # d
      PROVE  Apart(n, Balance!Chunk(order, c, n), Balance!Chunk(order, d, n))
  <2>1. SUFFICES ASSUME NEW i \in 1 .. n, NEW j \in 1 .. n
                 PROVE  Balance!Chunk(order, c, n)[i] \cap Balance!Chunk(order, d, n)[j] = {}
    BY DEF Apart
  <2>2. PICK a \in 1 .. Batch : a = (c + 1) * n + 1 - i
    BY Slots
  <2>3. PICK b \in 1 .. Batch : b = (d + 1) * n + 1 - j
    BY Slots
  <2>4. a # b
    BY <1>4, <2>2, <2>3, Slots
  <2>5. Balance!Chunk(order, c, n)[i] = {order[(c + 1) * n + 1 - i]}
    BY RankIs
  <2>6. Balance!Chunk(order, d, n)[j] = {order[(d + 1) * n + 1 - j]}
    BY RankIs
  <2>. QED  BY <1>1, <2>2, <2>3, <2>4, <2>5, <2>6
<1>5. \A s, t \in H : s # t => Apart(n, s, t)
  BY <1>4
<1>6. ASSUME NEW x \in Units PROVE \E s \in H : \E j \in 1 .. n : x \in s[j]
  <2>1. PICK p \in 1 .. Batch : order[p] = x
    BY <1>1
  <2>2. PICK c \in 0 .. q - 1, i \in 1 .. n : p = (c + 1) * n + 1 - i
    BY Slots
  <2>3. Balance!Chunk(order, c, n)[i] = {x}
    <3>1. Balance!Chunk(order, c, n)[i] = {order[(c + 1) * n + 1 - i]}
      BY RankIs
    <3>. QED  BY <2>1, <2>2, <3>1
  <2>4. Balance!Chunk(order, c, n) \in H
    OBVIOUS
  <2>. QED  BY <2>3, <2>4
<1>. HIDE DEF H
<1>7. Heaped(Balance!Workload, n, "dp", H)
  BY <1>2, <1>3, <1>5, <1>6 DEF Heaped
<1>. QED  BY <1>7 DEF H

LEMMA AloneAt ==
    ASSUME NEW n \in Nat \ {0}, NEW x \in Units
    PROVE  /\ Balance!Alone(x, n) \in [1 .. n -> SUBSET Units]
           /\ \A j \in 1 .. n : Balance!Alone(x, n)[j] = IF j = 1 THEN {x} ELSE {}
BY DEF Balance!Alone

LEMMA AloneIs ==
    ASSUME NEW w, Weighed(w), NEW n \in Nat \ {0}, NEW x \in Units
    PROVE  Even(w, n, "micro", Balance!Alone(x, n)) /\ Falling(w, n, Balance!Alone(x, n))
<1>. DEFINE s == Balance!Alone(x, n)
<1>1. /\ s \in [1 .. n -> SUBSET Units]
      /\ \A j \in 1 .. n : s[j] = IF j = 1 THEN {x} ELSE {}
  BY AloneAt
<1>. HIDE DEF s
<1>2. SumOf(w, {x}) = w[x] /\ w[x] \in Nat /\ w[x] <= Heaviest(w) /\ Heaviest(w) \in Nat
  BY LoadOfOne, HeaviestIs DEF Weighed
<1>3. SumOf(w, {}) = 0 /\ Cardinality({}) = 0 /\ Cardinality({x}) = 1
  BY FS_EmptySet, FS_Singleton, SumPicks
<1>4. \A i, j \in 1 .. n : i # j => s[i] \cap s[j] = {}
  BY <1>1
<1>5. \A i, j \in 1 .. n : SumOf(w, s[i]) - SumOf(w, s[j]) <= Heaviest(w)
  <2>1. TAKE i, j \in 1 .. n
  <2>2. SumOf(w, s[i]) \in {0, w[x]} /\ SumOf(w, s[j]) \in {0, w[x]}
    BY <1>1, <1>2, <1>3
  <2>. QED  BY <1>2, <2>2
<1>6. \A i \in 1 .. n : Cardinality(s[i]) <= 1
  <2>1. \A i \in 1 .. n : s[i] = {x} \/ s[i] = {}
    BY <1>1
  <2>2. Cardinality({x}) <= 1 /\ Cardinality({}) <= 1
    BY <1>3
  <2>. QED  BY <2>1, <2>2
<1>7. Falling(w, n, s)
  <2>1. SUFFICES ASSUME NEW i \in 1 .. n, NEW j \in 1 .. n, i < j
                 PROVE  SumOf(w, s[j]) <= SumOf(w, s[i])
    BY DEF Falling
  <2>2. SumOf(w, s[i]) \in {0, w[x]} /\ SumOf(w, s[j]) = 0
    <3>1. j # 1 /\ s[j] = {}
      BY <1>1, <2>1
    <3>2. s[i] = {x} \/ s[i] = {}
      BY <1>1
    <3>. QED  BY <1>2, <1>3, <3>1, <3>2
  <2>. QED  BY <1>2, <2>2
<1>. QED  BY <1>1, <1>4, <1>5, <1>6, <1>7 DEF Even, s

LEMMA MicroHeaped ==
    ASSUME NEW w, Weighed(w), NEW n \in Nat \ {0}
    PROVE  Heaped(w, n, "micro", {Balance!Alone(i, n) : i \in Units})
<1>. DEFINE H == {Balance!Alone(i, n) : i \in Units}
<1>1. IsFiniteSet(H)
  <2>. DEFINE f == [i \in Units |-> Balance!Alone(i, n)]
  <2>1. IsFiniteSet({f[i] : i \in Units})
    <3>. HIDE DEF f
    <3>. QED  BY BalConstants, ImageFinite
  <2>. QED  BY <2>1
<1>2. \A s \in H : Even(w, n, "micro", s) /\ Falling(w, n, s)
  <2>1. \A x \in Units : /\ Even(w, n, "micro", Balance!Alone(x, n))
                         /\ Falling(w, n, Balance!Alone(x, n))
    BY AloneIs
  <2>. QED  BY <2>1
<1>3. ASSUME NEW x \in Units, NEW y \in Units, x # y
      PROVE  Apart(n, Balance!Alone(x, n), Balance!Alone(y, n))
  <2>1. SUFFICES ASSUME NEW i \in 1 .. n, NEW j \in 1 .. n
                 PROVE  Balance!Alone(x, n)[i] \cap Balance!Alone(y, n)[j] = {}
    BY DEF Apart
  <2>2. Balance!Alone(x, n)[i] \in {{x}, {}} /\ Balance!Alone(y, n)[j] \in {{y}, {}}
    <3>1. Balance!Alone(x, n)[i] = IF i = 1 THEN {x} ELSE {}
      BY AloneAt
    <3>2. Balance!Alone(y, n)[j] = IF j = 1 THEN {y} ELSE {}
      BY AloneAt
    <3>. QED  BY <3>1, <3>2
  <2>. QED  BY <1>3, <2>2
<1>4. \A s, t \in H : s # t => Apart(n, s, t)
  BY <1>3
<1>5. ASSUME NEW x \in Units PROVE \E s \in H : \E j \in 1 .. n : x \in s[j]
  <2>1. 1 \in 1 .. n
    OBVIOUS
  <2>2. Balance!Alone(x, n)[1] = IF 1 = 1 THEN {x} ELSE {}
    BY <2>1, AloneAt
  <2>3. Balance!Alone(x, n) \in H
    OBVIOUS
  <2>. HIDE DEF H
  <2>. QED  BY <2>1, <2>2, <2>3
<1>. HIDE DEF H
<1>6. Heaped(w, n, "micro", H)
  BY <1>1, <1>2, <1>4, <1>5 DEF Heaped
<1>. QED  BY <1>6 DEF H

LEMMA ShuffleFrom ==
    ASSUME NEW n \in Nat, NEW p \in [1 .. n -> 1 .. n], \A i, j \in 1 .. n : i # j => p[i] # p[j]
    PROVE  p \in Shuffle(n)
<1>. DEFINE D == 1 .. n
<1>1. IsFiniteSet(D)
  <2>1. 1 \in Int /\ n \in Int
    OBVIOUS
  <2>. QED  BY <2>1, FS_Interval
<1>2. p \in [D -> D] /\ \A i, j \in D : i # j => p[i] # p[j]
  OBVIOUS
<1>. HIDE DEF D
<1>3. p \in Injection(D, D)
  BY <1>2 DEF Injection, IsInjective
<1>4. p \in Surjection(D, D)
  BY <1>1, <1>3, FS_Injection
<1>5. \A j \in D : \E i \in D : p[i] = j
  BY <1>4 DEF Surjection
<1>. QED  BY <1>2, <1>5 DEF D, Shuffle, Balance!Bijection, Balance!Injection, Balance!Surjection,
             Balance!IsInjective

\* The light ones at both ends: a shuffle
LEMMA ArrangedIs ==
    ASSUME NEW n \in Nat, NEW v \in [1 .. n -> SUBSET Units]
    PROVE  \E p \in Shuffle(n) :
             Balance!Reverse(Balance!Odds(v)) \o Balance!Evens(v) = [i \in 1 .. n |-> v[p[i]]]
<1>. DEFINE odds == Balance!Odds(v)
            evens == Balance!Evens(v)
<1>1. Len(v) = n
  BY FunctionIsSeq
<1>2. PICK h \in Nat : h = (n + 1) \div 2 /\ (2 * h = n \/ 2 * h = n + 1)
  OBVIOUS
<1>3. PICK g \in Nat : g = n \div 2 /\ (2 * g = n \/ 2 * g + 1 = n)
  OBVIOUS
<1>4. h + g = n
  BY <1>2, <1>3
<1>5. odds = [i \in 1 .. h |-> v[2 * i - 1]] /\ evens = [i \in 1 .. g |-> v[2 * i]]
  BY <1>1, <1>2, <1>3 DEF Balance!Odds, Balance!Evens
<1>. HIDE DEF odds, evens
<1>6. odds \in [1 .. h -> SUBSET Units] /\ evens \in [1 .. g -> SUBSET Units]
  <2>1. \A i \in 1 .. h : 2 * i - 1 \in 1 .. n
    BY <1>2
  <2>2. \A i \in 1 .. g : 2 * i \in 1 .. n
    BY <1>3
  <2>. QED  BY <1>5, <2>1, <2>2
<1>7. evens \in Seq(SUBSET Units) /\ Len(evens) = g /\ Len(odds) = h
  BY <1>6, FunctionIsSeq
<1>. DEFINE back == [i \in 1 .. h |-> odds[(h - i) + 1]]
<1>8. Balance!Reverse(odds) = back
  BY <1>7 DEF Balance!Reverse
<1>9. back \in [1 .. h -> SUBSET Units]
  <2>1. \A i \in 1 .. h : (h - i) + 1 \in 1 .. h
    OBVIOUS
  <2>. QED  BY <1>6, <2>1
<1>10. back \in Seq(SUBSET Units) /\ Len(back) = h
  <2>. HIDE DEF back
  <2>. QED  BY <1>9, FunctionIsSeq
<1>11. \A i \in 1 .. h : back[i] = v[2 * h - 2 * i + 1]
  <2>1. TAKE i \in 1 .. h
  <2>2. PICK j \in 1 .. h : j = (h - i) + 1
    OBVIOUS
  <2>3. 2 * j - 1 = 2 * h - 2 * i + 1
    BY <2>2
  <2>. QED  BY <1>5, <2>2, <2>3
<1>. HIDE DEF back
<1>. DEFINE c == back \o evens
            p == [i \in 1 .. n |-> IF i <= h THEN 2 * h - 2 * i + 1 ELSE 2 * (i - h)]
<1>12. /\ c \in Seq(SUBSET Units) /\ Len(c) = h + g
       /\ \A i \in 1 .. Len(back) + Len(evens) :
            c[i] = IF i <= Len(back) THEN back[i] ELSE evens[i - Len(back)]
  <2>1. /\ c \in Seq(SUBSET Units) /\ Len(c) = Len(back) + Len(evens)
        /\ \A i \in 1 .. Len(back) + Len(evens) :
             c[i] = IF i <= Len(back) THEN back[i] ELSE evens[i - Len(back)]
    BY <1>7, <1>10, ConcatProperties
  <2>. HIDE DEF c
  <2>. QED  BY <1>7, <1>10, <2>1
<1>13. \A i \in 1 .. n : c[i] = IF i <= h THEN back[i] ELSE evens[i - h]
  BY <1>4, <1>7, <1>10, <1>12
<1>14. c = [i \in 1 .. n |-> c[i]]
  <2>1. Len(c) = n
    BY <1>4, <1>12
  <2>2. c \in [1 .. Len(c) -> SUBSET Units]
    BY <1>12, LenProperties
  <2>3. c \in [1 .. n -> SUBSET Units]
    BY <2>1, <2>2
  <2>. QED  BY <2>3
<1>. HIDE DEF c
<1>15. p \in [1 .. n -> 1 .. n]
  BY <1>2, <1>3, <1>4
<1>16. ASSUME NEW i \in 1 .. n, NEW j \in 1 .. n, i # j PROVE p[i] # p[j]
  BY <1>2, <1>3, <1>4, <1>16
<1>17. ASSUME NEW i \in 1 .. n PROVE c[i] = v[p[i]]
  <2>1. CASE i <= h
    <3>1. i \in 1 .. h
      BY <2>1
    <3>. QED  BY <1>11, <1>13, <2>1, <3>1
  <2>2. CASE ~(i <= h)
    <3>1. i - h \in 1 .. g
      BY <1>4, <2>2
    <3>. QED  BY <1>5, <1>13, <2>2, <3>1
  <2>. QED  BY <2>1, <2>2
<1>. HIDE DEF p
<1>18. c = [i \in 1 .. n |-> v[p[i]]] /\ p \in Shuffle(n)
  BY <1>14, <1>15, <1>16, <1>17, ShuffleFrom
<1>. QED  BY <1>8, <1>18 DEF odds, evens, c

-----------------------------------------------------------------------------
(* Putting the results back                                                *)

Increasing(s) == \A i, j \in DOMAIN s : i < j => s[i] < s[j]

LEMMA SomeOrder ==
    ASSUME NEW A \in SUBSET Units PROVE \E s \in Balance!SetToSeqs(A) : Increasing(s)
<1>. DEFINE Ordered(B, m) == \E s \in [1 .. m -> B] : Increasing(s)
            T == {m \in Nat : \A B \in SUBSET Units : Cardinality(B) = m => Ordered(B, m)}
<1>0. \A B \in SUBSET Units : IsFiniteSet(B) /\ Cardinality(B) \in Nat
  BY BalConstants, FS_Subset, FS_CardinalityType
<1>1. 0 \in T
  <2>1. SUFFICES ASSUME NEW B \in SUBSET Units PROVE Ordered(B, 0)
    OBVIOUS
  <2>. DEFINE s == [i \in 1 .. 0 |-> 0]
  <2>2. s \in [1 .. 0 -> B] /\ Increasing(s)
    BY DEF Increasing
  <2>. QED  BY <2>2
<1>2. ASSUME NEW m \in Nat, m \in T PROVE m + 1 \in T
  <2>1. SUFFICES ASSUME NEW B \in SUBSET Units, Cardinality(B) = m + 1 PROVE Ordered(B, m + 1)
    OBVIOUS
  <2>2. B # {} /\ IsFiniteSet(B)
    BY <1>0, <2>1, FS_EmptySet
  <2>3. B \in SUBSET Nat /\ Batch \in Nat /\ \A x \in B : x <= Batch
    BY BalConstants
  <2>4. PICK a \in B : \A y \in B : a >= y
    BY <2>2, <2>3, MostIs
  <2>. DEFINE C == B \ {a}
  <2>5. Cardinality(C) = m /\ C \in SUBSET Units
    <3>1. Cardinality(C) = Cardinality(B) - 1
      BY <2>2, OneLess
    <3>. QED  BY <2>1, <3>1
  <2>6. PICK s \in [1 .. m -> C] : Increasing(s)
    BY <1>2, <2>5
  <2>. DEFINE t == [i \in 1 .. m + 1 |-> IF i <= m THEN s[i] ELSE a]
  <2>7. t \in [1 .. m + 1 -> B]
    OBVIOUS
  <2>8. ASSUME NEW i \in 1 .. m + 1, NEW j \in 1 .. m + 1, i < j PROVE t[i] < t[j]
    <3>1. i \in 1 .. m /\ t[i] = s[i] /\ s[i] \in C
      BY <2>8
    <3>2. CASE j <= m
      BY <2>6, <2>8, <3>1, <3>2 DEF Increasing
    <3>3. CASE ~(j <= m)
      <4>1. t[j] = a /\ s[i] # a /\ s[i] <= a /\ s[i] \in Nat /\ a \in Nat
        BY <2>3, <2>4, <3>1, <3>3
      <4>. QED  BY <3>1, <4>1
    <3>. QED  BY <3>2, <3>3
  <2>9. Increasing(t)
    <3>1. DOMAIN t = 1 .. m + 1
      OBVIOUS
    <3>. HIDE DEF t
    <3>. QED  BY <2>8, <3>1 DEF Increasing
  <2>. QED  BY <2>7, <2>9
<1>3. \A m \in Nat : m \in T
  <2>. HIDE DEF T
  <2>. QED  BY <1>1, <1>2, Induction
<1>4. PICK m \in Nat : m = Cardinality(A)
  BY <1>0
<1>5. m \in T
  BY <1>3
<1>6. PICK s \in [1 .. m -> A] : Increasing(s)
  BY <1>4, <1>5
<1>7. ASSUME NEW i \in 1 .. m, NEW j \in 1 .. m, i # j PROVE s[i] # s[j]
  <2>1. DOMAIN s = 1 .. m /\ s[i] \in Nat /\ s[j] \in Nat
    <3>1. s[i] \in Units /\ s[j] \in Units
      OBVIOUS
    <3>2. Units \subseteq Nat
      BY BalConstants
    <3>. QED  BY <3>1, <3>2
  <2>2. i < j \/ j < i
    BY <1>7
  <2>3. s[i] < s[j] \/ s[j] < s[i]
    BY <1>6, <2>1, <2>2 DEF Increasing
  <2>. QED  BY <2>1, <2>3
<1>8. s \in Balance!SetToSeqs(A)
  <2>1. Balance!Cardinality(A) = m
    BY <1>4, SameCardinality
  <2>2. Balance!SetToSeqs(A) =
          {f \in [1 .. m -> A] : \A i, j \in 1 .. m : i # j => f[i] # f[j]}
    BY <2>1 DEF Balance!SetToSeqs
  <2>. QED  BY <1>7, <2>2
<1>. QED  BY <1>6, <1>8

LEMMA SortedIs ==
    ASSUME NEW A \in SUBSET Units
    PROVE  /\ Balance!Sorted(A) \in Seq(Units)
           /\ \A x \in A : \E i \in 1 .. Len(Balance!Sorted(A)) : Balance!Sorted(A)[i] = x
<1>. DEFINE s == Balance!Sorted(A)
<1>1. s \in Balance!SetToSeqs(A)
  BY SomeOrder DEF Balance!Sorted, Increasing
<1>. HIDE DEF s
<1>2. IsFiniteSet(A)
  BY BalConstants, FS_Subset
<1>3. PICK m \in Nat : m = Cardinality(A)
  BY <1>2, FS_CardinalityType
<1>4. s \in [1 .. m -> A] /\ \A x \in A : \E i \in 1 .. m : s[i] = x
  BY <1>1, <1>2, <1>3, OrderIs
<1>5. s \in [1 .. m -> Units]
  BY <1>4
<1>6. s \in Seq(Units) /\ Len(s) = m
  BY <1>5, FunctionIsSeq
<1>. QED  BY <1>4, <1>6 DEF s

\* What is in one of the sequences is in all of them.
LEMMA FlatHas ==
    ASSUME NEW S, NEW seqs \in Seq(Seq(S))
    PROVE  \A j \in 1 .. Len(seqs) : \A i \in 1 .. Len(seqs[j]) :
             \E q \in 1 .. Len(Flat(seqs)) : Flat(seqs)[q] = seqs[j][i]
<1>. DEFINE First(n) == Flat(SubSeq(seqs, 1, n))
            Has(n) == \A j \in 1 .. n : \A i \in 1 .. Len(seqs[j]) :
                         \E q \in 1 .. Len(First(n)) : First(n)[q] = seqs[j][i]
            T == {n \in Nat : n <= Len(seqs) => Has(n)}
<1>0. /\ Len(seqs) \in Nat /\ First(Len(seqs)) = Flat(seqs)
      /\ \A n \in 0 .. Len(seqs) : First(n) \in Seq(S)
      /\ \A n \in 1 .. Len(seqs) : First(n) = First(n - 1) \o seqs[n]
  BY FlatPrefix, LenProperties
<1>. HIDE DEF First
<1>1. 0 \in T
  OBVIOUS
<1>2. ASSUME NEW n \in Nat, n \in T PROVE n + 1 \in T
  <2>1. SUFFICES ASSUME n + 1 <= Len(seqs) PROVE Has(n + 1)
    OBVIOUS
  <2>2. n <= Len(seqs) /\ n \in 0 .. Len(seqs) /\ n + 1 \in 1 .. Len(seqs) /\ (n + 1) - 1 = n
    BY <1>0, <2>1
  <2>3. Has(n)
    BY <1>2, <2>2
  <2>4. PICK s : s = First(n)
    OBVIOUS
  <2>5. PICK t : t = seqs[n + 1]
    OBVIOUS
  <2>6. s \in Seq(S) /\ t \in Seq(S) /\ First(n + 1) = s \o t
    <3>1. seqs[n + 1] \in Seq(S)
      BY <2>2, ElementOfSeq
    <3>2. First(n + 1) = First((n + 1) - 1) \o seqs[n + 1]
      BY <1>0, <2>2
    <3>. QED  BY <1>0, <2>2, <2>4, <2>5, <3>1, <3>2
  <2>7. /\ Len(s) \in Nat /\ Len(t) \in Nat /\ Len(s \o t) = Len(s) + Len(t)
        /\ \A q \in 1 .. Len(s) + Len(t) :
             (s \o t)[q] = IF q <= Len(s) THEN s[q] ELSE t[q - Len(s)]
    BY <2>6, ConcatProperties, LenProperties
  <2>8. ASSUME NEW j \in 1 .. n + 1, NEW i \in 1 .. Len(seqs[j])
        PROVE  \E q \in 1 .. Len(First(n + 1)) : First(n + 1)[q] = seqs[j][i]
    <3>1. CASE j <= n
      <4>1. j \in 1 .. n
        BY <3>1
      <4>2. PICK q \in 1 .. Len(s) : s[q] = seqs[j][i]
        BY <2>3, <2>4, <4>1
      <4>3. q \in 1 .. Len(s) + Len(t) /\ q <= Len(s)
        BY <2>7
      <4>. QED  BY <2>6, <2>7, <4>2, <4>3
    <3>2. CASE ~(j <= n)
      <4>1. j = n + 1 /\ i \in 1 .. Len(t) /\ seqs[j] = t
        BY <2>5, <3>2
      <4>2. PICK q \in 1 .. Len(s) + Len(t) : q = Len(s) + i
        BY <2>7, <4>1
      <4>3. (s \o t)[q] = t[i]
        BY <2>7, <4>1, <4>2
      <4>. QED  BY <2>6, <2>7, <4>1, <4>3
    <3>. QED  BY <3>1, <3>2
  <2>. QED  BY <2>8
<1>3. \A n \in Nat : n \in T
  <2>. HIDE DEF T
  <2>. QED  BY <1>1, <1>2, Induction
<1>4. Has(Len(seqs))
  <2>1. PICK n \in Nat : n = Len(seqs)
    BY <1>0
  <2>2. n \in T
    BY <1>3
  <2>3. Has(n)
    BY <2>1, <2>2
  <2>. HIDE DEF Has
  <2>. QED  BY <2>1, <2>3
<1>. QED  BY <1>0, <1>4

LEMMA BalanceFlattens == \A s : Balance!FlattenSeq(s) = Flat(s)
BY DEF Balance!FlattenSeq, Flat, Prefixes

LEMMA IndicesHave ==
    ASSUME NEW n \in Nat, parts \in [1 .. n -> SUBSET Units], Covers(n, parts)
    PROVE  /\ Balance!Indices \in Seq(Units)
           /\ \A x \in Units : \E i \in 1 .. Len(Balance!Indices) : Balance!Indices[i] = x
<1>. DEFINE seqs == [i \in DOMAIN parts |-> Balance!Sorted(parts[i])]
<1>0. DOMAIN parts = 1 .. n
  OBVIOUS
<1>1. \A i \in 1 .. n :
        /\ Balance!Sorted(parts[i]) \in Seq(Units)
        /\ \A x \in parts[i] : \E j \in 1 .. Len(Balance!Sorted(parts[i])) :
             Balance!Sorted(parts[i])[j] = x
  <2>1. TAKE i \in 1 .. n
  <2>2. PICK A \in SUBSET Units : A = parts[i]
    OBVIOUS
  <2>. QED  BY <2>2, SortedIs
<1>2. seqs \in [1 .. n -> Seq(Units)] /\ \A i \in 1 .. n : seqs[i] = Balance!Sorted(parts[i])
  BY <1>0, <1>1
<1>3. Balance!Indices = Flat(seqs)
  BY BalanceFlattens DEF Balance!Indices
<1>. HIDE DEF seqs
<1>4. seqs \in Seq(Seq(Units)) /\ Len(seqs) = n
  BY <1>2, FunctionIsSeq
<1>5. Flat(seqs) \in Seq(Units)
  BY <1>4, FlatType
<1>6. ASSUME NEW x \in Units PROVE \E i \in 1 .. Len(Flat(seqs)) : Flat(seqs)[i] = x
  <2>1. PICK j \in 1 .. n : x \in parts[j]
    BY DEF Covers
  <2>2. PICK i \in 1 .. Len(seqs[j]) : seqs[j][i] = x
    BY <1>1, <1>2, <2>1
  <2>3. j \in 1 .. Len(seqs)
    BY <1>4
  <2>. QED  BY <1>4, <2>2, <2>3, FlatHas
<1>. QED  BY <1>3, <1>5, <1>6

LEMMA RestoredIs ==
    ASSUME NEW n \in Nat, parts \in [1 .. n -> SUBSET Units], Covers(n, parts)
    PROVE  \A j \in 1 .. Batch :
             Balance!Indices[Balance!ReverseIdx(Balance!Indices)[j] + 1] = j - 1
<1>. DEFINE ind == Balance!Indices
            f == [i \in 1 .. Len(ind) |-> ind[i]]
<1>1. ind \in Seq(Units) /\ \A x \in Units : \E i \in 1 .. Len(ind) : ind[i] = x
  BY IndicesHave
<1>. HIDE DEF ind
<1>2. Len(ind) \in Nat /\ DOMAIN ind = 1 .. Len(ind) /\ \A i \in 1 .. Len(ind) : ind[i] \in Units
  BY <1>1, LenProperties, ElementOfSeq
<1>3. IsFiniteSet(1 .. Len(ind)) /\ Cardinality(1 .. Len(ind)) = Len(ind)
  <2>1. PICK m \in Nat : m = Len(ind)
    BY <1>2
  <2>2. 1 \in Int /\ m \in Int
    OBVIOUS
  <2>3. IsFiniteSet(1 .. m) /\ Cardinality(1 .. m) = IF 1 > m THEN 0 ELSE m - 1 + 1
    BY <2>2, FS_Interval
  <2>4. Cardinality(1 .. m) = m
    BY <2>3
  <2>. QED  BY <2>1, <2>3, <2>4
<1>4. f \in Surjection(1 .. Len(ind), Units)
  BY <1>1, <1>2 DEF Surjection
<1>5. Batch <= Len(ind)
  <2>. HIDE DEF f
  <2>1. Cardinality(Units) <= Cardinality(1 .. Len(ind))
    BY <1>3, <1>4, FS_Surjection
  <2>. QED  BY <1>3, <2>1, BalConstants
<1>6. ASSUME NEW j \in 1 .. Batch PROVE ind[Balance!ReverseIdx(ind)[j] + 1] = j - 1
  <2>1. j \in 1 .. Len(ind) /\ j - 1 \in Units
    BY <1>2, <1>5, BalConstants
  <2>2. \E i \in DOMAIN ind : ind[i] = j - 1
    BY <1>1, <1>2, <2>1
  <2>3. PICK q : q = CHOOSE i \in DOMAIN ind : ind[i] = j - 1
    OBVIOUS
  <2>4. q \in 1 .. Len(ind) /\ ind[q] = j - 1
    BY <1>2, <2>2, <2>3
  <2>5. Balance!ReverseIdx(ind)[j] = q - 1
    BY <2>1, <2>3 DEF Balance!ReverseIdx
  <2>6. (q - 1) + 1 = q
    BY <1>2, <2>4
  <2>. QED  BY <2>4, <2>5, <2>6
<1>. QED  BY <1>6 DEF ind

-----------------------------------------------------------------------------
(* The invariant                                                           *)

Undivided == {"off", "choose"}
Finals == {"merged", "arranged", "done"}

BalanceInv ==
    /\ lens \in [Units -> Lengths \cup {0}] /\ mode \in Kinds /\ k \in 1 .. Batch
    /\ phase \in Undivided \cup {"merge"} \cup Finals
    /\ phase # "off" => Weighed(Balance!Workload)
    /\ phase \in Undivided => heap = {}
    /\ phase \in Undivided \cup {"merge"} => parts = <<>>
    /\ phase \notin Undivided => Heaped(Balance!Workload, k, mode, heap)
    /\ phase \in Finals => Divided(Balance!Workload, k, mode, parts)
    /\ phase = "done" /\ mode = "micro" => restored = [j \in 1 .. Batch |-> j - 1]

LEMMA BalanceInit == Balance!Init => BalanceInv
<1>1. SUFFICES ASSUME Balance!Init PROVE BalanceInv
  OBVIOUS
<1>2. 1 \in 1 .. Batch
  BY BalConstants
<1>. QED  BY <1>1, <1>2 DEF Balance!Init, BalanceInv, Kinds, Undivided, Finals, Units

LEMMA SameWorkload == ASSUME lens' = lens PROVE Balance!Workload' = Balance!Workload
BY DEF Balance!Workload

LEMMA BalanceStutters == ASSUME BalanceInv, UNCHANGED balanceVars PROVE BalanceInv'
<1>1. /\ lens' = lens /\ mode' = mode /\ k' = k /\ heap' = heap /\ phase' = phase
      /\ parts' = parts /\ restored' = restored
  BY DEF balanceVars
<1>2. Balance!Workload' = Balance!Workload
  BY <1>1, SameWorkload
<1>. QED  BY <1>1, <1>2 DEF BalanceInv

LEMMA BeginBalances == ASSUME BalanceInv, Balance!Begin PROVE BalanceInv'
<1>1. /\ phase = "off" /\ lens' \in [Units -> Lengths] /\ mode' \in Kinds /\ phase' = "choose"
      /\ k' = k /\ heap' = heap /\ parts' = parts /\ restored' = restored
  BY DEF Balance!Begin, Units, Kinds
<1>2. Weighed(Balance!Workload')
  <2>1. \A i \in Units : lens'[i] \in Nat \ {0}
    BY <1>1, BalConstants
  <2>2. \A a \in Nat \ {0} : 24576 * a + a * a \in Nat \ {0}
    OBVIOUS
  <2>3. Balance!Workload' = [i \in Units |-> 24576 * lens'[i] + lens'[i] * lens'[i]]
    BY DEF Balance!Workload, Units
  <2>4. \A i \in Units : 24576 * lens'[i] + lens'[i] * lens'[i] \in Nat \ {0}
    <3>1. TAKE i \in Units
    <3>2. PICK a \in Nat \ {0} : a = lens'[i]
      BY <2>1
    <3>3. 24576 * a + a * a \in Nat \ {0}
      BY <2>2
    <3>. QED  BY <3>2, <3>3
  <2>5. [i \in Units |-> 24576 * lens'[i] + lens'[i] * lens'[i]] \in [Units -> Nat \ {0}]
    BY <2>4
  <2>. QED  BY <2>3, <2>5 DEF Weighed
<1>. QED  BY <1>1, <1>2 DEF BalanceInv, Undivided, Finals

LEMMA RanksBalances == ASSUME BalanceInv, Balance!Ranks PROVE BalanceInv'
<1>1. /\ phase = "choose" /\ mode = "dp" /\ k' \in Worlds /\ Batch % k' = 0
      /\ phase' = "merge" /\ lens' = lens /\ mode' = mode /\ parts' = parts
      /\ restored' = restored
  BY DEF Balance!Ranks
<1>2. PICK order \in Balance!SetToSeqs(Units) :
        /\ Balance!BySize(order)
        /\ heap' = {Balance!Chunk(order, c, k') : c \in 0 .. (Batch \div k') - 1}
  BY DEF Balance!Ranks, Units
<1>3. PICK n \in Nat \ {0} : n = k'
  BY <1>1, BalConstants
<1>4. PICK q \in Int : q = Batch \div n
  BY BalConstants
<1>5. Batch = n * q /\ q \in Nat /\ n \in 1 .. Batch
  <2>1. PICK a \in Nat \ {0} : a = Batch
    BY BalConstants
  <2>2. a = n * (a \div n) + (a % n)
    BY DivMod
  <2>3. a % n = 0
    BY <1>1, <1>3, <2>1
  <2>4. a = n * q
    BY <1>4, <2>1, <2>2, <2>3
  <2>5. q >= 1
    BY <2>4
  <2>6. n * q >= n
    BY <2>5
  <2>. QED  BY <2>1, <2>4, <2>5, <2>6
<1>6. Balance!Workload' = Balance!Workload /\ Weighed(Balance!Workload)
  BY <1>1, SameWorkload DEF BalanceInv
<1>7. Heaped(Balance!Workload, n, "dp", {Balance!Chunk(order, c, n) : c \in 0 .. q - 1})
  BY <1>2, <1>5, <1>6, RanksHeaped
<1>8. Heaped(Balance!Workload', k', mode', heap')
  BY <1>1, <1>2, <1>3, <1>4, <1>6, <1>7
<1>. QED  BY <1>1, <1>3, <1>5, <1>6, <1>8 DEF BalanceInv, Undivided, Finals

LEMMA TotalPositive == ASSUME lens \in [Units -> Nat \ {0}] PROVE SumOf(lens, Units) \in Nat \ {0}
BY LoadTypes, BalConstants DEF Weighed

LEMMA MicroBatchesAre ==
    ASSUME lens \in [Units -> Nat \ {0}], NEW limit \in Nat \ {0}
    PROVE  Balance!MicroBatches(limit) \in 1 .. Batch
<1>1. PICK total \in Nat \ {0} : total = SumOf(lens, Units)
  BY TotalPositive
<1>2. Balance!MicroBatches(limit) = Balance!Min({Batch, Balance!CeilDiv(SumOf(lens, Units), limit)})
  BY DEF Balance!MicroBatches, Balance!MapThenSumSet, Balance!MapThenFoldSet, SumOf, Partial, Pick,
         Units
<1>3. PICK c \in Int : c = Balance!CeilDiv(total, limit)
  BY DEF Balance!CeilDiv
<1>4. c >= 1
  <2>1. PICK a \in Nat : a = (total + limit) - 1
    OBVIOUS
  <2>2. a >= limit /\ c = a \div limit
    BY <1>3, <2>1 DEF Balance!CeilDiv
  <2>3. a = limit * (a \div limit) + (a % limit) /\ a % limit \in 0 .. limit - 1
    BY <2>1, DivMod
  <2>4. ~(c <= 0)
    BY <2>2, <2>3
  <2>. QED  BY <2>4
<1>5. Balance!MicroBatches(limit) = Balance!Min({Batch, c})
  BY <1>1, <1>2, <1>3
<1>6. \E x \in {Batch, c} : \A y \in {Batch, c} : x =< y
  BY BalConstants
<1>7. Balance!Min({Batch, c}) \in {Batch, c} /\ Balance!Min({Batch, c}) <= Batch
  BY <1>6 DEF Balance!Min
<1>. QED  BY <1>4, <1>5, <1>7, BalConstants

LEMMA MicroBalances == ASSUME BalanceInv, Balance!Micro PROVE BalanceInv'
<1>1. PICK limit \in Limits :
        /\ phase = "choose" /\ mode = "micro" /\ k' = Balance!MicroBatches(limit)
        /\ heap' = {Balance!Alone(i, k') : i \in Units}
        /\ phase' = "merge" /\ lens' = lens /\ mode' = mode /\ parts' = parts
        /\ restored' = restored /\ \A i \in Units : limit >= lens[i]
  BY DEF Balance!Micro, Units
<1>2. Balance!Workload' = Balance!Workload /\ Weighed(Balance!Workload)
  BY <1>1, SameWorkload DEF BalanceInv
<1>3. lens \in [Units -> Nat \ {0}]
  <2>1. \A i \in Units : lens[i] \in Lengths \cup {0} /\ Balance!Workload[i] # 0
    BY <1>2 DEF BalanceInv, Weighed
  <2>2. \A i \in Units : lens[i] # 0
    <3>1. \A i \in Units : Balance!Workload[i] = 24576 * lens[i] + lens[i] * lens[i]
      BY DEF Balance!Workload, Units
    <3>2. 24576 * 0 + 0 * 0 = 0
      OBVIOUS
    <3>. QED  BY <2>1, <3>1, <3>2
  <2>. QED  BY <2>1, <2>2, BalConstants DEF BalanceInv
<1>4. k' \in 1 .. Batch /\ k' \in Nat \ {0}
  <2>1. limit \in Nat \ {0}
    BY BalConstants
  <2>. QED  BY <1>1, <1>3, <2>1, MicroBatchesAre, BalConstants
<1>5. Heaped(Balance!Workload', k', mode', heap')
  BY <1>1, <1>2, <1>4, MicroHeaped
<1>. QED  BY <1>1, <1>2, <1>4, <1>5 DEF BalanceInv, Undivided, Finals

LEMMA MergeBalances == ASSUME BalanceInv, Balance!Merge PROVE BalanceInv'
<1>1. PICK s \in Balance!Foremost(heap) : \E t \in Balance!Foremost(heap \ {s}) :
        \E u \in Balance!Orders(Balance!Joined(s, t)) : heap' = (heap \ {s, t}) \cup {u}
  BY DEF Balance!Merge
<1>2. PICK t \in Balance!Foremost(heap \ {s}) :
        \E u \in Balance!Orders(Balance!Joined(s, t)) : heap' = (heap \ {s, t}) \cup {u}
  BY <1>1
<1>3. PICK u \in Balance!Orders(Balance!Joined(s, t)) : heap' = (heap \ {s, t}) \cup {u}
  BY <1>2
<1>4. s \in heap /\ t \in heap \ {s}
  BY DEF Balance!Foremost
<1>5. /\ phase = "merge" /\ phase' = phase /\ lens' = lens /\ mode' = mode /\ k' = k
      /\ parts' = parts /\ restored' = restored
  BY DEF Balance!Merge
<1>6. Balance!Workload' = Balance!Workload /\ Weighed(Balance!Workload)
  BY <1>5, SameWorkload DEF BalanceInv
<1>7. Heaped(Balance!Workload, k, mode, heap) /\ k \in 1 .. Batch /\ mode \in Kinds
  BY <1>5 DEF BalanceInv, Undivided
<1>8. Heaped(Balance!Workload, k, mode, heap')
  BY <1>3, <1>4, <1>6, <1>7, MergeHeaped
<1>. QED  BY <1>5, <1>6, <1>7, <1>8 DEF BalanceInv, Undivided, Finals

LEMMA MergedBalances == ASSUME BalanceInv, Balance!Merged PROVE BalanceInv'
<1>1. /\ phase = "merge" /\ Cardinality(heap) = 1 /\ parts' = CHOOSE s \in heap : TRUE
      /\ phase' = IF mode = "dp" THEN "done" ELSE "merged"
      /\ lens' = lens /\ mode' = mode /\ k' = k /\ heap' = heap /\ restored' = restored
  BY SameCardinality DEF Balance!Merged
<1>2. Balance!Workload' = Balance!Workload /\ Weighed(Balance!Workload)
  BY <1>1, SameWorkload DEF BalanceInv
<1>3. Heaped(Balance!Workload, k, mode, heap) /\ k \in 1 .. Batch /\ mode \in Kinds
  BY <1>1 DEF BalanceInv, Undivided
<1>4. PICK s : heap = {s}
  BY <1>1, <1>3, FS_Singleton DEF Heaped
<1>5. parts' = s
  BY <1>1, <1>4
<1>6. Even(Balance!Workload, k, mode, s) /\ Covers(k, s)
  BY <1>3, <1>4 DEF Heaped, Covers
<1>7. Divided(Balance!Workload, k, mode, s)
  BY <1>2, <1>3, <1>6, LastIsDivided
<1>8. mode = "dp" => mode # "micro"
  OBVIOUS
<1>9. phase' \in {"done", "merged"} /\ (phase' = "done" => mode # "micro")
  BY <1>1
<1>10. phase' \in Finals /\ phase' \notin Undivided /\ phase' # "merge" /\ phase' # "off"
  BY <1>9 DEF Finals, Undivided
<1>11. /\ Heaped(Balance!Workload', k', mode', heap')
       /\ Divided(Balance!Workload', k', mode', parts')
  BY <1>1, <1>2, <1>3, <1>5, <1>7
<1>. QED  BY <1>1, <1>2, <1>3, <1>9, <1>10, <1>11 DEF BalanceInv, Undivided

LEMMA ArrangeBalances == ASSUME BalanceInv, Balance!Arrange PROVE BalanceInv'
<1>1. PICK v \in Balance!Orders(parts) :
        /\ phase = "merged" /\ phase' = "arranged"
        /\ parts' = Balance!Reverse(Balance!Odds(v)) \o Balance!Evens(v)
        /\ lens' = lens /\ mode' = mode /\ k' = k /\ heap' = heap /\ restored' = restored
  BY DEF Balance!Arrange
<1>2. Balance!Workload' = Balance!Workload /\ Weighed(Balance!Workload)
  BY <1>1, SameWorkload DEF BalanceInv
<1>3. /\ Heaped(Balance!Workload, k, mode, heap) /\ k \in Nat
      /\ Divided(Balance!Workload, k, mode, parts)
  BY <1>1, BalConstants DEF BalanceInv, Undivided, Finals
<1>4. parts \in [1 .. k -> SUBSET Units]
  BY <1>3 DEF Divided
<1>5. PICK p \in Shuffle(k) : v = [i \in 1 .. k |-> parts[p[i]]]
  BY <1>2, <1>3, <1>4, OrdersAre
<1>6. Divided(Balance!Workload, k, mode, v)
  BY <1>3, <1>5, ShuffledDivided
<1>7. v \in [1 .. k -> SUBSET Units]
  BY <1>6 DEF Divided
<1>8. PICK q \in Shuffle(k) : parts' = [i \in 1 .. k |-> v[q[i]]]
  BY <1>1, <1>3, <1>7, ArrangedIs
<1>9. Divided(Balance!Workload, k, mode, parts')
  BY <1>6, <1>8, ShuffledDivided
<1>. QED  BY <1>1, <1>2, <1>3, <1>9 DEF BalanceInv, Undivided, Finals

LEMMA RestoreBalances == ASSUME BalanceInv, Balance!Restore PROVE BalanceInv'
<1>1. /\ phase = "arranged" /\ phase' = "done"
      /\ restored' = [j \in 1 .. Batch |->
                        Balance!Indices[Balance!ReverseIdx(Balance!Indices)[j] + 1]]
      /\ lens' = lens /\ mode' = mode /\ k' = k /\ heap' = heap /\ parts' = parts
  BY DEF Balance!Restore
<1>2. Balance!Workload' = Balance!Workload /\ Weighed(Balance!Workload)
  BY <1>1, SameWorkload DEF BalanceInv
<1>3. /\ Heaped(Balance!Workload, k, mode, heap) /\ k \in Nat
      /\ Divided(Balance!Workload, k, mode, parts)
  BY <1>1, BalConstants DEF BalanceInv, Undivided, Finals
<1>4. parts \in [1 .. k -> SUBSET Units] /\ Covers(k, parts)
  BY <1>3 DEF Divided
<1>5. restored' = [j \in 1 .. Batch |-> j - 1]
  BY <1>1, <1>3, <1>4, RestoredIs
<1>. QED  BY <1>1, <1>2, <1>3, <1>5 DEF BalanceInv, Undivided, Finals

LEMMA BalanceKeeps == ASSUME BalanceInv, [UtilNext]_all PROVE BalanceInv'
<1>1. CASE InBalance /\ Balance!Next
  BY <1>1, BeginBalances, RanksBalances, MicroBalances, MergeBalances, MergedBalances,
     ArrangeBalances, RestoreBalances DEF Balance!Next
<1>2. CASE UNCHANGED balanceVars
  BY <1>2, BalanceStutters
<1>3. \/ InBalance /\ Balance!Next
      \/ UNCHANGED balanceVars
  BY DEF UtilNext, all, InWeights, InResults, InRewards, InBalance, InTools, InValid, InOneStep,
        Stop, firstVars
<1>. QED  BY <1>1, <1>2, <1>3

LEMMA BalanceAlways == FairSpec => []BalanceInv
<1>1. UtilInit => BalanceInv
  BY BalanceInit DEF UtilInit
<1>2. BalanceInv /\ [UtilNext]_all => BalanceInv'
  BY BalanceKeeps
<1>. QED  BY <1>1, <1>2, PTL DEF FairSpec

LEMMA BalanceTypes == BalanceInv => Balance!TypeOK
<1>1. SUFFICES ASSUME BalanceInv PROVE Balance!TypeOK
  OBVIOUS
<1>2. k \in Nat
  BY <1>1, BalConstants DEF BalanceInv
<1>3. ASSUME NEW s \in heap PROVE Len(s) = k /\ \A i \in 1 .. k : s[i] \subseteq Units
  <2>1. Heaped(Balance!Workload, k, mode, heap)
    BY <1>1, <1>3 DEF BalanceInv
  <2>2. s \in [1 .. k -> SUBSET Units]
    BY <2>1 DEF Heaped, Even
  <2>. QED  BY <1>2, <2>2, FunctionIsSeq
<1>4. ASSUME parts # <<>> PROVE Len(parts) = k /\ \A i \in 1 .. k : parts[i] \subseteq Units
  <2>1. Divided(Balance!Workload, k, mode, parts)
    BY <1>1, <1>4 DEF BalanceInv
  <2>2. parts \in [1 .. k -> SUBSET Units]
    BY <2>1 DEF Divided
  <2>. QED  BY <1>2, <2>2, FunctionIsSeq
<1>. QED  BY <1>1, <1>3, <1>4 DEF BalanceInv, Balance!TypeOK, Units, Kinds, Undivided, Finals

LEMMA BalancePartitions == BalanceInv => Balance!Partition
<1>1. SUFFICES ASSUME BalanceInv, phase = "done" PROVE Balance!Partition
  BY DEF Balance!Partition
<1>2. Divided(Balance!Workload, k, mode, parts)
  BY <1>1 DEF BalanceInv, Finals
<1>3. DOMAIN parts = 1 .. k
  BY <1>2 DEF Divided
<1>4. Balance!Divides(parts)
  BY <1>2, <1>3 DEF Divided, Covers, Balance!Divides, Units
<1>5. \A i \in 1 .. k : parts[i] # {}
  BY <1>2 DEF Divided
<1>6. mode = "dp" => \A i \in 1 .. k : Balance!Cardinality(parts[i]) * k = Batch
  BY <1>2, SameCardinality DEF Divided
<1>7. \A i, j \in 1 .. k : Balance!Load(parts[i]) - Balance!Load(parts[j])
                             <= Balance!Max({Balance!Workload[m] : m \in Balance!Samples})
  <2>1. \A i, j \in 1 .. k : SumOf(Balance!Workload, parts[i]) - SumOf(Balance!Workload, parts[j])
                               <= Heaviest(Balance!Workload)
    BY <1>2 DEF Divided
  <2>. QED  BY <2>1, LoadIs DEF Heaviest, Units
<1>8. mode = "micro" => restored = [j \in 1 .. Batch |-> j - 1]
  BY <1>1 DEF BalanceInv
<1>. QED  BY <1>4, <1>5, <1>6, <1>7, <1>8 DEF Balance!Partition

-----------------------------------------------------------------------------
(* The types of the result files: a life has no more rows pending than it  *)
(* may, and has not written more rows than it has passed                   *)

Pending == Cardinality(DOMAIN pending)

LifeInv ==
    /\ life \in 0 .. MaxLives
    /\ pc \in Results!Ended \cup {"submit", "drain", "write", "summary"}
    /\ \A r \in DOMAIN pending : pending[r] \in {"running", "ok", "failed"}
    /\ parquet \in [Results!Rows -> 0 .. NRows]
    /\ unread \in Nat /\ unread + Pending <= next - 1
    /\ Pending <= Results!MaxPending
    /\ pc \in {"submit", "summary"} => Pending < Results!MaxPending

LEMMA LifeNumbers ==
    ASSUME ResultInv
    PROVE  /\ Pending \in Nat /\ IsFiniteSet(DOMAIN pending)
           /\ Results!MaxPending \in Nat \ {0} /\ MaxLives \in Nat \ {0} /\ NRows \in Nat \ {0}
           /\ next \in Nat /\ next - 1 <= NRows
<1>1. /\ MaxLives \in Nat \ {0} /\ NRows \in Nat \ {0} /\ Workers \in Nat \ {0}
      /\ BatchSize \in Nat \ {0}
  BY UtilAssumption DEF UtilAssumption
<1>2. DOMAIN pending \subseteq 1 .. NRows /\ next \in 1 .. NRows + 1
  BY Typed DEF Results!Rows
<1>3. IsFiniteSet(1 .. NRows)
  BY <1>1, FS_Interval
<1>4. IsFiniteSet(DOMAIN pending) /\ Pending \in Nat
  BY <1>2, <1>3, FS_Subset, FS_CardinalityType DEF Pending
<1>5. Results!MaxPending \in Nat \ {0}
  BY <1>1 DEF Results!MaxPending
<1>. QED  BY <1>1, <1>2, <1>4, <1>5

LEMMA PendingSame == \A S : Results!Cardinality(S) = Cardinality(S)
BY DEF Results!Cardinality, Cardinality

\* An action that leaves the pending rows alone.
LEMMA LifeStays ==
    ASSUME ResultInv, LifeInv, UNCHANGED <<tool, life, next, pending>>,
           pc' \in Results!Ended \cup {"submit", "drain", "write", "summary"},
           pc' \in {"submit", "summary"} => pc \in {"submit", "summary"},
           parquet' \in [Results!Rows -> 0 .. NRows], unread' \in {0, unread}
    PROVE  LifeInv'
<1>1. Pending' = Pending /\ Results!MaxPending' = Results!MaxPending
  BY DEF Pending, Results!MaxPending
<1>2. Results!Ended' = Results!Ended /\ Results!Rows' = Results!Rows
  BY DEF Results!Ended, Results!Rows
<1>3. unread' \in Nat /\ unread' + Pending <= next - 1
  BY LifeNumbers DEF LifeInv
<1>. QED  BY <1>1, <1>2, <1>3 DEF LifeInv

LEMMA LifeStarts ==
    ASSUME ResultInv, LifeInv, NEW resume \in BOOLEAN, Results!Start(resume) PROVE LifeInv'
<1>1. /\ life < MaxLives /\ life' = life + 1 /\ pc' \in {"submit", "raised"}
      /\ next' = 1 /\ pending' = <<>> /\ unread' = 0 /\ tool' = tool /\ parquet' = parquet
  BY DEF Results!Start
<1>2. DOMAIN pending' = {} /\ Pending' = 0
  <2>1. DOMAIN pending' = {}
    BY <1>1
  <2>. QED  BY <2>1, FS_EmptySet DEF Pending
<1>3. Results!MaxPending' = Results!MaxPending /\ Results!Ended' = Results!Ended
      /\ Results!Rows' = Results!Rows
  BY <1>1 DEF Results!MaxPending, Results!Ended, Results!Rows
<1>4. life' \in 0 .. MaxLives
  BY <1>1, LifeNumbers DEF LifeInv
<1>5. Pending' < Results!MaxPending' /\ Pending' <= Results!MaxPending'
  BY <1>2, <1>3, LifeNumbers
<1>6. unread' \in Nat /\ unread' + Pending' <= next' - 1
  BY <1>1, <1>2
<1>7. pc' \in (Results!Ended \cup {"submit", "drain", "write", "summary"})'
  BY <1>1 DEF Results!Ended
<1>. QED  BY <1>1, <1>2, <1>3, <1>4, <1>5, <1>6, <1>7 DEF LifeInv

LEMMA LifeSubmits == ASSUME ResultInv, LifeInv, Results!Submit PROVE LifeInv'
<1> DEFINE r == Results!Min(Results!Left)
<1>1. /\ pc = "submit" /\ next' = r + 1
      /\ pending' = [q \in DOMAIN pending \cup {r} |-> IF q = r THEN "running" ELSE pending[q]]
      /\ pc' = IF Pending + 1 >= Results!MaxPending THEN "drain" ELSE pc
      /\ UNCHANGED <<tool, life, parquet, unread>>
  BY PendingSame DEF Results!Submit, Results!fileVars, Pending
<1>2. r \in Nat /\ r >= next
  <2>1. Results!Left \in SUBSET Nat /\ Results!Left # {}
    BY Typed DEF Results!Submit, Results!Left
  <2>2. r \in Results!Left
    BY <2>1, MinIs
  <2>. QED  BY <2>2, Typed DEF Results!Left
<1>. HIDE DEF r
<1>3. DOMAIN pending' = DOMAIN pending \cup {r}
  BY <1>1
<1>4. Pending' \in Nat /\ Pending' <= Pending + 1
  <2>1. /\ IsFiniteSet(DOMAIN pending \cup {r})
        /\ Cardinality(DOMAIN pending \cup {r}) =
             IF r \in DOMAIN pending THEN Pending ELSE Pending + 1
    BY LifeNumbers, FS_AddElement DEF Pending
  <2>. QED  BY <1>3, <2>1, LifeNumbers DEF Pending
<1>5. Results!MaxPending' = Results!MaxPending /\ Results!Ended' = Results!Ended
      /\ Results!Rows' = Results!Rows
  BY <1>1 DEF Results!MaxPending, Results!Ended, Results!Rows
<1>6. \A q \in DOMAIN pending' : pending'[q] \in {"running", "ok", "failed"}
  BY <1>1, <1>3 DEF LifeInv
<1>7. unread' \in Nat /\ unread' + Pending' <= next' - 1
  <2>1. unread \in Nat /\ unread + Pending <= next - 1
    BY DEF LifeInv
  <2>2. Pending \in Nat /\ next \in Nat
    BY LifeNumbers
  <2>3. ASSUME NEW p \in Nat, p <= Pending + 1 PROVE unread + p <= r
    BY <1>2, <2>1, <2>2, <2>3
  <2>5. unread + Pending' <= r
    BY <1>4, <2>3
  <2>4. unread' = unread /\ next' - 1 = r
    BY <1>1, <1>2
  <2>. QED  BY <2>1, <2>4, <2>5
<1>8. Pending' <= Results!MaxPending' /\ (pc' = "submit" => Pending' < Results!MaxPending')
  <2>1. Pending < Results!MaxPending
    BY <1>1 DEF LifeInv
  <2>. QED  BY <1>1, <1>4, <1>5, <2>1, LifeNumbers
<1>9. pc' \in {"submit", "drain"}
  BY <1>1
<1>. QED  BY <1>1, <1>5, <1>6, <1>7, <1>8, <1>9 DEF LifeInv

LEMMA LifeAnswers ==
    ASSUME ResultInv, LifeInv, NEW r, NEW outcome \in {"ok", "failed"},
           Results!Answer(r, outcome)
    PROVE  LifeInv'
<1>1. /\ r \in DOMAIN pending /\ pending' = [pending EXCEPT ![r] = outcome]
      /\ UNCHANGED <<tool, life, pc, parquet, next, unread>>
  BY DEF Results!Answer, Results!fileVars
<1>2. DOMAIN pending' = DOMAIN pending
  BY <1>1
<1>3. Pending' = Pending /\ Results!MaxPending' = Results!MaxPending
  BY <1>1, <1>2 DEF Pending, Results!MaxPending
<1>4. Results!Ended' = Results!Ended /\ Results!Rows' = Results!Rows
  BY DEF Results!Ended, Results!Rows
<1>5. \A q \in DOMAIN pending' : pending'[q] \in {"running", "ok", "failed"}
  BY <1>1, <1>2 DEF LifeInv
<1>. QED  BY <1>1, <1>3, <1>4, <1>5 DEF LifeInv

LEMMA LifeWrites == ASSUME ResultInv, LifeInv, NEW r, Results!Write(r) PROVE LifeInv'
<1>1. /\ r \in DOMAIN pending /\ pc' \in {"summary", "write"}
      /\ pending' = [q \in DOMAIN pending \ {r} |-> pending[q]]
      /\ unread' \in {0, unread + 1}
      /\ UNCHANGED <<tool, life, parquet, next>>
  BY Typed DEF Results!Write, Results!Without
<1>2. DOMAIN pending' = DOMAIN pending \ {r}
  BY <1>1
<1>3. Pending' \in Nat /\ Pending' = Pending - 1
  <2>1. /\ IsFiniteSet(DOMAIN pending \ {r})
        /\ Cardinality(DOMAIN pending \ {r}) = Pending - 1
    BY <1>1, LifeNumbers, FS_RemoveElement DEF Pending
  <2>2. Cardinality(DOMAIN pending \ {r}) \in Nat
    BY <2>1, FS_CardinalityType
  <2>. QED  BY <1>2, <2>1, <2>2 DEF Pending
<1>4. Results!MaxPending' = Results!MaxPending /\ Results!Ended' = Results!Ended
      /\ Results!Rows' = Results!Rows
  BY <1>1 DEF Results!MaxPending, Results!Ended, Results!Rows
<1>5. \A q \in DOMAIN pending' : pending'[q] \in {"running", "ok", "failed"}
  BY <1>1, <1>2 DEF LifeInv
<1>6. unread' \in Nat /\ unread' + Pending' <= next' - 1
  BY <1>1, <1>3, LifeNumbers DEF LifeInv
<1>7. Pending' < Results!MaxPending'
  BY <1>3, <1>4, LifeNumbers DEF LifeInv
<1>8. Pending' <= Results!MaxPending'
  BY <1>3, <1>4, <1>7, LifeNumbers
<1>. QED  BY <1>1, <1>4, <1>5, <1>6, <1>7, <1>8 DEF LifeInv

\* A row has at most one record when the annotator exports it.
LEMMA ExportsOne ==
    ASSUME ResultInv, tool = "label"
    PROVE  \A r \in Results!Rows : Results!Exported(r) \in {0, 1}
<1>. TAKE r \in Results!Rows
<1>. DEFINE T == {i \in Results!Records(r) : Results!OkAt(i)}
<1>1. T = {} \/ \E i : T = {i}
  BY DEF ResultInv, LatestIsOk
<1>2. Results!Exported(r) = Cardinality(T)
  BY PendingSame DEF Results!Exported
<1>3. CASE T = {}
  BY <1>2, <1>3, FS_EmptySet
<1>4. CASE \E i : T = {i}
  BY <1>2, <1>4, FS_Singleton
<1>. QED  BY <1>1, <1>3, <1>4

LEMMA LifeKeeps == ASSUME ResultInv, LifeInv, [UtilNext]_all PROVE LifeInv'
<1>1. ASSUME Results!Drain PROVE LifeInv'
  BY <1>1, LifeStays DEF Results!Drain, Results!fileVars, LifeInv
<1>2. ASSUME Results!Summarize PROVE LifeInv'
  BY <1>2, LifeStays DEF Results!Summarize, Results!fileVars, LifeInv, Results!Ended
<1>3. ASSUME Results!Finish PROVE LifeInv'
  <2>1. /\ pc' \in Results!Ended /\ pc' \notin {"submit", "summary"}
        /\ UNCHANGED <<tool, life, next, pending, unread>>
    BY <1>3 DEF Results!Finish, Results!lifeVars, Results!Ended
  <2>2. parquet' \in [Results!Rows -> 0 .. NRows]
    <3>1. CASE Results!Readable /\ tool = "label"
      <4>1. \A r \in Results!Rows : Results!Exported(r) \in 0 .. NRows
        BY <3>1, ExportsOne, LifeNumbers
      <4>. QED  BY <1>3, <3>1, <4>1 DEF Results!Finish
    <3>2. CASE ~(Results!Readable /\ tool = "label")
      BY <1>3, <3>2 DEF Results!Finish, LifeInv
    <3>. QED  BY <3>1, <3>2
  <2>. QED  BY <2>1, <2>2, LifeStays
<1>4. ASSUME Results!Kill \/ \E r \in Results!Rows, whole \in BOOLEAN : Results!KillWriting(r, whole)
      PROVE  LifeInv'
  <2>1. pc' = "killed" /\ UNCHANGED <<tool, life, next, pending, unread, parquet>>
    BY <1>4 DEF Results!Kill, Results!KillWriting, Results!lifeVars, Results!fileVars
  <2>. QED  BY <2>1, LifeStays DEF LifeInv, Results!Ended
<1>5. ASSUME UNCHANGED resultVars PROVE LifeInv'
  BY <1>5, LifeStays DEF resultVars, LifeInv
<1>6. ASSUME Results!Next PROVE LifeInv'
  BY <1>1, <1>2, <1>3, <1>4, <1>6, LifeStarts, LifeSubmits, LifeAnswers, LifeWrites
  DEF Results!Next, Results!Work
<1>7. [UtilNext]_all => Results!Next \/ UNCHANGED resultVars
  <2>1. InWeights \/ InOneStep \/ InRewards \/ InBalance \/ InTools \/ InValid \/ Stop
            \/ UNCHANGED all => UNCHANGED resultVars
    BY DEF InWeights, InOneStep, InRewards, InBalance, InTools, InValid, Stop, all, firstVars
  <2>. QED  BY <2>1 DEF UtilNext
<1>. QED  BY <1>5, <1>6, <1>7

LEMMA LifeInit == Results!Init => LifeInv
<1> SUFFICES ASSUME Results!Init PROVE LifeInv
  OBVIOUS
<1>1. /\ life = 0 /\ pc = "off" /\ parquet = [r \in Results!Rows |-> 0] /\ next = 1
      /\ pending = <<>> /\ unread = 0
  BY DEF Results!Init
<1>2. ResultInv
  BY ResultInit
<1>3. DOMAIN pending = {} /\ Pending = 0
  <2>1. DOMAIN pending = {}
    BY <1>1
  <2>. QED  BY <2>1, FS_EmptySet DEF Pending
<1>. QED  BY <1>1, <1>2, <1>3, LifeNumbers DEF LifeInv, Results!Ended

LEMMA ResultTypesHold == ResultInv /\ LifeInv => Results!TypeOK
<1>. SUFFICES ASSUME ResultInv, LifeInv PROVE Results!TypeOK
  OBVIOUS
<1>1. Results!Cardinality(DOMAIN pending) <= Results!MaxPending
  BY PendingSame DEF LifeInv, Pending
<1>2. unread \in 0 .. NRows
  BY LifeNumbers DEF LifeInv
<1>3. open \in BOOLEAN
  BY Typed DEF FileTypes
<1>. QED  BY <1>1, <1>2, <1>3, Typed DEF LifeInv, Results!TypeOK, Lines

-----------------------------------------------------------------------------
(* Rows in their places, and the types of all parts                        *)

LEMMA ResultAlways == FairSpec => [](ResultInv /\ LifeInv)
<1>1. UtilInit => ResultInv /\ LifeInv
  BY ResultInit, LifeInit DEF UtilInit
<1>2. ResultInv /\ LifeInv /\ [UtilNext]_all => (ResultInv /\ LifeInv)'
  BY ResultKeeps, LifeKeeps
<1>. QED  BY <1>1, <1>2, PTL DEF FairSpec

LEMMA BucketTogether == FairSpec => []BucketIInv
<1>1. UtilInit => BucketIInv
  BY BucketInit DEF UtilInit
<1>2. BucketIInv /\ [UtilNext]_all => BucketIInv'
  <2>1. BucketIInv /\ [Next]_vars => BucketIInv'
    BY BucketBegins, PlaceKeeps, CopyEndsKeeps, SendKeeps, DirectSendKeeps,
       TooLargeKeeps, AcknowledgedKeeps, AttachKeeps, LoadKeeps, RaiseKeeps,
       BucketStutters DEF Next, Transfer
  <2>2. [UtilNext]_all => [Next]_vars
    <3>1. InResults \/ InOneStep \/ InRewards \/ InBalance \/ InTools \/ InValid \/ Stop
              \/ UNCHANGED all => UNCHANGED vars
      BY DEF InResults, InOneStep, InRewards, InBalance, InTools, InValid, Stop, all, firstVars
    <3>. QED  BY <3>1 DEF UtilNext
  <2>. QED  BY <2>1, <2>2
<1>. QED  BY <1>1, <1>2, PTL DEF FairSpec

LEMMA StepTypesHold == StepInv => OneStep!TypeOK
<1>. SUFFICES ASSUME StepInv PROVE OneStep!TypeOK
  OBVIOUS
<1>1. future.by \subseteq 0 .. lastStep /\ training.by \subseteq 0 .. lastStep
  BY DEF StepInv, StepTypes
<1>2. saved.step \in 0 .. lastStep
  BY DEF StepInv, StepTypes
<1>. QED  BY <1>1, <1>2 DEF StepInv, StepTypes, OneStep!TypeOK, Stream

\* For any number of samples, ranks and micro-batches and any lengths: every
\* sample lands in exactly one partition, none is empty, ranks get equally many,
\* none weighs more than another by more than one sample does, and results of
\* micro-batches return to the sample they are of.  For any sizes of validation
\* batches, number of loop workers and order of answers and scores: every row is
\* reported once, in order, with its own answer and score, none of the padding.
THEOREM RowsComeBack == FairSpec => []RowsInPlace
BY BalanceAlways, BalancePartitions, RowsReported, PTL DEF RowsInPlace

\* Type correctness of the seven parts.  Of them, the bounds that are not plain
\* types: no more rows are pending in a life than its pool or batch admits; the
\* bucket of tokens is never overfull nor deeper in debt than all requests
\* together; a trajectory never outgrows the limits of its
\* prompt and response together; and the servers never have
\* more updates than the actor.
THEOREM UtilTypes == FairSpec => []UtilTypeOK
<1>1. FairSpec => [](BucketIInv /\ ResultInv /\ LifeInv)
  BY BucketTogether, ResultAlways, PTL
<1>2. FairSpec => [](RateInv /\ BalanceInv)
  <2>1. UtilInit => RateInv
    BY RateInit DEF UtilInit
  <2>. QED  BY <2>1, RateKeeps, BalanceAlways, PTL DEF FairSpec
<1>3. FairSpec => [](ToolInv /\ Validate!TypeOK)
  BY ToolAlways, RowsReported, PTL
<1>4. FairSpec => []StepInv
  <2>1. UtilInit => StepInv
    BY StepInit DEF UtilInit
  <2>. QED  BY <2>1, StepKeeps, PTL DEF FairSpec
<1>5. BucketIInv => BucketTypeOK
  BY DEF BucketIInv
<1>6. RateInv => Limiter!TypeOK
  BY DEF RateInv
<1>7. ASSUME BucketIInv, ResultInv, LifeInv, RateInv, BalanceInv, ToolInv,
             Validate!TypeOK, StepInv
      PROVE  UtilTypeOK
  BY <1>5, <1>6, <1>7, ResultTypesHold, BalanceTypes, ToolInvTypes, StepTypesHold
  DEF UtilTypeOK
<1>. QED  BY <1>1, <1>2, <1>3, <1>4, <1>7, PTL
=============================================================================

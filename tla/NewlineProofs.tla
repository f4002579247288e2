--------------------------- MODULE NewlineProofs ---------------------------
(***************************************************************************)
(* The newline codecs stream: what StreamingProofs asks of a codec, of     *)
(* each of them, so that the theorems about chains hold for chains of them *)
(* without a hypothesis about what they answer.                            *)
(***************************************************************************)
EXTENDS StreamingProofs, NewlineCodecs

(***************************************************************************)
(* FlattenSeq, which puts the pieces made of each byte one behind the      *)
(* other.                                                                  *)
(***************************************************************************)
\* Nothing of no pieces, and one more piece is put behind the others.
LEMMA FlattenAppend ==
  /\ FlattenSeq(<<>>) = <<>>
  /\ \A s \in Seq(Seq(Nat)) : \A x \in Seq(Nat) :
       /\ FlattenSeq(<<x>>) = x
       /\ s # <<>> => FlattenSeq(Append(s, x)) = FlattenSeq(s) \o x
<1>1. FlattenSeq(<<>>) = <<>>
  BY DEF FlattenSeq
<1>2. ASSUME NEW x PROVE FlattenSeq(<<x>>) = x
  <2>1. Len(<<x>>) = 1 /\ <<x>>[1] = x /\ Len(<<x>>) \in Nat \ {0}
    OBVIOUS
  <2>2. PICK f : Flattens(f, <<x>>, 1) /\ FlattenSeq(<<x>>) = f[1]
    BY <2>1, FlattenIs
  <2>3. f[1] = x
    BY <2>1, <2>2 DEF Flattens
  <2>4. QED
    BY <2>2, <2>3
<1>3. ASSUME NEW s \in Seq(Seq(Nat)), NEW x \in Seq(Nat), s # <<>>
      PROVE  FlattenSeq(Append(s, x)) = FlattenSeq(s) \o x
  <2> DEFINE n == Len(s)
             t == Append(s, x)
  <2>1. n \in Nat \ {0}
    BY <1>3, EmptySeq
  <2>2. Len(t) = n + 1 /\ t[n + 1] = x /\ \A i \in 1 .. n : t[i] = s[i]
    BY AppendProperties
  <2>3. PICK f : Flattens(f, s, n) /\ FlattenSeq(s) = f[n]
    BY <2>1, FlattenIs
  <2>4. PICK g : Flattens(g, t, n + 1) /\ FlattenSeq(t) = g[n + 1]
    <3>1. Len(t) \in Nat \ {0}
      BY <2>1, <2>2
    <3>2. QED
      BY <2>2, <3>1, FlattenIs
  <2> HIDE DEF n, t
  <2>5. AgreeTo(f, g, n)
    <3>1. n \in Nat /\ AgreeTo(s, t, n)
      BY <2>1, <2>2 DEF AgreeTo
    <3>2. QED
      BY <2>3, <2>4, <3>1, FlatAgrees
  <2>6. g[n + 1] = g[n] \o t[n + 1]
    <3>1. n + 1 \in 1 .. n + 1 /\ n + 1 # 1 /\ (n + 1) - 1 = n
      BY <2>1
    <3>2. QED
      BY <2>4, <3>1 DEF Flattens
  <2>7. n \in 1 .. n
    BY <2>1
  <2>8. QED
    BY <2>2, <2>3, <2>4, <2>5, <2>6, <2>7 DEF t, AgreeTo
<1>4. QED
  BY <1>1, <1>2, <1>3

\* A sequence is empty, or has a last element behind the others.
LEMMA EmptyOrLast ==
  ASSUME NEW S, NEW s \in Seq(S), s # <<>>
  PROVE  \E t \in Seq(S), x \in S : s = Append(t, x) /\ Len(t) \in Nat /\ Len(s) = Len(t) + 1
<1>1. PICK t \in Seq(S), x \in S : s = Append(t, x)
  BY SequenceEmptyOrAppend
<1>2. QED
  BY <1>1, AppendProperties, LenProperties

\* A set of sequences that has the empty one, and with each of its members all that
\* are one longer, has them all.
Grows(S, P) == <<>> \in P /\ \A s \in P : \A x \in S : Append(s, x) \in P

LEMMA AllGrow ==
  ASSUME NEW S, NEW P \in SUBSET Seq(S), Grows(S, P)
  PROVE  P = Seq(S)
<1> DEFINE bad == {Len(v) : v \in {v \in Seq(S) : v \notin P}}
<1>1. ASSUME NEW u \in Seq(S), u \notin P PROVE FALSE
  <2>1. \A v \in Seq(S) : Len(v) \in Nat
    BY LenProperties
  <2>2. bad \in SUBSET Nat /\ bad # {}
    BY <1>1, <2>1
  <2>3. PICK m \in bad : \A i \in bad : m <= i
    BY <2>2, HasLeast
  <2>4. PICK v \in Seq(S) : v \notin P /\ Len(v) = m
    BY <2>3
  <2>5. v # <<>>
    BY <2>4 DEF Grows
  <2>6. PICK w \in Seq(S), x \in S : v = Append(w, x) /\ Len(w) \in Nat /\ Len(v) = Len(w) + 1
    BY <2>5, EmptyOrLast
  <2>7. w \in P
    <3>1. w \notin P => Len(w) \in bad
      OBVIOUS
    <3>2. Len(w) \notin bad
      <4> HIDE DEF bad
      <4>1. QED
        BY <2>3, <2>4, <2>6
    <3>3. QED
      BY <3>1, <3>2
  <2>8. QED
    BY <2>4, <2>6, <2>7 DEF Grows
<1>2. QED
  BY <1>1

\* Rows of pieces are put together in any order.
LEMMA RowsJoined ==
  ASSUME NEW S, NEW s \in Seq(S), NEW t \in Seq(S), NEW x \in S
  PROVE  t \o Append(s, x) = Append(t \o s, x) /\ t \o s \in Seq(S) /\ Append(s, x) \in Seq(S)
<1>1. <<x>> \in Seq(S) /\ t \o s \in Seq(S) /\ Append(s, x) \in Seq(S)
  BY ConcatProperties, AppendProperties
<1>2. Append(s, x) = s \o <<x>> /\ Append(t \o s, x) = (t \o s) \o <<x>>
  BY <1>1, AppendIsConcat
<1>3. (t \o s) \o <<x>> = t \o (s \o <<x>>)
  BY <1>1, ConcatAssociative
<1>4. QED
  BY <1>1, <1>2, <1>3

\* One more piece is put behind the others, the first one too.
LEMMA FlattenMore ==
  ASSUME NEW s \in Seq(Seq(Nat)), NEW x \in Seq(Nat)
  PROVE  FlattenSeq(Append(s, x)) = FlattenSeq(s) \o x
<1>1. CASE s = <<>>
  <2>1. Append(<<>>, x) = <<x>> /\ <<>> \o x = x
    BY ConcatEmptySeq
  <2>2. QED
    BY <1>1, <2>1, FlattenAppend
<1>2. CASE s # <<>>
  BY <1>2, FlattenAppend
<1>3. QED
  BY <1>1, <1>2

\* Of pieces of bytes it makes bytes.
LEMMA FlattenType ==
  ASSUME NEW s \in Seq(Seq(Nat))
  PROVE  FlattenSeq(s) \in Seq(Nat)
<1> DEFINE P == {u \in Seq(Seq(Nat)) : FlattenSeq(u) \in Seq(Nat)}
<1>1. <<>> \in P
  BY FlattenAppend, EmptySeq
<1>2. ASSUME NEW u \in P, NEW x \in Seq(Nat) PROVE Append(u, x) \in P
  <2>1. Append(u, x) \in Seq(Seq(Nat)) /\ FlattenSeq(u) \o x \in Seq(Nat)
    BY AppendProperties, ConcatProperties
  <2>2. QED
    BY <2>1, FlattenMore
<1>3. Grows(Seq(Nat), P)
  BY <1>1, <1>2 DEF Grows
<1>4. P \in SUBSET Seq(Seq(Nat))
  OBVIOUS
<1> HIDE DEF P
<1>5. P = Seq(Seq(Nat))
  BY <1>3, <1>4, AllGrow
<1>6. QED
  BY <1>5 DEF P

\* And of two rows of pieces the same as of each of them.
LEMMA FlattenJoin ==
  ASSUME NEW s \in Seq(Seq(Nat)), NEW t \in Seq(Seq(Nat))
  PROVE  FlattenSeq(t \o s) = FlattenSeq(t) \o FlattenSeq(s)
<1> DEFINE P == {u \in Seq(Seq(Nat)) : FlattenSeq(t \o u) = FlattenSeq(t) \o FlattenSeq(u)}
<1>1. <<>> \in P
  <2>1. t \o <<>> = t /\ FlattenSeq(t) \o <<>> = FlattenSeq(t) /\ <<>> \in Seq(Seq(Nat))
    BY FlattenType, ConcatEmptySeq, EmptySeq
  <2>2. QED
    BY <2>1, FlattenAppend
<1>2. ASSUME NEW u \in P, NEW x \in Seq(Nat) PROVE Append(u, x) \in P
  <2>1. u \in Seq(Seq(Nat)) /\ FlattenSeq(t \o u) = FlattenSeq(t) \o FlattenSeq(u)
    OBVIOUS
  <2>2. t \o Append(u, x) = Append(t \o u, x) /\ t \o u \in Seq(Seq(Nat)) /\ Append(u, x) \in Seq(Seq(Nat))
    BY <2>1, RowsJoined
  <2>3. FlattenSeq(Append(t \o u, x)) = FlattenSeq(t \o u) \o x /\ FlattenSeq(Append(u, x)) = FlattenSeq(u) \o x
    BY <2>1, <2>2, FlattenMore
  <2>4. FlattenSeq(t) \in Seq(Nat) /\ FlattenSeq(u) \in Seq(Nat)
    BY <2>1, FlattenType
  <2>5. (FlattenSeq(t) \o FlattenSeq(u)) \o x = FlattenSeq(t) \o (FlattenSeq(u) \o x)
    BY <2>4, Joined
  <2>6. QED
    BY <2>1, <2>2, <2>3, <2>5
<1>3. Grows(Seq(Nat), P)
  BY <1>1, <1>2 DEF Grows
<1>4. P \in SUBSET Seq(Seq(Nat))
  OBVIOUS
<1> HIDE DEF P
<1>5. P = Seq(Seq(Nat))
  BY <1>3, <1>4, AllGrow
<1>6. QED
  BY <1>5 DEF P

\* Pieces of one byte make as many at most, of two bytes twice as many.
LEMMA FlattenLength ==
  ASSUME NEW s \in Seq(Seq(Nat)), NEW most \in {1, 2}, \A i \in 1 .. Len(s) : Len(s[i]) <= most
  PROVE  Len(FlattenSeq(s)) <= most * Len(s)
<1> DEFINE small(u) == \A i \in 1 .. Len(u) : Len(u[i]) <= most
           P == {u \in Seq(Seq(Nat)) : small(u) => Len(FlattenSeq(u)) <= most * Len(u)}
<1>1. <<>> \in P
  BY FlattenAppend, EmptySeq
<1>2. ASSUME NEW u \in P, NEW x \in Seq(Nat) PROVE Append(u, x) \in P
  <2> DEFINE v == Append(u, x)
  <2>1. /\ u \in Seq(Seq(Nat)) /\ v \in Seq(Seq(Nat)) /\ Len(v) = Len(u) + 1 /\ Len(u) \in Nat
        /\ \A i \in 1 .. Len(u) : v[i] = u[i]
        /\ v[Len(u) + 1] = x
    BY AppendProperties, LenProperties
  <2>2. FlattenSeq(v) = FlattenSeq(u) \o x /\ FlattenSeq(u) \in Seq(Nat)
    BY <2>1, FlattenMore, FlattenType
  <2>3. Len(FlattenSeq(v)) = Len(FlattenSeq(u)) + Len(x) /\ Len(FlattenSeq(u)) \in Nat /\ Len(x) \in Nat
    BY <2>2, ConcatProperties, LenProperties
  <2> HIDE DEF v
  <2>4. ASSUME small(v) PROVE Len(FlattenSeq(v)) <= most * Len(v)
    <3>1. small(u) /\ Len(x) <= most
      BY <2>1, <2>4
    <3>2. Len(FlattenSeq(u)) <= most * Len(u)
      BY <3>1
    <3>3. QED
      BY <2>1, <2>3, <3>1, <3>2
  <2>5. QED
    BY <2>1, <2>4 DEF v
<1>3. Grows(Seq(Nat), P)
  BY <1>1, <1>2 DEF Grows
<1>4. P \in SUBSET Seq(Seq(Nat))
  OBVIOUS
<1> HIDE DEF P
<1>5. P = Seq(Seq(Nat))
  BY <1>3, <1>4, AllGrow
<1>6. s \in P /\ small(s)
  BY <1>5
<1>7. QED
  BY <1>6 DEF P

-----------------------------------------------------------------------------
(***************************************************************************)
(* The pieces of each byte.                                                *)
(***************************************************************************)
UnwrapPieces(in) == [i \in 1 .. Len(in) |-> IF in[i] = LF THEN <<>> ELSE <<in[i]>>]
CrlfPieces(in) == [i \in 1 .. Len(in) |-> IF in[i] = LF THEN <<CR, LF>> ELSE <<in[i]>>]

\* A function on 1 .. n is a sequence.
LEMMA IsRow ==
  ASSUME NEW S, NEW n \in Nat, NEW r \in [1 .. n -> S]
  PROVE  r \in Seq(S) /\ Len(r) = n
OBVIOUS

\* A sequence that agrees with one as far as it goes, and behind it with another,
\* is the two.
LEMMA RowsJoin ==
  ASSUME NEW S, NEW p \in Seq(S), NEW q \in Seq(S), NEW r \in Seq(S),
         Len(r) = Len(p) + Len(q),
         \A i \in 1 .. Len(p) : r[i] = p[i],
         \A i \in 1 .. Len(q) : r[Len(p) + i] = q[i]
  PROVE  r = p \o q
<1>1. Len(p) \in Nat /\ Len(q) \in Nat
  BY LenProperties
<1>2. /\ p \o q \in Seq(S) /\ Len(p \o q) = Len(p) + Len(q)
      /\ \A i \in 1 .. Len(p) + Len(q) :
           (p \o q)[i] = IF i <= Len(p) THEN p[i] ELSE q[i - Len(p)]
  BY ConcatProperties
<1>3. ASSUME NEW i \in 1 .. Len(r) PROVE r[i] = (p \o q)[i]
  <2>1. CASE i <= Len(p)
    <3>1. i \in 1 .. Len(p)
      BY <1>1, <2>1
    <3>2. QED
      BY <1>2, <2>1, <3>1
  <2>2. CASE ~(i <= Len(p))
    <3>1. i - Len(p) \in 1 .. Len(q) /\ Len(p) + (i - Len(p)) = i
      BY <1>1, <2>2
    <3>2. r[Len(p) + (i - Len(p))] = q[i - Len(p)]
      BY <3>1
    <3>3. QED
      BY <1>2, <2>2, <3>1, <3>2
  <2>3. QED
    BY <2>1, <2>2
<1>4. QED
  BY <1>2, <1>3, SeqEqual

\* Every byte has its pieces.
LEMMA PiecesAre ==
  ASSUME NEW s \in Seq(Nat)
  PROVE  /\ UnwrapPieces(s) \in Seq(Seq(Nat)) /\ Len(UnwrapPieces(s)) = Len(s)
         /\ CrlfPieces(s) \in Seq(Seq(Nat)) /\ Len(CrlfPieces(s)) = Len(s)
         /\ \A i \in 1 .. Len(s) : Len(CrlfPieces(s)[i]) <= 2 /\ Len(UnwrapPieces(s)[i]) <= 1
<1>1. Len(s) \in Nat /\ \A i \in 1 .. Len(s) : s[i] \in Nat
  BY LenProperties, ElementOfSeq
<1>2. CR \in Nat /\ LF \in Nat
  BY DEF CR, LF
<1>3. \A x \in Nat : <<x>> \in Seq(Nat) /\ Len(<<x>>) = 1
  OBVIOUS
<1>4. <<>> \in Seq(Nat) /\ Len(<<>>) = 0 /\ <<CR, LF>> \in Seq(Nat) /\ Len(<<CR, LF>>) = 2
  BY <1>2
<1>5. ASSUME NEW i \in 1 .. Len(s)
      PROVE  /\ UnwrapPieces(s)[i] \in Seq(Nat) /\ CrlfPieces(s)[i] \in Seq(Nat)
             /\ Len(CrlfPieces(s)[i]) <= 2 /\ Len(UnwrapPieces(s)[i]) <= 1
  <2>1. UnwrapPieces(s)[i] = (IF s[i] = LF THEN <<>> ELSE <<s[i]>>)
        /\ CrlfPieces(s)[i] = IF s[i] = LF THEN <<CR, LF>> ELSE <<s[i]>>
    BY DEF UnwrapPieces, CrlfPieces
  <2>2. s[i] \in Nat
    BY <1>1
  <2>3. QED
    BY <2>1, <2>2, <1>3, <1>4
<1>6. UnwrapPieces(s) \in [1 .. Len(s) -> Seq(Nat)] /\ CrlfPieces(s) \in [1 .. Len(s) -> Seq(Nat)]
  <2>1. UnwrapPieces(s) = [i \in 1 .. Len(s) |-> UnwrapPieces(s)[i]]
    BY DEF UnwrapPieces
  <2>2. CrlfPieces(s) = [i \in 1 .. Len(s) |-> CrlfPieces(s)[i]]
    BY DEF CrlfPieces
  <2>3. QED
    BY <1>5, <2>1, <2>2
<1>7. QED
  BY <1>1, <1>5, <1>6, IsRow

\* Two rows of bytes make two rows of pieces.
LEMMA PiecesJoin ==
  ASSUME NEW s \in Seq(Nat), NEW t \in Seq(Nat)
  PROVE  /\ UnwrapPieces(s \o t) = UnwrapPieces(s) \o UnwrapPieces(t)
         /\ CrlfPieces(s \o t) = CrlfPieces(s) \o CrlfPieces(t)
<1>1. /\ Len(s) \in Nat /\ Len(t) \in Nat /\ s \o t \in Seq(Nat)
      /\ Len(s \o t) = Len(s) + Len(t)
      /\ \A i \in 1 .. Len(s) + Len(t) :
           (s \o t)[i] = IF i <= Len(s) THEN s[i] ELSE t[i - Len(s)]
  BY ConcatProperties, LenProperties
<1>2. ASSUME NEW i \in 1 .. Len(s)
      PROVE  /\ UnwrapPieces(s \o t)[i] = UnwrapPieces(s)[i]
             /\ CrlfPieces(s \o t)[i] = CrlfPieces(s)[i]
  <2>1. i \in 1 .. Len(s \o t) /\ (s \o t)[i] = s[i]
    BY <1>1
  <2>2. QED
    BY <2>1 DEF UnwrapPieces, CrlfPieces
<1>3. ASSUME NEW i \in 1 .. Len(t)
      PROVE  /\ UnwrapPieces(s \o t)[Len(s) + i] = UnwrapPieces(t)[i]
             /\ CrlfPieces(s \o t)[Len(s) + i] = CrlfPieces(t)[i]
  <2>1. Len(s) + i \in 1 .. Len(s \o t) /\ ~(Len(s) + i <= Len(s)) /\ (Len(s) + i) - Len(s) = i
    BY <1>1
  <2>2. (s \o t)[Len(s) + i] = t[i]
    BY <1>1, <2>1
  <2>3. QED
    BY <2>1, <2>2 DEF UnwrapPieces, CrlfPieces
<1>4. /\ UnwrapPieces(s) \in Seq(Seq(Nat)) /\ Len(UnwrapPieces(s)) = Len(s)
      /\ UnwrapPieces(t) \in Seq(Seq(Nat)) /\ Len(UnwrapPieces(t)) = Len(t)
      /\ UnwrapPieces(s \o t) \in Seq(Seq(Nat)) /\ Len(UnwrapPieces(s \o t)) = Len(s) + Len(t)
  BY <1>1, PiecesAre
<1>5. /\ CrlfPieces(s) \in Seq(Seq(Nat)) /\ Len(CrlfPieces(s)) = Len(s)
      /\ CrlfPieces(t) \in Seq(Seq(Nat)) /\ Len(CrlfPieces(t)) = Len(t)
      /\ CrlfPieces(s \o t) \in Seq(Seq(Nat)) /\ Len(CrlfPieces(s \o t)) = Len(s) + Len(t)
  BY <1>1, PiecesAre
<1>6. UnwrapPieces(s \o t) = UnwrapPieces(s) \o UnwrapPieces(t)
  <2>1. \A i \in 1 .. Len(UnwrapPieces(s)) : UnwrapPieces(s \o t)[i] = UnwrapPieces(s)[i]
    BY <1>2, <1>4
  <2>2. \A i \in 1 .. Len(UnwrapPieces(t)) : UnwrapPieces(s \o t)[Len(UnwrapPieces(s)) + i] = UnwrapPieces(t)[i]
    BY <1>3, <1>4
  <2>3. Len(UnwrapPieces(s \o t)) = Len(UnwrapPieces(s)) + Len(UnwrapPieces(t))
    BY <1>4
  <2>4. QED
    BY <1>4, <2>1, <2>2, <2>3, RowsJoin
<1>7. CrlfPieces(s \o t) = CrlfPieces(s) \o CrlfPieces(t)
  <2>1. \A i \in 1 .. Len(CrlfPieces(s)) : CrlfPieces(s \o t)[i] = CrlfPieces(s)[i]
    BY <1>2, <1>5
  <2>2. \A i \in 1 .. Len(CrlfPieces(t)) : CrlfPieces(s \o t)[Len(CrlfPieces(s)) + i] = CrlfPieces(t)[i]
    BY <1>3, <1>5
  <2>3. Len(CrlfPieces(s \o t)) = Len(CrlfPieces(s)) + Len(CrlfPieces(t))
    BY <1>5
  <2>4. QED
    BY <1>5, <2>1, <2>2, <2>3, RowsJoin
<1>8. QED
  BY <1>6, <1>7

\* So that what is made of two rows is what is made of each of them.
LEMMA ExpandJoin ==
  ASSUME NEW s \in Seq(Nat), NEW t \in Seq(Nat)
  PROVE  /\ Unwrapped(s) \in Seq(Nat) /\ Unwrapped(s \o t) = Unwrapped(s) \o Unwrapped(t)
         /\ CrlfExpand(s) \in Seq(Nat) /\ CrlfExpand(s \o t) = CrlfExpand(s) \o CrlfExpand(t)
         /\ Len(CrlfExpand(s)) <= 2 * Len(s) /\ Len(Unwrapped(s)) <= Len(s)
         /\ CrlfExpand(<<>>) = <<>> /\ Unwrapped(<<>>) = <<>>
<1>1. \A u : Unwrapped(u) = FlattenSeq(UnwrapPieces(u)) /\ CrlfExpand(u) = FlattenSeq(CrlfPieces(u))
  BY DEF Unwrapped, CrlfExpand, UnwrapPieces, CrlfPieces
<1>2. /\ UnwrapPieces(s) \in Seq(Seq(Nat)) /\ UnwrapPieces(t) \in Seq(Seq(Nat))
      /\ CrlfPieces(s) \in Seq(Seq(Nat)) /\ CrlfPieces(t) \in Seq(Seq(Nat))
      /\ Len(CrlfPieces(s)) = Len(s) /\ Len(UnwrapPieces(s)) = Len(s)
      /\ \A i \in 1 .. Len(CrlfPieces(s)) : Len(CrlfPieces(s)[i]) <= 2
      /\ \A i \in 1 .. Len(UnwrapPieces(s)) : Len(UnwrapPieces(s)[i]) <= 1
  BY PiecesAre
<1>3. Unwrapped(s) \in Seq(Nat) /\ Unwrapped(s \o t) = Unwrapped(s) \o Unwrapped(t)
  BY <1>1, <1>2, PiecesJoin, FlattenType, FlattenJoin
<1>4. CrlfExpand(s) \in Seq(Nat) /\ CrlfExpand(s \o t) = CrlfExpand(s) \o CrlfExpand(t)
  BY <1>1, <1>2, PiecesJoin, FlattenType, FlattenJoin
<1>5. Len(CrlfExpand(s)) <= 2 * Len(s) /\ Len(Unwrapped(s)) <= Len(s)
  <2>1. Len(FlattenSeq(CrlfPieces(s))) <= 2 * Len(CrlfPieces(s))
    BY <1>2, FlattenLength
  <2>2. Len(FlattenSeq(UnwrapPieces(s))) <= 1 * Len(UnwrapPieces(s))
    BY <1>2, FlattenLength
  <2>3. QED
    BY <1>1, <1>2, <2>1, <2>2, LenProperties
<1>6. CrlfExpand(<<>>) = <<>> /\ Unwrapped(<<>>) = <<>>
  <2>1. CrlfPieces(<<>>) = <<>> /\ UnwrapPieces(<<>>) = <<>>
    <3>1. Len(CrlfPieces(<<>>)) = 0 /\ Len(UnwrapPieces(<<>>)) = 0
          /\ CrlfPieces(<<>>) \in Seq(Seq(Nat)) /\ UnwrapPieces(<<>>) \in Seq(Seq(Nat))
      BY PiecesAre, EmptySeq
    <3>2. QED
      BY <3>1, EmptySeq
  <2>2. QED
    BY <1>1, <2>1, FlattenAppend
<1>7. QED
  BY <1>3, <1>4, <1>5, <1>6

-----------------------------------------------------------------------------
(***************************************************************************)
(* The codecs.                                                             *)
(***************************************************************************)
\* The newline codecs of the chains are what NewlineCodecs says; it may have
\* others, too.
NewlineNames == {"identity", "-wrap", "lf", "crlf", "-crlf", "wrap"}

OfNewlines ==
  \A s : s.name \in NewlineNames =>
    /\ Start(s) = NewlineStart(s)
    /\ BufferSize(s) = NewlineBufferSize(s)
    /\ \A in, room, fin : Transform(s, in, room, fin) = NewlineTransform(s, in, room, fin)
    /\ \A in : Meaning(s, in) = NewlineMeaning(s, in)

\* So each of them means and answers what its own operator says.
LEMMA NewlineMeans ==
  ASSUME OfNewlines, NEW s, NEW in
  PROVE  /\ s.name = "identity" => Meaning(s, in) = in
         /\ s.name = "lf" => Meaning(s, in) = LfMeaning(s, in)
         /\ s.name = "crlf" => Meaning(s, in) = CrlfExpand(in)
         /\ s.name = "-crlf" => Meaning(s, in) = UncrlfMeaning(in)
         /\ s.name = "wrap" => Meaning(s, in) = WrapMeaning(s, in)
         /\ s.name = "-wrap" => Meaning(s, in) = Unwrapped(in)
<1>1. s.name \in NewlineNames => Meaning(s, in) = NewlineMeaning(s, in)
  BY DEF OfNewlines
<1>2. QED
  BY <1>1 DEF NewlineNames, NewlineMeaning

LEMMA NewlineAnswers ==
  ASSUME OfNewlines, NEW s, NEW in, NEW room, NEW fin
  PROVE  /\ s.name = "identity" => Transform(s, in, room, fin) = Identity(s, in, room, fin)
         /\ s.name = "lf" => Transform(s, in, room, fin) = LfTransform(s, in, room, fin)
         /\ s.name = "crlf" => Transform(s, in, room, fin) = CrlfForward(s, in, room, fin)
         /\ s.name = "-crlf" => Transform(s, in, room, fin) = CrlfDecode(s, in, room, fin)
         /\ s.name = "wrap" => Transform(s, in, room, fin) = WrapTransform(s, in, room)
         /\ s.name = "-wrap" => Transform(s, in, room, fin) = Unwrap(s, in, room)
<1>1. s.name \in NewlineNames => Transform(s, in, room, fin) = NewlineTransform(s, in, room, fin)
  BY DEF OfNewlines
<1>2. QED
  BY <1>1 DEF NewlineNames, NewlineTransform

\* Of what fits all is taken.
LEMMA AllFits ==
  ASSUME NEW in \in Seq(Nat), NEW size \in Nat, NEW room \in Nat, size <= room, Len(in) <= size
  PROVE  Smaller(Len(in), room) = Len(in) /\ Firsts(in, Len(in)) = in
<1>1. Len(in) \in Nat
  BY LenProperties
<1>2. Smaller(Len(in), room) = Len(in) /\ Smaller(Len(in), Len(in)) = Len(in)
  BY <1>1 DEF Smaller
<1>3. QED
  BY <1>2, SubSeqFull DEF Firsts

\* identity, and wrap backwards, take what they are shown.
LEMMA PlainStreams ==
  ASSUME OfNewlines, NEW s, s.name \in {"identity", "-wrap"},
         NEW size \in Nat, NEW room \in Nat, size <= room, 1 <= room
  PROVE  StreamsAlone(At(s, <<>>), size, room)
<1>1. BufferSize(s) \in 0 .. room
  BY DEF OfNewlines, NewlineNames, NewlineBufferSize
<1>2. ASSUME NEW a \in Seq(Nat), NEW b \in Seq(Nat)
      PROVE  /\ Meaning(s, a) \in Seq(Nat)
             /\ Meaning(s, a \o b) = Meaning(s, a) \o Meaning(s, b)
             /\ Meaning(s, <<>>) = <<>>
  <2>1. CASE s.name = "identity"
    <3>1. \A in : Meaning(s, in) = in
      BY <2>1, NewlineMeans
    <3>2. QED
      BY <3>1, ConcatProperties, EmptySeq
  <2>2. CASE s.name = "-wrap"
    <3>1. /\ Meaning(s, a) = Unwrapped(a) /\ Meaning(s, b) = Unwrapped(b)
          /\ Meaning(s, a \o b) = Unwrapped(a \o b) /\ Meaning(s, <<>>) = Unwrapped(<<>>)
      BY <2>2, NewlineMeans
    <3>2. /\ Unwrapped(a) \in Seq(Nat) /\ Unwrapped(a \o b) = Unwrapped(a) \o Unwrapped(b)
           /\ Unwrapped(<<>>) = <<>>
      BY ExpandJoin
    <3>3. QED
      BY <3>1, <3>2
  <2>3. QED
    BY <2>1, <2>2
<1>3. ASSUME NEW in \in Seq(Nat), NEW fin \in BOOLEAN, Len(in) <= size
      PROVE  TakesWhole(s, in, room, fin)
  <2> DEFINE answer == Transform(s, in, room, fin)
  <2>1. CASE s.name = "identity"
    <3>1. answer = Identity(s, in, room, fin) /\ Meaning(s, in) = in
      BY <2>1, NewlineMeans, NewlineAnswers
    <3>2. answer = StatelessAnswer(s, in, fin, Len(in), in)
      BY <1>3, <3>1, AllFits DEF Identity
    <3>3. QED
      BY <1>3, <3>1, <3>2, LenProperties DEF TakesWhole, StatelessAnswer, Ans
  <2>2. CASE s.name = "-wrap"
    <3>1. answer = Unwrap(s, in, room) /\ Meaning(s, in) = Unwrapped(in)
      BY <2>2, NewlineMeans, NewlineAnswers
    <3>2. answer = Ans(s, "Ok", Len(in), Unwrapped(in))
      BY <1>3, <3>1, AllFits DEF Unwrap
    <3>3. Len(in) \in Nat /\ Len(Unwrapped(in)) \in Nat /\ Len(Unwrapped(in)) <= Len(in)
      BY ExpandJoin, LenProperties
    <3>4. Len(Unwrapped(in)) <= room
      BY <1>3, <3>3
    <3>5. QED
      BY <3>1, <3>2, <3>4 DEF TakesWhole, Ans
  <2>3. QED
    BY <2>1, <2>2
<1>4. TakesAll(s, size, room)
  <2>1. Meaning(s, <<>>) = <<>>
    BY <1>2, EmptySeq
  <2>2. \A in \in Seq(Nat) : \A fin \in BOOLEAN : Len(in) <= size => TakesWhole(s, in, room, fin)
    BY <1>3
  <2>3. QED
    BY <1>1, <1>2, <2>1, <2>2 DEF TakesAll
<1>5. QED
  BY <1>4, TakerStreams

\* crlf does where the output has room for a CR in front of every byte.
LEMMA CrlfStreams ==
  ASSUME OfNewlines, NEW s, s.name = "crlf",
         NEW size \in Nat, NEW room \in Nat, 2 * size <= room, 3 <= room
  PROVE  StreamsAlone(At(s, <<>>), size, room)
<1>1. BufferSize(s) \in 0 .. room
  BY DEF OfNewlines, NewlineNames, NewlineBufferSize
<1>2. ASSUME NEW a \in Seq(Nat), NEW b \in Seq(Nat)
      PROVE  /\ Meaning(s, a) \in Seq(Nat)
             /\ Meaning(s, a \o b) = Meaning(s, a) \o Meaning(s, b)
             /\ Meaning(s, <<>>) = <<>>
  <2>1. /\ Meaning(s, a) = CrlfExpand(a) /\ Meaning(s, b) = CrlfExpand(b)
        /\ Meaning(s, a \o b) = CrlfExpand(a \o b) /\ Meaning(s, <<>>) = CrlfExpand(<<>>)
    BY NewlineMeans
  <2>2. /\ CrlfExpand(a) \in Seq(Nat) /\ CrlfExpand(a \o b) = CrlfExpand(a) \o CrlfExpand(b)
         /\ CrlfExpand(<<>>) = <<>>
    BY ExpandJoin
  <2>3. QED
    BY <2>1, <2>2
<1>3. ASSUME NEW in \in Seq(Nat), NEW fin \in BOOLEAN, Len(in) <= size
      PROVE  TakesWhole(s, in, room, fin)
  <2> DEFINE answer == Transform(s, in, room, fin)
  <2>1. answer = CrlfForward(s, in, room, fin) /\ Meaning(s, in) = CrlfExpand(in)
    BY NewlineMeans, NewlineAnswers
  <2>2. Len(in) \in Nat /\ Len(CrlfExpand(in)) \in Nat /\ Len(CrlfExpand(in)) <= 2 * Len(in)
    BY ExpandJoin, LenProperties
  <2>3. Len(CrlfExpand(in)) <= room /\ Len(in) <= room \div 2
    BY <1>3, <2>2
  <2>4. Smaller(Len(in), room \div 2) = Len(in)
    BY <2>2, <2>3 DEF Smaller
  <2>5. answer = StatelessAnswer(s, in, fin, Len(in), CrlfExpand(in))
    BY <2>1, <2>2, <2>3, <2>4 DEF CrlfForward
  <2>6. QED
    BY <2>1, <2>3, <2>5 DEF TakesWhole, StatelessAnswer, Ans
<1>4. TakesAll(s, size, room)
  <2>1. Meaning(s, <<>>) = <<>>
    BY <1>2, EmptySeq
  <2>2. \A in \in Seq(Nat) : \A fin \in BOOLEAN : Len(in) <= size => TakesWhole(s, in, room, fin)
    BY <1>3
  <2>3. QED
    BY <1>1, <1>2, <2>1, <2>2 DEF TakesAll
<1>5. QED
  BY <1>4, TakerStreams

-----------------------------------------------------------------------------
(***************************************************************************)
(* lf.                                                                     *)
(***************************************************************************)
\* What lf makes of bytes that are some: a newline comes behind them unless
\* there is one.
Ended(left) == IF Last(left) = LF THEN left ELSE Append(left, LF)

\* Two bytes.
LEMMA AppendTwo ==
  ASSUME NEW x \in Nat, NEW y \in Nat
  PROVE  Append(<<x>>, y) = <<x, y>>
<1>1. Append(<<x>>, y) \in Seq(Nat) /\ <<x, y>> \in Seq(Nat)
  OBVIOUS
<1>2. Len(Append(<<x>>, y)) = 2 /\ Len(<<x, y>>) = 2
  OBVIOUS
<1>3. Append(<<x>>, y)[1] = x /\ Append(<<x>>, y)[2] = y
  OBVIOUS
<1>4. \A i \in 1 .. 2 : Append(<<x>>, y)[i] = <<x, y>>[i]
  BY <1>3
<1>5. QED
  BY <1>1, <1>2, <1>4, SeqEqual

\* It looks at the last byte only.
LEMMA EndedBehind ==
  ASSUME NEW m \in Seq(Nat), NEW l \in Seq(Nat), l # <<>>
  PROVE  /\ Ended(l) \in Seq(Nat) /\ Ended(l) # <<>>
         /\ m \o l # <<>>
         /\ Ended(m \o l) = m \o Ended(l)
<1>1. Len(m) \in Nat /\ Len(l) \in Nat \ {0} /\ LF \in Nat
  BY EmptySeq, LenProperties DEF LF
<1>2. m \o l \in Seq(Nat) /\ Len(m \o l) = Len(m) + Len(l) /\ m \o l # <<>>
  BY <1>1, ConcatProperties, EmptySeq
<1>3. Last(m \o l) = Last(l)
  <2>1. Len(m) + Len(l) \in 1 .. Len(m) + Len(l) /\ ~(Len(m) + Len(l) <= Len(m))
        /\ (Len(m) + Len(l)) - Len(m) = Len(l)
    BY <1>1
  <2>2. QED
    BY <1>2, <2>1, ConcatProperties DEF Last
<1>4. Append(m \o l, LF) = m \o Append(l, LF)
  <2>1. <<LF>> \in Seq(Nat)
    BY <1>1
  <2>2. Append(m \o l, LF) = (m \o l) \o <<LF>> /\ Append(l, LF) = l \o <<LF>>
    BY <1>1, <1>2, AppendIsConcat
  <2>3. QED
    BY <2>1, <2>2, Joined, SMTT(30)
<1>5. Append(l, LF) \in Seq(Nat) /\ Append(l, LF) # <<>>
  BY <1>1, AppendProperties
<1>6. QED
  BY <1>2, <1>3, <1>4, <1>5 DEF Ended

\* What is left of a sequence is a byte and what is left after it.
LEMMA SkipFirst ==
  ASSUME NEW in \in Seq(Nat), NEW n \in 0 .. Len(in) - 1
  PROVE  /\ in[n + 1] \in Nat
         /\ Skip(in, n + 1) \in Seq(Nat)
         /\ Skip(in, n) = <<in[n + 1]>> \o Skip(in, n + 1)
<1>1. Len(in) \in Nat /\ n + 1 \in 1 .. Len(in) /\ n + 1 \in 0 .. Len(in)
      /\ Len(in) \in n + 1 .. Len(in)
  BY LenProperties
<1>2. SubSeq(in, n + 1, Len(in)) = <<in[n + 1]>> \o SubSeq(in, (n + 1) + 1, Len(in))
  BY <1>1, SubSeqRecursiveFirst
<1>3. QED
  BY <1>1, <1>2, SkipIs, ElementOfSeq DEF Skip

\* The first bytes of what has as many.
LEMMA FirstsLength ==
  ASSUME NEW in \in Seq(Nat), NEW n \in 0 .. Len(in)
  PROVE  Len(Firsts(in, n)) = n
<1>1. Len(in) \in Nat
  BY LenProperties
<1>2. Smaller(n, Len(in)) = n
  BY <1>1 DEF Smaller
<1>3. \A i \in 1 .. n : in[i] \in Nat
  BY <1>1, ElementOfSeq
<1>4. Len(SubSeq(in, 1, n)) = IF 1 <= n THEN n - 1 + 1 ELSE 0
  BY <1>1, <1>3, SubSeqProperties
<1>5. QED
  BY <1>1, <1>2, <1>4 DEF Firsts

\* A sequence is its first bytes, the one that follows, and the rest.
LEMMA CutAt ==
  ASSUME NEW in \in Seq(Nat), NEW n \in 0 .. Len(in) - 1
  PROVE  /\ Firsts(in, n) \in Seq(Nat) /\ Len(Firsts(in, n)) = n
         /\ in[n + 1] \in Nat /\ <<in[n + 1]>> \in Seq(Nat)
         /\ Skip(in, n + 1) \in Seq(Nat)
         /\ in = Firsts(in, n) \o (<<in[n + 1]>> \o Skip(in, n + 1))
<1>1. Len(in) \in Nat /\ n \in Nat /\ n + 1 \in 1 .. Len(in) /\ n + 1 \in 0 .. Len(in)
  BY LenProperties
<1>2. in[n + 1] \in Nat /\ <<in[n + 1]>> \in Seq(Nat)
  BY <1>1, ElementOfSeq
<1>3. Skip(in, n + 1) \in Seq(Nat)
  BY SkipFirst
<1>4. Skip(in, n) = <<in[n + 1]>> \o Skip(in, n + 1)
  BY SkipFirst
<1>5. Len(Firsts(in, n)) = n
  <2>1. n \in 0 .. Len(in)
    BY <1>1
  <2>2. QED
    BY <2>1, FirstsLength
<1>6. Firsts(in, n) \in Seq(Nat) /\ Firsts(in, n) \o Skip(in, n) = in
  BY <1>1, <1>5, FirstsIs
<1>7. QED
  BY <1>2, <1>3, <1>4, <1>5, <1>6

\* How much lf writes: something is taken, what it held is given, and there is
\* room.
LEMMA LfFits ==
  ASSUME NEW held \in 0 .. 1, NEW length \in Nat \ {0}, NEW room \in Nat, 2 <= room,
         NEW n, n = Smaller(length - 1, room - held - 1)
  PROVE  /\ n \in 0 .. length - 1
         /\ held + n <= room
         /\ held + n = 0 => length = 1
BY DEF Smaller

\* What lf holds back, and that it leaves nothing of its input as long as it
\* holds nothing, nor at its end.
LfCodecs(empty) ==
  {st \in [codec : [name : {"lf"}, last : {<<>>} \cup {<<b>> : b \in Nat}, done : BOOLEAN,
                    empty : {empty}],
           win : Seq(Nat)] :
     st.codec.last = <<>> \/ st.codec.done => st.win = <<>>}

LEMMA LfIs ==
  ASSUME NEW empty, NEW st \in LfCodecs(empty)
  PROVE  /\ st.codec \in [name : {"lf"}, last : {<<>>} \cup {<<b>> : b \in Nat}, done : BOOLEAN,
                          empty : {empty}]
         /\ st.codec.name = "lf" /\ st.codec.done \in BOOLEAN /\ st.codec.empty = empty
         /\ st.codec.last = <<>> \/ \E b \in Nat : st.codec.last = <<b>>
         /\ st.codec.last \in Seq(Nat) /\ Len(st.codec.last) \in 0 .. 1
         /\ st.codec.last # <<>> => Len(st.codec.last) = 1
         /\ st.win \in Seq(Nat)
         /\ st.codec.last = <<>> \/ st.codec.done => st.win = <<>>
         /\ st = At(st.codec, st.win)
<1>1. /\ st \in [codec : [name : {"lf"}, last : {<<>>} \cup {<<b>> : b \in Nat}, done : BOOLEAN,
                          empty : {empty}],
                 win : Seq(Nat)]
      /\ st.codec.last = <<>> \/ st.codec.done => st.win = <<>>
  BY DEF LfCodecs
<1>2. /\ st.codec \in [name : {"lf"}, last : {<<>>} \cup {<<b>> : b \in Nat}, done : BOOLEAN,
                       empty : {empty}]
      /\ st.win \in Seq(Nat) /\ st = At(st.codec, st.win)
  BY <1>1 DEF At
<1>3. /\ st.codec.name = "lf" /\ st.codec.done \in BOOLEAN /\ st.codec.empty = empty
      /\ st.codec.last \in {<<>>} \cup {<<b>> : b \in Nat}
  BY <1>2
<1>4. st.codec.last = <<>> \/ \E b \in Nat : st.codec.last = <<b>>
  BY <1>3
<1>5. \A b \in Nat : <<b>> \in Seq(Nat) /\ Len(<<b>>) = 1
  OBVIOUS
<1>6. st.codec.last \in Seq(Nat) /\ Len(st.codec.last) \in 0 .. 1
      /\ (st.codec.last # <<>> => Len(st.codec.last) = 1)
  <2>1. CASE st.codec.last = <<>>
    BY <2>1, EmptySeq
  <2>2. CASE \E b \in Nat : st.codec.last = <<b>>
    BY <1>5, <2>2
  <2>3. QED
    BY <1>4, <2>1, <2>2
<1>7. QED
  BY <1>1, <1>2, <1>3, <1>4, <1>6

LEMMA LfRanged ==
  ASSUME OfNewlines, NEW empty \in BOOLEAN, NEW room \in Nat, 2 <= room
  PROVE  Ranged(LfCodecs(empty), room)
<1>1. SUFFICES ASSUME NEW st \in LfCodecs(empty)
      PROVE  /\ st = At(st.codec, st.win)
             /\ BufferSize(st.codec) \in 0 .. room
             /\ \A in \in Seq(Nat) : Meaning(st.codec, in) \in Seq(Nat) \cup {Malformed}
  BY DEF Ranged
<1>2. st.codec.name = "lf" /\ st.codec.last \in Seq(Nat) /\ st = At(st.codec, st.win)
  BY LfIs
<1>3. BufferSize(st.codec) \in 0 .. room
  BY <1>2 DEF OfNewlines, NewlineNames, NewlineBufferSize
<1>4. ASSUME NEW in \in Seq(Nat) PROVE Meaning(st.codec, in) \in Seq(Nat) \cup {Malformed}
  <2>1. Meaning(st.codec, in) = LfMeaning(st.codec, in)
    BY <1>2, NewlineMeans
  <2>2. st.codec.last \o in \in Seq(Nat)
    BY <1>2, ConcatProperties
  <2>3. <<LF>> \in Seq(Nat) /\ <<>> \in Seq(Nat)
    BY DEF LF
  <2>4. st.codec.last \o in # <<>> => Ended(st.codec.last \o in) \in Seq(Nat)
    BY <2>2, <2>3, EndedBehind
  <2>5. QED
    BY <2>1, <2>3, <2>4 DEF LfMeaning, Ended
<1>5. QED
  BY <1>2, <1>3, <1>4

LEMMA LfTruthful ==
  ASSUME OfNewlines, NEW empty \in BOOLEAN, NEW size \in Nat, NEW room \in Nat, 2 <= room,
         NEW st \in LfCodecs(empty), NEW fresh \in Seq(Nat), NEW later \in Seq(Nat)
  PROVE  Tells(LfCodecs(empty), size, room, st, fresh, later)
<1> DEFINE s == st.codec
           in == st.win \o fresh
           answer == Answer(st, fresh, room)
           rest == Meaning(answer.codec, Skip(in, answer.took) \o later)
           due == Meaning(s, in \o later)
<1>1. /\ s \in [name : {"lf"}, last : {<<>>} \cup {<<b>> : b \in Nat}, done : BOOLEAN,
                empty : {empty}]
      /\ s.last = <<>> \/ \E b \in Nat : s.last = <<b>>
      /\ st.win \in Seq(Nat) /\ (s.last = <<>> \/ s.done => st.win = <<>>)
      /\ st = At(s, st.win)
  BY LfIs
<1>2. /\ s.last \in Seq(Nat) /\ Len(s.last) \in 0 .. 1 /\ (s.last # <<>> => Len(s.last) = 1)
      /\ s.name = "lf" /\ s.done \in BOOLEAN /\ s.empty = empty
  BY LfIs
<1>3. in \in Seq(Nat) /\ Len(in) \in Nat /\ (in # <<>> => Len(in) # 0)
      /\ (in = <<>> <=> st.win = <<>> /\ fresh = <<>>)
  BY <1>1, ConcatProperties, ConcatEqualIffEmpty, EmptySeq, LenProperties
<1>4. in \o later \in Seq(Nat) /\ (in \o later = <<>> <=> in = <<>> /\ later = <<>>)
  BY <1>3, ConcatProperties, ConcatEqualIffEmpty
<1>5. SUFFICES ASSUME Len(in) <= size, due # Malformed, fresh = <<>> => later = <<>>
      PROVE  /\ answer.made \in Seq(Nat)
             /\ Contract(answer.kind, answer.took, Len(answer.made), Len(in), room, size, {},
                         fresh = <<>>)
             /\ ~(answer.kind = "SeqError" /\ answer.took = 0 /\ fresh = <<>>)
             /\ due = answer.made \o rest
             /\ rest \in Seq(Nat)
             /\ answer.made = <<>> /\ (fresh = <<>> \/ answer.kind = "StreamEnd") => rest = <<>>
             /\ Stays(LfCodecs(empty), answer, in)
  BY DEF Tells
<1> HIDE DEF in
<1>6. answer = LfTransform(s, in, room, fresh = <<>>)
  BY <1>2, NewlineAnswers DEF Answer, in
<1>7. \A t, i : t.name = "lf" => Meaning(t, i) = LfMeaning(t, i)
  BY NewlineMeans
<1>8. /\ <<>> \in Seq(Nat) /\ Len(<<>>) = 0 /\ <<>> \o later = later /\ <<>> \o <<>> = <<>>
      /\ Skip(in, 0) = in
  <2>1. 0 \in 0 .. Len(in)
    BY <1>3
  <2>2. QED
    BY <1>3, <2>1, EmptySeq, ConcatEmptySeq, SkipIs
<1>9. CASE s.done
  <2>1. in = <<>> /\ later = <<>> /\ due = <<>>
    <3>1. due = IF in \o later = <<>> THEN <<>> ELSE Malformed
      BY <1>2, <1>7, <1>9 DEF LfMeaning
    <3> HIDE DEF due
    <3>2. QED
      BY <1>4, <1>5, <3>1
  <2>2. answer = Ans(s, "StreamEnd", 0, <<>>)
    BY <1>6, <1>9 DEF LfTransform
  <2>3. fresh = <<>> /\ st.win = <<>> /\ Skip(in, 0) = <<>>
    BY <1>3, <1>8, <2>1
  <2>4. rest = <<>>
    BY <1>2, <1>7, <1>8, <1>9, <2>1, <2>2, <2>3 DEF LfMeaning, Ans
  <2>5. Stays(LfCodecs(empty), answer, in)
    <3>1. At(answer.codec, Skip(in, answer.took)) = st
      BY <1>1, <2>2, <2>3 DEF Ans
    <3>2. QED
      BY <3>1 DEF Stays
  <2>6. /\ answer.kind = "StreamEnd" /\ answer.took = 0 /\ answer.made = <<>>
    BY <2>2 DEF Ans
  <2> HIDE DEF answer, rest, due
  <2>7. Contract(answer.kind, answer.took, Len(answer.made), Len(in), room, size, {}, fresh = <<>>)
    <3>1. Len(answer.made) = 0 /\ Len(in) = 0 /\ 0 \in 0 .. room /\ 0 \in 0 .. 0
      BY <1>8, <2>1, <2>6
    <3>2. QED
      BY <2>3, <2>6, <3>1 DEF Contract, Kinds
  <2>8. QED
    BY <1>8, <2>1, <2>4, <2>5, <2>6, <2>7
<1>10. CASE ~s.done /\ in = <<>>
  <2>1. fresh = <<>> /\ later = <<>> /\ st.win = <<>> /\ in \o later = <<>> /\ Skip(in, 0) = <<>>
    BY <1>3, <1>4, <1>5, <1>8, <1>10
  <2>2. answer = LfFinish(s)
    BY <1>6, <1>10, <2>1 DEF LfTransform
  <2>3. due = LfMeaning(s, <<>>) /\ s.last \o <<>> = s.last
    BY <1>2, <1>7, <2>1, ConcatEmptySeq
  <2> DEFINE newline == ~(s.last = <<LF>> \/ (s.last = <<>> /\ s.empty))
             made == s.last \o IF newline THEN <<LF>> ELSE <<>>
  <2>4. answer = Ans([s EXCEPT !.done = TRUE], "Ok", 0, made)
    BY <2>2 DEF LfFinish
  <2>5. due = made /\ made \in Seq(Nat) /\ Len(made) \in 0 .. 2
    <3>1. CASE s.last = <<>>
      <4>1. due = IF s.empty THEN <<>> ELSE <<LF>>
        BY <1>10, <2>3, <3>1 DEF LfMeaning
      <4>2. <<LF>> \in Seq(Nat) /\ Len(<<LF>>) = 1 /\ <<>> \o <<LF>> = <<LF>> /\ <<>> \o <<>> = <<>>
            /\ <<>> # <<LF>>
        BY DEF LF
      <4>3. QED
        BY <1>8, <3>1, <4>1, <4>2
    <3>2. CASE s.last # <<>>
      <4>1. PICK b \in Nat : s.last = <<b>>
        BY <1>1, <3>2
      <4>2. due = Ended(<<b>>)
        BY <1>10, <2>3, <3>2, <4>1 DEF LfMeaning, Ended
      <4>3. /\ Len(<<b>>) = 1 /\ <<b>>[1] = b /\ <<b>> # <<>> /\ (<<b>> = <<LF>> <=> b = LF)
            /\ Append(<<b>>, LF) = <<b, LF>>
            /\ <<b>> \o <<LF>> = <<b, LF>> /\ <<b>> \o <<>> = <<b>>
        <5>1. Len(<<b>>) = 1 /\ <<b>>[1] = b /\ <<b>> # <<>> /\ (<<b>> = <<LF>> <=> b = LF)
          OBVIOUS
        <5>2. \A x, y \in Nat : Append(<<x>>, y) = <<x, y>>
          BY AppendTwo
        <5>3. <<b>> \in Seq(Nat) /\ LF \in Nat
          BY DEF LF
        <5>4. <<b>> \o <<LF>> = Append(<<b>>, LF) /\ <<b>> \o <<>> = <<b>>
          BY <5>3, AppendIsConcat, ConcatEmptySeq
        <5>5. QED
          BY <5>1, <5>2, <5>3, <5>4
      <4>4. Ended(<<b>>) = IF b = LF THEN <<b>> ELSE <<b, LF>>
        BY <4>3 DEF Ended, Last
      <4>5. made = IF b = LF THEN <<b>> ELSE <<b, LF>>
        BY <4>1, <4>3
      <4>6. <<b>> \in Seq(Nat) /\ <<b, LF>> \in Seq(Nat) /\ Len(<<b>>) = 1 /\ Len(<<b, LF>>) = 2
        BY DEF LF
      <4> HIDE DEF due, made
      <4>7. QED
        BY <4>2, <4>4, <4>5, <4>6
    <3>3. QED
      BY <3>1, <3>2
  <2>6. rest = <<>>
    <3>1. answer.codec.name = "lf" /\ answer.codec.done /\ answer.took = 0
      BY <1>1, <2>4 DEF Ans
    <3>2. rest = LfMeaning(answer.codec, <<>>)
      BY <1>7, <1>8, <2>1, <3>1
    <3>3. QED
      BY <3>1, <3>2 DEF LfMeaning
  <2>7. Stays(LfCodecs(empty), answer, in)
    <3> HIDE DEF made
    <3>1. answer.codec = [s EXCEPT !.done = TRUE] /\ answer.took = 0
      BY <2>4 DEF Ans
    <3> HIDE DEF answer
    <3>2. answer.codec \in [name : {"lf"}, last : {<<>>} \cup {<<b>> : b \in Nat}, done : BOOLEAN,
                            empty : {empty}]
      BY <1>1, <3>1
    <3>3. Skip(in, answer.took) = <<>>
      BY <2>1, <3>1
    <3>4. QED
      BY <1>8, <3>2, <3>3 DEF Stays, At, LfCodecs
  <2> HIDE DEF made
  <2>8. /\ answer.kind = "Ok" /\ answer.took = 0 /\ answer.made = made
    BY <2>4 DEF Ans
  <2> HIDE DEF answer, rest, due
  <2>9. Contract(answer.kind, answer.took, Len(answer.made), Len(in), room, size, {}, fresh = <<>>)
    <3>1. Len(in) = 0 /\ 0 \in 0 .. 0 /\ fresh = <<>>
      BY <1>8, <1>10, <2>1
    <3>2. Len(answer.made) \in 0 .. 2
      BY <2>5, <2>8
    <3>3. Len(answer.made) \in 0 .. room
      <4>1. \A length \in 0 .. 2 : length \in 0 .. room
        OBVIOUS
      <4>2. QED
        BY <3>2, <4>1
    <3>4. QED
      BY <2>8, <3>1, <3>3 DEF Contract, Kinds
  <2>10. due = answer.made \o rest
    BY <2>5, <2>6, <2>8, ConcatEmptySeq
  <2>11. QED
    BY <1>8, <2>5, <2>6, <2>7, <2>8, <2>9, <2>10
<1>11. CASE ~s.done /\ in # <<>>
  <2> DEFINE n == Smaller(Len(in) - 1, room - Len(s.last) - 1)
             made == s.last \o Firsts(in, n)
             left == <<in[n + 1]>> \o Skip(in, n + 1)
  <2>1. n \in 0 .. Len(in) - 1 /\ Len(s.last) + n <= room /\ (Len(s.last) + n = 0 => Len(in) = 1)
    <3>1. Len(in) \in Nat \ {0}
      BY <1>3, <1>11
    <3>2. n = Smaller(Len(in) - 1, room - Len(s.last) - 1)
      OBVIOUS
    <3> HIDE DEF n
    <3>3. QED
      BY <1>2, <3>1, <3>2, LfFits, ZenonT(60)
  <2>2. answer = LfMore(s, in, room)
    BY <1>6, <1>11 DEF LfTransform
  <2>3. answer = Ans([s EXCEPT !.last = <<in[n + 1]>>], "Ok", n + 1, made)
    BY <2>2 DEF LfMore
  <2> HIDE DEF n
  <2>4. /\ Firsts(in, n) \in Seq(Nat) /\ Len(Firsts(in, n)) = n
        /\ in[n + 1] \in Nat /\ <<in[n + 1]>> \in Seq(Nat)
        /\ Skip(in, n + 1) \in Seq(Nat)
        /\ in = Firsts(in, n) \o left
    BY <1>3, <2>1, CutAt
  <2>5. made \in Seq(Nat) /\ Len(made) = Len(s.last) + n /\ left \in Seq(Nat)
    <3>1. made \in Seq(Nat) /\ Len(made) = Len(s.last) + Len(Firsts(in, n))
      BY <1>2, <2>4, ConcatProperties
    <3>2. left \in Seq(Nat)
      BY <2>4, ConcatProperties
    <3>3. QED
      BY <2>4, <3>1, <3>2
  <2>6. left \o later \in Seq(Nat) /\ left \o later # <<>>
    <3>1. <<in[n + 1]>> # <<>>
      OBVIOUS
    <3>2. left # <<>>
      BY <2>4, <3>1, BothEmpty
    <3>3. QED
      BY <2>5, <3>2, BothEmpty, ConcatProperties
  <2>7. s.last \o (in \o later) = made \o (left \o later)
    <3>1. s.last \o (in \o later) = (s.last \o in) \o later
      BY <1>2, <1>3, Joined
    <3> HIDE DEF left
    <3>2. s.last \o in = made \o left
      <4>1. (s.last \o Firsts(in, n)) \o left = s.last \o (Firsts(in, n) \o left)
        <5>1. s.last \in Seq(Nat) /\ Firsts(in, n) \in Seq(Nat) /\ left \in Seq(Nat)
          BY <1>2, <2>4, <2>5
        <5>2. QED
          BY <5>1, Joined, ZenonT(60)
      <4>2. QED
        BY <2>4, <4>1
    <3> HIDE DEF made
    <3>3. (made \o left) \o later = made \o (left \o later)
      BY <2>5, Joined
    <3>4. QED
      BY <3>1, <3>2, <3>3
  <2>8. /\ answer.codec = [s EXCEPT !.last = <<in[n + 1]>>] /\ answer.kind = "Ok"
        /\ answer.took = n + 1 /\ answer.made = made
    BY <2>3 DEF Ans
  <2>9. /\ answer.codec \in [name : {"lf"}, last : {<<b>> : b \in Nat}, done : {FALSE},
                             empty : {empty}]
        /\ answer.codec.last = <<in[n + 1]>>
    <3> HIDE DEF answer
    <3>1. answer.codec \in [name : {"lf"}, last : {<<b>> : b \in Nat}, done : BOOLEAN, empty : {empty}]
      BY <1>1, <2>4, <2>8
    <3>2. answer.codec.last = <<in[n + 1]>> /\ answer.codec.done = s.done
      BY <1>1, <2>8
    <3>3. QED
      BY <1>11, <3>1, <3>2
  <2>10. rest = Ended(left \o later)
    <3>1. rest = LfMeaning(answer.codec, Skip(in, n + 1) \o later)
      BY <1>7, <2>8, <2>9
    <3>2. <<in[n + 1]>> \o (Skip(in, n + 1) \o later) = left \o later
      BY <2>4, Joined
    <3> HIDE DEF left, rest, answer
    <3>3. QED
      BY <2>6, <2>9, <3>1, <3>2 DEF LfMeaning, Ended
  <2>11. due = Ended(s.last \o (in \o later))
    <3>1. due = LfMeaning(s, in \o later)
      BY <1>2, <1>7
    <3>2. s.last \o (in \o later) # <<>>
      BY <2>5, <2>6, <2>7, EndedBehind
    <3> HIDE DEF due
    <3>3. QED
      BY <1>11, <3>1, <3>2 DEF LfMeaning, Ended
  <2>12. due = made \o rest /\ rest \in Seq(Nat)
    <3> HIDE DEF due, rest, made, left
    <3>1. Ended(left \o later) \in Seq(Nat) /\ Ended(made \o (left \o later)) = made \o Ended(left \o later)
      BY <2>5, <2>6, EndedBehind
    <3>2. QED
      BY <2>7, <2>10, <2>11, <3>1
  <2>13. made = <<>> => fresh # <<>>
    <3>1. CASE s.last = <<>>
      BY <1>1, <1>3, <1>11, <3>1
    <3>2. CASE s.last # <<>>
      BY <1>2, <2>4, <3>2, BothEmpty
    <3>3. QED
      BY <3>1, <3>2
  <2>14. n + 1 \in 1 .. Len(in) /\ Len(made) \in 0 .. room /\ (Len(made) = 0 => n + 1 = Len(in))
    <3> HIDE DEF made
    <3>1. n + 1 \in 1 .. Len(in)
      BY <1>3, <2>1
    <3>2. Len(made) \in 0 .. room
      BY <1>2, <2>1, <2>5
    <3>3. ASSUME Len(made) = 0 PROVE n + 1 = Len(in)
      <4>1. Len(s.last) + n = 0 /\ Len(in) = 1
        BY <2>1, <2>5, <3>3
      <4>2. n = 0
        BY <2>1, <4>1
      <4>3. QED
        BY <4>1, <4>2
    <3>4. QED
      BY <3>1, <3>2, <3>3
  <2>15. Stays(LfCodecs(empty), answer, in)
    <3>1. Skip(in, answer.took) \in Seq(Nat)
      BY <2>4, <2>8
    <3>2. <<in[n + 1]>> # <<>>
      OBVIOUS
    <3> HIDE DEF answer
    <3>3. QED
      BY <2>9, <3>1, <3>2 DEF Stays, At, LfCodecs
  <2> HIDE DEF answer, rest, due, made
  <2>16. Contract(answer.kind, answer.took, Len(answer.made), Len(in), room, size, {}, fresh = <<>>)
    BY <1>3, <2>8, <2>14 DEF Contract, Kinds
  <2>17. QED
    BY <2>5, <2>8, <2>12, <2>13, <2>15, <2>16
<1>12. QED
  BY <1>2, <1>9, <1>10, <1>11

LEMMA LfStreams ==
  ASSUME OfNewlines, NEW empty \in BOOLEAN, NEW size \in Nat, NEW room \in Nat, 2 <= room
  PROVE  StreamsAlone(At(LfStart(empty), <<>>), size, room)
<1>1. At(LfStart(empty), <<>>) \in LfCodecs(empty)
  BY EmptySeq DEF LfStart, At, LfCodecs
<1>2. Ranged(LfCodecs(empty), room)
  BY LfRanged
<1>3. Truthful(LfCodecs(empty), size, room)
  BY LfTruthful DEF Truthful
<1>4. QED
  BY <1>1, <1>2, <1>3 DEF StreamsAlone

-----------------------------------------------------------------------------
(***************************************************************************)
(* The decoder of crlf.                                                    *)
(***************************************************************************)
UncrlfPieces(s) ==
  [i \in 1 .. Len(s) |-> IF s[i] = CR /\ i < Len(s) /\ s[i + 1] = LF THEN <<>> ELSE <<s[i]>>]

LEMMA UncrlfPiecesAre ==
  ASSUME NEW s \in Seq(Nat)
  PROVE  UncrlfPieces(s) \in Seq(Seq(Nat)) /\ Len(UncrlfPieces(s)) = Len(s)
<1>1. Len(s) \in Nat /\ \A i \in 1 .. Len(s) : s[i] \in Nat
  BY LenProperties, ElementOfSeq
<1>2. \A x \in Nat : <<x>> \in Seq(Nat)
  OBVIOUS
<1>3. <<>> \in Seq(Nat)
  OBVIOUS
<1>4. UncrlfPieces(s) \in [1 .. Len(s) -> Seq(Nat)]
  BY <1>1, <1>2, <1>3 DEF UncrlfPieces
<1>5. QED
  BY <1>1, <1>4, IsRow

\* What becomes of the first byte depends on the one behind it only.
LEMMA UncrlfFirst ==
  ASSUME NEW x \in Nat, NEW t \in Seq(Nat)
  PROVE  /\ UncrlfMeaning(t) \in Seq(Nat)
         /\ UncrlfMeaning(<<>>) = <<>>
         /\ UncrlfMeaning(<<x>> \o t)
              = (IF x = CR /\ t # <<>> /\ t[1] = LF THEN <<>> ELSE <<x>>) \o UncrlfMeaning(t)
<1> DEFINE first == IF x = CR /\ t # <<>> /\ t[1] = LF THEN <<>> ELSE <<x>>
<1>1. \A u : UncrlfMeaning(u) = FlattenSeq(UncrlfPieces(u))
  BY DEF UncrlfMeaning, UncrlfPieces
<1>2. UncrlfPieces(t) \in Seq(Seq(Nat)) /\ Len(UncrlfPieces(t)) = Len(t)
  BY UncrlfPiecesAre
<1>3. UncrlfMeaning(t) \in Seq(Nat)
  BY <1>1, <1>2, FlattenType, FlattenJoin
<1>4. UncrlfMeaning(<<>>) = <<>>
  <2>1. Len(UncrlfPieces(<<>>)) = 0 /\ UncrlfPieces(<<>>) \in Seq(Seq(Nat))
    BY UncrlfPiecesAre, EmptySeq
  <2>2. UncrlfPieces(<<>>) = <<>>
    BY <2>1, EmptySeq
  <2>3. QED
    BY <1>1, <2>2, FlattenAppend
<1>5. first \in Seq(Nat) /\ <<first>> \in Seq(Seq(Nat)) /\ Len(<<first>>) = 1 /\ <<first>>[1] = first
  <2>1. first \in Seq(Nat)
    OBVIOUS
  <2> HIDE DEF first
  <2>2. QED
    BY <2>1
<1>6. UncrlfPieces(<<x>> \o t) = <<first>> \o UncrlfPieces(t)
  <2> DEFINE u == <<x>> \o t
  <2>1. /\ <<x>> \in Seq(Nat) /\ Len(<<x>>) = 1 /\ <<x>>[1] = x
        /\ Len(t) \in Nat /\ (t # <<>> <=> Len(t) # 0)
    BY EmptySeq, LenProperties
  <2>2. /\ u \in Seq(Nat) /\ Len(u) = 1 + Len(t)
        /\ \A i \in 1 .. 1 + Len(t) : u[i] = IF i <= 1 THEN <<x>>[i] ELSE t[i - 1]
    BY <2>1, ConcatProperties
  <2>3. UncrlfPieces(u) \in Seq(Seq(Nat)) /\ Len(UncrlfPieces(u)) = Len(u)
    BY <2>2, UncrlfPiecesAre
  <2> HIDE DEF u
  <2>4. u[1] = x /\ \A i \in 1 .. Len(t) : u[1 + i] = t[i] /\ u[(1 + i)] = t[i]
    BY <2>1, <2>2
  <2>5. UncrlfPieces(u)[1] = first
    <3>1. 1 \in 1 .. Len(u) /\ (1 < Len(u) <=> t # <<>>)
      BY <2>1, <2>2
    <3>2. t # <<>> => u[1 + 1] = t[1]
      BY <2>1, <2>4
    <3>3. QED
      BY <2>4, <3>1, <3>2 DEF UncrlfPieces
  <2>6. ASSUME NEW i \in 1 .. Len(t) PROVE UncrlfPieces(u)[1 + i] = UncrlfPieces(t)[i]
    <3>1. 1 + i \in 1 .. Len(u) /\ (1 + i < Len(u) <=> i < Len(t)) /\ u[1 + i] = t[i]
      BY <2>1, <2>2, <2>4
    <3>2. i < Len(t) => u[(1 + i) + 1] = t[i + 1]
      <4>1. SUFFICES ASSUME i < Len(t) PROVE u[(1 + i) + 1] = t[i + 1]
        OBVIOUS
      <4>2. i + 1 \in 1 .. Len(t) /\ 1 + (i + 1) = (1 + i) + 1
        BY <2>1, <4>1
      <4>3. u[1 + (i + 1)] = t[i + 1]
        BY <2>4, <4>2
      <4>4. QED
        BY <4>2, <4>3
    <3>3. QED
      BY <3>1, <3>2 DEF UncrlfPieces
  <2>7. Len(UncrlfPieces(u)) = Len(<<first>>) + Len(UncrlfPieces(t))
    BY <1>2, <1>5, <2>2, <2>3
  <2>8. \A i \in 1 .. Len(<<first>>) : UncrlfPieces(u)[i] = <<first>>[i]
    BY <1>5, <2>5
  <2>9. \A i \in 1 .. Len(UncrlfPieces(t)) : UncrlfPieces(u)[Len(<<first>>) + i] = UncrlfPieces(t)[i]
    BY <1>2, <1>5, <2>6
  <2> HIDE DEF first
  <2>10. UncrlfPieces(u) = <<first>> \o UncrlfPieces(t)
    BY <1>2, <1>5, <2>3, <2>7, <2>8, <2>9, RowsJoin
  <2>11. QED
    BY <2>10 DEF u
<1> HIDE DEF first
<1>7. FlattenSeq(<<first>>) = first
  BY <1>5, FlattenAppend, EmptySeq
<1>8. UncrlfMeaning(<<x>> \o t) = first \o UncrlfMeaning(t)
  BY <1>1, <1>2, <1>5, <1>6, <1>7, FlattenType, FlattenJoin
<1>9. QED
  BY <1>3, <1>4, <1>8 DEF first

\* One step of the scan, from what was found from the bytes behind.
ScanAt(from, in, max, fin, i) ==
  IF i = max THEN [kind |-> "Ok", took |-> max, made |-> <<>>]
  ELSE IF in[i + 1] # CR THEN [from[i + 1] EXCEPT !.made = <<in[i + 1]>> \o from[i + 1].made]
  ELSE IF i + 1 = max
       THEN IF fin THEN [kind |-> "StreamEnd", took |-> max, made |-> <<CR>>]
            ELSE [kind |-> "SeqError", took |-> i, made |-> <<>>]
  ELSE IF in[i + 2] = LF THEN [from[i + 2] EXCEPT !.made = <<LF>> \o from[i + 2].made]
  ELSE IF in[i + 2] = CR THEN [from[i + 1] EXCEPT !.made = <<CR>> \o from[i + 1].made]
  ELSE [from[i + 2] EXCEPT !.made = <<CR, in[i + 2]>> \o from[i + 2].made]

Scans(from, in, max, fin, low) == from = [i \in low .. max |-> ScanAt(from, in, max, fin, i)]

\* Such a scan there is.
LEMMA ScanExists ==
  ASSUME NEW in, NEW max \in Nat, NEW fin
  PROVE  \E from : Scans(from, in, max, fin, 0)
<1> DEFINE bad == {j \in 0 .. max : ~ \E from : Scans(from, in, max, fin, max - j)}
<1>1. ASSUME bad # {} PROVE FALSE
  <2>1. bad \in SUBSET Nat
    OBVIOUS
  <2>2. PICK j \in bad : \A i \in bad : j <= i
    BY <1>1, <2>1, HasLeast
  <2> DEFINE low == max - j
             ends == [i \in max .. max |-> [kind |-> "Ok", took |-> max, made |-> <<>>]]
  <2>3. j # 0
    <3>1. Scans(ends, in, max, fin, max)
      BY DEF Scans, ScanAt
    <3>2. max - 0 = max
      OBVIOUS
    <3>3. QED
      BY <2>2, <3>1, <3>2
  <2>4. j - 1 \in 0 .. max /\ j - 1 \notin bad /\ max - (j - 1) = low + 1 /\ low \in 0 .. max - 1
    BY <2>2, <2>3
  <2>5. PICK f : Scans(f, in, max, fin, low + 1)
    BY <2>4
  <2> DEFINE g == [i \in low .. max |-> IF i = low THEN ScanAt(f, in, max, fin, low) ELSE f[i]]
  <2> HIDE DEF low
  <2>6. \A i \in low + 1 .. max : f[i] = ScanAt(f, in, max, fin, i)
    BY <2>5 DEF Scans
  <2>7. \A i \in low + 1 .. max : g[i] = f[i]
    BY <2>4
  <2>8. ASSUME NEW i \in low .. max PROVE ScanAt(g, in, max, fin, i) = ScanAt(f, in, max, fin, i)
    <3>1. i # max => g[i + 1] = f[i + 1]
      BY <2>4, <2>7
    <3>2. i # max /\ i + 1 # max => g[i + 2] = f[i + 2]
      BY <2>4, <2>7
    <3> HIDE DEF g
    <3>3. QED
      BY <3>1, <3>2 DEF ScanAt
  <2>9. \A i \in low .. max : g[i] = ScanAt(f, in, max, fin, i)
    BY <2>4, <2>6
  <2>10. g = [i \in low .. max |-> ScanAt(g, in, max, fin, i)]
    BY <2>8, <2>9
  <2>11. Scans(g, in, max, fin, low)
    <3> HIDE DEF g
    <3>1. QED
      BY <2>10 DEF Scans
  <2>12. QED
    BY <2>2, <2>11 DEF low
<1>2. max \in 0 .. max /\ max - max = 0
  OBVIOUS
<1>3. QED
  BY <1>1, <1>2

\* What the function of CrlfScan is from each byte on.
Scanned(from, in, max, fin) == \A i \in 0 .. max : from[i] = ScanAt(from, in, max, fin, i)

LEMMA ScanIs ==
  ASSUME NEW in, NEW max \in Nat, NEW fin \in BOOLEAN, NEW r, r = CrlfScan(in, max, fin)
  PROVE  \E from : r = from[0] /\ Scanned(from, in, max, fin)
<1> DEFINE from == CHOOSE f : Scans(f, in, max, fin, 0)
<1>1. CrlfScan(in, max, fin) = from[0]
  BY DEF CrlfScan, Scans, ScanAt
<1>2. Scans(from, in, max, fin, 0)
  BY ScanExists
<1>3. Scanned(from, in, max, fin)
  BY <1>2 DEF Scans, Scanned
<1> HIDE DEF from
<1>4. QED
  BY <1>1, <1>3

\* What the scan from byte i + 1 on found, when more comes after the input: what
\* it made and what is left mean together what there was, and only a CR at the
\* end is left.
Found(r, in, i, later) ==
  /\ r \in [kind : {"Ok", "SeqError"}, took : i .. Len(in), made : Seq(Nat)]
  /\ Len(r.made) <= r.took - i
  /\ UncrlfMeaning(Skip(in, i) \o later) = r.made \o UncrlfMeaning(Skip(in, r.took) \o later)
  /\ r.kind = "Ok" => r.took = Len(in)
  /\ r.kind = "SeqError" => r.took = Len(in) - 1 /\ Skip(in, r.took) = <<CR>>

LEMMA FoundPut ==
  ASSUME NEW in \in Seq(Nat), NEW later \in Seq(Nat), NEW i \in Nat, NEW j \in Nat,
         i <= j, j <= Len(in), NEW r, Found(r, in, j, later),
         NEW bytes \in Seq(Nat), Len(bytes) <= j - i,
         UncrlfMeaning(Skip(in, i) \o later) = bytes \o UncrlfMeaning(Skip(in, j) \o later)
  PROVE  Found([r EXCEPT !.made = bytes \o r.made], in, i, later)
<1> DEFINE q == [r EXCEPT !.made = bytes \o r.made]
<1>1. /\ r \in [kind : {"Ok", "SeqError"}, took : j .. Len(in), made : Seq(Nat)]
      /\ r.took \in j .. Len(in) /\ r.made \in Seq(Nat) /\ Len(r.made) <= r.took - j
      /\ r.kind = "Ok" => r.took = Len(in)
      /\ r.kind = "SeqError" => r.took = Len(in) - 1 /\ Skip(in, r.took) = <<CR>>
  BY DEF Found
<1>2. bytes \o r.made \in Seq(Nat) /\ Len(bytes \o r.made) = Len(bytes) + Len(r.made)
      /\ Len(bytes) \in Nat /\ Len(r.made) \in Nat /\ Len(in) \in Nat
  BY <1>1, ConcatProperties, LenProperties
<1>3. r.took \in i .. Len(in)
  BY <1>1, <1>2
<1>4. q \in [kind : {"Ok", "SeqError"}, took : i .. Len(in), made : Seq(Nat)]
      /\ q.kind = r.kind /\ q.took = r.took /\ q.made = bytes \o r.made
  BY <1>1, <1>2, <1>3
<1> HIDE DEF q
<1>5. Len(q.made) <= q.took - i
  BY <1>1, <1>2, <1>3, <1>4
<1>6. UncrlfMeaning(Skip(in, i) \o later) = q.made \o UncrlfMeaning(Skip(in, q.took) \o later)
  <2>1. UncrlfMeaning(Skip(in, j) \o later) = r.made \o UncrlfMeaning(Skip(in, r.took) \o later)
    BY DEF Found
  <2>2. UncrlfMeaning(Skip(in, r.took) \o later) \in Seq(Nat)
    <3>1. r.took \in 0 .. Len(in)
      BY <1>1, <1>2
    <3>2. Skip(in, r.took) \o later \in Seq(Nat)
      BY <3>1, SkipIs, ConcatProperties
    <3>3. QED
      BY <3>2, UncrlfFirst
  <2>3. (bytes \o r.made) \o UncrlfMeaning(Skip(in, r.took) \o later)
          = bytes \o (r.made \o UncrlfMeaning(Skip(in, r.took) \o later))
    BY <1>1, <2>2, Joined, Zenon
  <2>4. QED
    BY <1>4, <2>1, <2>3
<1>7. Found(q, in, i, later)
  BY <1>1, <1>4, <1>5, <1>6 DEF Found
<1>8. QED
  BY <1>7 DEF q

\* Nothing was made yet.
LEMMA FoundNothing ==
  ASSUME NEW in \in Seq(Nat), NEW later \in Seq(Nat), NEW i \in 0 .. Len(in),
         NEW kind \in {"Ok", "SeqError"}, kind = "Ok" => i = Len(in),
         kind = "SeqError" => i = Len(in) - 1 /\ Skip(in, i) = <<CR>>
  PROVE  Found([kind |-> kind, took |-> i, made |-> <<>>], in, i, later)
<1> DEFINE r == [kind |-> kind, took |-> i, made |-> <<>>]
<1>1. Skip(in, i) \o later \in Seq(Nat)
  BY SkipIs, ConcatProperties
<1>2. <<>> \o UncrlfMeaning(Skip(in, i) \o later) = UncrlfMeaning(Skip(in, i) \o later)
  BY <1>1, UncrlfFirst, ConcatEmptySeq
<1>3. Len(in) \in Nat /\ i \in i .. Len(in) /\ <<>> \in Seq(Nat) /\ Len(<<>>) = 0 /\ i - i = 0
  BY LenProperties, EmptySeq
<1>4. r \in [kind : {"Ok", "SeqError"}, took : i .. Len(in), made : Seq(Nat)]
      /\ r.kind = kind /\ r.took = i /\ r.made = <<>>
  BY <1>3
<1> HIDE DEF r
<1>5. Len(r.made) <= r.took - i
  BY <1>3, <1>4
<1>6. Found(r, in, i, later)
  BY <1>2, <1>4, <1>5 DEF Found
<1>7. QED
  BY <1>6 DEF r

\* Of what is left from byte i + 1 on, with all that comes, byte j is the first.
Opens(in, later, i, j) ==
  /\ in[j] \in Nat
  /\ Skip(in, j) \o later \in Seq(Nat)
  /\ Skip(in, i) \o later = <<in[j]>> \o (Skip(in, j) \o later)

LEMMA NextByte ==
  ASSUME NEW in \in Seq(Nat), NEW later \in Seq(Nat),
         NEW i \in Nat, NEW j \in Nat, j = i + 1, j <= Len(in)
  PROVE  Opens(in, later, i, j)
<1> DEFINE rest == Skip(in, j)
<1>1. i \in 0 .. Len(in) - 1
  BY LenProperties
<1>2. in[j] \in Nat /\ rest \in Seq(Nat) /\ Skip(in, i) = <<in[j]>> \o rest
  BY <1>1, SkipFirst
<1> HIDE DEF rest
<1>3. <<in[j]>> \in Seq(Nat)
  BY <1>2
<1>4. (<<in[j]>> \o rest) \o later = <<in[j]>> \o (rest \o later)
  BY <1>2, <1>3, Joined, Zenon
<1>5. rest \o later \in Seq(Nat)
  BY <1>2, ConcatProperties
<1>6. QED
  BY <1>2, <1>4, <1>5 DEF rest, Opens

LEMMA FirstOf ==
  ASSUME NEW x \in Nat, NEW t \in Seq(Nat)
  PROVE  <<x>> \o t # <<>> /\ (<<x>> \o t)[1] = x
<1>1. <<x>> \in Seq(Nat) /\ Len(<<x>>) = 1 /\ <<x>>[1] = x /\ Len(t) \in Nat /\ 1 \in 1 .. 1 + Len(t)
  BY LenProperties
<1>2. (<<x>> \o t)[1] = x /\ Len(<<x>> \o t) = 1 + Len(t)
  BY <1>1, ConcatProperties
<1>3. 1 + Len(t) # 0
  BY <1>1
<1>4. QED
  BY <1>2, <1>3, EmptySeq

\* So the scan finds, wherever it starts.
LEMMA ScanFinds ==
  ASSUME NEW in \in Seq(Nat), NEW later \in Seq(Nat), NEW max, max = Len(in), NEW from,
         NEW fin \in BOOLEAN, ~fin, Scanned(from, in, max, fin)
  PROVE  Found(from[0], in, 0, later)
<1> DEFINE bad == {j \in 0 .. max : ~Found(from[max - j], in, max - j, later)}
<1>0. max \in Nat /\ CR \in Nat /\ LF \in Nat /\ CR # LF
  BY LenProperties DEF CR, LF
<1>1. ASSUME bad # {} PROVE FALSE
  <2>1. bad \in SUBSET Nat
    BY <1>0
  <2>2. PICK j \in bad : \A i \in bad : j <= i
    BY <1>1, <2>1, HasLeast
  <2> DEFINE i == max - j
             next == i + 1
             after == i + 2
  <2>3. i \in 0 .. max /\ ~Found(from[i], in, i, later)
    BY <1>0, <2>2
  <2> HIDE DEF bad
  <2>31. j \in 0 .. max
    BY <2>2 DEF bad
  <2>4. ASSUME next <= max PROVE Found(from[next], in, next, later)
    <3>1. j - 1 \in 0 .. max /\ max - (j - 1) = next /\ ~(j <= j - 1)
      BY <1>0, <2>31, <2>4 DEF next
    <3>2. j - 1 \notin bad
      BY <2>2, <3>1
    <3>3. QED
      BY <3>1, <3>2 DEF bad
  <2>5. ASSUME after <= max PROVE Found(from[after], in, after, later)
    <3>1. j - 2 \in 0 .. max /\ max - (j - 2) = after /\ ~(j <= j - 2)
      BY <1>0, <2>31, <2>5 DEF after
    <3>2. j - 2 \notin bad
      BY <2>2, <3>1
    <3>3. QED
      BY <3>1, <3>2 DEF bad
  <2>6. from[i] = ScanAt(from, in, max, fin, i)
    BY <2>3 DEF Scanned
  <2> HIDE DEF i
  <2> DEFINE tail == Skip(in, next) \o later
             tail2 == Skip(in, after) \o later
  <2>7. CASE i = max
    <3>1. from[i] = [kind |-> "Ok", took |-> max, made |-> <<>>]
      BY <2>6, <2>7 DEF ScanAt, next, after
    <3>2. Found([kind |-> "Ok", took |-> i, made |-> <<>>], in, i, later)
      BY <2>3, <2>7, FoundNothing
    <3>3. QED
      BY <2>3, <2>7, <3>1, <3>2
  <2>8. CASE i # max
    <3>1. /\ i \in 0 .. Len(in) - 1 /\ i \in 0 .. Len(in) /\ i \in Nat /\ i <= next
          /\ next \in Nat /\ next = i + 1 /\ next <= max /\ next <= Len(in) /\ next - i = 1
          /\ after \in Nat /\ after = next + 1 /\ i <= after /\ after - i = 2
          /\ next # max => after <= max /\ after <= Len(in)
      BY <1>0, <2>3, <2>8 DEF next, after
    <3> HIDE DEF next, after
    <3>2. /\ in[next] \in Nat /\ tail \in Seq(Nat)
          /\ Skip(in, i) \o later = <<in[next]>> \o tail
      <4>1. Opens(in, later, i, next)
        BY <3>1, NextByte
      <4>2. QED
        BY <4>1 DEF Opens
    <3>3. /\ UncrlfMeaning(tail) \in Seq(Nat)
          /\ UncrlfMeaning(Skip(in, i) \o later)
               = (IF in[next] = CR /\ tail # <<>> /\ tail[1] = LF THEN <<>> ELSE <<in[next]>>)
                 \o UncrlfMeaning(tail)
      BY <3>2, UncrlfFirst
    <3>4. <<>> \o UncrlfMeaning(tail) = UncrlfMeaning(tail)
      BY <3>3, ConcatEmptySeq
    <3>5. ASSUME next # max
          PROVE  /\ in[after] \in Nat /\ tail2 \in Seq(Nat)
                 /\ tail # <<>> /\ tail[1] = in[after]
                 /\ UncrlfMeaning(tail2) \in Seq(Nat)
                 /\ in[after] # CR => UncrlfMeaning(tail) = <<in[after]>> \o UncrlfMeaning(tail2)
      <4>1. in[after] \in Nat /\ tail2 \in Seq(Nat) /\ tail = <<in[after]>> \o tail2
        <5>1. Opens(in, later, next, after)
          BY <3>1, <3>5, NextByte
        <5>2. QED
          BY <5>1 DEF Opens
      <4> HIDE DEF tail, tail2
      <4>2. tail # <<>> /\ tail[1] = in[after]
        BY <4>1, FirstOf
      <4>3. QED
        BY <4>1, <4>2, UncrlfFirst
    <3> HIDE DEF tail, tail2
    <3>6. CASE in[next] # CR
      <4>1. from[i] = [from[next] EXCEPT !.made = <<in[next]>> \o from[next].made]
        BY <2>6, <2>8, <3>6 DEF ScanAt, next, after
      <4>2. UncrlfMeaning(Skip(in, i) \o later) = <<in[next]>> \o UncrlfMeaning(tail)
        BY <3>3, <3>6
      <4>3. <<in[next]>> \in Seq(Nat) /\ Len(<<in[next]>>) <= next - i
        BY <3>1, <3>2
      <4>4. Found(from[next], in, next, later)
        BY <2>4, <3>1
      <4>5. UncrlfMeaning(Skip(in, i) \o later) = <<in[next]>> \o UncrlfMeaning(Skip(in, next) \o later)
        BY <4>2 DEF tail
      <4>6. Found([from[next] EXCEPT !.made = <<in[next]>> \o from[next].made], in, i, later)
        BY <3>1, <4>3, <4>4, <4>5, FoundPut
      <4>7. QED
        BY <2>3, <4>1, <4>6
    <3>7. CASE in[next] = CR /\ next = max
      <4>1. from[i] = [kind |-> "SeqError", took |-> i, made |-> <<>>]
        BY <2>6, <2>8, <3>7 DEF ScanAt, next, after
      <4>2. Skip(in, i) = <<CR>>
        <5>1. Skip(in, i) = <<in[next]>> \o Skip(in, next)
          BY <3>1, SkipFirst
        <5>2. Skip(in, next) = <<>> /\ <<CR>> \in Seq(Nat)
          BY <1>0, <3>1, <3>7, SkipIs
        <5>3. QED
          BY <3>7, <5>1, <5>2, ConcatEmptySeq
      <4>3. i = Len(in) - 1
        BY <3>1, <3>7
      <4>4. Found([kind |-> "SeqError", took |-> i, made |-> <<>>], in, i, later)
        BY <3>1, <4>2, <4>3, FoundNothing
      <4>5. QED
        BY <2>3, <4>1, <4>4
    <3>8. CASE in[next] = CR /\ next # max /\ in[after] = LF
      <4>1. from[i] = [from[after] EXCEPT !.made = <<LF>> \o from[after].made]
        BY <2>6, <2>8, <3>8 DEF ScanAt, next, after
      <4>2. UncrlfMeaning(Skip(in, i) \o later) = <<LF>> \o UncrlfMeaning(tail2)
        BY <1>0, <3>2, <3>3, <3>4, <3>5, <3>8
      <4>3. <<LF>> \in Seq(Nat) /\ Len(<<LF>>) <= after - i
        BY <1>0, <3>1
      <4>4. Found(from[after], in, after, later)
        BY <2>5, <3>1, <3>8
      <4>5. UncrlfMeaning(Skip(in, i) \o later) = <<LF>> \o UncrlfMeaning(Skip(in, after) \o later)
        BY <4>2 DEF tail2
      <4>6. Found([from[after] EXCEPT !.made = <<LF>> \o from[after].made], in, i, later)
        BY <3>1, <3>8, <4>3, <4>4, <4>5, FoundPut
      <4>7. QED
        BY <2>3, <4>1, <4>6
    <3>9. CASE in[next] = CR /\ next # max /\ in[after] = CR
      <4>1. from[i] = [from[next] EXCEPT !.made = <<CR>> \o from[next].made]
        BY <1>0, <2>6, <2>8, <3>9 DEF ScanAt, next, after
      <4>2. UncrlfMeaning(Skip(in, i) \o later) = <<CR>> \o UncrlfMeaning(tail)
        <5>1. tail[1] = CR
          BY <3>5, <3>9
        <5>2. QED
          BY <1>0, <3>3, <3>9, <5>1
      <4>3. <<CR>> \in Seq(Nat) /\ Len(<<CR>>) <= next - i
        BY <1>0, <3>1
      <4>4. Found(from[next], in, next, later)
        BY <2>4, <3>1
      <4>5. UncrlfMeaning(Skip(in, i) \o later) = <<CR>> \o UncrlfMeaning(Skip(in, next) \o later)
        BY <4>2 DEF tail
      <4>6. Found([from[next] EXCEPT !.made = <<CR>> \o from[next].made], in, i, later)
        BY <3>1, <4>3, <4>4, <4>5, FoundPut
      <4>7. QED
        BY <2>3, <4>1, <4>6
    <3>10. CASE in[next] = CR /\ next # max /\ in[after] # LF /\ in[after] # CR
      <4>1. from[i] = [from[after] EXCEPT !.made = <<CR, in[after]>> \o from[after].made]
        BY <2>6, <2>8, <3>10 DEF ScanAt, next, after
      <4>2. UncrlfMeaning(Skip(in, i) \o later) = <<CR>> \o (<<in[after]>> \o UncrlfMeaning(tail2))
        BY <3>2, <3>3, <3>5, <3>10
      <4>3. <<CR>> \o (<<in[after]>> \o UncrlfMeaning(tail2)) = <<CR, in[after]>> \o UncrlfMeaning(tail2)
        <5>1. <<CR>> \in Seq(Nat) /\ <<in[after]>> \in Seq(Nat) /\ UncrlfMeaning(tail2) \in Seq(Nat)
          BY <1>0, <3>5, <3>10
        <5>2. <<CR>> \o <<in[after]>> = <<CR, in[after]>>
          BY <1>0, <3>5, <3>10, <5>1, AppendTwo, AppendIsConcat
        <5>3. (<<CR>> \o <<in[after]>>) \o UncrlfMeaning(tail2)
                = <<CR>> \o (<<in[after]>> \o UncrlfMeaning(tail2))
          BY <5>1, Joined, ZenonT(60)
        <5>4. QED
          BY <5>2, <5>3
      <4>4. <<CR, in[after]>> \in Seq(Nat) /\ Len(<<CR, in[after]>>) <= after - i
        BY <1>0, <3>1, <3>5, <3>10
      <4>5. Found(from[after], in, after, later)
        BY <2>5, <3>1, <3>10
      <4>6. UncrlfMeaning(Skip(in, i) \o later) = <<CR, in[after]>> \o UncrlfMeaning(Skip(in, after) \o later)
        BY <4>2, <4>3 DEF tail2
      <4>7. Found([from[after] EXCEPT !.made = <<CR, in[after]>> \o from[after].made], in, i, later)
        BY <3>1, <3>10, <4>3, <4>4, <4>5, <4>6, FoundPut
      <4>8. QED
        BY <2>3, <4>1, <4>7
    <3>11. QED
      BY <3>6, <3>7, <3>8, <3>9, <3>10
  <2>9. QED
    BY <2>7, <2>8
<1>2. max \in 0 .. max /\ max - max = 0
  BY <1>0
<1>3. QED
  BY <1>1, <1>2

LEMMA AnsIs ==
  ASSUME NEW codec, NEW kind, NEW took, NEW made
  PROVE  LET answer == Ans(codec, kind, took, made)
         IN  answer.codec = codec /\ answer.kind = kind /\ answer.took = took /\ answer.made = made
BY DEF Ans

\* Between two rounds the decoder has nothing left of its input but a CR, so that
\* one at the end of all input comes alone, and the cell it is written to is the
\* first one.
UncrlfCodecs(s) == {At(s, <<>>), At(s, <<CR>>)}

LEMMA UncrlfIs ==
  ASSUME NEW s, NEW st \in UncrlfCodecs(s)
  PROVE  st.codec = s /\ st.win \in Seq(Nat) /\ (st.win = <<>> \/ st.win = <<CR>>)
<1>1. <<CR>> \in Seq(Nat) /\ <<>> \in Seq(Nat)
  BY DEF CR
<1>2. CASE st = At(s, <<>>)
  BY <1>1, <1>2 DEF At
<1>3. CASE st = At(s, <<CR>>)
  BY <1>1, <1>3 DEF At
<1>4. QED
  BY <1>2, <1>3 DEF UncrlfCodecs

\* What it answers before the end: what it takes, and all but a CR is taken, means
\* what it makes of it.
GoesOn(s, in, later, size, room, answer) ==
  /\ answer.codec = s /\ answer.made \in Seq(Nat)
  /\ answer.kind \in {"Ok", "SeqError"} /\ answer.took \in 0 .. Len(in)
  /\ Len(answer.made) \in 0 .. room
  /\ Len(in) >= size => answer.took > 0
  /\ Skip(in, answer.took) \in {<<>>, <<CR>>}
  /\ UncrlfMeaning(in \o later) = answer.made \o UncrlfMeaning(Skip(in, answer.took) \o later)
  /\ UncrlfMeaning(Skip(in, answer.took) \o later) \in Seq(Nat)

LEMMA UncrlfGoesOn ==
  ASSUME OfNewlines, NEW s, s.name = "-crlf",
         NEW size \in Nat, NEW room \in Nat, 2 <= size, size + 2 <= room,
         NEW in \in Seq(Nat), NEW later \in Seq(Nat), Len(in) <= size,
         NEW fresh, fresh # <<>>, NEW answer, answer = Transform(s, in, room, fresh = <<>>)
  PROVE  GoesOn(s, in, later, size, room, answer)
<1> DEFINE fin == fresh = <<>>
           r == CrlfScan(in, Len(in), fin)
<1>0. fin \in BOOLEAN /\ ~fin /\ answer = Transform(s, in, room, fin)
  OBVIOUS
<1> HIDE DEF fin
<1>1. Len(in) \in Nat /\ Smaller(Len(in), room - 2) = Len(in) /\ 0 \in 0 .. Len(in)
  BY LenProperties DEF Smaller
<1>2. Found(r, in, 0, later)
  <2>0. Len(in) \in Nat
    BY <1>1
  <2>1. r = CrlfScan(in, Len(in), fin)
    OBVIOUS
  <2> HIDE DEF r
  <2>2. PICK from : r = from[0] /\ Scanned(from, in, Len(in), fin)
    BY <1>0, <2>0, <2>1, ScanIs
  <2>3. Found(from[0], in, 0, later)
    BY <1>0, <2>2, ScanFinds
  <2>4. QED
    BY <2>2, <2>3
<1>3. answer = CrlfDecode(s, in, room, fin)
  BY <1>0, NewlineAnswers
<1>4. answer = IF r.kind # "StreamEnd" \/ Len(r.made) - 1 = 0 THEN Ans(s, r.kind, r.took, r.made)
               ELSE IF 2 * (Len(r.made) - 1) >= room THEN Ans(s, "Panic", 0, <<>>)
               ELSE Ans(s, r.kind, r.took, [r.made EXCEPT ![Len(r.made) - 1 + 1] = Stale])
  BY <1>1, <1>3 DEF CrlfDecode
<1> HIDE DEF r
<1>5. /\ r.kind \in {"Ok", "SeqError"} /\ r.took \in 0 .. Len(in) /\ r.made \in Seq(Nat)
      /\ Len(r.made) <= r.took - 0
      /\ UncrlfMeaning(Skip(in, 0) \o later) = r.made \o UncrlfMeaning(Skip(in, r.took) \o later)
      /\ r.kind = "Ok" => r.took = Len(in)
      /\ r.kind = "SeqError" => r.took = Len(in) - 1 /\ Skip(in, r.took) = <<CR>>
  BY <1>2 DEF Found
<1>6. /\ answer.codec = s /\ answer.kind = r.kind /\ answer.took = r.took /\ answer.made = r.made
  <2>1. r.kind # "StreamEnd"
    BY <1>5
  <2>2. answer = Ans(s, r.kind, r.took, r.made)
    BY <1>4, <2>1
  <2>3. QED
    BY <2>2 DEF Ans
<1>7. Len(r.made) \in 0 .. room
  <2>1. Len(r.made) \in Nat
    BY <1>5, LenProperties
  <2>2. QED
    BY <1>1, <1>5, <2>1
<1>8. Skip(in, 0) = in /\ (r.took = Len(in) => Skip(in, r.took) = <<>>)
  BY <1>1, <1>5, SkipIs
<1>9. Skip(in, r.took) \in {<<>>, <<CR>>}
  BY <1>5, <1>8
<1>10. UncrlfMeaning(Skip(in, r.took) \o later) \in Seq(Nat)
  <2>1. Skip(in, r.took) \in Seq(Nat)
    BY <1>5, SkipIs
  <2>2. QED
    BY <2>1, ConcatProperties, UncrlfFirst
<1>11. Len(in) >= size => r.took > 0
  BY <1>1, <1>5
<1>12. QED
  BY <1>5, <1>6, <1>7, <1>8, <1>9, <1>10, <1>11 DEF GoesOn

\* What it answers at the end.
GivesAll(s, in, answer) ==
  /\ answer.codec = s /\ answer.made = in /\ answer.took = Len(in)
  /\ answer.kind \in {"Ok", "StreamEnd"}
  /\ UncrlfMeaning(in) = in /\ in \in Seq(Nat) /\ Len(in) \in 0 .. 1

LEMMA UncrlfEnds ==
  ASSUME OfNewlines, NEW s, s.name = "-crlf", NEW room \in Nat, 4 <= room,
         NEW in \in {<<>>, <<CR>>},
         NEW fresh, fresh = <<>>, NEW answer, answer = Transform(s, in, room, fresh = <<>>)
  PROVE  GivesAll(s, in, answer)
<1> DEFINE fin == fresh = <<>>
           r == CrlfScan(in, Len(in), fin)
<1>0. fin \in BOOLEAN /\ fin /\ answer = Transform(s, in, room, fin)
  OBVIOUS
<1> HIDE DEF fin
<1>1. in \in Seq(Nat) /\ Len(in) \in 0 .. 1 /\ (Len(in) = 1 <=> in = <<CR>>) /\ CR \in Nat
      /\ (in = <<>> <=> Len(in) = 0)
  <2>1. <<CR>> \in Seq(Nat) /\ Len(<<CR>>) = 1 /\ <<>> \in Seq(Nat) /\ Len(<<>>) = 0 /\ CR \in Nat
    BY DEF CR
  <2>2. CASE in = <<>>
    BY <2>1, <2>2
  <2>3. CASE in = <<CR>>
    BY <2>1, <2>3
  <2>4. QED
    BY <2>2, <2>3
<1>2. Smaller(Len(in), room - 2) = Len(in)
  <2>1. \A n \in 0 .. 1 : n < room - 2
    OBVIOUS
  <2>2. QED
    BY <1>1, <2>1 DEF Smaller
<1>3. r = [kind |-> IF in = <<>> THEN "Ok" ELSE "StreamEnd", took |-> Len(in), made |-> in]
  <2>0. Len(in) \in Nat
    BY <1>1
  <2>1. r = CrlfScan(in, Len(in), fin)
    OBVIOUS
  <2> HIDE DEF r
  <2>2. PICK from : r = from[0] /\ Scanned(from, in, Len(in), fin)
    BY <1>0, <2>0, <2>1, ScanIs
  <2>3. r = ScanAt(from, in, Len(in), fin, 0)
    <3>1. 0 \in 0 .. Len(in)
      BY <2>0
    <3>2. QED
      BY <2>2, <3>1 DEF Scanned
  <2>4. CASE in = <<>>
    BY <1>0, <1>1, <2>3, <2>4 DEF ScanAt
  <2>5. CASE in = <<CR>>
    <3>1. in[0 + 1] = CR /\ Len(in) = 1 /\ in # <<>> /\ 0 + 1 = 1
      BY <1>1, <2>5
    <3>2. QED
      BY <1>0, <2>3, <2>5, <3>1 DEF ScanAt
  <2>6. QED
    BY <2>4, <2>5
<1>4. answer = CrlfDecode(s, in, room, fin)
  <2>1. Transform(s, in, room, fin) = CrlfDecode(s, in, room, fin)
    BY NewlineAnswers
  <2>2. QED
    BY <1>0, <2>1
<1>5. answer = IF r.kind # "StreamEnd" \/ Len(r.made) - 1 = 0 THEN Ans(s, r.kind, r.took, r.made)
               ELSE IF 2 * (Len(r.made) - 1) >= room THEN Ans(s, "Panic", 0, <<>>)
               ELSE Ans(s, r.kind, r.took, [r.made EXCEPT ![Len(r.made) - 1 + 1] = Stale])
  BY <1>2, <1>4 DEF CrlfDecode
<1> HIDE DEF r
<1>6. r.kind = (IF in = <<>> THEN "Ok" ELSE "StreamEnd") /\ r.took = Len(in) /\ r.made = in
  BY <1>3
<1>7. r.kind # "StreamEnd" \/ Len(r.made) - 1 = 0
  BY <1>1, <1>6
<1>8. UncrlfMeaning(in) = in
  <2>1. UncrlfMeaning(<<>>) = <<>> /\ UncrlfMeaning(<<CR>> \o <<>>) = <<CR>> \o <<>>
    BY <1>1, EmptySeq, UncrlfFirst
  <2>2. <<CR>> \o <<>> = <<CR>>
    BY <1>1
  <2>3. QED
    BY <2>1, <2>2
<1>9. answer = Ans(s, r.kind, Len(in), in)
  BY <1>5, <1>6, <1>7
<1>10. /\ answer.codec = s /\ answer.made = in /\ answer.took = Len(in)
       /\ answer.kind \in {"Ok", "StreamEnd"}
  <2>1. /\ answer.codec = s /\ answer.made = in /\ answer.took = Len(in)
        /\ answer.kind = r.kind
    BY <1>9, AnsIs
  <2>2. r.kind \in {"Ok", "StreamEnd"}
    BY <1>6
  <2>3. QED
    BY <2>1, <2>2
<1>11. QED
  BY <1>1, <1>8, <1>10 DEF GivesAll

LEMMA UncrlfTruthful ==
  ASSUME OfNewlines, NEW s, s.name = "-crlf",
         NEW size \in Nat, NEW room \in Nat, 2 <= size, size + 2 <= room,
         NEW st \in UncrlfCodecs(s), NEW fresh \in Seq(Nat), NEW later \in Seq(Nat)
  PROVE  Tells(UncrlfCodecs(s), size, room, st, fresh, later)
<1> DEFINE in == st.win \o fresh
           answer == Answer(st, fresh, room)
           rest == Meaning(answer.codec, Skip(in, answer.took) \o later)
           due == Meaning(s, in \o later)
<1>1. st.codec = s /\ st.win \in Seq(Nat) /\ (st.win = <<>> \/ st.win = <<CR>>)
  BY UncrlfIs
<1>2. in \in Seq(Nat) /\ Len(in) \in Nat
  BY <1>1, ConcatProperties, LenProperties
<1>3. SUFFICES ASSUME Len(in) <= size, fresh = <<>> => later = <<>>
      PROVE  /\ answer.made \in Seq(Nat)
             /\ Contract(answer.kind, answer.took, Len(answer.made), Len(in), room, size, {},
                         fresh = <<>>)
             /\ ~(answer.kind = "SeqError" /\ answer.took = 0 /\ fresh = <<>>)
             /\ due = answer.made \o rest
             /\ rest \in Seq(Nat)
             /\ answer.made = <<>> /\ (fresh = <<>> \/ answer.kind = "StreamEnd") => rest = <<>>
             /\ Stays(UncrlfCodecs(s), answer, in)
  BY <1>1 DEF Tells
<1>4. answer = Transform(s, in, room, fresh = <<>>)
  BY <1>1 DEF Answer
<1>5. \A i : Meaning(s, i) = UncrlfMeaning(i)
  BY NewlineMeans
<1> HIDE DEF answer
<1>6. CASE fresh # <<>>
  <2>1. in \in Seq(Nat) /\ Len(in) <= size
    BY <1>2, <1>3
  <2> HIDE DEF in
  <2>2. /\ answer.codec = s /\ answer.made \in Seq(Nat)
        /\ answer.kind \in {"Ok", "SeqError"} /\ answer.took \in 0 .. Len(in)
        /\ Len(answer.made) \in 0 .. room
        /\ Len(in) >= size => answer.took > 0
        /\ Skip(in, answer.took) \in {<<>>, <<CR>>}
        /\ UncrlfMeaning(in \o later) = answer.made \o UncrlfMeaning(Skip(in, answer.took) \o later)
        /\ UncrlfMeaning(Skip(in, answer.took) \o later) \in Seq(Nat)
    <3>1. GoesOn(s, in, later, size, room, answer)
      BY <1>4, <1>6, <2>1, UncrlfGoesOn
    <3>2. QED
      BY <3>1 DEF GoesOn
  <2>3. rest = UncrlfMeaning(Skip(in, answer.took) \o later) /\ due = UncrlfMeaning(in \o later)
    BY <1>5, <2>2
  <2>4. Stays(UncrlfCodecs(s), answer, in)
    BY <2>2 DEF Stays, UncrlfCodecs
  <2>5. Contract(answer.kind, answer.took, Len(answer.made), Len(in), room, size, {}, fresh = <<>>)
    BY <1>6, <2>2 DEF Contract, Kinds
  <2> HIDE DEF rest, due
  <2>6. QED
    BY <1>6, <2>2, <2>3, <2>4, <2>5
<1>7. CASE fresh = <<>>
  <2>1. later = <<>> /\ 4 <= room
    BY <1>3, <1>7
  <2>2. in = st.win
    BY <1>1, <1>7, ConcatEmptySeq
  <2> HIDE DEF in
  <2>3. /\ answer.codec = s /\ answer.made = in /\ answer.took = Len(in)
        /\ answer.kind \in {"Ok", "StreamEnd"}
        /\ UncrlfMeaning(in) = in /\ in \in Seq(Nat) /\ Len(in) \in 0 .. 1
    <3>1. in \in {<<>>, <<CR>>}
      BY <1>1, <2>2
    <3>2. GivesAll(s, in, answer)
      BY <1>4, <1>7, <2>1, <3>1, UncrlfEnds
    <3>3. QED
      BY <3>2 DEF GivesAll
  <2>4. Skip(in, answer.took) = <<>> /\ in \o later = in /\ <<>> \o later = <<>> /\ in \o <<>> = in
    <3>1. Len(in) \in 0 .. Len(in)
      BY <1>2
    <3>2. Skip(in, Len(in)) = <<>>
      BY <2>3, <3>1, SkipIs
    <3>3. in \o <<>> = in /\ <<>> \o <<>> = <<>>
      BY <2>3, ConcatEmptySeq, EmptySeq
    <3>4. QED
      BY <2>1, <2>3, <3>2, <3>3
  <2>5. rest = <<>> /\ due = in
    <3>1. rest = UncrlfMeaning(<<>>) /\ due = UncrlfMeaning(in)
      BY <1>5, <2>3, <2>4
    <3>2. UncrlfMeaning(<<>>) = <<>>
      BY UncrlfFirst
    <3>3. QED
      BY <2>3, <3>1, <3>2
  <2>6. Stays(UncrlfCodecs(s), answer, in)
    BY <2>3, <2>4 DEF Stays, UncrlfCodecs
  <2>7. Contract(answer.kind, answer.took, Len(answer.made), Len(in), room, size, {}, fresh = <<>>)
    <3>1. Len(answer.made) \in 0 .. room /\ answer.took \in 0 .. Len(in) /\ answer.took = Len(in)
      <4>1. \A n \in 0 .. 1 : n \in 0 .. room /\ n \in 0 .. n
        BY <2>1
      <4>2. QED
        BY <2>3, <4>1
    <3>2. QED
      BY <1>7, <2>3, <3>1 DEF Contract, Kinds
  <2> HIDE DEF rest, due
  <2>8. QED
    BY <2>3, <2>4, <2>5, <2>6, <2>7, EmptySeq
<1>8. QED
  BY <1>6, <1>7

LEMMA UncrlfStreams ==
  ASSUME OfNewlines, NEW s, s.name = "-crlf",
         NEW size \in Nat, NEW room \in Nat, 2 <= size, size + 2 <= room
  PROVE  StreamsAlone(At(s, <<>>), size, room)
<1>1. At(s, <<>>) \in UncrlfCodecs(s)
  BY DEF UncrlfCodecs
<1>2. Ranged(UncrlfCodecs(s), room)
  <2>1. SUFFICES ASSUME NEW st \in UncrlfCodecs(s)
        PROVE  /\ st = At(st.codec, st.win)
               /\ BufferSize(st.codec) \in 0 .. room
               /\ \A in \in Seq(Nat) : Meaning(st.codec, in) \in Seq(Nat) \cup {Malformed}
    BY DEF Ranged
  <2>2. st.codec = s
    BY UncrlfIs
  <2>3. st = At(st.codec, st.win)
    BY DEF UncrlfCodecs, At
  <2>4. BufferSize(s) \in 0 .. room
    BY DEF OfNewlines, NewlineNames, NewlineBufferSize
  <2>5. \A in \in Seq(Nat) : Meaning(s, in) \in Seq(Nat)
    <3>1. \A in : Meaning(s, in) = UncrlfMeaning(in)
      BY NewlineMeans
    <3>2. QED
      BY <3>1, UncrlfFirst
  <2>6. QED
    BY <2>2, <2>3, <2>4, <2>5
<1>3. Truthful(UncrlfCodecs(s), size, room)
  BY UncrlfTruthful DEF Truthful
<1>4. QED
  BY <1>1, <1>2, <1>3 DEF StreamsAlone

-----------------------------------------------------------------------------
(***************************************************************************)
(* wrap.                                                                   *)
(***************************************************************************)
\* Numbers modulo the length of a line: how to go on by one.
LEMMA ModIs ==
  ASSUME NEW L \in Nat \ {0}, NEW n \in Nat
  PROVE  n = (L * (n \div L)) + (n % L) /\ (n % L) \in 0 .. L - 1 /\ (n \div L) \in Nat
OBVIOUS

LEMMA OneMore ==
  ASSUME NEW L \in Nat \ {0}, NEW a \in Int, NEW b \in Int, a < b
  PROVE  L * a + L <= L * b
<1>1. L * (b - a - 1) >= 0
  OBVIOUS
<1>2. QED
  BY <1>1

LEMMA ModUnique ==
  ASSUME NEW L \in Nat \ {0}, NEW a \in Int, NEW b \in Int,
         NEW r \in 0 .. L - 1, NEW s \in 0 .. L - 1, L * a + r = L * b + s
  PROVE  r = s
<1>1. ~(a < b) /\ ~(b < a)
  BY OneMore
<1>2. QED
  BY <1>1

LEMMA ModNext ==
  ASSUME NEW L \in Nat \ {0}, NEW n \in Nat
  PROVE  /\ (n % L) + 1 = L => ((n + 1) % L) = 0
         /\ (n % L) + 1 # L => ((n + 1) % L) = (n % L) + 1
<1> DEFINE q == n \div L
           r == n % L
           p == (n + 1) \div L
           s == (n + 1) % L
<1>1. n = L * q + r /\ r \in 0 .. L - 1 /\ q \in Nat
  BY ModIs
<1>2. n + 1 = L * p + s /\ s \in 0 .. L - 1 /\ p \in Nat
  <2>1. n + 1 \in Nat
    OBVIOUS
  <2>2. QED
    BY <2>1, ModIs
<1> HIDE DEF q, r, p, s
<1>3. CASE r + 1 = L
  <2>1. L * (q + 1) + 0 = L * p + s
    BY <1>1, <1>2, <1>3
  <2>2. s = 0
    BY <1>1, <1>2, <2>1, ModUnique
  <2>3. QED
    BY <1>3, <2>2 DEF r, s
<1>4. CASE r + 1 # L
  <2>1. L * q + (r + 1) = L * p + s /\ r + 1 \in 0 .. L - 1
    BY <1>1, <1>2, <1>4
  <2>2. s = r + 1
    BY <1>1, <1>2, <2>1, ModUnique
  <2>3. QED
    BY <1>4, <2>2 DEF r, s
<1>5. QED
  BY <1>3, <1>4

\* A set of numbers with a bound has a greatest one.
LEMMA MaxIs ==
  ASSUME NEW top \in Int, NEW S \in SUBSET Int, S # {}, \A x \in S : x <= top
  PROVE  Max(S) \in S /\ \A x \in S : x <= Max(S)
<1> DEFINE away == {top - x : x \in S}
<1>1. away \in SUBSET Nat /\ away # {}
  <2>1. \A x \in S : top - x \in Nat /\ top - x \in away
    OBVIOUS
  <2>2. QED
    BY <2>1
<1>2. PICK least \in away : \A n \in away : least <= n
  BY <1>1, HasLeast
<1>3. PICK m \in S : least = top - m
  BY <1>2
<1>4. ASSUME NEW x \in S PROVE m >= x
  <2>1. top - x \in away
    OBVIOUS
  <2>2. least <= top - x
    BY <1>2, <2>1
  <2>3. QED
    BY <1>3, <2>2
<1>5. QED
  BY <1>4 DEF Max

\* What it puts for a byte at a column, and where it goes on.
Put(L, c, x) ==
  IF x = LF THEN IF c = 0 THEN <<>> ELSE <<LF>> ELSE IF c + 1 = L THEN <<x, LF>> ELSE <<x>>
NextColumn(L, c, x) == IF x = LF \/ c + 1 = L THEN 0 ELSE c + 1

LEMMA PutIs ==
  ASSUME NEW L \in Nat \ {0}, NEW c \in 0 .. L - 1, NEW x \in Nat
  PROVE  Put(L, c, x) \in Seq(Nat) /\ NextColumn(L, c, x) \in 0 .. L - 1
<1>1. <<>> \in Seq(Nat) /\ <<LF>> \in Seq(Nat) /\ <<x>> \in Seq(Nat) /\ <<x, LF>> \in Seq(Nat)
  BY DEF LF
<1>2. Put(L, c, x) \in Seq(Nat)
  BY <1>1 DEF Put
<1>3. NextColumn(L, c, x) \in 0 .. L - 1
  BY DEF NextColumn
<1>4. QED
  BY <1>2, <1>3

LEMMA WrapByteIs ==
  ASSUME NEW L \in Nat \ {0}, NEW made \in Seq(Nat), NEW c \in 0 .. L - 1, NEW x \in Nat
  PROVE  WrapByte(L, [made |-> made, col |-> c], x)
           = [made |-> made \o Put(L, c, x), col |-> NextColumn(L, c, x)]
<1> DEFINE acc == [made |-> made, col |-> c]
           r == WrapByte(L, acc, x)
<1>1. acc.made = made /\ acc.col = c
  OBVIOUS
<1>2. \A y \in Nat : Append(made, y) = made \o <<y>>
  BY AppendIsConcat
<1>3. made \o <<>> = made /\ LF \in Nat
  BY ConcatEmptySeq DEF LF
<1> HIDE DEF acc
<1>4. CASE x = LF /\ c # 0
  <2>1. r = [made |-> Append(made, LF), col |-> 0]
    BY <1>1, <1>4 DEF WrapByte
  <2>2. Put(L, c, x) = <<LF>> /\ NextColumn(L, c, x) = 0
    BY <1>4 DEF Put, NextColumn
  <2>3. QED
    BY <1>2, <1>3, <2>1, <2>2 DEF acc
<1>5. CASE x = LF /\ c = 0
  <2>1. r = acc
    BY <1>1, <1>5 DEF WrapByte
  <2>2. Put(L, c, x) = <<>> /\ NextColumn(L, c, x) = 0
    BY <1>5 DEF Put, NextColumn
  <2>3. QED
    BY <1>3, <1>5, <2>1, <2>2 DEF acc
<1>6. CASE x # LF /\ c + 1 = L
  <2>1. r = [made |-> made \o <<x, LF>>, col |-> 0]
    BY <1>1, <1>6 DEF WrapByte
  <2>2. Put(L, c, x) = <<x, LF>> /\ NextColumn(L, c, x) = 0
    BY <1>6 DEF Put, NextColumn
  <2>3. QED
    BY <2>1, <2>2 DEF acc
<1>7. CASE x # LF /\ c + 1 < L
  <2>1. r = [made |-> Append(made, x), col |-> c + 1]
    BY <1>1, <1>7 DEF WrapByte
  <2>2. Put(L, c, x) = <<x>> /\ NextColumn(L, c, x) = c + 1
    BY <1>7 DEF Put, NextColumn
  <2>3. QED
    BY <1>2, <2>1, <2>2 DEF acc
<1>8. QED
  BY <1>4, <1>5, <1>6, <1>7

\* A function that satisfies the recursion of WrapLines.
Lines(f, L, col, in, n) ==
  f = [i \in 0 .. n |-> IF i = 0 THEN [made |-> <<>>, col |-> col]
                        ELSE WrapByte(L, f[i - 1], in[i])]

LEMMA LinesExist ==
  ASSUME NEW L, NEW col, NEW in, NEW n \in Nat
  PROVE  \E f : Lines(f, L, col, in, n)
<1> DEFINE start == [made |-> <<>>, col |-> col]
           bad == {m \in Nat : ~ \E f : Lines(f, L, col, in, m)}
<1>1. SUFFICES ASSUME bad # {} PROVE FALSE
  OBVIOUS
<1>2. PICK m \in bad : \A i \in bad : m <= i
  BY <1>1, HasLeast
<1>3. m # 0
  <2>1. Lines([i \in 0 .. 0 |-> start], L, col, in, 0)
    BY DEF Lines
  <2>2. QED
    BY <1>2, <2>1
<1>4. m \in Nat /\ m - 1 \in Nat /\ m - 1 \notin bad
  BY <1>2, <1>3
<1>5. PICK g : Lines(g, L, col, in, m - 1)
  BY <1>4
<1> DEFINE f == [i \in 0 .. m |-> IF i < m THEN g[i] ELSE WrapByte(L, g[m - 1], in[m])]
<1> HIDE DEF start
<1>6. ASSUME NEW i \in 0 .. m
      PROVE  f[i] = IF i = 0 THEN start ELSE WrapByte(L, f[i - 1], in[i])
  <2>1. CASE i < m
    <3>1. i \in 0 .. m - 1 /\ (i # 0 => i - 1 \in 0 .. m /\ i - 1 < m)
      BY <1>4, <2>1
    <3>2. g[i] = IF i = 0 THEN start ELSE WrapByte(L, g[i - 1], in[i])
      BY <1>5, <3>1 DEF Lines, start
    <3>3. f[i] = g[i] /\ (i # 0 => f[i - 1] = g[i - 1])
      BY <2>1, <3>1
    <3>4. QED
      BY <3>2, <3>3
  <2>2. CASE i = m
    <3>1. m - 1 \in 0 .. m /\ m - 1 < m /\ m \in 0 .. m /\ ~(m < m)
      BY <1>4
    <3>2. f[m - 1] = g[m - 1] /\ f[m] = WrapByte(L, g[m - 1], in[m])
      BY <3>1
    <3>3. QED
      BY <1>3, <2>2, <3>2
  <2>3. QED
    BY <1>4, <2>1, <2>2
<1>7. f = [i \in 0 .. m |-> f[i]]
  OBVIOUS
<1> HIDE DEF f
<1>8. Lines(f, L, col, in, m)
  BY <1>6, <1>7 DEF Lines, start
<1>9. QED
  BY <1>2, <1>8

LEMMA LinesIs ==
  ASSUME NEW L, NEW col, NEW in, Len(in) \in Nat
  PROVE  \E f : Lines(f, L, col, in, Len(in)) /\ WrapLines(L, col, in) = f[Len(in)]
<1> DEFINE f == CHOOSE f : Lines(f, L, col, in, Len(in))
<1>1. WrapLines(L, col, in) = f[Len(in)]
  BY DEF WrapLines, Lines
<1>2. Lines(f, L, col, in, Len(in))
  BY LinesExist
<1>3. QED
  BY <1>1, <1>2

\* What it is up to some place depends on nothing behind it.
LEMMA LinesAgree ==
  ASSUME NEW L, NEW col, NEW s, NEW t, NEW n \in Nat, AgreeTo(s, t, n),
         NEW f, Lines(f, L, col, s, n), NEW g, Lines(g, L, col, t, n + 1)
  PROVE  f[n] = g[n]
<1> DEFINE start == [made |-> <<>>, col |-> col]
           bad == {i \in 0 .. n : f[i] # g[i]}
<1> HIDE DEF start
<1>1. SUFFICES ASSUME bad # {} PROVE FALSE
  OBVIOUS
<1>2. bad \in SUBSET Nat
  OBVIOUS
<1>3. PICK k \in bad : \A i \in bad : k <= i
  BY <1>1, <1>2, HasLeast
<1>4. k \in 0 .. n /\ k \in 0 .. n + 1 /\ (k # 0 => k - 1 \in 0 .. n /\ k - 1 \notin bad /\ k \in 1 .. n)
  BY <1>3
<1>5. /\ f[k] = IF k = 0 THEN start ELSE WrapByte(L, f[k - 1], s[k])
      /\ g[k] = IF k = 0 THEN start ELSE WrapByte(L, g[k - 1], t[k])
  BY <1>4 DEF Lines, start
<1>6. k # 0 => f[k - 1] = g[k - 1] /\ s[k] = t[k]
  BY <1>4 DEF AgreeTo
<1>7. QED
  BY <1>3, <1>5, <1>6

\* Nothing is made of nothing.
LEMMA LinesEmpty ==
  ASSUME NEW L, NEW col
  PROVE  WrapLines(L, col, <<>>) = [made |-> <<>>, col |-> col]
<1>1. Len(<<>>) = 0 /\ 0 \in 0 .. 0 /\ 0 \in Nat
  BY EmptySeq
<1>2. PICK f : Lines(f, L, col, <<>>, 0) /\ WrapLines(L, col, <<>>) = f[0]
  BY <1>1, LinesIs
<1>3. f[0] = [made |-> <<>>, col |-> col]
  BY <1>1, <1>2 DEF Lines
<1>4. QED
  BY <1>2, <1>3

\* One byte more.
LEMMA LinesAppend ==
  ASSUME NEW L, NEW col, NEW s \in Seq(Nat), NEW x \in Nat
  PROVE  WrapLines(L, col, Append(s, x)) = WrapByte(L, WrapLines(L, col, s), x)
<1> DEFINE n == Len(s)
           t == Append(s, x)
<1>1. n \in Nat /\ Len(t) = n + 1 /\ Len(t) \in Nat /\ t[n + 1] = x /\ \A i \in 1 .. n : t[i] = s[i]
  BY AppendProperties, LenProperties
<1>2. PICK f : Lines(f, L, col, s, n) /\ WrapLines(L, col, s) = f[n]
  BY <1>1, LinesIs
<1> HIDE DEF t
<1>3. PICK g : Lines(g, L, col, t, n + 1) /\ WrapLines(L, col, t) = g[n + 1]
  BY <1>1, LinesIs
<1> HIDE DEF n
<1>4. AgreeTo(s, t, n)
  BY <1>1 DEF AgreeTo
<1>5. f[n] = g[n]
  BY <1>1, <1>2, <1>3, <1>4, LinesAgree
<1>6. g[n + 1] = WrapByte(L, g[n], t[n + 1])
  <2>1. n + 1 \in 0 .. n + 1 /\ n + 1 # 0 /\ (n + 1) - 1 = n
    BY <1>1
  <2>2. QED
    BY <1>3, <2>1 DEF Lines
<1>7. QED
  BY <1>1, <1>2, <1>3, <1>5, <1>6 DEF t

\* The lines it makes of bytes from a column on, and the column where it stops.  A
\* newline that it adds stands behind as many bytes as a line has.
Made(L, c, s) == WrapLines(L, c, s).made
Goes(L, c, s) == WrapLines(L, c, s).col

Adds(L, from, taken, made, to) == L * (made - taken) <= taken + from - to

AreLines(L, c, s) ==
  /\ WrapLines(L, c, s) = [made |-> Made(L, c, s), col |-> Goes(L, c, s)]
  /\ Made(L, c, s) \in Seq(Nat)
  /\ Goes(L, c, s) \in 0 .. L - 1
  /\ Adds(L, c, Len(s), Len(Made(L, c, s)), Goes(L, c, s))

\* One byte more.
LEMMA LinesStep ==
  ASSUME NEW L \in Nat \ {0}, NEW c \in 0 .. L - 1, NEW s \in Seq(Nat), NEW x \in Nat,
         AreLines(L, c, s)
  PROVE  /\ Made(L, c, Append(s, x)) = Made(L, c, s) \o Put(L, Goes(L, c, s), x)
         /\ Goes(L, c, Append(s, x)) = NextColumn(L, Goes(L, c, s), x)
         /\ AreLines(L, c, Append(s, x))
<1> DEFINE made == Made(L, c, s)
           col == Goes(L, c, s)
           t == Append(s, x)
<1>1. made \in Seq(Nat) /\ col \in 0 .. L - 1 /\ WrapLines(L, c, s) = [made |-> made, col |-> col]
      /\ L * (Len(made) - Len(s)) <= Len(s) + c - col
  BY DEF AreLines, Adds
<1>2. WrapLines(L, c, t) = WrapByte(L, WrapLines(L, c, s), x)
  BY LinesAppend, Zenon
<1> HIDE DEF made, col, t
<1>3. WrapLines(L, c, t) = [made |-> made \o Put(L, col, x), col |-> NextColumn(L, col, x)]
  <2>1. WrapByte(L, [made |-> made, col |-> col], x)
          = [made |-> made \o Put(L, col, x), col |-> NextColumn(L, col, x)]
    BY <1>1, WrapByteIs
  <2>2. QED
    BY <1>1, <1>2, <2>1, Zenon
<1>4. Made(L, c, t) = made \o Put(L, col, x) /\ Goes(L, c, t) = NextColumn(L, col, x)
  BY <1>3 DEF Made, Goes
<1>5. Put(L, col, x) \in Seq(Nat) /\ NextColumn(L, col, x) \in 0 .. L - 1
  BY <1>1, PutIs
<1>6. /\ made \o Put(L, col, x) \in Seq(Nat)
      /\ Len(made \o Put(L, col, x)) = Len(made) + Len(Put(L, col, x))
      /\ Len(t) = Len(s) + 1 /\ Len(s) \in Nat /\ Len(made) \in Nat
  BY <1>1, <1>5, ConcatProperties, AppendProperties, LenProperties DEF t
<1>7. L * ((Len(made) + Len(Put(L, col, x))) - (Len(s) + 1)) <= (Len(s) + 1) + c - NextColumn(L, col, x)
  <2> DEFINE d == Len(made) - Len(s)
             n == Len(s)
  <2>1. d \in Int /\ L * d <= n + c - col /\ n \in Nat
    BY <1>1, <1>6
  <2>2. Len(<<>>) = 0 /\ Len(<<LF>>) = 1 /\ Len(<<x>>) = 1 /\ Len(<<x, LF>>) = 2
    OBVIOUS
  <2>3. CASE x = LF /\ col = 0
    <3>1. Len(Put(L, col, x)) = 0 /\ NextColumn(L, col, x) = 0
      BY <2>2, <2>3 DEF Put, NextColumn
    <3>2. (Len(made) + 0) - (n + 1) = d - 1
      BY <1>6
    <3> HIDE DEF d, n
    <3>3. L * (d - 1) = L * d - L
      BY <2>1
    <3>4. L * (d - 1) <= (n + 1) + c - 0
      BY <1>1, <2>1, <2>3, <3>3
    <3>5. QED
      BY <3>1, <3>2, <3>4 DEF n
  <2>4. CASE x = LF /\ col # 0
    <3>1. Len(Put(L, col, x)) = 1 /\ NextColumn(L, col, x) = 0
      BY <2>2, <2>4 DEF Put, NextColumn
    <3>2. (Len(made) + 1) - (n + 1) = d
      BY <1>6
    <3> HIDE DEF d, n
    <3>3. L * d <= (n + 1) + c - 0
      BY <1>1, <2>1
    <3>4. QED
      BY <3>1, <3>2, <3>3 DEF n
  <2>5. CASE x # LF /\ col + 1 = L
    <3>1. Len(Put(L, col, x)) = 2 /\ NextColumn(L, col, x) = 0
      BY <2>2, <2>5 DEF Put, NextColumn
    <3>2. (Len(made) + 2) - (n + 1) = d + 1
      BY <1>6
    <3> HIDE DEF d, n
    <3>3. L * (d + 1) = L * d + L
      BY <2>1
    <3>4. L * (d + 1) <= (n + 1) + c - 0
      BY <1>1, <2>1, <2>5, <3>3
    <3>5. QED
      BY <3>1, <3>2, <3>4 DEF n
  <2>6. CASE x # LF /\ col + 1 # L
    <3>1. Len(Put(L, col, x)) = 1 /\ NextColumn(L, col, x) = col + 1
      BY <2>2, <2>6 DEF Put, NextColumn
    <3>2. (Len(made) + 1) - (n + 1) = d
      BY <1>6
    <3> HIDE DEF d, n
    <3>3. L * d <= (n + 1) + c - (col + 1)
      BY <1>1, <2>1
    <3>4. QED
      BY <3>1, <3>2, <3>3 DEF n
  <2>7. QED
    BY <2>3, <2>4, <2>5, <2>6
<1>8. AreLines(L, c, t)
  <2>1. WrapLines(L, c, t) = [made |-> Made(L, c, t), col |-> Goes(L, c, t)]
    BY <1>3, <1>4
  <2>2. Made(L, c, t) \in Seq(Nat) /\ Goes(L, c, t) \in 0 .. L - 1
    BY <1>4, <1>5, <1>6
  <2>3. Adds(L, c, Len(t), Len(Made(L, c, t)), Goes(L, c, t))
    BY <1>4, <1>6, <1>7 DEF Adds
  <2>4. QED
    BY <2>1, <2>2, <2>3 DEF AreLines
<1>9. QED
  BY <1>4, <1>8 DEF made, col, t

LEMMA LinesAre ==
  ASSUME NEW L \in Nat \ {0}, NEW c \in 0 .. L - 1
  PROVE  /\ Made(L, c, <<>>) = <<>> /\ Goes(L, c, <<>>) = c
         /\ \A s \in Seq(Nat) : AreLines(L, c, s)
<1> DEFINE P == {s \in Seq(Nat) : AreLines(L, c, s)}
<1>1. WrapLines(L, c, <<>>) = [made |-> <<>>, col |-> c]
  BY LinesEmpty
<1>2. Made(L, c, <<>>) = <<>> /\ Goes(L, c, <<>>) = c
  BY <1>1 DEF Made, Goes
<1>3. <<>> \in P
  <2>1. Len(<<>>) = 0 /\ <<>> \in Seq(Nat)
    BY EmptySeq
  <2>2. L * (0 - 0) <= 0 + c - c
    OBVIOUS
  <2>3. QED
    BY <1>1, <1>2, <2>1, <2>2 DEF AreLines, Adds
<1>4. ASSUME NEW s \in P, NEW x \in Nat PROVE Append(s, x) \in P
  BY LinesStep, AppendProperties
<1>5. Grows(Nat, P)
  BY <1>3, <1>4 DEF Grows
<1> HIDE DEF P
<1>6. P = Seq(Nat)
  <2>1. P \in SUBSET Seq(Nat)
    BY DEF P
  <2>2. QED
    BY <1>5, <2>1, AllGrow
<1>7. QED
  BY <1>2, <1>6 DEF P

\* It goes on where it stopped.
LEMMA LinesJoin ==
  ASSUME NEW L \in Nat \ {0}, NEW c \in 0 .. L - 1, NEW s \in Seq(Nat), NEW t \in Seq(Nat)
  PROVE  Made(L, c, s \o t) = Made(L, c, s) \o Made(L, Goes(L, c, s), t)
<1> DEFINE d == Goes(L, c, s)
           P == {u \in Seq(Nat) : /\ Made(L, c, s \o u) = Made(L, c, s) \o Made(L, d, u)
                                  /\ Goes(L, c, s \o u) = Goes(L, d, u)}
<1>1. AreLines(L, c, s) /\ d \in 0 .. L - 1 /\ Made(L, c, s) \in Seq(Nat)
  BY LinesAre DEF AreLines
<1> HIDE DEF d
<1>2. <<>> \in P
  <2>1. Made(L, d, <<>>) = <<>> /\ Goes(L, d, <<>>) = d
    BY <1>1, LinesAre
  <2>2. s \o <<>> = s /\ Made(L, c, s) \o <<>> = Made(L, c, s) /\ <<>> \in Seq(Nat)
    BY <1>1, ConcatEmptySeq, EmptySeq
  <2>3. QED
    BY <2>1, <2>2 DEF d
<1>3. ASSUME NEW u \in P, NEW x \in Nat PROVE Append(u, x) \in P
  <2>1. /\ u \in Seq(Nat) /\ Append(u, x) \in Seq(Nat) /\ s \o u \in Seq(Nat)
        /\ Made(L, c, s \o u) = Made(L, c, s) \o Made(L, d, u)
        /\ Goes(L, c, s \o u) = Goes(L, d, u)
    BY AppendProperties, ConcatProperties
  <2>2. s \o Append(u, x) = Append(s \o u, x)
    <3>1. <<x>> \in Seq(Nat)
      OBVIOUS
    <3>2. Append(u, x) = u \o <<x>> /\ Append(s \o u, x) = (s \o u) \o <<x>>
      BY <2>1, AppendIsConcat
    <3>3. QED
      BY <2>1, <3>1, <3>2, Joined
  <2>3. AreLines(L, c, s \o u) /\ AreLines(L, d, u)
    BY <1>1, <2>1, LinesAre
  <2>4. /\ Made(L, c, Append(s \o u, x)) = Made(L, c, s \o u) \o Put(L, Goes(L, c, s \o u), x)
        /\ Goes(L, c, Append(s \o u, x)) = NextColumn(L, Goes(L, c, s \o u), x)
    BY <2>1, <2>3, LinesStep
  <2>5. /\ Made(L, d, Append(u, x)) = Made(L, d, u) \o Put(L, Goes(L, d, u), x)
        /\ Goes(L, d, Append(u, x)) = NextColumn(L, Goes(L, d, u), x)
    BY <1>1, <2>1, <2>3, LinesStep
  <2>6. Put(L, Goes(L, d, u), x) \in Seq(Nat) /\ Made(L, d, u) \in Seq(Nat)
    BY <2>3, PutIs DEF AreLines
  <2>7. (Made(L, c, s) \o Made(L, d, u)) \o Put(L, Goes(L, d, u), x)
          = Made(L, c, s) \o (Made(L, d, u) \o Put(L, Goes(L, d, u), x))
    <3>1. \A a, b, z \in Seq(Nat) : (a \o b) \o z = a \o (b \o z)
      BY Joined
    <3>2. Made(L, c, s) \in Seq(Nat)
      BY <1>1
    <3>3. QED
      BY <2>6, <3>1, <3>2, Zenon
  <2>8. QED
    BY <2>1, <2>2, <2>4, <2>5, <2>7
<1>4. Grows(Nat, P)
  BY <1>2, <1>3 DEF Grows
<1> HIDE DEF P
<1>5. P = Seq(Nat)
  <2>1. P \in SUBSET Seq(Nat)
    BY DEF P
  <2>2. QED
    BY <1>4, <2>1, AllGrow
<1>6. QED
  BY <1>5 DEF P, d

\* What is still free of a slice when a newline is counted twice for every line
\* that fits.
WrapRoom(L, room) == room - ((room + L - 1) \div L) * 2

\* What fits there fits with all its newlines, and leaves a byte.
LEMMA WrapFits ==
  ASSUME NEW L \in Nat \ {0}, NEW room \in Nat \ {0}, NEW n \in Nat, NEW length \in Nat,
         n <= WrapRoom(L, room), NEW c \in 0 .. L - 1, NEW col \in 0 .. L - 1,
         Adds(L, c, n, length, col)
  PROVE  length + 1 <= room
<1> DEFINE q == (room + L - 1) \div L
<1>1. q \in Nat /\ room <= L * q
  <2>1. room + L - 1 \in Nat
    OBVIOUS
  <2>2. room + L - 1 = L * q + ((room + L - 1) % L) /\ ((room + L - 1) % L) \in 0 .. L - 1
        /\ q \in Nat
    BY <2>1, ModIs
  <2> DEFINE r == (room + L - 1) % L
  <2>3. room + L - 1 = L * q + r /\ r \in 0 .. L - 1 /\ q \in Nat
    BY <2>2
  <2> HIDE DEF q, r
  <2>4. L * q \in Int
    BY <2>3
  <2>5. QED
    BY <2>3, <2>4
<1>2. n <= room - q * 2
  BY DEF WrapRoom
<1> HIDE DEF q
<1>3. q # 0
  <2>1. L * 0 = 0
    OBVIOUS
  <2>2. QED
    BY <1>1, <2>1
<1>4. ~(q < length - n)
  <2>1. SUFFICES ASSUME q < length - n PROVE FALSE
    OBVIOUS
  <2>2. L * q + L <= L * (length - n)
    <3>1. q \in Int /\ length - n \in Int
      BY <1>1
    <3>2. QED
      BY <2>1, <3>1, OneMore
  <2>3. L * q \in Int /\ L * (length - n) \in Int
    BY <1>1
  <2>4. QED
    BY <1>1, <1>2, <2>2, <2>3 DEF Adds
<1>5. QED
  BY <1>1, <1>2, <1>3, <1>4

\* Without buffers: where the newlines before a place are, what each byte becomes,
\* and that the column behind the bytes, of a line, is where the lines stop.
Marks(c, in, i) == {-c} \cup {j \in 1 .. i - 1 : in[j] = LF}

WrapRow(L, c, in) ==
  [i \in 1 .. Len(in) |->
     IF in[i] = LF THEN IF (Column(c, in, i) % L) = 0 THEN <<>> ELSE <<LF>>
     ELSE IF ((Column(c, in, i) + 1) % L) = 0 THEN <<in[i], LF>> ELSE <<in[i]>>]

LEMMA ColumnIs ==
  ASSUME NEW c \in Nat, NEW in \in Seq(Nat), NEW i \in Nat \ {0}
  PROVE  /\ Column(c, in, i) = i - 1 - Max(Marks(c, in, i))
         /\ Max(Marks(c, in, i)) \in Marks(c, in, i)
         /\ \A j \in Marks(c, in, i) : j <= Max(Marks(c, in, i))
         /\ Column(c, in, i) \in Nat
<1>1. Marks(c, in, i) \in SUBSET Int /\ Marks(c, in, i) # {} /\ i - 1 \in Int
  BY DEF Marks
<1>2. \A j \in Marks(c, in, i) : j <= i - 1
  BY DEF Marks
<1>3. /\ Max(Marks(c, in, i)) \in Marks(c, in, i)
      /\ \A j \in Marks(c, in, i) : j <= Max(Marks(c, in, i))
  BY <1>1, <1>2, MaxIs
<1>4. Column(c, in, i) = i - 1 - Max(Marks(c, in, i))
  BY DEF Column, Marks
<1>5. i - 1 - Max(Marks(c, in, i)) \in Nat
  <2> DEFINE m == Max(Marks(c, in, i))
  <2>1. m \in Int /\ m <= i - 1
    BY <1>1, <1>2, <1>3
  <2> HIDE DEF m
  <2>2. i - 1 - m \in Nat
    BY <2>1
  <2>3. QED
    BY <2>2 DEF m
<1>6. QED
  BY <1>3, <1>4, <1>5

\* A bound that is in a set of numbers is its greatest one.
LEMMA MaxUnique ==
  ASSUME NEW S \in SUBSET Int, NEW m \in S, \A x \in S : x <= m
  PROVE  Max(S) = m
<1>1. m \in Int /\ S # {}
  OBVIOUS
<1>2. Max(S) \in S /\ \A x \in S : x <= Max(S)
  BY <1>1, MaxIs
<1>3. Max(S) <= m /\ m <= Max(S) /\ Max(S) \in Int
  BY <1>2
<1>4. QED
  BY <1>1, <1>3

\* One byte more leaves the columns as they were, and the column behind it is 0
\* after a newline and the next one after another byte.
LEMMA ColumnNext ==
  ASSUME NEW c \in Nat, NEW s \in Seq(Nat), NEW x \in Nat
  PROVE  /\ \A i \in 1 .. Len(s) + 1 : Column(c, Append(s, x), i) = Column(c, s, i)
         /\ Column(c, Append(s, x), Len(s) + 2) = IF x = LF THEN 0 ELSE Column(c, s, Len(s) + 1) + 1
<1> DEFINE n == Len(s)
           t == Append(s, x)
<1>1. n \in Nat /\ t \in Seq(Nat) /\ Len(t) = n + 1 /\ t[n + 1] = x /\ \A i \in 1 .. n : t[i] = s[i]
  BY AppendProperties, LenProperties
<1> HIDE DEF n, t
<1>2. ASSUME NEW i \in 1 .. n + 1 PROVE Marks(c, t, i) = Marks(c, s, i)
  <2>1. \A j \in 1 .. i - 1 : t[j] = s[j]
    BY <1>1
  <2>2. QED
    BY <2>1 DEF Marks
<1>3. ASSUME NEW i \in 1 .. n + 1 PROVE Column(c, t, i) = Column(c, s, i)
  <2>1. i \in Nat \ {0}
    BY <1>1
  <2>2. QED
    BY <1>1, <1>2, <2>1, ColumnIs
<1>4. Column(c, t, n + 2) = IF x = LF THEN 0 ELSE Column(c, s, n + 1) + 1
  <2>1. n + 2 \in Nat \ {0} /\ n + 1 \in Nat \ {0} /\ n + 1 \in 1 .. n + 1 /\ (n + 2) - 1 = n + 1
    BY <1>1
  <2>2. Column(c, t, n + 2) = (n + 2) - 1 - Max(Marks(c, t, n + 2))
    BY <1>1, <2>1, ColumnIs
  <2>3. Marks(c, t, n + 2) = Marks(c, t, n + 1) \cup IF x = LF THEN {n + 1} ELSE {}
    <3>1. 1 .. (n + 2) - 1 = (1 .. (n + 1) - 1) \cup {n + 1}
      BY <1>1
    <3>2. QED
      BY <1>1, <3>1 DEF Marks
  <2>4. CASE x = LF
    <3>1. Marks(c, t, n + 2) \in SUBSET Int /\ n + 1 \in Marks(c, t, n + 2)
          /\ \A j \in Marks(c, t, n + 2) : j <= n + 1
      BY <1>1, <2>3, <2>4 DEF Marks
    <3>2. Max(Marks(c, t, n + 2)) = n + 1
      BY <3>1, MaxUnique
    <3>3. QED
      BY <1>1, <2>2, <2>4, <3>2
  <2>5. CASE x # LF
    <3>1. Marks(c, t, n + 2) = Marks(c, s, n + 1)
      BY <1>2, <2>1, <2>3, <2>5
    <3>2. Column(c, s, n + 1) = (n + 1) - 1 - Max(Marks(c, s, n + 1))
          /\ Max(Marks(c, s, n + 1)) \in Marks(c, s, n + 1)
      BY <1>1, <2>1, ColumnIs
    <3>3. Max(Marks(c, s, n + 1)) \in Int
      BY <3>2 DEF Marks
    <3>4. QED
      BY <1>1, <2>2, <2>5, <3>1, <3>2, <3>3
  <2>6. QED
    BY <2>4, <2>5
<1>5. QED
  BY <1>3, <1>4 DEF n, t

\* The column of the line behind some bytes.
Stands(L, c, s, col) == (Column(c, s, Len(s) + 1) % L) = col

\* What is made of one byte more.
RowGrows(L, c, s, col, x) ==
  /\ WrapRow(L, c, Append(s, x)) = Append(WrapRow(L, c, s), Put(L, col, x))
  /\ WrapRow(L, c, Append(s, x)) \in Seq(Seq(Nat))
  /\ Stands(L, c, Append(s, x), NextColumn(L, col, x))

LEMMA WrapRowNext ==
  ASSUME NEW L \in Nat \ {0}, NEW c \in 0 .. L - 1, NEW s \in Seq(Nat), NEW x \in Nat,
         NEW col \in 0 .. L - 1, Stands(L, c, s, col),
         WrapRow(L, c, s) \in Seq(Seq(Nat))
  PROVE  RowGrows(L, c, s, col, x)
<1> DEFINE n == Len(s)
           t == Append(s, x)
           row == WrapRow(L, c, s)
           next == Append(row, Put(L, col, x))
           here == Column(c, s, n + 1)
<1>1. n \in Nat /\ t \in Seq(Nat) /\ Len(t) = n + 1 /\ t[n + 1] = x /\ \A i \in 1 .. n : t[i] = s[i]
  BY AppendProperties, LenProperties
<1>2. Put(L, col, x) \in Seq(Nat)
  BY PutIs
<1>3. /\ next \in Seq(Seq(Nat)) /\ Len(next) = Len(row) + 1 /\ next[Len(row) + 1] = Put(L, col, x)
      /\ \A i \in 1 .. Len(row) : next[i] = row[i]
  BY <1>2, AppendProperties
<1>4. Len(row) = n
  BY <1>1 DEF WrapRow
<1>5. here \in Nat
  <2>1. n + 1 \in Nat \ {0} /\ c \in Nat
    BY <1>1
  <2>2. QED
    BY <2>1, ColumnIs
<1>6. \A i \in 1 .. n + 1 : Column(c, t, i) = Column(c, s, i)
  <2>1. c \in Nat
    OBVIOUS
  <2>2. QED
    BY <2>1, ColumnNext
<1>7. ((here + 1) % L) = IF col + 1 = L THEN 0 ELSE col + 1
  <2>1. (here % L) = col
    BY DEF Stands
  <2> HIDE DEF here
  <2>2. QED
    BY <1>5, <2>1, ModNext
<1>8. (Column(c, t, n + 2) % L) = NextColumn(L, col, x)
  <2>1. Column(c, t, n + 2) = IF x = LF THEN 0 ELSE here + 1
    <3>1. c \in Nat
      OBVIOUS
    <3>2. QED
      BY <3>1, ColumnNext
  <2>2. (0 % L) = 0
    OBVIOUS
  <2> HIDE DEF here, n, t
  <2>3. QED
    BY <1>7, <2>1, <2>2 DEF NextColumn
<1>9. WrapRow(L, c, t) = next
  <2> DEFINE piece(i) ==
        IF t[i] = LF THEN IF (Column(c, t, i) % L) = 0 THEN <<>> ELSE <<LF>>
        ELSE IF ((Column(c, t, i) + 1) % L) = 0 THEN <<t[i], LF>> ELSE <<t[i]>>
  <2>1. ASSUME NEW i \in 1 .. n PROVE piece(i) = next[i]
    <3>1. t[i] = s[i] /\ Column(c, t, i) = Column(c, s, i)
      BY <1>1, <1>6
    <3>2. row[i] = IF s[i] = LF THEN IF (Column(c, s, i) % L) = 0 THEN <<>> ELSE <<LF>>
                   ELSE IF ((Column(c, s, i) + 1) % L) = 0 THEN <<s[i], LF>> ELSE <<s[i]>>
      BY DEF WrapRow
    <3>3. next[i] = row[i]
      BY <1>3, <1>4
    <3> HIDE DEF t, row, next
    <3>4. QED
      BY <3>1, <3>2, <3>3
  <2>2. piece(n + 1) = next[n + 1]
    <3>1. t[n + 1] = x /\ Column(c, t, n + 1) = here /\ (here % L) = col
      BY <1>1, <1>6 DEF Stands
    <3>2. next[n + 1] = Put(L, col, x)
      BY <1>3, <1>4
    <3> HIDE DEF t, next, here, n
    <3>3. QED
      BY <1>7, <3>1, <3>2 DEF Put
  <2>3. WrapRow(L, c, t) = [i \in 1 .. n + 1 |-> piece(i)]
    BY <1>1 DEF WrapRow
  <2>4. next = [i \in 1 .. n + 1 |-> next[i]]
    <3> HIDE DEF next, row
    <3>1. QED
      BY <1>3, <1>4
  <2>5. ASSUME NEW i \in 1 .. n + 1 PROVE piece(i) = next[i]
    <3>1. i \in 1 .. n \/ i = n + 1
      BY <1>1
    <3>2. CASE i = n + 1
      BY <2>2, <3>2, Zenon
    <3>3. QED
      BY <2>1, <3>1, <3>2, Zenon
  <2> HIDE DEF piece, next, t, n
  <2>6. QED
    BY <2>3, <2>4, <2>5
<1>10. Stands(L, c, t, NextColumn(L, col, x))
  <2>1. Len(t) + 1 = n + 2
    BY <1>1
  <2> HIDE DEF n, t
  <2>2. QED
    BY <1>8, <2>1 DEF Stands
<1>11. QED
  BY <1>3, <1>9, <1>10 DEF RowGrows

\* What wrap makes of an input is what its lines make of it.
LEMMA LinesMean ==
  ASSUME NEW L \in Nat \ {0}, NEW c \in 0 .. L - 1, NEW in \in Seq(Nat)
  PROVE  FlattenSeq(WrapRow(L, c, in)) = Made(L, c, in)
<1> DEFINE P == {s \in Seq(Nat) : /\ Stands(L, c, s, Goes(L, c, s))
                                  /\ WrapRow(L, c, s) \in Seq(Seq(Nat))
                                  /\ FlattenSeq(WrapRow(L, c, s)) = Made(L, c, s)}
<1>1. <<>> \in P
  <2>1. Made(L, c, <<>>) = <<>> /\ Goes(L, c, <<>>) = c /\ <<>> \in Seq(Nat) /\ Len(<<>>) = 0
    BY LinesAre, EmptySeq
  <2>2. WrapRow(L, c, <<>>) = <<>> /\ <<>> \in Seq(Seq(Nat))
    <3>1. WrapRow(L, c, <<>>) \in Seq(Seq(Nat)) /\ Len(WrapRow(L, c, <<>>)) = 0
      BY <2>1 DEF WrapRow
    <3>2. QED
      BY <3>1, EmptySeq
  <2>3. (Column(c, <<>>, 0 + 1) % L) = c
    <3>1. Column(c, <<>>, 1) = 1 - 1 - Max(Marks(c, <<>>, 1)) /\ Max(Marks(c, <<>>, 1)) \in Marks(c, <<>>, 1)
      <4>1. c \in Nat /\ 1 \in Nat \ {0}
        OBVIOUS
      <4>2. QED
        BY <2>1, <4>1, ColumnIs
    <3>2. Marks(c, <<>>, 1) = {-c}
      BY DEF Marks
    <3>3. Column(c, <<>>, 1) = c
      BY <3>1, <3>2
    <3>4. (c % L) = c
      OBVIOUS
    <3>5. QED
      BY <3>3, <3>4
  <2>4. QED
    BY <2>1, <2>2, <2>3, FlattenAppend DEF Stands
<1>2. ASSUME NEW s \in P, NEW x \in Nat PROVE Append(s, x) \in P
  <2> DEFINE t == Append(s, x)
             col == Goes(L, c, s)
             row == WrapRow(L, c, s)
             piece == Put(L, col, x)
  <2>1. /\ s \in Seq(Nat) /\ t \in Seq(Nat) /\ Len(t) = Len(s) + 1 /\ Len(s) \in Nat
        /\ Stands(L, c, s, col) /\ row \in Seq(Seq(Nat))
        /\ FlattenSeq(row) = Made(L, c, s)
    BY AppendProperties, LenProperties
  <2>2. AreLines(L, c, s)
    BY <2>1, LinesAre
  <2>3. col \in 0 .. L - 1
    BY <2>2 DEF AreLines
  <2>4. piece \in Seq(Nat)
    BY <2>3, PutIs
  <2>5. Made(L, c, t) = Made(L, c, s) \o piece /\ Goes(L, c, t) = NextColumn(L, col, x)
    BY <2>1, <2>2, LinesStep
  <2>6. /\ WrapRow(L, c, t) = Append(row, piece) /\ WrapRow(L, c, t) \in Seq(Seq(Nat))
        /\ Stands(L, c, t, NextColumn(L, col, x))
    <3>1. RowGrows(L, c, s, col, x)
      BY <2>1, <2>3, WrapRowNext
    <3>2. QED
      BY <3>1 DEF RowGrows
  <2>7. FlattenSeq(Append(row, piece)) = FlattenSeq(row) \o piece
    BY <2>1, <2>4, FlattenMore
  <2>8. Stands(L, c, t, Goes(L, c, t))
    BY <2>5, <2>6
  <2>9. FlattenSeq(WrapRow(L, c, t)) = Made(L, c, t)
    BY <2>1, <2>5, <2>6, <2>7
  <2>10. QED
    BY <2>1, <2>6, <2>8, <2>9
<1>3. Grows(Nat, P)
  BY <1>1, <1>2 DEF Grows
<1> HIDE DEF P
<1>4. P = Seq(Nat)
  <2>1. P \in SUBSET Seq(Nat)
    BY DEF P
  <2>2. QED
    BY <1>3, <2>1, AllGrow
<1>5. QED
  BY <1>4 DEF P

\* The codec at some column of a line, with what it left of its input; it leaves
\* nothing or could take no more.
WrapAt(L, c) == [name |-> "wrap", curline |-> c, linelen |-> L]

WrapCodecs(L, size, room) ==
  {st \in [codec : {WrapAt(L, c) : c \in 0 .. L - 1}, win : Seq(Nat)] :
     st.win = <<>> \/ Len(st.win) + WrapRoom(L, room) <= size}

LEMMA WrapIs ==
  ASSUME NEW L, NEW size, NEW room, NEW st \in WrapCodecs(L, size, room)
  PROVE  /\ \E c \in 0 .. L - 1 : st.codec = WrapAt(L, c)
         /\ st.win \in Seq(Nat) /\ (st.win = <<>> \/ Len(st.win) + WrapRoom(L, room) <= size)
         /\ st = At(st.codec, st.win)
<1>1. /\ st \in [codec : {WrapAt(L, c) : c \in 0 .. L - 1}, win : Seq(Nat)]
      /\ st.win = <<>> \/ Len(st.win) + WrapRoom(L, room) <= size
  BY DEF WrapCodecs
<1>2. st = At(st.codec, st.win) /\ st.codec \in {WrapAt(L, c) : c \in 0 .. L - 1} /\ st.win \in Seq(Nat)
  BY <1>1 DEF At
<1>3. QED
  BY <1>1, <1>2

\* What it makes of an input.
LEMMA WrapMeans ==
  ASSUME OfNewlines, NEW L \in Nat \ {0}, NEW c \in 0 .. L - 1, NEW in \in Seq(Nat)
  PROVE  Meaning(WrapAt(L, c), in) = Made(L, c, in) /\ Made(L, c, in) \in Seq(Nat)
<1>1. WrapAt(L, c).name = "wrap" /\ WrapAt(L, c).curline = c /\ WrapAt(L, c).linelen = L
  BY DEF WrapAt
<1>2. Meaning(WrapAt(L, c), in) = WrapMeaning(WrapAt(L, c), in)
  BY <1>1, NewlineMeans
<1>3. WrapMeaning(WrapAt(L, c), in) = FlattenSeq(WrapRow(L, c, in))
  BY <1>1 DEF WrapMeaning, WrapRow
<1>4. AreLines(L, c, in)
  BY LinesAre
<1>5. QED
  BY <1>2, <1>3, <1>4, LinesMean DEF AreLines

\* How much it takes.
LEMMA WrapTakes ==
  ASSUME NEW L \in Nat \ {0}, NEW room \in Nat, 1 <= WrapRoom(L, room), NEW in \in Seq(Nat)
  PROVE  /\ WrapMax(L, in, room) = Smaller(Len(in), WrapRoom(L, room))
         /\ WrapRoom(L, room) \in Nat \ {0} /\ room \in Nat \ {0}
         /\ WrapRoom(L, room) <= room
<1> DEFINE q == (room + L - 1) \div L
<1>1. q \in Nat
  <2>1. room + L - 1 \in Nat
    OBVIOUS
  <2>2. QED
    BY <2>1, ModIs
<1>2. 1 <= room - q * 2 /\ WrapRoom(L, room) = room - q * 2
  BY DEF WrapRoom
<1>3. WrapMax(L, in, room) = IF q * 2 > room THEN Len(in) ELSE Smaller(Len(in), room - (q * 2))
  BY DEF WrapMax
<1> HIDE DEF q
<1>4. ~(q * 2 > room) /\ room - q * 2 \in Nat \ {0} /\ room \in Nat \ {0} /\ room - q * 2 <= room
  BY <1>1, <1>2
<1>5. QED
  BY <1>2, <1>3, <1>4

\* The codec of -wrap, field by field, and what becomes of it when only the
\* column moves.
LEMMA WrapMoves ==
  ASSUME NEW L, NEW c, NEW d
  PROVE  /\ WrapAt(L, c).curline = c
         /\ WrapAt(L, c).linelen = L
         /\ [WrapAt(L, c) EXCEPT !.curline = d] = WrapAt(L, d)
<1>1. WrapAt(L, c).curline = c
  BY DEF WrapAt
<1>2. WrapAt(L, c).linelen = L
  BY DEF WrapAt
<1>3. [WrapAt(L, c) EXCEPT !.curline = d] = WrapAt(L, d)
  BY DEF WrapAt
<1>4. QED
  BY <1>1, <1>2, <1>3

\* -wrap, whatever it is shown, tells the truth about what it took and made.
LEMMA WrapTruthful ==
  ASSUME OfNewlines, NEW L \in Nat \ {0}, NEW size \in Nat \ {0}, NEW room \in Nat,
         1 <= WrapRoom(L, room), size <= 2 * WrapRoom(L, room),
         NEW st \in WrapCodecs(L, size, room), NEW fresh \in Seq(Nat), NEW later \in Seq(Nat)
  PROVE  Tells(WrapCodecs(L, size, room), size, room, st, fresh, later)
<1> DEFINE in == st.win \o fresh
           free == WrapRoom(L, room)
           max == Smaller(Len(in), free)
           answer == Answer(st, fresh, room)
           rest == Meaning(answer.codec, Skip(in, answer.took) \o later)
           due == Meaning(st.codec, in \o later)
<1>1. PICK c \in 0 .. L - 1 : st.codec = WrapAt(L, c)
  BY WrapIs
<1>2. /\ st.win \in Seq(Nat) /\ (st.win = <<>> \/ Len(st.win) + free <= size)
      /\ in \in Seq(Nat) /\ Len(in) \in Nat /\ in \o later \in Seq(Nat)
      /\ Len(st.win) \in Nat /\ (fresh = <<>> => in = st.win)
  BY WrapIs, ConcatProperties, ConcatEmptySeq, LenProperties
<1>3. free \in Nat \ {0} /\ free <= room /\ room \in Nat \ {0} /\ WrapMax(L, in, room) = max
  BY <1>2, WrapTakes
<1>4. SUFFICES ASSUME Len(in) <= size, due # Malformed, fresh = <<>> => later = <<>>
      PROVE  /\ answer.made \in Seq(Nat)
             /\ Contract(answer.kind, answer.took, Len(answer.made), Len(in), room, size, {},
                         fresh = <<>>)
             /\ ~(answer.kind = "SeqError" /\ answer.took = 0 /\ fresh = <<>>)
             /\ due = answer.made \o rest
             /\ rest \in Seq(Nat)
             /\ answer.made = <<>> /\ (fresh = <<>> \/ answer.kind = "StreamEnd") => rest = <<>>
             /\ Stays(WrapCodecs(L, size, room), answer, in)
  BY DEF Tells
<1>5. answer = WrapTransform(WrapAt(L, c), in, room)
  <2>1. st.codec.name = "wrap"
    BY <1>1 DEF WrapAt
  <2>2. QED
    BY <1>1, <2>1, NewlineAnswers DEF Answer
<1> HIDE DEF in
<1>6. /\ max \in 0 .. Len(in) /\ max <= free
      /\ max = Len(in) \/ max = free
  <2> DEFINE l == Len(in)
             f == free
  <2>1. l \in Nat /\ f \in Nat /\ max = Smaller(l, f)
    BY <1>2, <1>3
  <2> HIDE DEF l, f
  <2>2. /\ Smaller(l, f) \in 0 .. l /\ Smaller(l, f) <= f
        /\ Smaller(l, f) = l \/ Smaller(l, f) = f
    BY <2>1 DEF Smaller
  <2>3. QED
    BY <2>1, <2>2 DEF l, f
<1> DEFINE left == Skip(in, max)
           firsts == Firsts(in, max)
           made == Made(L, c, firsts)
           col == Goes(L, c, firsts)
<1> HIDE DEF free, max
<1>7. /\ firsts \in Seq(Nat) /\ left \in Seq(Nat) /\ in = firsts \o left
      /\ Len(firsts) = max /\ Len(left) = Len(in) - max
  <2>1. firsts \in Seq(Nat) /\ firsts \o left = in /\ Len(firsts) = max
    <3>1. max \in Nat
      BY <1>2, <1>6
    <3>2. Len(Firsts(in, max)) = max
      BY <1>2, <1>6, FirstsLength
    <3>3. QED
      BY <1>2, <3>1, <3>2, FirstsIs
  <2>2. left \in Seq(Nat) /\ Len(left) = Len(in) - max
    BY <1>2, <1>6, SkipIs
  <2>3. QED
    BY <2>1, <2>2
<1> HIDE DEF firsts, left
<1>8. /\ made \in Seq(Nat) /\ col \in 0 .. L - 1 /\ Len(made) \in Nat
      /\ WrapLines(L, c, firsts) = [made |-> made, col |-> col]
      /\ Adds(L, c, max, Len(made), col)
  BY <1>7, LinesAre, LenProperties DEF AreLines
<1> HIDE DEF made, col
<1>9. Len(made) + 1 <= room
  <2>1. max \in Nat /\ max <= WrapRoom(L, room) /\ room \in Nat \ {0}
    BY <1>2, <1>3, <1>6 DEF free
  <2>2. QED
    BY <1>8, <2>1, WrapFits
<1>10. answer = Ans(WrapAt(L, col), "Ok", max, made)
  <2> DEFINE s == WrapAt(L, c)
             slack == IF max > 0 /\ col # 0 THEN 1 ELSE 0
  <2>1. /\ s.curline = c
        /\ s.linelen = L
        /\ [s EXCEPT !.curline = col] = WrapAt(L, col)
    BY WrapMoves
  <2>2. slack \in 0 .. 1
    OBVIOUS
  <2>3. ~(Len(made) + slack > room)
    <3> HIDE DEF slack
    <3>1. QED
      BY <1>8, <1>9, <2>2
  <2>4. /\ WrapLines(L, c, Firsts(in, max)).made = made
        /\ WrapLines(L, c, Firsts(in, max)).col = col
    BY <1>8 DEF firsts
  <2> HIDE DEF s, answer
  <2>5. QED
    BY <1>3, <1>5, <2>1, <2>3, <2>4 DEF WrapTransform, s
<1>11. /\ answer.codec = WrapAt(L, col) /\ answer.kind = "Ok" /\ answer.took = max
       /\ answer.made = made
  BY <1>10 DEF Ans
<1>12. due = made \o rest /\ rest \in Seq(Nat)
  <2>1. due = Made(L, c, in \o later)
    BY <1>1, <1>2, WrapMeans
  <2>2. left \o later \in Seq(Nat)
    BY <1>7, ConcatProperties
  <2>3. rest = Made(L, col, left \o later) /\ rest \in Seq(Nat)
    <3>1. rest = Meaning(WrapAt(L, col), left \o later)
      BY <1>11 DEF left
    <3> HIDE DEF rest
    <3>2. QED
      BY <1>8, <2>2, <3>1, WrapMeans
  <2>4. in \o later = firsts \o (left \o later)
    BY <1>7, Joined, ZenonT(60)
  <2>5. Made(L, c, firsts \o (left \o later)) = Made(L, c, firsts) \o Made(L, Goes(L, c, firsts), left \o later)
    BY <1>7, <2>2, LinesJoin
  <2>6. QED
    BY <2>1, <2>3, <2>4, <2>5 DEF made, col
<1>13. fresh = <<>> => max = Len(in) /\ left = <<>>
  <2>1. SUFFICES ASSUME fresh = <<>> PROVE max = Len(in) /\ left = <<>>
    OBVIOUS
  <2>2. in = st.win
    BY <1>2, <2>1
  <2>3. Len(in) <= free
    <3>1. CASE st.win = <<>>
      BY <1>3, <2>2, <3>1, EmptySeq
    <3>2. CASE Len(st.win) + free <= size
      <4>1. size <= 2 * free
        BY DEF free
      <4>2. QED
        BY <1>2, <1>3, <2>2, <3>2, <4>1
    <3>3. QED
      BY <1>2, <3>1, <3>2
  <2>4. max = Len(in)
    BY <1>2, <1>3, <1>6, <2>3
  <2>5. Len(left) = 0
    BY <1>2, <1>7, <2>4
  <2>6. QED
    BY <1>7, <2>4, <2>5, EmptySeq
<1>14. fresh = <<>> => rest = <<>>
  <2>1. SUFFICES ASSUME fresh = <<>> PROVE rest = <<>>
    OBVIOUS
  <2>2. left \o later = <<>> /\ <<>> \in Seq(Nat)
    BY <1>4, <1>13, <2>1, ConcatEmptySeq, EmptySeq
  <2>3. rest = Meaning(WrapAt(L, col), <<>>)
    BY <1>11, <2>2 DEF left
  <2>4. Made(L, col, <<>>) = <<>>
    BY <1>8, LinesAre
  <2> HIDE DEF rest
  <2>5. QED
    BY <1>8, <2>2, <2>3, <2>4, WrapMeans
<1>15. Stays(WrapCodecs(L, size, room), answer, in)
  <2>1. Skip(in, answer.took) = left
    BY <1>11 DEF left
  <2>2. left = <<>> \/ Len(left) + free <= size
    <3>1. CASE max = Len(in)
      BY <1>2, <1>7, <3>1, EmptySeq
    <3>2. CASE max = free
      BY <1>2, <1>3, <1>4, <1>7, <3>2
    <3>3. QED
      BY <1>6, <3>1, <3>2
  <2> HIDE DEF answer
  <2>3. At(WrapAt(L, col), left) \in WrapCodecs(L, size, room)
    BY <1>7, <1>8, <2>2 DEF At, WrapCodecs, free
  <2>4. QED
    BY <1>11, <2>1, <2>3 DEF Stays
<1> HIDE DEF answer, rest, due
<1>16. Contract(answer.kind, answer.took, Len(answer.made), Len(in), room, size, {}, fresh = <<>>)
  <2>1. Len(answer.made) \in 0 .. room
    BY <1>8, <1>9, <1>11
  <2>2. Len(in) >= size => max > 0
    BY <1>2, <1>3, <1>6
  <2>3. QED
    BY <1>6, <1>11, <1>13, <2>1, <2>2 DEF Contract, Kinds
<1>17. QED
  BY <1>8, <1>11, <1>12, <1>14, <1>15, <1>16

\* wrap does where half of the room that it may fill holds a window; otherwise it may
\* end with something left.
LEMMA WrapStreams ==
  ASSUME OfNewlines, NEW L \in Nat \ {0}, NEW size \in Nat \ {0}, NEW room \in Nat, 2 <= room,
         1 <= WrapRoom(L, room), size <= 2 * WrapRoom(L, room)
  PROVE  StreamsAlone(At(WrapStart(L), <<>>), size, room)
<1>1. At(WrapStart(L), <<>>) \in WrapCodecs(L, size, room)
  <2>1. 0 \in 0 .. L - 1 /\ <<>> \in Seq(Nat) /\ WrapStart(L) = WrapAt(L, 0)
    BY EmptySeq DEF WrapStart, WrapAt
  <2>2. QED
    BY <2>1 DEF At, WrapCodecs
<1>2. Ranged(WrapCodecs(L, size, room), room)
  <2>1. SUFFICES ASSUME NEW st \in WrapCodecs(L, size, room)
        PROVE  /\ st = At(st.codec, st.win)
               /\ BufferSize(st.codec) \in 0 .. room
               /\ \A in \in Seq(Nat) : Meaning(st.codec, in) \in Seq(Nat) \cup {Malformed}
    BY DEF Ranged
  <2>2. PICK c \in 0 .. L - 1 : st.codec = WrapAt(L, c)
    BY WrapIs
  <2>3. st = At(st.codec, st.win)
    BY WrapIs
  <2>4. BufferSize(st.codec) \in 0 .. room
    BY <2>2 DEF OfNewlines, NewlineNames, NewlineBufferSize, WrapAt
  <2>5. \A in \in Seq(Nat) : Meaning(WrapAt(L, c), in) \in Seq(Nat)
    BY WrapMeans
  <2>6. QED
    BY <2>2, <2>3, <2>4, <2>5
<1>3. Truthful(WrapCodecs(L, size, room), size, room)
  BY WrapTruthful DEF Truthful
<1>4. QED
  BY <1>1, <1>2, <1>3 DEF StreamsAlone

-----------------------------------------------------------------------------
(***************************************************************************)
(* Chains of these codecs.                                                 *)
(***************************************************************************)
\* The slices that a newline codec needs, if any: crlf writes up to two bytes for
\* each one it is shown, its decoder leaves two bytes of its output free, and wrap
\* loses what is left at the end of a window that holds more than it takes twice.
Suits(settings, size, room) ==
  \/ settings.name \in {"identity", "-wrap"}
  \/ settings.name = "lf" /\ settings.arg \in BOOLEAN /\ 2 <= room
  \/ settings.name = "crlf" /\ 2 * size <= room /\ 3 <= room
  \/ settings.name = "-crlf" /\ 2 <= size /\ size + 2 <= room
  \/ /\ settings.name = "wrap" /\ settings.arg \in Nat \ {0} /\ 2 <= room
     /\ 1 <= WrapRoom(settings.arg, room) /\ size <= 2 * WrapRoom(settings.arg, room)

AllSuit ==
  \A c \in Chains : \A size \in BufSizes : \A k \in 1 .. Len(c) :
    Suits(c[k], size, Writes(c, size, k))

LEMMA SuitedStreams ==
  ASSUME OfNewlines, NEW settings, NEW size \in Nat \ {0}, NEW room \in Nat, size <= room,
         Suits(settings, size, room)
  PROVE  /\ StreamsAlone(At(Start(settings), <<>>), size, room)
         /\ \A any \in Seq(Nat) : Meaning(Start(settings), any) \in Seq(Nat)
<1>1. CASE settings.name \in {"identity", "-wrap"}
  <2>1. Start(settings) = [name |-> settings.name]
    BY <1>1 DEF OfNewlines, NewlineNames, NewlineStart
  <2>2. Start(settings).name \in {"identity", "-wrap"}
    BY <1>1, <2>1
  <2>3. StreamsAlone(At(Start(settings), <<>>), size, room)
    BY <2>2, PlainStreams
  <2>4. ASSUME NEW any \in Seq(Nat) PROVE Meaning(Start(settings), any) \in Seq(Nat)
    <3>1. Meaning(Start(settings), any) \in {any, Unwrapped(any)}
      BY <2>2, NewlineMeans
    <3>2. QED
      BY <3>1, ExpandJoin
  <2>5. QED
    BY <2>3, <2>4
<1>2. CASE settings.name = "lf" /\ settings.arg \in BOOLEAN /\ 2 <= room
  <2>1. Start(settings) = LfStart(settings.arg)
    BY <1>2 DEF OfNewlines, NewlineNames, NewlineStart
  <2>2. StreamsAlone(At(LfStart(settings.arg), <<>>), size, room)
    BY <1>2, LfStreams
  <2>3. ASSUME NEW any \in Seq(Nat) PROVE Meaning(LfStart(settings.arg), any) \in Seq(Nat)
    <3>1. /\ LfStart(settings.arg).name = "lf" /\ LfStart(settings.arg).last = <<>>
          /\ LfStart(settings.arg).done = FALSE
      BY DEF LfStart
    <3>2. Meaning(LfStart(settings.arg), any) = LfMeaning(LfStart(settings.arg), any)
      BY <3>1, NewlineMeans
    <3>3. <<>> \o any = any /\ <<>> \in Seq(Nat) /\ <<LF>> \in Seq(Nat)
      BY ConcatEmptySeq DEF LF
    <3>4. any # <<>> => Ended(any) \in Seq(Nat)
      BY <3>3, EndedBehind
    <3>5. QED
      BY <3>1, <3>2, <3>3, <3>4 DEF LfMeaning, Ended
  <2>4. QED
    BY <2>1, <2>2, <2>3
<1>3. CASE settings.name = "crlf" /\ 2 * size <= room /\ 3 <= room
  <2>1. Start(settings) = [name |-> "crlf"]
    BY <1>3 DEF OfNewlines, NewlineNames, NewlineStart
  <2>2. StreamsAlone(At(Start(settings), <<>>), size, room)
    BY <1>3, <2>1, CrlfStreams
  <2>3. \A any \in Seq(Nat) : Meaning(Start(settings), any) \in Seq(Nat)
    <3>1. Start(settings).name = "crlf"
      BY <2>1
    <3>2. \A any : Meaning(Start(settings), any) = CrlfExpand(any)
      BY <3>1, NewlineMeans
    <3>3. QED
      BY <3>2, ExpandJoin
  <2>4. QED
    BY <2>2, <2>3
<1>4. CASE settings.name = "-crlf" /\ 2 <= size /\ size + 2 <= room
  <2>1. Start(settings) = [name |-> "-crlf"]
    BY <1>4 DEF OfNewlines, NewlineNames, NewlineStart
  <2>2. StreamsAlone(At(Start(settings), <<>>), size, room)
    BY <1>4, <2>1, UncrlfStreams
  <2>3. \A any \in Seq(Nat) : UncrlfMeaning(any) \in Seq(Nat)
    BY UncrlfFirst
  <2>4. \A any \in Seq(Nat) : Meaning(Start(settings), any) \in Seq(Nat)
    BY <2>1, <2>3, NewlineMeans
  <2>5. QED
    BY <2>2, <2>4
<1>5. CASE /\ settings.name = "wrap" /\ settings.arg \in Nat \ {0} /\ 2 <= room
           /\ 1 <= WrapRoom(settings.arg, room) /\ size <= 2 * WrapRoom(settings.arg, room)
  <2>1. Start(settings) = WrapStart(settings.arg) /\ WrapStart(settings.arg) = WrapAt(settings.arg, 0)
    BY <1>5 DEF OfNewlines, NewlineNames, NewlineStart, WrapStart, WrapAt
  <2>2. StreamsAlone(At(Start(settings), <<>>), size, room)
    BY <1>5, <2>1, WrapStreams
  <2>3. 0 \in 0 .. settings.arg - 1
    BY <1>5
  <2>4. \A any \in Seq(Nat) : Meaning(WrapAt(settings.arg, 0), any) \in Seq(Nat)
    BY <1>5, <2>3, WrapMeans
  <2>5. QED
    BY <2>1, <2>2, <2>4
<1>6. QED
  BY <1>1, <1>2, <1>3, <1>4, <1>5 DEF Suits

LEMMA SuitedReliable ==
  ASSUME OfNewlines, AllSuit
  PROVE  AllReliable
<1>1. SUFFICES ASSUME NEW c \in Chains, NEW size \in BufSizes, NEW k \in 1 .. Len(c)
      PROVE  /\ StreamsAlone(At(Start(c[k]), <<>>), size, Writes(c, size, k))
             /\ \A in \in Sources(c) : Intends(c, in) # Malformed
  BY DEF AllReliable
<1>2. /\ size \in Nat \ {0} /\ Writes(c, size, k) \in Nat /\ size <= Writes(c, size, k)
      /\ Suits(c[k], size, Writes(c, size, k))
  BY PipelineAssumption DEF Writes, AllSuit
<1>3. StreamsAlone(At(Start(c[k]), <<>>), size, Writes(c, size, k))
  BY <1>2, SuitedStreams
<1>4. ASSUME NEW in \in Sources(c) PROVE Intends(c, in) # Malformed
  <2>1. ASSUME NEW j \in 1 .. Len(c), NEW any \in Seq(Nat)
        PROVE  Meaning(Start(c[j]), any) \in Seq(Nat)
    <3>1. /\ size \in Nat \ {0} /\ Writes(c, size, j) \in Nat /\ size <= Writes(c, size, j)
          /\ Suits(c[j], size, Writes(c, size, j))
      BY PipelineAssumption DEF Writes, AllSuit
    <3>2. QED
      BY <3>1, SuitedStreams
  <2>2. QED
    BY <2>1, IntendsBytes
<1>5. QED
  BY <1>3, <1>4

\* Chains of newline codecs keep the contract of their readers (mod.rs:263-325)
\* in every buffer size that suits them.
THEOREM NewlinesKeepContract ==
  ASSUME OfNewlines, AllSuit
  PROVE  Spec => []KeepsContract /\ []Streams
BY SuitedReliable, ContractKept, AlwaysStreams, PTL

\* And they write exactly what they mean, complain about nothing, and are one
\* stream for whoever reads them, whatever the pieces in which the input comes
\* (mod.rs:272-353).
THEOREM NewlinesWriteTheMeaning ==
  ASSUME OfNewlines, AllSuit
  PROVE  Spec => []WritesTheMeaning /\ []NoFalseAlarm /\ ImplementsDelivery
BY SuitedReliable, ReliableChains
=============================================================================

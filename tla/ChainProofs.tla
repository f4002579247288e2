---------------------------- MODULE ChainProofs ----------------------------
(***************************************************************************)
(* Proofs about the parser of chains, for texts of every length.  Where an *)
(* induction is needed it is by the least counterexample, which the        *)
(* natural numbers have (WFMin).                                           *)
(***************************************************************************)
EXTENDS Chain, Inductions, FiniteSetTheorems, SequenceTheorems, TLAPS

\* Strings: the provers know of no literal that it is one.
Characters == STRING \cup {"(", ")", ":", "-"}

IsSequence(s) == Len(s) \in Nat /\ DOMAIN s = 1 .. Len(s)

\* How many of a set are below a number.
Rank(S, i) == Cardinality({j \in S : j < i})

\* Next to a number of a set that is not the greatest one there is another.
LEMMA RankStep ==
  ASSUME NEW S \in SUBSET Nat, IsFiniteSet(S), NEW i \in S, Rank(S, i) + 1 < Cardinality(S)
  PROVE  \E m \in S : Rank(S, m) = Rank(S, i) + 1
<1> DEFINE below == {j \in S : j < i}
           above == {j \in S : i < j}
<1>1. IsFiniteSet(below) /\ i \notin below
  BY FS_Subset
<1>2. Cardinality(below \cup {i}) = Rank(S, i) + 1 /\ IsFiniteSet(below \cup {i})
  BY <1>1, FS_AddElement DEF Rank
<1>3. above # {}
  <2>1. SUFFICES ASSUME above = {} PROVE FALSE
    OBVIOUS
  <2>2. ASSUME NEW j \in S PROVE j \in below \cup {i}
    <3>1. ~(i < j) /\ i \in Nat /\ j \in Nat
      BY <2>1
    <3>2. QED
      BY <3>1
  <2>3. Cardinality(S) = Rank(S, i) + 1
    <3>1. S = below \cup {i}
      BY <2>2
    <3>2. QED
      BY <1>2, <3>1
  <2>4. Rank(S, i) \in Nat
    BY <1>1, FS_CardinalityType DEF Rank
  <2>5. QED
    BY <2>3, <2>4
<1>4. PICK m \in above : \A n \in above : m <= n
  BY <1>3, HasLeast
<1>5. {j \in S : j < m} = below \cup {i}
  <2>1. ASSUME NEW j \in S PROVE j < m <=> j \in below \cup {i}
    <3>1. i < m /\ (i < j => m <= j) /\ i \in Nat /\ j \in Nat /\ m \in Nat
      BY <1>4
    <3>2. QED
      BY <3>1
  <2>2. QED
    BY <2>1
<1>6. Rank(S, m) = Rank(S, i) + 1
  BY <1>2, <1>5 DEF Rank
<1>7. QED
  BY <1>6

\* Every rank is somebody's.
LEMMA RankExists ==
  ASSUME NEW S \in SUBSET Nat, IsFiniteSet(S), NEW k \in 0 .. Cardinality(S) - 1
  PROVE  \E i \in S : Rank(S, i) = k
<1> DEFINE missing == {n \in 0 .. Cardinality(S) - 1 : \A i \in S : Rank(S, i) # n}
<1>1. Cardinality(S) \in Nat
  BY FS_CardinalityType
<1>2. SUFFICES ASSUME missing # {} PROVE FALSE
  OBVIOUS
<1>3. PICK least \in missing : \A n \in missing : least <= n
  <2>1. missing \in SUBSET Nat
    BY <1>1
  <2>2. QED
    BY <1>2, <2>1, HasLeast
<1>4. CASE least = 0
  <2>1. S # {}
    BY <1>1, <1>3, FS_EmptySet
  <2>2. PICK i \in S : \A j \in S : i <= j
    BY <2>1, HasLeast
  <2>3. {j \in S : j < i} = {}
    <3>1. ASSUME NEW j \in S PROVE ~(j < i)
      <4>1. i <= j /\ i \in Nat /\ j \in Nat
        BY <2>2
      <4>2. QED
        BY <4>1
    <3>2. QED
      BY <3>1
  <2>4. Rank(S, i) = 0
    BY <2>3, FS_EmptySet DEF Rank
  <2>5. QED
    BY <1>3, <1>4, <2>4
<1>5. CASE least # 0
  <2>1. least - 1 \in 0 .. Cardinality(S) - 1 /\ least - 1 \notin missing
    BY <1>1, <1>3, <1>5
  <2>2. PICK i \in S : Rank(S, i) = least - 1
    BY <2>1
  <2>3. Rank(S, i) + 1 < Cardinality(S) /\ Rank(S, i) + 1 = least
    BY <1>1, <1>3, <2>2
  <2>4. QED
    BY <1>3, <2>3, RankStep
<1>6. QED
  BY <1>4, <1>5

----------------------------------------------------------------------------
(***************************************************************************)
(* The pieces of a text are texts.                                         *)
(***************************************************************************)
LEMMA PieceIsText ==
  ASSUME NEW text \in Seq(Characters), NEW a \in Nat, NEW b \in 0 .. Len(text) + 1
  PROVE  SubSeq(text, a + 1, b - 1) \in Seq(Characters)
<1>1. \A i \in a + 1 .. b - 1 : text[i] \in Characters
  OBVIOUS
<1>2. QED
  BY <1>1, SubSeqProperties

\* As many pieces as there are separators, and one.
LEMMA SplitIsSequence ==
  ASSUME NEW text \in Seq(Characters), NEW c
  PROVE  /\ IsSequence(Split(text, c))
         /\ \A k \in DOMAIN Split(text, c) : Split(text, c)[k] \in Seq(Characters)
<1> DEFINE cuts == {0, Len(text) + 1} \cup Places(text, c)
<1>1. IsFiniteSet(0 .. Len(text) + 1)
  BY FS_Interval
<1>2. cuts \subseteq 0 .. Len(text) + 1
  BY DEF Places
<1>3. IsFiniteSet(cuts) /\ Cardinality(cuts) \in Nat /\ cuts \in SUBSET Nat
  BY <1>1, <1>2, FS_Subset, FS_CardinalityType
<1>4. cuts # {}
  OBVIOUS
<1>5. Cardinality(cuts) # 0
  BY <1>3, <1>4, FS_EmptySet
<1>6. Cardinality(cuts) - 1 \in Nat
  BY <1>3, <1>5
<1>7. Split(text, c) = [k \in 1 .. Cardinality(cuts) - 1 |->
                         SubSeq(text, Nth(cuts, k - 1) + 1, Nth(cuts, k) - 1)]
  BY DEF Split, Between
<1> HIDE DEF cuts
<1>8. ASSUME NEW k \in 0 .. Cardinality(cuts) - 1 PROVE Nth(cuts, k) \in cuts
  BY <1>3, <1>8, RankExists DEF Nth, Rank
<1>9. ASSUME NEW k \in 1 .. Cardinality(cuts) - 1
      PROVE  SubSeq(text, Nth(cuts, k - 1) + 1, Nth(cuts, k) - 1) \in Seq(Characters)
  <2>1. Nth(cuts, k - 1) \in Nat /\ Nth(cuts, k) \in 0 .. Len(text) + 1
    <3>1. k - 1 \in 0 .. Cardinality(cuts) - 1 /\ k \in 0 .. Cardinality(cuts) - 1
      BY <1>3
    <3>2. Nth(cuts, k - 1) \in cuts /\ Nth(cuts, k) \in cuts
      BY <1>8, <3>1
    <3>3. Nth(cuts, k - 1) \in 0 .. Len(text) + 1 /\ Nth(cuts, k) \in 0 .. Len(text) + 1
      BY <1>2, <3>2, Zenon
    <3>4. QED
      BY <3>3
  <2>2. QED
    BY <2>1, PieceIsText
<1>10. QED
  BY <1>6, <1>7, <1>9 DEF IsSequence

LEMMA UnitsAreSequence ==
  ASSUME NEW text \in Seq(Characters), NEW d
  PROVE  IsSequence(Units(text, d))
<1>1. IsSequence(Split(text, ":"))
  BY SplitIsSequence
<1>2. IsSequence(Reverse(Split(text, ":")))
  BY <1>1 DEF IsSequence, Reverse
<1>3. QED
  BY <1>1, <1>2 DEF Units

----------------------------------------------------------------------------
(***************************************************************************)
(* A unit with the other sign.                                             *)
(***************************************************************************)
\* It has the same body.
LEMMA FlipBody ==
  ASSUME NEW unit \in Seq(Characters), Plain(unit), Body(unit) # <<>>
  PROVE  /\ Flip(unit) # <<>>
         /\ Body(Flip(unit)) = Body(unit)
         /\ Negated(Flip(unit)) <=> ~Negated(unit)
         /\ Flip(unit)[1] \notin Wide
         /\ unit[1] \notin Wide
<1>1. unit # <<>> /\ Body(unit)[1] \notin Wide \cup {"-"} /\ "-" \notin Wide
  BY WideAssumption DEF Plain
<1>2. CASE Negated(unit)
  <2>1. Flip(unit) = Tail(unit) /\ Body(unit) = Tail(unit)
    BY <1>1, <1>2 DEF Flip, Body
  <2>2. ~Negated(Flip(unit)) /\ unit[1] = "-"
    BY <1>1, <1>2, <2>1 DEF Negated
  <2>3. QED
    BY <1>1, <1>2, <2>1, <2>2 DEF Body
<1>3. CASE ~Negated(unit)
  <2>1. Flip(unit) = <<"-">> \o unit /\ Body(unit) = unit
    BY <1>3 DEF Flip, Body
  <2>2. (<<"-">> \o unit)[1] = "-" /\ Tail(<<"-">> \o unit) = unit /\ <<"-">> \o unit # <<>>
    OBVIOUS
  <2>3. QED
    BY <1>1, <1>3, <2>1, <2>2 DEF Body, Negated
<1>4. QED
  BY <1>2, <1>3

\* It fails in the same way.
LEMMA FlipError ==
  ASSUME NEW unit \in Seq(Characters), Plain(unit)
  PROVE  UnitError(Flip(unit)) = UnitError(unit)
<1>1. CASE Body(unit) # <<>>
  BY <1>1, FlipBody DEF UnitError, Plain
<1>2. CASE Body(unit) = <<>>
  <2>1. Negated(unit) /\ unit[1] = "-" /\ Tail(unit) = <<>>
    BY <1>2 DEF Plain, Body, Negated
  <2>2. UnitError(Flip(unit)) = "InvalidName"
    BY <2>1 DEF Flip, UnitError, Plain
  <2>3. ~Opened(<<>>) /\ ~Listed(<<>>) /\ NameEnd(<<>>) = 1
    BY DEF Opened, Listed, NameEnd, Places
  <2>4. Name(<<>>) = <<>>
    BY <2>3, SubSeqEmpty DEF Name
  <2>5. UnitError(unit) = "InvalidName"
    BY <1>2, <2>1, <2>3, <2>4, WideAssumption DEF UnitError, Plain
  <2>6. QED
    BY <2>2, <2>5
<1>3. QED
  BY <1>1, <1>2

\* And it is the same step under --reverse as the unit without.
LEMMA FlipStep ==
  ASSUME NEW unit \in Seq(Characters), Plain(unit), UnitError(unit) = "none"
  PROVE  ParseUnit(unit, "reverse") = ParseUnit(Flip(unit), "forward")
<1>1. Body(unit) # <<>>
  <2>1. SUFFICES ASSUME Body(unit) = <<>> PROVE FALSE
    OBVIOUS
  <2>2. Name(<<>>) = <<>>
    <3>1. NameEnd(<<>>) = 1
      BY DEF Opened, Listed, NameEnd, Places
    <3>2. QED
      BY <3>1, SubSeqEmpty DEF Name
  <2>3. QED
    BY <2>1, <2>2 DEF UnitError
<1>2. UnitDirection(unit, "reverse") = UnitDirection(Flip(unit), "forward")
  BY <1>1, FlipBody DEF UnitDirection, Invert
<1>3. QED
  BY <1>1, <1>2, FlipBody DEF ParseUnit

\* --reverse makes of a list of units the steps and the errors of the units
\* with the other signs (chain/mod.rs:119-148), for lists of every length: the
\* half of Mirrors that is about the units.  EveryTextMirrors has the other one,
\* that parse turns the list around.
THEOREM ReverseFlips ==
  ASSUME NEW units \in Seq(Seq(Characters)), AllPlain(units)
  PROVE  /\ ErrorOf(units) = ErrorOf(FlipAll(units))
         /\ ErrorOf(units) = "none" =>
              StepsOf(units, "reverse") = StepsOf(FlipAll(units), "forward")
<1>1. DOMAIN FlipAll(units) = DOMAIN units
      /\ \A k \in DOMAIN units : FlipAll(units)[k] = Flip(units[k])
  BY DEF FlipAll
<1>2. \A k \in DOMAIN units : units[k] \in Seq(Characters) /\ Plain(units[k])
  BY DEF AllPlain
<1>3. \A k \in DOMAIN units : UnitError(FlipAll(units)[k]) = UnitError(units[k])
  BY <1>1, <1>2, FlipError
<1>4. [k \in DOMAIN units |-> UnitError(units[k])]
        = [k \in DOMAIN FlipAll(units) |-> UnitError(FlipAll(units)[k])]
  BY <1>1, <1>3
<1>5. ErrorOf(units) = ErrorOf(FlipAll(units))
  BY <1>4 DEF ErrorOf
<1>6. ASSUME ErrorOf(units) = "none"
      PROVE  StepsOf(units, "reverse") = StepsOf(FlipAll(units), "forward")
  <2> DEFINE errors == [k \in DOMAIN units |-> UnitError(units[k])]
             wrong == {k \in DOMAIN errors : errors[k] # "none"}
  <2>1. ASSUME wrong # {} PROVE FALSE
    <3>1. wrong \in SUBSET Nat
      OBVIOUS
    <3>2. PICK first \in wrong : \A j \in wrong : first <= j
      BY <2>1, <3>1, HasLeast
    <3>3. FirstError(errors) = errors[CHOOSE k \in wrong : \A j \in wrong : k <= j]
      BY <2>1 DEF FirstError
    <3>4. (CHOOSE k \in wrong : \A j \in wrong : k <= j) \in wrong
      BY <3>2
    <3>5. QED
      BY <1>6, <3>3, <3>4 DEF ErrorOf
  <2>2. \A k \in DOMAIN units : UnitError(units[k]) = "none"
    BY <2>1
  <2>3. \A k \in DOMAIN units :
          ParseUnit(units[k], "reverse") = ParseUnit(FlipAll(units)[k], "forward")
    BY <1>1, <1>2, <2>2, FlipStep
  <2>4. QED
    BY <1>1, <2>3 DEF StepsOf
<1>7. QED
  BY <1>5, <1>6

----------------------------------------------------------------------------
(***************************************************************************)
(* A comma and parentheses.                                                *)
(***************************************************************************)
LEMMA FirstPlaceIs ==
  ASSUME NEW text \in Seq(Characters), NEW c, Places(text, c) # {}
  PROVE  /\ FirstPlace(text, c) \in Places(text, c)
         /\ \A j \in Places(text, c) : FirstPlace(text, c) <= j
<1>1. Places(text, c) \in SUBSET Nat
  BY DEF Places
<1>2. PICK first \in Places(text, c) : \A j \in Places(text, c) : first <= j
  BY <1>1, HasLeast
<1>3. QED
  BY <1>2 DEF FirstPlace

\* What InParentheses makes of a body whose parameters are behind the comma at
\* place e: the comma is replaced, and a character comes at the end.
Rewritten(body, e) ==
  SubSeq(body, 1, e - 1) \o <<"(">> \o Skip(body, e) \o <<")">>

\* Three facts about sequences, in the form in which they are needed below.
LEMMA Joined ==
  ASSUME NEW s \in Seq(Characters), NEW t \in Seq(Characters)
  PROVE  /\ s \o t \in Seq(Characters)
         /\ Len(s \o t) = Len(s) + Len(t)
         /\ \A i \in 1 .. Len(s) + Len(t) :
              (s \o t)[i] = IF i <= Len(s) THEN s[i] ELSE t[i - Len(s)]
BY ConcatProperties

LEMMA Prefix ==
  ASSUME NEW s \in Seq(Characters), NEW n \in 0 .. Len(s)
  PROVE  /\ SubSeq(s, 1, n) \in Seq(Characters)
         /\ Len(SubSeq(s, 1, n)) = n
         /\ \A i \in 1 .. n : SubSeq(s, 1, n)[i] = s[i]
<1>1. \A i \in 1 .. n : s[i] \in Characters
  OBVIOUS
<1>2. QED
  BY <1>1, SubSeqProperties

LEMMA Suffix ==
  ASSUME NEW s \in Seq(Characters), NEW e \in 1 .. Len(s)
  PROVE  /\ SubSeq(s, e + 1, Len(s)) \in Seq(Characters)
         /\ Len(SubSeq(s, e + 1, Len(s))) = Len(s) - e
         /\ \A i \in 1 .. Len(s) - e : SubSeq(s, e + 1, Len(s))[i] = s[e + i]
<1>1. \A i \in e + 1 .. Len(s) : s[i] \in Characters
  OBVIOUS
<1>2. QED
  BY <1>1, SubSeqProperties

LEMMA One ==
  ASSUME NEW S, NEW c \in S
  PROVE  <<c>> \in Seq(S) /\ Len(<<c>>) = 1 /\ <<c>>[1] = c
OBVIOUS

LEMMA RewrittenIs ==
  ASSUME NEW body \in Seq(Characters), NEW e \in 1 .. Len(body)
  PROVE  /\ Rewritten(body, e) \in Seq(Characters)
         /\ Len(Rewritten(body, e)) = Len(body) + 1
         /\ \A i \in 1 .. Len(body) : Rewritten(body, e)[i] = IF i = e THEN "(" ELSE body[i]
         /\ Rewritten(body, e)[Len(body) + 1] = ")"
<1> DEFINE name == SubSeq(body, 1, e - 1)
           rest == SubSeq(body, e + 1, Len(body))
           open == <<"(">>
           close == <<")">>
           start == name \o open
           both == start \o rest
           new == both \o close
<1>1. /\ name \in Seq(Characters) /\ Len(name) = e - 1
      /\ \A i \in 1 .. e - 1 : name[i] = body[i]
  BY Prefix
<1>2. /\ rest \in Seq(Characters) /\ Len(rest) = Len(body) - e
      /\ \A i \in 1 .. Len(body) - e : rest[i] = body[e + i]
  BY Suffix
<1>3. /\ open \in Seq(Characters) /\ Len(open) = 1 /\ open[1] = "("
      /\ close \in Seq(Characters) /\ Len(close) = 1 /\ close[1] = ")"
  <2>1. "(" \in Characters /\ ")" \in Characters
    BY DEF Characters
  <2>2. open \in Seq(Characters) /\ Len(open) = 1 /\ open[1] = "("
    BY ONLY <2>1, One
  <2>3. close \in Seq(Characters) /\ Len(close) = 1 /\ close[1] = ")"
    BY ONLY <2>1, One
  <2>4. QED
    BY <2>2, <2>3
<1>4. Rewritten(body, e) = new
  BY DEF Rewritten, Skip
<1> HIDE DEF name, rest, open, close
<1>5. /\ start \in Seq(Characters) /\ Len(start) = Len(name) + Len(open)
      /\ \A i \in 1 .. Len(name) + Len(open) :
           start[i] = IF i <= Len(name) THEN name[i] ELSE open[i - Len(name)]
  BY <1>1, <1>3, Joined
<1> HIDE DEF start
<1>6. Len(start) = e /\ \A i \in 1 .. e : start[i] = IF i = e THEN "(" ELSE body[i]
  BY <1>1, <1>3, <1>5
<1>7. /\ both \in Seq(Characters) /\ Len(both) = Len(start) + Len(rest)
      /\ \A i \in 1 .. Len(start) + Len(rest) :
           both[i] = IF i <= Len(start) THEN start[i] ELSE rest[i - Len(start)]
  BY <1>2, <1>5, Joined
<1> HIDE DEF both
<1>8. /\ Len(both) = Len(body)
      /\ \A i \in 1 .. Len(body) : both[i] = IF i = e THEN "(" ELSE body[i]
  <2>1. Len(both) = Len(body)
    BY <1>2, <1>6, <1>7
  <2>2. ASSUME NEW i \in 1 .. Len(body) PROVE both[i] = IF i = e THEN "(" ELSE body[i]
    <3>1. CASE i <= e
      BY <1>6, <1>7, <2>1, <3>1
    <3>2. CASE ~(i <= e)
      <4>1. i - e \in 1 .. Len(body) - e /\ e + (i - e) = i
        BY <3>2
      <4>2. both[i] = rest[i - e]
        BY <1>6, <1>7, <2>1, <3>2
      <4>3. QED
        BY <1>2, <3>2, <4>1, <4>2
    <3>3. QED
      BY <3>1, <3>2
  <2>3. QED
    BY <2>1, <2>2
<1>9. /\ new \in Seq(Characters) /\ Len(new) = Len(both) + Len(close)
      /\ \A i \in 1 .. Len(both) + Len(close) :
           new[i] = IF i <= Len(both) THEN both[i] ELSE close[i - Len(both)]
  BY <1>3, <1>7, Joined
<1> HIDE DEF new
<1>10. Len(new) = Len(body) + 1 /\ new[Len(body) + 1] = ")"
  <2>1. Len(body) + 1 \in 1 .. Len(both) + Len(close) /\ ~(Len(body) + 1 <= Len(both))
    BY <1>3, <1>8
  <2>2. new[Len(body) + 1] = close[Len(body) + 1 - Len(both)]
    BY <1>9, <2>1
  <2>3. Len(body) + 1 - Len(both) = 1
    BY <1>8
  <2>4. QED
    BY <1>3, <1>8, <1>9, <2>2, <2>3
<1>11. ASSUME NEW i \in 1 .. Len(body) PROVE new[i] = IF i = e THEN "(" ELSE body[i]
  <2>1. i \in 1 .. Len(both) + Len(close) /\ i <= Len(both)
    BY <1>3, <1>8
  <2>2. QED
    BY <1>8, <1>9, <2>1
<1>12. QED
  BY <1>4, <1>9, <1>10, <1>11

\* The body with parentheses has the same name and the same parameters.
LEMMA SameParts ==
  ASSUME NEW body \in Seq(Characters), Listed(body), Name(body) # <<>>
  PROVE  LET e == NameEnd(body) IN
         /\ e \in 2 .. Len(body)
         /\ Opened(Rewritten(body, e))
         /\ Name(Rewritten(body, e)) = Name(body)
         /\ Parameters(Rewritten(body, e)) = Parameters(body)
         /\ Last(Rewritten(body, e)) = ")"
<1> DEFINE e == NameEnd(body)
           new == Rewritten(body, e)
<1>1. ~Opened(body) /\ Places(body, ",") # {} /\ e = FirstPlace(body, ",")
  BY DEF Listed, NameEnd
<1>12. Name(body) = SubSeq(body, 1, e - 1)
  BY DEF Name
<1> HIDE DEF e
<1>2. e \in 1 .. Len(body)
  <2>1. e \in Places(body, ",")
    BY <1>1, FirstPlaceIs
  <2>2. e \in DOMAIN body
    BY <2>1 DEF Places
  <2>3. QED
    BY <2>2
<1>3. e # 1
  BY <1>12, SubSeqEmpty
<1>4. /\ new \in Seq(Characters) /\ Len(new) = Len(body) + 1
      /\ \A i \in 1 .. Len(body) : new[i] = IF i = e THEN "(" ELSE body[i]
      /\ new[Len(body) + 1] = ")"
  BY <1>2, RewrittenIs
<1>5. ASSUME NEW i \in 1 .. Len(body) PROVE body[i] # "("
  <2>1. i \in DOMAIN body
    OBVIOUS
  <2>2. QED
    BY <1>1, <2>1 DEF Opened, Places
<1> HIDE DEF new
<1>6. Places(new, "(") = {e}
  <2>1. DOMAIN new = 1 .. Len(body) + 1 /\ e \in 1 .. Len(body) + 1
    BY <1>2, <1>4
  <2>2. ASSUME NEW i \in 1 .. Len(body) + 1 PROVE new[i] = "(" <=> i = e
    BY <1>2, <1>4, <1>5
  <2>3. QED
    BY <2>1, <2>2 DEF Places
<1>7. Opened(new) /\ NameEnd(new) = e
  <2>1. FirstPlace(new, "(") = e
    <3>1. Places(new, "(") # {}
      BY <1>6
    <3>2. FirstPlace(new, "(") \in Places(new, "(")
      BY <1>4, <3>1, FirstPlaceIs
    <3>3. QED
      BY <1>6, <3>2
  <2>2. Opened(new) /\ ~Listed(new)
    BY <1>6 DEF Opened, Listed
  <2>3. NameEnd(new) = FirstPlace(new, "(")
    BY <2>2, Zenon DEF NameEnd
  <2>4. QED
    BY <2>1, <2>2, <2>3
<1>8. Name(new) = Name(body)
  <2>1. Name(new) = SubSeq(new, 1, e - 1) /\ Name(body) = SubSeq(body, 1, e - 1)
    BY <1>7 DEF Name, e
  <2>2. \A i \in 1 .. e - 1 : new[i] = body[i] /\ body[i] \in Characters
    BY <1>2, <1>4
  <2>3. SubSeq(new, 1, e - 1) = SubSeq(body, 1, e - 1)
    BY <1>2, <1>4, <2>2, SubSeqProperties, SeqEqual
  <2>4. QED
    BY <2>1, <2>3
<1>9. Parameters(new) = Parameters(body)
  <2>1. Parameters(new) = SubSeq(new, e + 1, Len(body))
    <3>1. Parameters(new) = SubSeq(new, e + 1, Len(new) - 1)
      BY <1>7 DEF Parameters
    <3>2. Len(new) - 1 = Len(body)
      BY <1>4
    <3>3. QED
      BY <3>1, <3>2
  <2>2. Parameters(body) = SubSeq(body, e + 1, Len(body))
    BY <1>1 DEF Parameters, e
  <2>3. \A i \in e + 1 .. Len(body) : new[i] = body[i] /\ body[i] \in Characters
    BY <1>2, <1>4
  <2>4. SubSeq(new, e + 1, Len(body)) = SubSeq(body, e + 1, Len(body))
    BY <1>2, <1>4, <2>3, SubSeqProperties, SeqEqual
  <2>5. QED
    BY <2>1, <2>2, <2>4
<1>10. Last(new) = ")"
  BY <1>4 DEF Last
<1>11. QED
  BY <1>2, <1>3, <1>7, <1>8, <1>9, <1>10 DEF new, e

LEMMA BodyIsText ==
  ASSUME NEW unit \in Seq(Characters), unit # <<>>
  PROVE  Body(unit) \in Seq(Characters)
<1>1. Tail(unit) \in Seq(Characters)
  OBVIOUS
<1>2. QED
  BY <1>1, Zenon DEF Body

\* A unit with a comma and the unit with parentheses in its place are the same
\* step (chain/mod.rs:150-196), whatever its name and its parameters are.
THEOREM CommaOrParentheses ==
  ASSUME NEW unit \in Seq(Characters)
  PROVE  SameUnit(unit)
<1> DEFINE body == Body(unit)
           e == NameEnd(body)
           new == Rewritten(body, e)
           other == InParentheses(unit)
<1>1. SUFFICES ASSUME UnitError(unit) = "none", Listed(body)
               PROVE  /\ UnitError(other) = "none"
                      /\ ParseUnit(other, "forward") = ParseUnit(unit, "forward")
  BY DEF SameUnit
<1>2. unit # <<>> /\ unit[1] \notin Wide /\ Name(body) # <<>>
  <2>1. unit # <<>>
    BY <1>1, Zenon DEF UnitError
  <2>2. unit[1] \notin Wide
    BY <1>1, <2>1 DEF UnitError
  <2>3. Name(body) # <<>>
    BY <1>1, <2>1, <2>2 DEF UnitError
  <2>4. QED
    BY <2>1, <2>2, <2>3
<1>3. body \in Seq(Characters)
  BY <1>2, BodyIsText
<1>4. other = Sign(unit) \o new
  BY DEF InParentheses, Enclosed, Rewritten, Name
<1> HIDE DEF other
<1>5. /\ e \in 2 .. Len(body)
      /\ Opened(new)
      /\ Name(new) = Name(body)
      /\ Parameters(new) = Parameters(body)
      /\ Last(new) = ")"
  BY <1>1, <1>2, <1>3, SameParts
<1>6. new \in Seq(Characters) /\ new[1] = body[1] /\ Len(new) # 0
  <2>1. e \in 1 .. Len(body) /\ 1 \in 1 .. Len(body) /\ e # 1
    BY <1>3, <1>5
  <2>2. QED
    BY <1>3, <2>1, RewrittenIs
<1>7. /\ other # <<>>
      /\ other[1] \notin Wide
      /\ Negated(other) <=> Negated(unit)
      /\ Body(other) = new
  <2> HIDE DEF new
  <2>1. CASE Negated(unit)
    <3>1. other = <<"-">> \o new
      BY <1>4, <2>1 DEF Sign
    <3>2. other[1] = "-" /\ Tail(other) = new /\ other # <<>>
      BY <1>6, <3>1
    <3>3. QED
      BY <2>1, <3>2, WideAssumption DEF Negated, Body
  <2>2. CASE ~Negated(unit)
    <3>1. other = <<>> \o new
      BY <1>4, <2>2 DEF Sign
    <3>2. other = new
      BY <1>6, <3>1
    <3>3. body = unit
      BY <2>2 DEF Body
    <3>4. QED
      BY <1>2, <1>6, <2>2, <3>2, <3>3 DEF Negated, Body
  <2>3. QED
    BY <2>1, <2>2
<1>8. UnitError(other) = "none"
  <2> HIDE DEF new
  <2>1. ~Listed(new)
    BY <1>5 DEF Listed
  <2>2. QED
    BY <1>2, <1>5, <1>7, <2>1, WideAssumption DEF UnitError
<1>9. ParseUnit(other, "forward") = ParseUnit(unit, "forward")
  <2> HIDE DEF new
  <2>1. UnitDirection(other, "forward") = UnitDirection(unit, "forward")
    BY <1>7 DEF UnitDirection
  <2>2. QED
    BY <1>1, <1>5, <1>7, <2>1 DEF ParseUnit
<1>10. QED
  BY <1>8, <1>9

----------------------------------------------------------------------------
(***************************************************************************)
(* A chain put together from units is split into the same units again.     *)
(***************************************************************************)
Rises(f, n) == \A i, j \in 0 .. n : i < j => f[i] < f[j]

\* What rises at each step rises.
LEMMA StepsRise ==
  ASSUME NEW n \in Nat, NEW f \in [0 .. n -> Nat],
         \A k \in 1 .. n : f[k - 1] < f[k]
  PROVE  Rises(f, n)
<1> SUFFICES ASSUME NEW i \in 0 .. n PROVE \A j \in 0 .. n : i < j => f[i] < f[j]
  BY DEF Rises
<1> DEFINE bad == {j \in 0 .. n : i < j /\ ~(f[i] < f[j])}
<1>1. SUFFICES ASSUME bad # {} PROVE FALSE
  OBVIOUS
<1>2. bad \in SUBSET Nat
  OBVIOUS
<1>3. PICK j \in bad : \A m \in bad : j <= m
  BY <1>1, <1>2, HasLeast
<1>4. j \in 1 .. n /\ j - 1 \in 0 .. n /\ i < j
  BY <1>3
<1> HIDE DEF bad
<1>8. j - 1 \notin bad
  <2>1. ~(j <= j - 1)
    BY <1>4
  <2>2. QED
    BY <1>3, <2>1
<1> USE DEF bad
<1>5. f[i] \in Nat /\ f[j - 1] \in Nat /\ f[j] \in Nat /\ f[j - 1] < f[j]
  BY <1>4
<1>6. f[i] = f[j - 1] \/ f[i] < f[j - 1]
  <2>1. i = j - 1 \/ f[i] < f[j - 1]
    BY <1>4, <1>8
  <2>2. QED
    BY <2>1
<1>7. f[i] < f[j]
  BY <1>5, <1>6
<1>9. QED
  BY <1>3, <1>7

\* The first k values of a function, which are as many as k if it rises.
FirstValues(f, k) == {f[i] : i \in 0 .. k - 1}
Counted(f, k) == IsFiniteSet(FirstValues(f, k)) /\ Cardinality(FirstValues(f, k)) = k

LEMMA NextValue ==
  ASSUME NEW n \in Nat, NEW f \in [0 .. n -> Nat], Rises(f, n),
         NEW k \in 0 .. n, Counted(f, k)
  PROVE  Counted(f, k + 1)
<1>1. FirstValues(f, k + 1) = FirstValues(f, k) \cup {f[k]}
  <2>1. \A i : i \in 0 .. (k + 1) - 1 <=> i \in 0 .. k - 1 \/ i = k
    OBVIOUS
  <2>2. QED
    BY <2>1 DEF FirstValues
<1>2. f[k] \notin FirstValues(f, k)
  <2>1. ASSUME NEW i \in 0 .. k - 1 PROVE f[i] # f[k]
    <3>1. f[i] < f[k] /\ f[i] \in Nat /\ f[k] \in Nat
      BY DEF Rises
    <3>2. QED
      BY <3>1
  <2>2. QED
    BY <2>1 DEF FirstValues
<1>3. IsFiniteSet(FirstValues(f, k)) /\ Cardinality(FirstValues(f, k)) = k
  BY DEF Counted
<1>4. IsFiniteSet(FirstValues(f, k + 1)) /\ Cardinality(FirstValues(f, k + 1)) = k + 1
  <2> DEFINE more == FirstValues(f, k) \cup {f[k]}
  <2>1. IsFiniteSet(more) /\ Cardinality(more) = k + 1
    <3>1. /\ IsFiniteSet(more)
          /\ Cardinality(more) = IF f[k] \in FirstValues(f, k) THEN Cardinality(FirstValues(f, k))
                                ELSE Cardinality(FirstValues(f, k)) + 1
      BY <1>3, FS_AddElement, Zenon
    <3>2. QED
      BY <1>2, <1>3, <3>1
  <2>2. QED
    BY <1>1, <2>1
<1>5. QED
  BY <1>4 DEF Counted

LEMMA AllCounted ==
  ASSUME NEW n \in Nat, NEW f \in [0 .. n -> Nat], Rises(f, n)
  PROVE  \A k \in 0 .. n + 1 : Counted(f, k)
<1> DEFINE bad == {k \in 0 .. n + 1 : ~Counted(f, k)}
<1>1. SUFFICES ASSUME bad # {} PROVE FALSE
  OBVIOUS
<1>2. bad \in SUBSET Nat
  OBVIOUS
<1>3. PICK k \in bad : \A m \in bad : k <= m
  BY <1>1, <1>2, HasLeast
<1>4. Counted(f, 0)
  <2>1. FirstValues(f, 0) = {}
    BY DEF FirstValues
  <2>2. QED
    BY <2>1, FS_EmptySet DEF Counted
<1>5. k # 0
  BY <1>3, <1>4
<1>6. k - 1 \in 0 .. n /\ k - 1 \in 0 .. n + 1 /\ k - 1 \notin bad /\ (k - 1) + 1 = k
  BY <1>3, <1>5
<1>7. Counted(f, k - 1)
  BY <1>6
<1>8. Counted(f, (k - 1) + 1)
  BY <1>6, <1>7, NextValue
<1>9. QED
  BY <1>3, <1>6, <1>8

\* The k-th of the values of a function that rises is the value at k.
LEMMA NthIs ==
  ASSUME NEW n \in Nat, NEW f \in [0 .. n -> Nat], Rises(f, n),
         NEW S, S = {f[i] : i \in 0 .. n}
  PROVE  /\ Cardinality(S) = n + 1
         /\ \A k \in 0 .. n : Nth(S, k) = f[k]
<1>1. Cardinality(S) = n + 1
  <2>1. (n + 1) - 1 = n /\ n + 1 \in 0 .. n + 1
    OBVIOUS
  <2>2. S = FirstValues(f, n + 1)
    BY <2>1 DEF FirstValues
  <2>3. Counted(f, n + 1)
    BY <2>1, AllCounted
  <2>4. QED
    BY <2>2, <2>3 DEF Counted
<1>2. ASSUME NEW k \in 0 .. n PROVE Rank(S, f[k]) = k
  <2>1. ASSUME NEW i \in 0 .. n PROVE f[i] < f[k] <=> i \in 0 .. k - 1
    <3>1. f[i] \in Nat /\ f[k] \in Nat /\ (i < k => f[i] < f[k]) /\ (k < i => f[k] < f[i])
      BY DEF Rises
    <3>2. i = k => f[i] = f[k]
      OBVIOUS
    <3>3. QED
      BY <3>1, <3>2
  <2>2. {j \in S : j < f[k]} = FirstValues(f, k)
    <3>1. \A i \in 0 .. k - 1 : i \in 0 .. n
      OBVIOUS
    <3>2. QED
      BY <2>1, <3>1 DEF FirstValues
  <2>3. Counted(f, k)
    <3>1. k \in 0 .. n + 1
      OBVIOUS
    <3>2. QED
      BY <3>1, AllCounted
  <2>4. QED
    BY <2>2, <2>3 DEF Rank, Counted
<1>3. ASSUME NEW k \in 0 .. n PROVE Nth(S, k) = f[k]
  <2>1. f[k] \in S /\ Rank(S, f[k]) = k
    BY <1>2
  <2>2. ASSUME NEW i \in S, Rank(S, i) = k PROVE i = f[k]
    <3>1. PICK m \in 0 .. n : i = f[m]
      OBVIOUS
    <3>2. QED
      BY <1>2, <2>2, <3>1
  <2>3. Nth(S, k) = CHOOSE i \in S : Rank(S, i) = k
    BY DEF Nth, Rank
  <2>4. QED
    BY <2>1, <2>2, <2>3
<1>4. QED
  BY <1>1, <1>3

\* Units without a separator in them.
Clean(P, c) == \A k \in DOMAIN P : \A p \in DOMAIN P[k] : P[k][p] # c

\* What Join puts together one behind the other, and what the first k make.
Row(P, c) == [k \in DOMAIN P |-> IF k = 1 THEN P[k] ELSE <<c>> \o P[k]]
Joins(g, P, c) == Flattens(g, Row(P, c), Len(P))
\* Where the separators behind the first k are; in front of the first there is one.
End(g, k) == IF k = 0 THEN 0 ELSE Len(g[k]) + 1

\* A unit is put behind those before it.
Behind(g, P, c, k) == g[k] = IF k = 1 THEN P[1] ELSE g[k - 1] \o (<<c>> \o P[k])

LEMMA JoinStep ==
  ASSUME NEW c, NEW P \in Seq(Seq(Characters)), NEW g, Joins(g, P, c), NEW k \in 1 .. Len(P)
  PROVE  Behind(g, P, c, k)
<1>1. Len(P) \in Nat /\ DOMAIN P = 1 .. Len(P)
  OBVIOUS
<1>2. g = [i \in 1 .. Len(P) |-> IF i = 1 THEN Row(P, c)[i] ELSE g[i - 1] \o Row(P, c)[i]]
  BY Zenon DEF Joins, Flattens
<1>3. g[k] = IF k = 1 THEN Row(P, c)[k] ELSE g[k - 1] \o Row(P, c)[k]
  BY <1>2
<1>4. Row(P, c)[k] = IF k = 1 THEN P[k] ELSE <<c>> \o P[k]
  BY <1>1 DEF Row
<1>5. QED
  BY <1>3, <1>4 DEF Behind

\* u is s, a c, and t: its length, and what is at each of its places.
IsBetween(u, s, c, t) ==
  /\ u \in Seq(Characters)
  /\ Len(u) = Len(s) + 1 + Len(t)
  /\ \A i \in 1 .. Len(s) : u[i] = s[i]
  /\ u[Len(s) + 1] = c
  /\ \A p \in 1 .. Len(t) : u[Len(s) + 1 + p] = t[p]

\* Of three texts put together, what is at each place.
LEMMA Between3 ==
  ASSUME NEW c \in Characters, NEW s \in Seq(Characters), NEW t \in Seq(Characters)
  PROVE  IsBetween(s \o (<<c>> \o t), s, c, t)
<1> DEFINE v == <<c>> \o t
           u == s \o v
<1>1. <<c>> \in Seq(Characters) /\ Len(<<c>>) = 1 /\ <<c>>[1] = c
  BY One
<1> DEFINE one == <<c>>
<1> HIDE DEF one
<1>2. /\ v \in Seq(Characters) /\ Len(v) = 1 + Len(t)
      /\ \A i \in 1 .. 1 + Len(t) : v[i] = IF i <= 1 THEN c ELSE t[i - 1]
  <2>1. one \in Seq(Characters) /\ Len(one) = 1 /\ one[1] = c
    BY <1>1 DEF one
  <2>2. /\ one \o t \in Seq(Characters) /\ Len(one \o t) = Len(one) + Len(t)
        /\ \A i \in 1 .. Len(one) + Len(t) :
             (one \o t)[i] = IF i <= Len(one) THEN one[i] ELSE t[i - Len(one)]
    BY <2>1, Joined
  <2>3. v = one \o t
    BY DEF one
  <2> HIDE DEF v
  <2>4. QED
    BY <2>1, <2>2, <2>3
<1> HIDE DEF v
<1>3. /\ u \in Seq(Characters) /\ Len(u) = Len(s) + Len(v)
      /\ \A i \in 1 .. Len(s) + Len(v) :
           u[i] = IF i <= Len(s) THEN s[i] ELSE v[i - Len(s)]
  BY <1>2, Joined
<1> HIDE DEF u
<1>4. Len(s) \in Nat /\ Len(t) \in Nat
  BY LenProperties
<1>5. \A i \in 1 .. Len(s) : u[i] = s[i]
  BY <1>2, <1>3, <1>4
<1>6. ASSUME NEW i \in 1 .. 1 + Len(t) PROVE u[Len(s) + i] = v[i]
  <2>1. Len(s) + i \in 1 .. Len(s) + Len(v) /\ ~(Len(s) + i <= Len(s)) /\ Len(s) + i - Len(s) = i
    BY <1>2, <1>4
  <2>2. QED
    BY <1>3, <2>1
<1>7. u[Len(s) + 1] = c
  <2>1. 1 \in 1 .. 1 + Len(t)
    BY <1>4
  <2>2. QED
    BY <1>2, <1>6, <2>1
<1>8. ASSUME NEW p \in 1 .. Len(t) PROVE u[Len(s) + 1 + p] = t[p]
  <2>1. 1 + p \in 1 .. 1 + Len(t) /\ ~(1 + p <= 1) /\ (1 + p) - 1 = p
        /\ Len(s) + 1 + p = Len(s) + (1 + p)
    BY <1>4
  <2>2. QED
    BY <1>2, <1>6, <2>1
<1>9. IsBetween(u, s, c, t)
  <2>1. u \in Seq(Characters) /\ Len(u) = Len(s) + 1 + Len(t)
    BY <1>2, <1>3, <1>4
  <2>2. QED
    BY <2>1, <1>5, <1>7, <1>8 DEF IsBetween
<1>10. QED
  BY <1>9 DEF u, v

\* The first k are a text, in which the separators are at the ends, and each of
\* the units is behind the end of the one before.
Laid(g, P, c, k) ==
  /\ g[k] \in Seq(Characters)
  /\ End(g, k) = End(g, k - 1) + Len(P[k]) + 1
  /\ \A i \in 1 .. Len(g[k]) : g[k][i] = c <=> \E m \in 1 .. k - 1 : i = End(g, m)
  /\ \A m \in 1 .. k : \A p \in 1 .. Len(P[m]) : g[k][End(g, m - 1) + p] = P[m][p]
LaidTo(g, P, c, n) == \A k \in 1 .. n : Laid(g, P, c, k)

Ends(g, n) == [k \in 0 .. n |-> End(g, k)]

\* The ends of more units are further behind.
LEMMA EndsRise ==
  ASSUME NEW c, NEW P \in Seq(Seq(Characters)), NEW g, NEW n \in 0 .. Len(P), LaidTo(g, P, c, n)
  PROVE  Ends(g, n) \in [0 .. n -> Nat] /\ Rises(Ends(g, n), n)
<1>1. ASSUME NEW k \in 0 .. n PROVE End(g, k) \in Nat
  <2>1. k # 0 => Laid(g, P, c, k)
    <3>1. k # 0 => k \in 1 .. n
      OBVIOUS
    <3>2. QED
      BY <3>1 DEF LaidTo
  <2>2. k # 0 => Len(g[k]) \in Nat
    <3>1. Laid(g, P, c, k) => g[k] \in Seq(Characters)
      BY DEF Laid
    <3>2. QED
      BY <2>1, <3>1, LenProperties
  <2>3. QED
    BY <2>2 DEF End
<1>2. Ends(g, n) \in [0 .. n -> Nat]
  BY <1>1 DEF Ends
<1>3. ASSUME NEW k \in 1 .. n PROVE Ends(g, n)[k - 1] < Ends(g, n)[k]
  <2>1. k \in 0 .. n /\ k - 1 \in 0 .. n /\ P[k] \in Seq(Characters)
    OBVIOUS
  <2>2. Ends(g, n)[k] = End(g, k) /\ Ends(g, n)[k - 1] = End(g, k - 1)
    BY <2>1 DEF Ends
  <2>3. End(g, k) = End(g, k - 1) + Len(P[k]) + 1
    BY DEF LaidTo, Laid
  <2>4. End(g, k) \in Nat /\ End(g, k - 1) \in Nat /\ Len(P[k]) \in Nat
    BY <1>1, <2>1, LenProperties
  <2>5. QED
    BY <2>2, <2>3, <2>4
<1>4. Rises(Ends(g, n), n)
  <2>1. n \in Nat /\ \A k \in 1 .. n : Ends(g, n)[k - 1] < Ends(g, n)[k]
    BY <1>3
  <2>2. QED
    BY <1>2, <2>1, StepsRise, Zenon
<1>5. QED
  BY <1>2, <1>4

\* One unit more.
LEMMA LaidNext ==
  ASSUME NEW c \in Characters, NEW P \in Seq(Seq(Characters)), Clean(P, c),
         NEW g, Joins(g, P, c), NEW n \in 1 .. Len(P) - 1, LaidTo(g, P, c, n)
  PROVE  Laid(g, P, c, n + 1)
<1> DEFINE s == g[n]
           k == n + 1
           t == P[k]
           u == g[k]
           before == End(g, n)
<1>1. k \in 1 .. Len(P) /\ k # 1 /\ k - 1 = n /\ n \in 0 .. Len(P) /\ n # 0 /\ n \in 1 .. n
  OBVIOUS
<1>2. t \in Seq(Characters) /\ Laid(g, P, c, n)
  BY <1>1 DEF LaidTo
<1>3. s \in Seq(Characters) /\ before = Len(s) + 1 /\ Len(s) \in Nat /\ Len(t) \in Nat
  <2>1. s \in Seq(Characters)
    BY <1>2 DEF Laid
  <2>2. QED
    BY <1>1, <1>2, <2>1, LenProperties DEF End
<1>4. u = s \o (<<c>> \o t)
  <2> HIDE DEF k
  <2>1. Behind(g, P, c, k)
    BY <1>1, JoinStep
  <2>2. g[k] = g[k - 1] \o (<<c>> \o P[k])
    BY <1>1, <2>1 DEF Behind
  <2>3. QED
    BY <1>1, <2>2
<1> HIDE DEF s, t, u
<1>5. /\ u \in Seq(Characters)
      /\ Len(u) = Len(s) + 1 + Len(t)
      /\ \A i \in 1 .. Len(s) : u[i] = s[i]
      /\ u[Len(s) + 1] = c
      /\ \A p \in 1 .. Len(t) : u[Len(s) + 1 + p] = t[p]
  <2>1. IsBetween(s \o (<<c>> \o t), s, c, t)
    BY <1>2, <1>3, Between3
  <2>2. IsBetween(u, s, c, t)
    BY <1>4, <2>1
  <2>3. QED
    BY <2>2 DEF IsBetween
<1>6. End(g, k) = End(g, k - 1) + Len(P[k]) + 1
  <2>1. End(g, k) = Len(u) + 1
    BY <1>1 DEF End, u
  <2>2. QED
    BY <1>1, <1>3, <1>5, <2>1 DEF t
<1>7. ASSUME NEW m \in 1 .. n PROVE End(g, m) \in Nat /\ End(g, m) <= before
  <2>1. Ends(g, n) \in [0 .. n -> Nat] /\ Rises(Ends(g, n), n)
    BY <1>1, EndsRise
  <2>2. m \in 0 .. n /\ n \in 0 .. n
    OBVIOUS
  <2>3. Ends(g, n)[m] = End(g, m) /\ Ends(g, n)[n] = before
    BY <2>2 DEF Ends
  <2>4. m < n => Ends(g, n)[m] < Ends(g, n)[n]
    BY <2>1, <2>2 DEF Rises
  <2>5. End(g, m) \in Nat /\ before \in Nat
    BY <2>1, <2>2, <2>3
  <2>6. m = n => End(g, m) = before
    OBVIOUS
  <2>7. QED
    BY <2>3, <2>4, <2>5, <2>6
<1> HIDE DEF before
<1>8. ASSUME NEW i \in 1 .. Len(u)
      PROVE  u[i] = c <=> \E m \in 1 .. k - 1 : i = End(g, m)
  <2>1. CASE i <= Len(s)
    <3>1. i \in 1 .. Len(s) /\ u[i] = s[i] /\ i # before
      BY <1>3, <1>5, <2>1
    <3>2. s[i] = c <=> \E m \in 1 .. n - 1 : i = End(g, m)
      BY <1>2, <3>1 DEF Laid, s
    <3>3. \A m \in 1 .. n : m = n \/ m \in 1 .. n - 1
      OBVIOUS
    <3>4. \A m \in 1 .. n - 1 : m \in 1 .. n
      OBVIOUS
    <3>5. (\E m \in 1 .. n - 1 : i = End(g, m)) <=> \E m \in 1 .. n : i = End(g, m)
      BY <3>1, <3>3, <3>4 DEF before
    <3>6. QED
      BY <1>1, <3>1, <3>2, <3>5
  <2>2. CASE i = Len(s) + 1
    <3>1. i = End(g, n) /\ u[i] = c
      BY <1>3, <1>5, <2>2 DEF before
    <3>2. QED
      BY <1>1, <3>1
  <2>3. CASE Len(s) + 1 < i
    <3>1. PICK p \in 1 .. Len(t) : i = Len(s) + 1 + p
      <4>1. i - (Len(s) + 1) \in 1 .. Len(t) /\ i = Len(s) + 1 + (i - (Len(s) + 1))
        BY <1>3, <1>5, <2>3
      <4>2. QED
        BY <4>1
    <3>2. u[i] # c
      <4>1. k \in DOMAIN P /\ p \in DOMAIN P[k]
        BY <1>1, <1>2, <3>1 DEF t
      <4>2. P[k][p] # c
        BY <4>1 DEF Clean
      <4>3. QED
        BY <1>5, <3>1, <4>2 DEF t
    <3>3. ASSUME NEW m \in 1 .. n PROVE i # End(g, m)
      BY <1>3, <1>7, <2>3
    <3>4. QED
      BY <1>1, <3>2, <3>3
  <2>4. QED
    BY <1>3, <1>5, <2>1, <2>2, <2>3
<1>9. ASSUME NEW m \in 1 .. k, NEW p \in 1 .. Len(P[m])
      PROVE  u[End(g, m - 1) + p] = P[m][p]
  <2>1. CASE m = k
    <3>1. End(g, m - 1) = Len(s) + 1 /\ p \in 1 .. Len(t) /\ P[m] = t
      BY <1>1, <1>3, <2>1 DEF before, t
    <3>2. u[Len(s) + 1 + p] = t[p]
      BY <1>5, <3>1
    <3>3. QED
      BY <3>1, <3>2
  <2>2. CASE m # k
    <3>1. m \in 1 .. n /\ m \in 1 .. Len(P) /\ m - 1 \in 0 .. n /\ P[m] \in Seq(Characters)
      BY <1>1, <2>2
    <3>2. s[End(g, m - 1) + p] = P[m][p]
      BY <1>2, <3>1 DEF Laid, s
    <3>3. End(g, m) = End(g, m - 1) + Len(P[m]) + 1
      BY <3>1 DEF LaidTo, Laid
    <3>4. End(g, m) <= Len(s) + 1 /\ End(g, m - 1) \in Nat /\ Len(P[m]) \in Nat
      <4>1. m - 1 = 0 => End(g, m - 1) = 0
        BY DEF End
      <4>2. m - 1 # 0 => m - 1 \in 1 .. n
        BY <3>1
      <4>3. End(g, m - 1) \in Nat
        BY <1>7, <4>1, <4>2
      <4>4. QED
        BY <1>3, <1>7, <3>1, <4>3, LenProperties
    <3>5. End(g, m - 1) + p \in 1 .. Len(s)
      <4> DEFINE start == End(g, m - 1)
                 long == Len(P[m])
      <4>1. start \in Nat /\ long \in Nat /\ start + long + 1 <= Len(s) + 1 /\ p \in 1 .. long
        BY <3>3, <3>4
      <4> HIDE DEF start, long
      <4>2. start + p \in 1 .. Len(s)
        BY <1>3, <4>1
      <4>3. QED
        BY <4>2 DEF start
    <3>6. QED
      BY <1>5, <3>2, <3>5
  <2>3. QED
    BY <2>1, <2>2
<1>10. QED
  BY <1>5, <1>6, <1>8, <1>9 DEF Laid, u

\* All of them.
LEMMA AllLaid ==
  ASSUME NEW c \in Characters, NEW P \in Seq(Seq(Characters)), Clean(P, c), P # <<>>,
         NEW g, Joins(g, P, c)
  PROVE  LaidTo(g, P, c, Len(P))
<1> DEFINE bad == {k \in 1 .. Len(P) : ~LaidTo(g, P, c, k)}
<1>1. Len(P) \in Nat /\ Len(P) # 0 /\ Len(P) \in 1 .. Len(P)
  BY EmptySeq
<1>2. SUFFICES ASSUME bad # {} PROVE FALSE
  BY <1>1
<1>3. bad \in SUBSET Nat
  OBVIOUS
<1>4. PICK k \in bad : \A m \in bad : k <= m
  BY <1>2, <1>3, HasLeast
<1>5. Laid(g, P, c, 1)
  <2>1. 1 \in 1 .. Len(P) /\ P[1] \in Seq(Characters)
    BY <1>1
  <2>2. g[1] = P[1]
    <3>1. Behind(g, P, c, 1)
      BY <2>1, JoinStep
    <3>2. QED
      BY <3>1 DEF Behind
  <2>3. End(g, 1) = Len(P[1]) + 1 /\ End(g, 0) = 0 /\ Len(P[1]) \in Nat
    BY <2>1, <2>2, LenProperties DEF End
  <2>4. ASSUME NEW i \in 1 .. Len(g[1]) PROVE g[1][i] # c
    <3>1. 1 \in DOMAIN P /\ i \in DOMAIN P[1]
      BY <2>1, <2>2
    <3>2. QED
      BY <2>2, <3>1 DEF Clean
  <2>5. ASSUME NEW m \in 1 .. 1, NEW p \in 1 .. Len(P[m]) PROVE g[1][End(g, m - 1) + p] = P[m][p]
    <3>1. m = 1 /\ m - 1 = 0 /\ p \in 1 .. Len(P[1]) /\ p \in Nat
      BY <2>3
    <3>2. End(g, m - 1) + p = p
      BY <2>3, <3>1
    <3>3. QED
      BY <2>2, <3>1, <3>2
  <2>6. QED
    BY <2>1, <2>2, <2>3, <2>4, <2>5 DEF Laid
<1>6. k # 1
  <2>1. LaidTo(g, P, c, 1)
    BY <1>5 DEF LaidTo
  <2>2. QED
    BY <1>4, <2>1
<1>7. k - 1 \in 1 .. Len(P) - 1 /\ k - 1 \in 1 .. Len(P) /\ (k - 1) + 1 = k /\ ~(k <= k - 1)
  BY <1>4, <1>6
<1>8. LaidTo(g, P, c, k - 1)
  BY <1>4, <1>7
<1>9. Laid(g, P, c, (k - 1) + 1)
  BY <1>7, <1>8, LaidNext
<1>10. LaidTo(g, P, c, k)
  <2>1. \A m \in 1 .. k : m \in 1 .. k - 1 \/ m = k
    OBVIOUS
  <2>2. QED
    BY <1>7, <1>8, <1>9, <2>1 DEF LaidTo
<1>11. QED
  BY <1>4, <1>10

\* The places at which what was joined is cut.
LEMMA CutsAreEnds ==
  ASSUME NEW c \in Characters, NEW P \in Seq(Seq(Characters)), P # <<>>,
         NEW g, LaidTo(g, P, c, Len(P))
  PROVE  LET T == g[Len(P)]
             f == Ends(g, Len(P))
         IN  {0, Len(T) + 1} \cup Places(T, c) = {f[m] : m \in 0 .. Len(P)}
<1> DEFINE n == Len(P)
           T == g[n]
           f == Ends(g, n)
           cuts == {0, Len(T) + 1} \cup Places(T, c)
           ends == {f[m] : m \in 0 .. n}
<1>1. n \in Nat /\ n # 0
  BY EmptySeq
<1> HIDE DEF n
<1>2. f \in [0 .. n -> Nat] /\ Rises(f, n)
  <2>1. n \in 0 .. Len(P) /\ LaidTo(g, P, c, n)
    BY <1>1 DEF n
  <2>2. QED
    BY <2>1, EndsRise
<1>3. \A m \in 0 .. n : f[m] = End(g, m)
  BY DEF Ends
<1>4. f[0] = 0 /\ f[n] = Len(T) + 1
  BY <1>1, <1>3 DEF End
<1>5. Laid(g, P, c, n)
  BY <1>1 DEF LaidTo, n
<1>6. T \in Seq(Characters) /\ \A i \in 1 .. Len(T) : T[i] = c <=> \E m \in 1 .. n - 1 : i = End(g, m)
  BY <1>5 DEF Laid
<1>7. Len(T) \in Nat /\ DOMAIN T = 1 .. Len(T)
  BY <1>6, LenProperties
<1> HIDE DEF T, f
<1>8. ASSUME NEW m \in 1 .. n - 1 PROVE f[m] \in Places(T, c)
  <2>1. 0 \in 0 .. n /\ m \in 0 .. n /\ n \in 0 .. n /\ 0 < m /\ m < n
    BY <1>1
  <2>2. f[0] < f[m] /\ f[m] < f[n] /\ f[m] \in Nat
    BY <1>2, <2>1 DEF Rises
  <2>3. f[m] \in 1 .. Len(T)
    BY <1>4, <1>7, <2>2
  <2>4. T[f[m]] = c
    BY <1>3, <1>6, <2>1, <2>3
  <2>5. QED
    BY <1>7, <2>3, <2>4 DEF Places
<1>9. ASSUME NEW i \in Places(T, c) PROVE i \in ends
  <2>1. i \in 1 .. Len(T) /\ T[i] = c
    BY <1>7 DEF Places
  <2>2. PICK m \in 1 .. n - 1 : i = End(g, m)
    BY <1>6, <2>1
  <2>3. m \in 0 .. n
    BY <1>1
  <2>4. QED
    BY <1>3, <2>2, <2>3
<1>10. 0 \in ends /\ Len(T) + 1 \in ends
  <2>1. 0 \in 0 .. n /\ n \in 0 .. n
    BY <1>1
  <2>2. QED
    BY <1>4, <2>1
<1>11. ASSUME NEW m \in 0 .. n PROVE f[m] \in cuts
  <2>1. m = 0 \/ m = n \/ m \in 1 .. n - 1
    BY <1>1
  <2>2. QED
    BY <1>4, <1>8, <2>1
<1>12. cuts = ends
  BY <1>9, <1>10, <1>11
<1>13. QED
  BY <1>12 DEF n, T, f

\* str::split undoes join.
LEMMA SplitJoin ==
  ASSUME NEW c \in Characters, NEW P \in Seq(Seq(Characters)), Clean(P, c), P # <<>>
  PROVE  Split(Join(P, c), c) = P
<1> DEFINE n == Len(P)
           T == Join(P, c)
           cuts == {0, Len(T) + 1} \cup Places(T, c)
<1>1. n \in Nat /\ n # 0 /\ DOMAIN P = 1 .. n
  BY EmptySeq
<1>2. Len(Row(P, c)) = n
  <2>1. ASSUME NEW k \in 1 .. n PROVE Row(P, c)[k] \in Seq(Characters)
    <3>1. P[k] \in Seq(Characters) /\ <<c>> \in Seq(Characters)
      BY One
    <3>2. <<c>> \o P[k] \in Seq(Characters)
      BY <3>1, ConcatProperties
    <3>3. Row(P, c)[k] = IF k = 1 THEN P[k] ELSE <<c>> \o P[k]
      BY <1>1 DEF Row
    <3>4. QED
      BY <3>1, <3>2, <3>3
  <2>2. Row(P, c) = [k \in 1 .. n |-> Row(P, c)[k]]
    BY <1>1 DEF Row
  <2>3. Row(P, c) \in [1 .. n -> Seq(Characters)]
    BY <2>1, <2>2
  <2>4. QED
    BY <1>1, <2>3
<1>3. PICK g : Joins(g, P, c) /\ T = g[n]
  <2>1. Len(Row(P, c)) \in Nat \ {0}
    BY <1>1, <1>2
  <2>2. PICK g : Flattens(g, Row(P, c), Len(Row(P, c))) /\ FlattenSeq(Row(P, c)) = g[Len(Row(P, c))]
    BY <2>1, FlattenIs
  <2>3. T = FlattenSeq(Row(P, c))
    BY DEF Join, Row
  <2>4. QED
    BY <1>2, <2>2, <2>3 DEF Joins
<1>4. LaidTo(g, P, c, n)
  BY <1>3, AllLaid
<1> DEFINE f == Ends(g, n)
<1>5. f \in [0 .. n -> Nat] /\ Rises(f, n)
  <2>1. n \in 0 .. Len(P)
    BY <1>1
  <2>2. QED
    BY <1>4, <2>1, EndsRise
<1>6. cuts = {f[m] : m \in 0 .. n}
  BY <1>3, <1>4, CutsAreEnds
<1>7. Split(T, c) = [k \in 1 .. Cardinality(cuts) - 1 |->
                       SubSeq(T, Nth(cuts, k - 1) + 1, Nth(cuts, k) - 1)]
  BY DEF Split, Between
<1>14. \A m \in 0 .. n : f[m] = End(g, m)
  BY DEF Ends
<1> HIDE DEF T, cuts, f, n
<1>8. Cardinality(cuts) = n + 1 /\ \A k \in 0 .. n : Nth(cuts, k) = f[k]
  BY <1>1, <1>5, <1>6, NthIs
<1>9. Cardinality(cuts) - 1 = n
  BY <1>1, <1>8
<1>10. ASSUME NEW k \in 1 .. n
       PROVE  SubSeq(T, Nth(cuts, k - 1) + 1, Nth(cuts, k) - 1) = P[k]
  <2> DEFINE a == End(g, k - 1)
             t == P[k]
             piece == SubSeq(T, a + 1, End(g, k) - 1)
  <2>1. k - 1 \in 0 .. n /\ k \in 0 .. n /\ n \in 0 .. n
    BY <1>1
  <2>2. Nth(cuts, k - 1) = a /\ Nth(cuts, k) = End(g, k) /\ a \in Nat /\ End(g, k) \in Nat
    BY <1>5, <1>8, <1>14, <2>1
  <2>3. t \in Seq(Characters) /\ Len(t) \in Nat
    BY <1>1, LenProperties
  <2>4. End(g, k) = a + Len(t) + 1
    BY <1>4 DEF LaidTo, Laid
  <2>5. T \in Seq(Characters) /\ \A p \in 1 .. Len(t) : T[a + p] = t[p]
    <3>1. Laid(g, P, c, n)
      BY <1>1, <1>4 DEF LaidTo
    <3>2. QED
      BY <1>3, <3>1 DEF Laid
  <2>6. End(g, k) <= Len(T) + 1
    <3>1. f[n] = Len(T) + 1
      BY <1>1, <1>3, <1>14, <2>1 DEF End
    <3>2. k = n \/ f[k] < f[n]
      <4>1. k = n \/ k < n
        BY <1>1
      <4>2. QED
        BY <1>5, <2>1, <4>1 DEF Rises
    <3>3. f[k] = End(g, k) /\ f[n] \in Nat /\ f[k] \in Nat
      BY <1>5, <1>14, <2>1
    <3>4. QED
      BY <3>1, <3>2, <3>3
  <2> HIDE DEF a, t
  <2>7. End(g, k) - 1 = a + Len(t) /\ a + Len(t) <= Len(T)
    BY <2>2, <2>3, <2>4, <2>6, <2>5, LenProperties
  <2>8. piece = SubSeq(T, a + 1, a + Len(t))
    BY <2>7
  <2> HIDE DEF piece
  <2>9. /\ piece \in Seq(Characters)
        /\ Len(piece) = Len(t)
        /\ \A p \in 1 .. Len(t) : piece[p] = t[p]
    <3>1. \A i \in a + 1 .. a + Len(t) : T[i] \in Characters
      <4>1. ASSUME NEW i \in a + 1 .. a + Len(t) PROVE T[i] \in Characters
        <5>1. i \in 1 .. Len(T)
          BY <2>2, <2>3, <2>5, <2>7, LenProperties
        <5>2. QED
          BY <2>5, <5>1
      <4>2. QED
        BY <4>1
    <3>2. /\ piece \in Seq(Characters)
          /\ Len(piece) = Len(t)
          /\ \A p \in 1 .. Len(t) : piece[p] = T[a + p]
      <4>1. a + 1 <= a + Len(t) + 1 /\ a + Len(t) - (a + 1) + 1 = Len(t)
        BY <2>2, <2>3
      <4>2. /\ piece \in Seq(Characters)
            /\ Len(piece) = IF a + 1 <= a + Len(t) THEN a + Len(t) - (a + 1) + 1 ELSE 0
            /\ \A p \in 1 .. a + Len(t) - (a + 1) + 1 : piece[p] = T[(a + 1) + p - 1]
        BY <2>2, <2>3, <2>8, <3>1, SubSeqProperties
      <4>3. \A p \in 1 .. Len(t) : (a + 1) + p - 1 = a + p
        BY <2>2
      <4>4. Len(piece) = Len(t)
        BY <2>2, <2>3, <4>2
      <4>5. QED
        BY <4>1, <4>2, <4>3, <4>4
    <3>3. QED
      BY <2>5, <3>2
  <2>10. piece = t
    BY <2>3, <2>9, SeqEqual
  <2>11. QED
    BY <2>2, <2>10 DEF piece, t
<1>11. Split(T, c) = [k \in 1 .. n |-> P[k]]
  BY <1>7, <1>9, <1>10
<1>12. P = [k \in 1 .. n |-> P[k]]
  BY <1>1
<1>13. QED
  BY <1>11, <1>12 DEF T

\* What is further behind has more in front of it.
LEMMA RankRises ==
  ASSUME NEW S \in SUBSET Nat, IsFiniteSet(S), NEW i \in S, NEW j \in S, i < j
  PROVE  Rank(S, i) \in Nat /\ Rank(S, j) \in Nat /\ Rank(S, i) < Rank(S, j)
<1> DEFINE below(m) == {x \in S : x < m}
           A == below(i)
           B == below(j)
           C == A \cup {i}
<1>1. IsFiniteSet(A) /\ IsFiniteSet(B) /\ i \notin A
  BY FS_Subset
<1>2. C \subseteq B
  <2>1. ASSUME NEW x \in S, x < i PROVE x < j
    <3>1. x \in Nat /\ i \in Nat /\ j \in Nat
      OBVIOUS
    <3>2. QED
      BY <2>1, <3>1
  <2>2. QED
    BY <2>1
<1>3. Rank(S, i) = Cardinality(A) /\ Rank(S, j) = Cardinality(B)
  BY DEF Rank
<1> HIDE DEF A, B
<1>4. Cardinality(C) = Cardinality(A) + 1
  BY <1>1, FS_AddElement
<1> HIDE DEF C
<1>5. Cardinality(C) <= Cardinality(B)
  BY <1>1, <1>2, FS_Subset
<1>6. Cardinality(A) \in Nat /\ Cardinality(B) \in Nat
  BY <1>1, FS_CardinalityType
<1>7. QED
  BY <1>3, <1>4, <1>5, <1>6

\* There is no separator in a piece, and always a piece.
LEMMA SplitIsClean ==
  ASSUME NEW text \in Seq(Characters), NEW c
  PROVE  /\ Clean(Split(text, c), c)
         /\ Split(text, c) \in Seq(Seq(Characters))
         /\ Split(text, c) # <<>>
<1> DEFINE cuts == {0, Len(text) + 1} \cup Places(text, c)
           n == Cardinality(cuts) - 1
<1>1. Len(text) \in Nat /\ DOMAIN text = 1 .. Len(text)
  OBVIOUS
<1>2. cuts \subseteq 0 .. Len(text) + 1
  BY <1>1 DEF Places
<1>3. IsFiniteSet(cuts) /\ Cardinality(cuts) \in Nat /\ cuts \in SUBSET Nat
  <2>1. IsFiniteSet(0 .. Len(text) + 1)
    BY <1>1, FS_Interval
  <2>2. QED
    BY <1>2, <2>1, FS_Subset, FS_CardinalityType
<1>4. Split(text, c) = [k \in 1 .. n |-> SubSeq(text, Nth(cuts, k - 1) + 1, Nth(cuts, k) - 1)]
  BY DEF Split, Between
<1>5. 0 \in cuts /\ Len(text) + 1 \in cuts /\ Places(text, c) \subseteq cuts
  OBVIOUS
<1> HIDE DEF cuts
<1>6. n \in Nat /\ n # 0
  <2>1. 0 < Len(text) + 1
    BY <1>1
  <2>2. Rank(cuts, 0) \in Nat /\ Rank(cuts, Len(text) + 1) \in Nat
        /\ Rank(cuts, 0) < Rank(cuts, Len(text) + 1)
    BY <1>3, <1>5, <2>1, RankRises
  <2>3. Rank(cuts, Len(text) + 1) < Cardinality(cuts)
    <3> DEFINE below == {j \in cuts : j < Len(text) + 1}
               more == below \cup {Len(text) + 1}
    <3>1. Rank(cuts, Len(text) + 1) = Cardinality(below)
      BY DEF Rank
    <3>2. IsFiniteSet(below) /\ Len(text) + 1 \notin below /\ more \subseteq cuts
      BY <1>1, <1>3, <1>5, FS_Subset
    <3>3. Cardinality(below) \in Nat
      BY <3>2, FS_CardinalityType
    <3> HIDE DEF below
    <3>4. Cardinality(more) = Cardinality(below) + 1
      BY <3>2, FS_AddElement
    <3> HIDE DEF more
    <3>5. Cardinality(more) <= Cardinality(cuts)
      BY <1>3, <3>2, FS_Subset
    <3>6. QED
      BY <1>3, <3>1, <3>3, <3>4, <3>5
  <2>4. QED
    BY <1>3, <2>2, <2>3
<1>7. ASSUME NEW k \in 0 .. n PROVE Nth(cuts, k) \in cuts /\ Rank(cuts, Nth(cuts, k)) = k
  <2>1. k \in 0 .. Cardinality(cuts) - 1
    OBVIOUS
  <2>2. QED
    BY <1>3, <2>1, RankExists DEF Nth, Rank
<1> HIDE DEF n
<1>8. IsSequence(Split(text, c)) /\ \A k \in DOMAIN Split(text, c) : Split(text, c)[k] \in Seq(Characters)
  BY SplitIsSequence
<1>9. DOMAIN Split(text, c) = 1 .. n
  BY <1>4
<1>10. Split(text, c) \in Seq(Seq(Characters))
  <2>1. \A k \in 1 .. n : Split(text, c)[k] \in Seq(Characters)
    BY <1>8, <1>9
  <2>2. Split(text, c) \in [1 .. n -> Seq(Characters)]
    BY <1>4, <2>1
  <2>3. QED
    BY <1>6, <2>2
<1>11. Split(text, c) # <<>>
  <2>1. 1 \in DOMAIN Split(text, c)
    BY <1>6, <1>9
  <2>2. QED
    BY <2>1
<1>12. ASSUME NEW k \in 1 .. n, NEW p \in DOMAIN Split(text, c)[k], Split(text, c)[k][p] = c
       PROVE  FALSE
  <2> DEFINE a == Nth(cuts, k - 1)
             b == Nth(cuts, k)
             i == a + p
  <2>1. k - 1 \in 0 .. n /\ k \in 0 .. n
    BY <1>6
  <2>2. a \in cuts /\ b \in cuts /\ Rank(cuts, a) = k - 1 /\ Rank(cuts, b) = k
    BY <1>7, <2>1
  <2> HIDE DEF a, b
  <2>3. a \in Nat /\ b \in 0 .. Len(text) + 1
    BY <1>2, <1>3, <2>2
  <2>4. Split(text, c)[k] = SubSeq(text, a + 1, b - 1)
    BY <1>4 DEF a, b
  <2>5. \A m \in a + 1 .. b - 1 : text[m] \in Characters
    BY <1>1, <2>3
  <2>6. /\ p \in 1 .. b - 1 - (a + 1) + 1
        /\ SubSeq(text, a + 1, b - 1)[p] = text[(a + 1) + p - 1]
    <3> DEFINE piece == SubSeq(text, a + 1, b - 1)
    <3>1. /\ piece \in Seq(Characters)
          /\ Len(piece) = IF a + 1 <= b - 1 THEN b - 1 - (a + 1) + 1 ELSE 0
          /\ \A m \in 1 .. b - 1 - (a + 1) + 1 : piece[m] = text[(a + 1) + m - 1]
      BY <2>3, <2>5, SubSeqProperties
    <3>2. p \in 1 .. Len(piece)
      BY <2>4, <3>1
    <3> HIDE DEF piece
    <3>3. p \in 1 .. b - 1 - (a + 1) + 1
      BY <2>3, <3>1, <3>2
    <3>4. QED
      BY <3>1, <3>3 DEF piece
  <2>7. i \in Nat /\ a < i /\ i < b /\ (a + 1) + p - 1 = i /\ i \in 1 .. Len(text)
    BY <1>1, <2>3, <2>6
  <2> HIDE DEF i
  <2>8. text[i] = c
    BY <1>12, <2>4, <2>6, <2>7
  <2>9. i \in cuts
    BY <1>1, <1>5, <2>7, <2>8 DEF Places
  <2>10. Rank(cuts, a) \in Nat /\ Rank(cuts, i) \in Nat /\ Rank(cuts, a) < Rank(cuts, i)
    BY <1>3, <2>2, <2>7, <2>9, RankRises
  <2>11. Rank(cuts, b) \in Nat /\ Rank(cuts, i) < Rank(cuts, b)
    BY <1>3, <2>2, <2>7, <2>9, RankRises
  <2>12. k \in Int
    OBVIOUS
  <2>13. QED
    BY <2>2, <2>10, <2>11, <2>12
<1>13. QED
  BY <1>9, <1>10, <1>11, <1>12 DEF Clean
----------------------------------------------------------------------------
(***************************************************************************)
(* --reverse.                                                              *)
(***************************************************************************)
\* A unit with the other sign has no separator either.
LEMMA FlipIsClean ==
  ASSUME NEW unit \in Seq(Characters), \A p \in DOMAIN unit : unit[p] # ":"
  PROVE  Flip(unit) \in Seq(Characters) /\ \A p \in DOMAIN Flip(unit) : Flip(unit)[p] # ":"
<1>1. CASE unit # <<>> /\ Negated(unit)
  <2>1. /\ Tail(unit) \in Seq(Characters)
        /\ Len(Tail(unit)) = Len(unit) - 1 /\ Len(unit) \in Nat
        /\ \A p \in 1 .. Len(Tail(unit)) : Tail(unit)[p] = unit[p + 1]
    BY <1>1, HeadTailProperties, LenProperties
  <2>2. \A p \in DOMAIN Tail(unit) : p \in 1 .. Len(Tail(unit)) /\ p + 1 \in DOMAIN unit
    BY <2>1
  <2>3. QED
    BY <1>1, <2>1, <2>2 DEF Flip
<1>2. CASE ~(unit # <<>> /\ Negated(unit))
  <2> DEFINE sign == <<"-">>
  <2>1. sign \in Seq(Characters) /\ Len(sign) = 1 /\ sign[1] = "-"
    BY One DEF Characters
  <2> HIDE DEF sign
  <2>2. /\ sign \o unit \in Seq(Characters)
        /\ Len(sign \o unit) = Len(sign) + Len(unit)
        /\ \A i \in 1 .. Len(sign) + Len(unit) :
             (sign \o unit)[i] = IF i <= Len(sign) THEN sign[i] ELSE unit[i - Len(sign)]
    BY <2>1, Joined
  <2>3. ASSUME NEW p \in DOMAIN (sign \o unit) PROVE (sign \o unit)[p] # ":"
    <3>1. Len(unit) \in Nat /\ DOMAIN unit = 1 .. Len(unit) /\ p \in 1 .. 1 + Len(unit)
      BY <2>1, <2>2
    <3>2. CASE p = 1
      BY <2>1, <2>2, <3>1, <3>2
    <3>3. CASE p # 1
      <4>1. p - 1 \in DOMAIN unit /\ ~(p <= 1)
        BY <3>1, <3>3
      <4>2. QED
        BY <2>1, <2>2, <3>1, <4>1
    <3>4. QED
      BY <3>2, <3>3
  <2>4. Flip(unit) = sign \o unit
    BY <1>2 DEF Flip, sign
  <2>5. QED
    BY <2>2, <2>3, <2>4
<1>3. QED
  BY <1>1, <1>2

\* --reverse is the chain written the other way round (chain/mod.rs:119-148,
\* doc/man/muter.adoc:206), for texts of every length: the same steps in the same
\* order, and the same error first.
THEOREM EveryTextMirrors ==
  ASSUME NEW text \in Seq(Characters)
  PROVE  Mirrors(text)
<1> DEFINE U == Split(text, ":")
           V == Reverse(U)
           W == Reverse(FlipAll(U))
<1>1. SUFFICES ASSUME AllPlain(U) PROVE
        /\ ParseError(text, "reverse") = ParseError(Mirror(text), "forward")
        /\ ParseError(text, "reverse") = "none" => Parse(text, "reverse") = Parse(Mirror(text), "forward")
  BY DEF Mirrors
<1>2. Clean(U, ":") /\ U \in Seq(Seq(Characters)) /\ U # <<>>
  BY SplitIsClean
<1> HIDE DEF U
<1>3. Len(U) \in Nat /\ Len(U) # 0 /\ DOMAIN U = 1 .. Len(U)
  BY <1>2, EmptySeq
<1>4. \A k \in 1 .. Len(U) : (Len(U) - k) + 1 \in 1 .. Len(U)
  BY <1>3
<1>5. /\ V = [k \in 1 .. Len(U) |-> U[(Len(U) - k) + 1]]
      /\ V \in Seq(Seq(Characters)) /\ Len(V) = Len(U) /\ DOMAIN V = 1 .. Len(U)
  <2>1. V = [k \in 1 .. Len(U) |-> U[(Len(U) - k) + 1]]
    BY DEF Reverse
  <2>2. V \in [1 .. Len(U) -> Seq(Characters)]
    BY <1>2, <1>3, <1>4, <2>1
  <2> HIDE DEF V
  <2>3. V \in Seq(Seq(Characters)) /\ Len(V) = Len(U) /\ DOMAIN V = 1 .. Len(U)
    BY <1>3, <2>2
  <2>4. QED
    BY <2>1, <2>3 DEF V
<1>6. W = FlipAll(V)
  <2>1. FlipAll(U) = [k \in 1 .. Len(U) |-> Flip(U[k])]
    BY <1>3 DEF FlipAll
  <2>2. Len(FlipAll(U)) = Len(U)
    BY <1>3, <2>1
  <2>3. W = [k \in 1 .. Len(U) |-> FlipAll(U)[(Len(U) - k) + 1]]
    BY <2>2 DEF Reverse
  <2>4. FlipAll(V) = [k \in 1 .. Len(U) |-> Flip(V[k])]
    BY <1>5 DEF FlipAll
  <2>5. \A k \in 1 .. Len(U) : FlipAll(U)[(Len(U) - k) + 1] = Flip(V[k])
    BY <1>4, <1>5, <2>1
  <2>6. QED
    BY <2>3, <2>4, <2>5
<1>7. AllPlain(V)
  BY <1>1, <1>3, <1>4, <1>5 DEF AllPlain
<1>8. Clean(V, ":")
  BY <1>2, <1>3, <1>4, <1>5 DEF Clean
<1>11. ParseError(text, "reverse") = ErrorOf(V) /\ Parse(text, "reverse") = StepsOf(V, "reverse")
  BY DEF ParseError, Parse, Units, U
<1>12. Mirror(text) = Join(W, ":")
  BY DEF Mirror, U
<1> HIDE DEF V, W
<1>9. W \in Seq(Seq(Characters)) /\ Clean(W, ":") /\ W # <<>>
  <2>1. W = [k \in 1 .. Len(U) |-> Flip(V[k])]
    BY <1>5, <1>6 DEF FlipAll
  <2>2. ASSUME NEW k \in 1 .. Len(U)
        PROVE  /\ Flip(V[k]) \in Seq(Characters)
               /\ \A p \in DOMAIN Flip(V[k]) : Flip(V[k])[p] # ":"
    <3>1. V[k] \in Seq(Characters) /\ \A p \in DOMAIN V[k] : V[k][p] # ":"
      BY <1>5, <1>8 DEF Clean
    <3>2. QED
      BY <3>1, FlipIsClean
  <2>3. W \in [1 .. Len(U) -> Seq(Characters)]
    BY <2>1, <2>2
  <2>4. W \in Seq(Seq(Characters)) /\ Len(W) = Len(U)
    BY <1>3, <2>3
  <2>5. Clean(W, ":")
    BY <2>1, <2>2 DEF Clean
  <2>6. QED
    BY <1>3, <2>4, <2>5, EmptySeq
<1>10. Split(Join(W, ":"), ":") = W
  <2>1. ":" \in Characters
    BY DEF Characters
  <2>2. QED
    BY <1>9, <2>1, SplitJoin
<1>13. /\ ErrorOf(V) = ErrorOf(W)
       /\ ErrorOf(V) = "none" => StepsOf(V, "reverse") = StepsOf(W, "forward")
  BY <1>5, <1>6, <1>7, ReverseFlips
<1>14. ParseError(Mirror(text), "forward") = ErrorOf(W) /\ Parse(Mirror(text), "forward") = StepsOf(W, "forward")
  BY <1>10, <1>12 DEF ParseError, Parse, Units
<1>15. QED
  BY <1>11, <1>13, <1>14
=============================================================================

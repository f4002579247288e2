------------------------------- MODULE Chain -------------------------------
(***************************************************************************)
(* The parser of chains (src/src/lib/chain/mod.rs): the text behind -c,    *)
(* with or without --reverse, becomes a list of steps, each a name, its    *)
(* parameters and a direction, or an error.                                *)
(***************************************************************************)
EXTENDS Registry, SequencesExt

CONSTANT Wide   (* the characters of more than one byte *)

ASSUME WideAssumption == Wide \cap {"-", "(", ")", ",", "=", ":"} = {}

Places(text, c) == {i \in DOMAIN text : text[i] = c}
FirstPlace(text, c) == CHOOSE i \in Places(text, c) : \A j \in Places(text, c) : i <= j

\* The k-th of a set of places, counted from 0.
Nth(places, k) == CHOOSE i \in places : Cardinality({j \in places : j < i}) = k

\* str::split: the pieces between the separators, one more than there are.
Between(text, cuts) ==
  [k \in 1 .. Cardinality(cuts) - 1 |-> SubSeq(text, Nth(cuts, k - 1) + 1, Nth(cuts, k) - 1)]
Split(text, c) == Between(text, {0, Len(text) + 1} \cup Places(text, c))

----------------------------------------------------------------------------
(***************************************************************************)
(* One unit: parse_unit and parse_arg.                                     *)
(***************************************************************************)
Negated(unit) == unit[1] = "-"
Body(unit) == IF Negated(unit) THEN Tail(unit) ELSE unit

\* A slip: --reverse turns every step into a decoder.
AllReverse(unit, d) == IF d = "reverse" \/ Negated(unit) THEN "reverse" ELSE "forward"

UnitDirection(unit, d) ==
  LET own == IF Negated(unit) THEN "reverse" ELSE "forward"
  IN  IF d = "forward" THEN own ELSE Invert(own)

\* Where the name ends: at a parenthesis wherever it is, else at a comma.
Opened(body) == Places(body, "(") # {}
Listed(body) == ~Opened(body) /\ Places(body, ",") # {}
NameEnd(body) ==
  CASE Opened(body) -> FirstPlace(body, "(")
    [] Listed(body) -> FirstPlace(body, ",")
    [] OTHER -> Len(body) + 1
Name(body) == SubSeq(body, 1, NameEnd(body) - 1)
\* A slip: to take the last character for a parenthesis.
ParametersShort(body) == SubSeq(body, NameEnd(body) + 1, Len(body) - 1)

Parameters(body) ==
  SubSeq(body, NameEnd(body) + 1, IF Opened(body) THEN Len(body) - 1 ELSE Len(body))

\* &unit[0..1] and &s[s.len() - 1..] panic inside of a character.
UnitError(unit) ==
  IF unit = <<>> THEN "InvalidName"
  ELSE IF unit[1] \in Wide THEN "panic"
  ELSE LET body == Body(unit)
       IN  IF Opened(body) /\ Last(body) \in Wide THEN "panic"
           ELSE IF Opened(body) /\ Last(body) # ")" THEN "MismatchedParentheses"
           ELSE IF Listed(body) /\ NameEnd(body) = Len(body) THEN "InvalidArgument"
           ELSE IF Name(body) = <<>> THEN "InvalidName" ELSE "none"

\* The key and the value around the first =.
Key(arg) ==
  IF Places(arg, "=") = {} THEN arg ELSE SubSeq(arg, 1, FirstPlace(arg, "=") - 1)
Value(arg) ==
  IF Places(arg, "=") = {} THEN <<>> ELSE <<SubSeq(arg, FirstPlace(arg, "=") + 1, Len(arg))>>

\* Collected into a map, where a later one replaces an earlier.
Collect(given) ==
  [key \in {Key(given[k]) : k \in DOMAIN given} |->
    Value(given[CHOOSE k \in DOMAIN given : /\ Key(given[k]) = key
                                            /\ \A j \in k + 1 .. Len(given) : Key(given[j]) # key])]

ParseUnit(unit, d) ==
  LET body == Body(unit)
  IN  [name |-> Name(body),
       args |-> IF Opened(body) \/ Listed(body) THEN Collect(Split(Parameters(body), ","))
                ELSE <<>>,
       dir |-> UnitDirection(unit, d)]

----------------------------------------------------------------------------
(***************************************************************************)
(* The chain: Chain::parse.  The units are looked at in the order in which *)
(* the steps run, and the first error ends it.                             *)
(***************************************************************************)
\* A slip: --reverse inverts the steps and leaves their order.
UnitsInOrder(text, d) == Split(text, ":")

Units(text, d) ==
  IF d = "forward" THEN Split(text, ":") ELSE Reverse(Split(text, ":"))

ErrorOf(units) == FirstError([k \in DOMAIN units |-> UnitError(units[k])])
ParseError(text, d) == ErrorOf(Units(text, d))

StepsOf(units, d) == [k \in DOMAIN units |-> ParseUnit(units[k], d)]
Parse(text, d) == StepsOf(Units(text, d), d)

----------------------------------------------------------------------------
(***************************************************************************)
(* Properties of a text.                                                   *)
(***************************************************************************)
Join(pieces, c) ==
  FlattenSeq([k \in DOMAIN pieces |-> IF k = 1 THEN pieces[k] ELSE <<c>> \o pieces[k]])

\* The chain written the other way round: every sign changed, last unit first.
Flip(unit) == IF unit # <<>> /\ Negated(unit) THEN Tail(unit) ELSE <<"-">> \o unit
FlipAll(units) == [k \in DOMAIN units |-> Flip(units[k])]
Mirror(text) == Join(Reverse(FlipAll(Split(text, ":"))), ":")

\* One sign at most, and nothing behind it that a sign in front would cover.
Plain(unit) == unit # <<>> /\ (Body(unit) # <<>> => Body(unit)[1] \notin Wide \cup {"-"})

\* "muter -r -c -uri:base64: Exactly the same as" -base64:uri
\* (doc/man/muter.adoc:206): --reverse is the chain written the other way
\* round, its errors included (chain/mod.rs:119-148).
AllPlain(units) == \A k \in DOMAIN units : Plain(units[k])
Mirrors(text) ==
  AllPlain(Split(text, ":")) =>
    /\ ParseError(text, "reverse") = ParseError(Mirror(text), "forward")
    /\ ParseError(text, "reverse") = "none" => Parse(text, "reverse") = Parse(Mirror(text), "forward")

Skip(text, n) == SubSeq(text, n + 1, Len(text))
Sign(unit) == IF Negated(unit) THEN <<"-">> ELSE <<>>
Enclosed(body) == Name(body) \o <<"(">> \o Skip(body, NameEnd(body)) \o <<")">>
InParentheses(unit) == Sign(unit) \o Enclosed(Body(unit))

\* "Instead of parentheses, a single comma may be used" (main.rs:88): both
\* spellings are the same step, duplicates and values included.
SameUnit(unit) ==
  UnitError(unit) = "none" /\ Listed(Body(unit)) =>
    /\ UnitError(InParentheses(unit)) = "none"
    /\ ParseUnit(InParentheses(unit), "forward") = ParseUnit(unit, "forward")
SameStep(units) == \A k \in DOMAIN units : SameUnit(units[k])
=============================================================================

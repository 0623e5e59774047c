---------------------------- MODULE NaturalOrder ----------------------------
(***************************************************************************)
(* str_compare_nat (util.cpp), the comparison of texts by which results    *)
(* are sorted: text and numbers are told apart, and numbers are compared   *)
(* as numbers.                                                             *)
(*                                                                         *)
(* A text is a sequence of the codes of its characters.  A number of n     *)
(* decimals is counted in units of 10^-Decimals, and two numbers are the   *)
(* same when they are less than EPS units apart.  The code's EPS is 1e-10; *)
(* a larger one reaches the same cases with shorter texts.                 *)
(* Numbers are exact, where the code compares doubles: those of more than  *)
(* 15 digits may be equal in the code and differ here.                     *)
(***************************************************************************)
EXTENDS Integers, SequencesExt

CONSTANTS Decimals,    \* the most decimals a number has
          EPS          \* the difference from which numbers differ, in units

ASSUME NaturalOrderAssumption == Decimals \in Nat /\ EPS \in Nat \ {0}

Dot == 46
isdigit(c) == c \in 48..57

\* One character more: the last run is one of digits if their number is even.
Extend(tokens, c) ==
    IF isdigit(c) = (Len(tokens) % 2 = 0)
    THEN [tokens EXCEPT ![Len(tokens)] = Append(@, c)]
    ELSE Append(tokens, <<c>>)

\* Runs of other characters and of digits in turn, the first one a run of other
\* characters, which may be empty, and the last one always empty.
tokenize_string(s) ==
    LET runs[i \in 0..Len(s)] == IF i = 0 THEN <<<<>>>> ELSE Extend(runs[i - 1], s[i])
    IN  IF s = <<>> THEN runs[0] ELSE Append(runs[Len(s)], <<>>)

IsNumber(token) == token # <<>> /\ isdigit(token[1])

\* Mutant: what is around a dot stays apart.
merge_floats_Apart(tokens) == tokens

\* Two runs of digits with a dot between them become one number; the second of
\* them is not the first of another.
Merge(out, r) ==
    LET n == Len(out)
    IN  IF /\ n >= 2 /\ out[n] = <<Dot>> /\ r # <<>>
           /\ IsNumber(out[n - 1]) /\ ~Contains(out[n - 1], Dot)
        THEN Append(SubSeq(out, 1, n - 2), out[n - 1] \o out[n] \o r)
        ELSE Append(out, r)

merge_floats(tokens) ==
    LET out[i \in 0..Len(tokens)] == IF i = 0 THEN <<>> ELSE Merge(out[i - 1], tokens[i])
    IN  out[Len(tokens)]

\* The decimals of a number.
Places(token) ==
    LET dots == {i \in 1..Len(token) : token[i] = Dot}
    IN  IF dots = {} THEN 0 ELSE Len(token) - Min(dots)

\* A number that is read as far as v, and its next character.
Scan(v, c) == IF c = Dot THEN v ELSE 10 * v + (c - 48)

\* lexical_cast<double> of a number, in units.
lexical_cast(token) ==
    LET value[i \in 0..Len(token)] == IF i = 0 THEN 0 ELSE Scan(value[i - 1], token[i])
    IN  value[Len(token)] * 10^(Decimals - Places(token))

\* operator< of std::string.
Precedes(s, t) ==
    \E i \in 0..Len(s) :
       /\ i <= Len(t) /\ SubSeq(s, 1, i) = SubSeq(t, 1, i)
       /\ i < Len(t) /\ (i = Len(s) \/ s[i + 1] < t[i + 1])

Near(x, y) == x - y < EPS /\ y - x < EPS

\* Mutant: equal numbers are not passed over.
Same_Never(s, t) == s = t /\ ~IsNumber(s)

\* Two tokens at the same place that leave the decision to the following ones.
Same(s, t) ==
    IF IsNumber(s) /\ IsNumber(t) THEN Near(lexical_cast(s), lexical_cast(t)) ELSE s = t

\* Of two tokens that are not the same: an empty one is before any other.
Before(s, t) ==
    IF IsNumber(s) /\ IsNumber(t) THEN lexical_cast(s) < lexical_cast(t) ELSE Precedes(s, t)

\* The numbers of s have no more decimals than there are units for.
Measured(s) ==
    LET tokens == merge_floats(tokenize_string(s))
    IN  \A i \in DOMAIN tokens : IsNumber(tokens[i]) => Places(tokens[i]) <= Decimals

\* 1 if s1 is before s2, 0 if they are equivalent, else -1.
str_compare_nat(s1, s2) ==
    LET tok1 == merge_floats(tokenize_string(s1))
        tok2 == merge_floats(tokenize_string(s2))
        both == DOMAIN tok1 \cap DOMAIN tok2
        differ == {i \in both : ~Same(tok1[i], tok2[i])}
        first == Min(differ)
    IN  IF differ # {} THEN IF Before(tok1[first], tok2[first]) THEN 1 ELSE -1
        ELSE IF Len(tok1) = Len(tok2) THEN 0
        ELSE IF Len(tok1) < Len(tok2) THEN 1 ELSE -1
=============================================================================

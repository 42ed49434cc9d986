-------------------------------- MODULE Glob --------------------------------
(***************************************************************************)
(* pattern_matches of control/conditions.py: the loop that matches a value *)
(* against a pattern with * and ?, remembering the last star only, checked *)
(* against what such a pattern means.                                      *)
(***************************************************************************)
EXTENDS Naturals, Sequences, SequencesExt

CONSTANTS
  Letters,     \* characters that mean themselves
  Special,     \* those of * and ? that values may hold as well
  MaxPattern,  \* bound: length of patterns
  MaxValue     \* bound: length of values

GlobAssumption ==
  /\ Letters \cap {"*", "?"} = {} /\ Special \subseteq {"*", "?"}
  /\ {MaxPattern, MaxValue} \subseteq Nat

VARIABLES
  pattern, value,
  pi, vi,          \* pattern_index, value_index: characters already consumed
  starAt, starVi,  \* star_index (0 for None, else counted from 1), star_value_index
  result           \* "running", "yes" or "no"

globVars == <<pattern, value, pi, vi, starAt, starVi, result>>

GlobInit ==
  /\ pattern \in SeqOf(Letters \cup {"*", "?"}, MaxPattern)
  /\ value \in SeqOf(Letters \cup Special, MaxValue)
  /\ pi = 0 /\ vi = 0 /\ starAt = 0 /\ starVi = 0
  /\ result = "running"

Looping == result = "running" /\ vi < Len(value)

\* The next character of the pattern stands for the next one of the value.
Fits ==
  /\ pi < Len(pattern)
  /\ pattern[pi + 1] = "?" \/ pattern[pi + 1] = value[vi + 1]

AtStar == pi < Len(pattern) /\ pattern[pi + 1] = "*"

Consume ==
  /\ Looping /\ Fits
  /\ pi' = pi + 1 /\ vi' = vi + 1
  /\ UNCHANGED <<pattern, value, starAt, starVi, result>>

MeetStar ==
  /\ Looping /\ ~Fits /\ AtStar
  /\ starAt' = pi + 1 /\ pi' = pi + 1 /\ starVi' = vi
  /\ UNCHANGED <<pattern, value, vi, result>>

\* The last star takes one character more.
Backtrack ==
  /\ Looping /\ ~Fits /\ ~AtStar /\ starAt # 0
  /\ pi' = starAt
  /\ starVi' = starVi + 1 /\ vi' = starVi + 1
  /\ UNCHANGED <<pattern, value, starAt, result>>

Fail ==
  /\ Looping /\ ~Fits /\ ~AtStar /\ starAt = 0
  /\ result' = "no"
  /\ UNCHANGED <<pattern, value, pi, vi, starAt, starVi>>

\* Mutant of Finish: what is left of the pattern is not looked at.
FinishEarly ==
  /\ result = "running" /\ vi = Len(value)
  /\ result' = "yes"
  /\ UNCHANGED <<pattern, value, pi, vi, starAt, starVi>>

\* Only stars may be left of the pattern.
Finish ==
  /\ result = "running" /\ vi = Len(value)
  /\ result' = IF \A i \in pi + 1 .. Len(pattern) : pattern[i] = "*" THEN "yes" ELSE "no"
  /\ UNCHANGED <<pattern, value, pi, vi, starAt, starVi>>

GlobNext == Consume \/ MeetStar \/ Backtrack \/ Fail \/ Finish

GlobSpec == GlobInit /\ [][GlobNext]_globVars

-----------------------------------------------------------------------------
(* Properties.                                                             *)

\* Element i of a pattern stands for the characters of a value after from, up to to.
StandsFor(p, v, i, from, to) ==
  IF p[i] = "*" THEN from <= to
  ELSE to = from + 1 /\ (p[i] = "?" \/ p[i] = v[to])

\* cut divides the first w characters of v among the first n elements of p.
Divides(p, v, n, w, cut) ==
  /\ cut[0] = 0 /\ cut[n] = w
  /\ \A i \in 1 .. n : StandsFor(p, v, i, cut[i - 1], cut[i])

\* What the first n elements of a pattern mean for the first w characters of a value:
\* these can be divided so that every element stands for its share.
MeansUpTo(p, v, n, w) == \E cut \in [0 .. n -> 0 .. w] : Divides(p, v, n, w, cut)

Means == MeansUpTo(pattern, value, Len(pattern), Len(value))

\* "wildcard matching" (docstring of pattern_matches): the loop, which never tries
\* an earlier star again, answers what the pattern means, unless the value holds a star
\* (Special), which the loop takes for the one of the pattern.
MatchesAsMeant == result # "running" => (result = "yes" <=> Means)
=============================================================================

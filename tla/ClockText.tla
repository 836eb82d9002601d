------------------------------ MODULE ClockText ------------------------------
(* What the burned-in clock of a still says.  parse_clock_text of the video *)
(* adapter looks for a timestamp of a few shapes anywhere in the text OCR   *)
(* returned, and says nothing when it meets one end of a span, or a date    *)
(* that is no date.                                                         *)
(*                                                                          *)
(* A text is a sequence of signs: a run of digits with its length and value *)
(* (k = "d"), a word (k = "AM" for a meridiem, "w" for any other), or one   *)
(* character (k is that character; "~" stands for every dash that is_dash   *)
(* knows beside the hyphen).  The OCR substitutions inside a run of digits  *)
(* are already made; runs of more than four digits are left out.            *)
EXTENDS Naturals, Sequences, FiniteSets, FiniteSetsExt

LOCAL Is(t, i, k) == i \in DOMAIN t /\ t[i].k = k
LOCAL Digits(t, i, n) == Is(t, i, "d") /\ t[i].n = n
LOCAL Dash(t, i) == Is(t, i, "-") \/ Is(t, i, "~")
LOCAL Below(t, i, bound) == Digits(t, i, 2) /\ t[i].v < bound
LOCAL Within(t, i, high) == Digits(t, i, 2) /\ t[i].v \in 1..high

None == 0   \* no match; a match is the position after its last sign

----------------------------------------------------------------------------
(* The parts of a timestamp.                                                *)

\* Up to three digits after the seconds; a fourth spoils the match.
TakeFraction(t, i) ==
  CASE ~(Is(t, i, ".") /\ Is(t, i + 1, "d")) -> i
    [] Is(t, i, ".") /\ Is(t, i + 1, "d") /\ t[i + 1].n <= 3 -> i + 2
    [] OTHER -> None

TakeTime(t, i) ==
  IF /\ Below(t, i, 24) /\ Is(t, i + 1, ":")
     /\ Below(t, i + 2, 60) /\ Is(t, i + 3, ":")
     /\ Below(t, i + 4, 60)
  THEN TakeFraction(t, i + 5) ELSE None

\* " AM" or " PM", not the start of a longer word.
TakeMeridiem(t, i) ==
  IF Is(t, i, " ") /\ Is(t, i + 1, "AM") /\ ~Is(t, i + 2, "d") /\ ~Is(t, i + 2, "w")
  THEN i + 2 ELSE i

\* The first two digits of the run at i.
LOCAL Lead(t, i) == CASE t[i].n <= 2 -> t[i].v [] t[i].n = 3 -> t[i].v \div 10 [] OTHER -> t[i].v \div 100

\* "Z", +HH:MM or +HHMM; more digits after the minutes spoil the match.
TakeOffset(t, i) ==
  LET signed == Is(t, i, "+") \/ Is(t, i, "-")
      split == /\ Digits(t, i + 1, 2) /\ Is(t, i + 2, ":")
               /\ Is(t, i + 3, "d") /\ t[i + 3].n >= 2 /\ Lead(t, i + 3) < 60
      joined == Digits(t, i + 1, 4) /\ t[i + 1].v % 100 < 60
      plausible == (split \/ joined) /\ Lead(t, i + 1) <= 14
  IN CASE Is(t, i, "Z") -> i + 1
       [] signed /\ plausible /\ joined -> i + 2
       [] signed /\ plausible /\ split -> IF t[i + 3].n = 2 THEN i + 4 ELSE None
       [] OTHER -> i

----------------------------------------------------------------------------
(* The shapes.                                                              *)

Separated(t, i, s) == Is(t, i + 1, s) /\ Is(t, i + 3, s) /\ Is(t, i + 5, " ")

MatchIso(t, i) ==
  IF Digits(t, i, 4) /\ Separated(t, i, "-") /\ Within(t, i + 2, 12) /\ Within(t, i + 4, 31)
  THEN LET e == TakeTime(t, i + 6) IN IF e = None THEN None ELSE TakeOffset(t, e)
  ELSE None

MatchYmd(t, i) ==
  IF Digits(t, i, 4) /\ Separated(t, i, "/") /\ Within(t, i + 2, 12) /\ Within(t, i + 4, 31)
  THEN TakeTime(t, i + 6) ELSE None

\* MM/DD/YYYY and MM-DD-YYYY; with dots the day comes first.
MatchDmy(t, i) ==
  IF /\ Digits(t, i + 4, 4)
     /\ \/ Separated(t, i, "/") /\ Within(t, i, 12) /\ Within(t, i + 2, 31)
        \/ Separated(t, i, "-") /\ Within(t, i, 12) /\ Within(t, i + 2, 31)
        \/ Separated(t, i, ".") /\ Within(t, i, 31) /\ Within(t, i + 2, 12)
  THEN TakeTime(t, i + 6) ELSE None

MatchDated(t, i) ==
  IF Digits(t, i, 4)
  THEN IF Is(t, i + 1, "-") THEN MatchIso(t, i) ELSE MatchYmd(t, i)
  ELSE MatchDmy(t, i)

\* A time with an hour of a twelve-hour clock may carry AM or PM.
MatchBareTime(t, i) ==
  LET e == TakeTime(t, i)
  IN IF e # None /\ t[i].v \in 1..12 THEN TakeMeridiem(t, e) ELSE e

\* The sign before i that is not a space.
LOCAL BackOverSpaces(t, i) == Max({0} \cup {j \in 1..(i - 1) : t[j].k # " "})
LOCAL PastSpaces(t, i) == Min({Len(t) + 1} \cup {j \in i..Len(t) : t[j].k # " "})

\* Whether three groups of two or four digits, joined by one separator, stand
\* before i with at least one space between: a date no shape accepted.
FollowsFailedDate(t, i) ==
  LET j == BackOverSpaces(t, i)
      joins == {"/", "-", "."}
  IN /\ j < i - 1 /\ j >= 5
     /\ \A g \in {j, j - 2, j - 4} : Digits(t, g, 2) \/ Digits(t, g, 4)
     /\ t[j - 1].k \in joins /\ t[j - 3].k = t[j - 1].k
     /\ j > 5 => t[j - 5].k \notin joins

\* Mutant: the time after an implausible date is read on its own.
MatchHalves(t, i) ==
  LET dated == MatchDated(t, i) IN IF dated # None THEN dated ELSE MatchBareTime(t, i)

MatchAt(t, i) ==
  LET dated == MatchDated(t, i)
  IN CASE dated # None -> dated
       [] dated = None /\ FollowsFailedDate(t, i) -> None
       [] OTHER -> MatchBareTime(t, i)

\* A dash, spaces or not, with a number on its other side.
InRangeContext(t, i, e) ==
  LET past == IF Is(t, e, ".") /\ Is(t, e + 1, "d") THEN e + 2 ELSE e
      next == PastSpaces(t, past)
      back == BackOverSpaces(t, i)
  IN \/ Dash(t, next) /\ Is(t, PastSpaces(t, next + 1), "d")
     \/ Dash(t, back) /\ Is(t, BackOverSpaces(t, back), "d")

\* The first place where a shape matches decides: its signs, or nothing at all.
ParseClockText(t) ==
  LET hits == {i \in DOMAIN t : MatchAt(t, i) # None}
  IN IF hits = {} THEN << >>
     ELSE LET i == Min(hits) IN
          IF InRangeContext(t, i, MatchAt(t, i)) THEN << >>
          ELSE <<i, MatchAt(t, i) - 1>>
=============================================================================

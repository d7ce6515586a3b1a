------------------------------ MODULE ClickTime -----------------------------
(***************************************************************************)
(* How analytics compares instants (services/analytics/internal/repo/      *)
(* sqlite.go).  The SQLite driver stores a time as text, with the fraction *)
(* of the second less its trailing zeros and the zone at the end, and      *)
(* SQLite compares texts: so the bounds of Stats and MAX(clicked_at) are   *)
(* right only if the order of the texts is that of the instants.           *)
(*                                                                         *)
(* An instant is a day, a second and the digits of a fraction.  The        *)
(* characters that matter are numbered in the order of their codes.        *)
(***************************************************************************)
EXTENDS Naturals, SequencesExt

CONSTANTS
  MaxDay,      (* days 0..MaxDay                                           *)
  MaxSecond,   (* the last second of a day                                 *)
  Digits,      (* the digits in use, 0 and 9 among them                    *)
  Width        (* digits of the fraction: nine in Go                       *)

Instants == [day : 0..MaxDay, second : 0..MaxSecond, fraction : [1..Width -> Digits]]

Plus == 1
Dot == 2
Digit(d) == 3 + d
Zulu == 13

(* Mutant: RFC 3339 with its letter for UTC.                               *)
ZuluZone == <<Zulu>>

(* UTC as the driver writes it: +00:00.                                    *)
Zone == <<Plus, Digit(0), Digit(0)>>

Fraction(ds) ==
  LET nonzero == {i \in 1..Width : ds[i] # 0}
      kept    == IF nonzero = {} THEN 0 ELSE Max(nonzero)
  IN  IF kept = 0 THEN <<>> ELSE <<Dot>> \o [i \in 1..kept |-> Digit(ds[i])]

Text(t) == <<Digit(t.day), Digit(t.second)>> \o Fraction(t.fraction) \o Zone

(* SQLite's order of texts, by their bytes.                                *)
TextLess(a, b) ==
  \/ IsStrictPrefix(a, b)
  \/ \E i \in DOMAIN a \cap DOMAIN b :
       a[i] < b[i] /\ \A j \in 1..(i - 1) : a[j] = b[j]

TextAtMost(a, b) == a = b \/ TextLess(a, b)

StartOfDay(day) == [day |-> day, second |-> 0, fraction |-> [i \in 1..Width |-> 0]]

(* A day later, less a nanosecond.                                         *)
EndOfDay(day) ==
  [day |-> day, second |-> MaxSecond, fraction |-> [i \in 1..Width |-> 9]]

(* The WHERE clause of Stats, for a range of days.                         *)
Selects(from, to, t) ==
  /\ TextAtMost(Text(StartOfDay(from)), Text(t))
  /\ TextAtMost(Text(t), Text(EndOfDay(to)))

(* The instants' own order.                                                *)
Earlier(t, u) ==
  \/ t.day < u.day
  \/ t.day = u.day /\ t.second < u.second
  \/ /\ t.day = u.day /\ t.second = u.second
     /\ \E i \in 1..Width : /\ t.fraction[i] < u.fraction[i]
                            /\ \A j \in 1..(i - 1) : t.fraction[j] = u.fraction[j]

(* Texts, some with a fraction and some without, are in the order of their *)
(* instants, so that MAX(clicked_at) is the latest click; and a range of   *)
(* days selects exactly the clicks of those days, to the last nanosecond.  *)
TextsOrderInstants ==
  /\ \A t, u \in Instants : TextLess(Text(t), Text(u)) <=> Earlier(t, u)
  /\ \A t \in Instants, from, to \in 0..MaxDay :
       Selects(from, to, t) <=> from <= t.day /\ t.day <= to
============================================================================

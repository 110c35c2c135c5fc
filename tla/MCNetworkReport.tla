--------------------------- MODULE MCNetworkReport ---------------------------
(***************************************************************************)
(* Five days with a baseline of two, a city with a county of its own, and  *)
(* a few courses of its figures: steady, up and down, without a value, a   *)
(* day with two rows of one scope, a scope that begins late.  LTE and NR   *)
(* take different courses.                                                 *)
(***************************************************************************)
EXTENDS NetworkReport, TLC

CONSTANTS city, county, all

\* The energies move together, and so do the rest.
Row(c, r, rate, power) ==
  [city |-> c, rest |-> r, rate |-> rate, traffic |-> rate, hours |-> rate,
   power |-> power, single |-> power, saved |-> power, low |-> power]

(* The course of a scope: its rate and its power day by day. *)
Steady == <<<<20, 1000>>, <<20, 1000>>, <<20, 1000>>, <<20, 1000>>, <<20, 1000>>>>
Moving == <<<<20, 1000>>, <<30, 1260>>, <<20, 1410>>, <<18, 1540>>, <<17, 2000>>>>
Patchy == <<<<0, 40>>, <<None, None>>, <<0, 30>>, <<19, None>>, <<None, 980>>>>

Days == FirstDay..Yesterday
Of(c, r, course) == [d \in Days |-> {Row(c, r, course[d][1], course[d][2])}]
And(x, y)   == [d \in Days |-> x[d] \cup y[d]]
From(day, x) == [d \in Days |-> IF d < day THEN {} ELSE x[d]]

Both(x, y) == And(Of(city, Whole, x), Of(city, county, y))
LteTables ==
  {Both(Steady, Moving), Both(Moving, Patchy), Both(Patchy, Steady), Of(all, Whole, Moving),
   And(Of(city, Whole, Steady), From(4, Of(city, Whole, Moving))), From(3, Of(city, Whole, Moving))}
NrTables == {Both(Moving, Steady), From(3, Both(Patchy, Moving)), Of(all, Whole, Patchy)}

MCContents == {[n \in Nets |-> IF n = "lte" THEN x ELSE y] : x \in LteTables, y \in NrTables}

(* One row for a scope and a day, as the tables are meant to hold.         *)
UniqueContents ==
  {c \in MCContents : \A n \in Nets, d \in Days : \A r, q \in c[n][d] :
     r.city = q.city /\ r.rest = q.rest => r = q}

MCCalls ==
  [tool : {"report"}, city : {None, city}, rest : {None, county}, start : {None, 3, 4, 6}, end : {None, 4, 5}]
    \cup [tool : {"anomaly"}, city : {None, city}, rest : {None}, start : {None}, end : {None, 4}]

=============================================================================

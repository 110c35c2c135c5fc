--------------------------- MODULE MCBatchAnalysis ---------------------------
(***************************************************************************)
(* Two cells of two areas, three days of which the last two can be         *)
(* analysed, and for each cell one of a few situations: in both tables, in *)
(* one or in none, with and without findings.                              *)
(***************************************************************************)
EXTENDS AreaAnalysis, TLC

CONSTANTS a, b, city, town, all

Expansion(filter, highload, switch, white) ==
  [filter |-> filter, highload |-> highload, switch |-> switch, white |-> white]

Around(hours, distance) ==
  [hours |-> hours, network |-> "5G", relation |-> [network |-> None, distance |-> distance],
   types |-> "4G" :> None @@ "5G" :> "macro", site |-> None]

Quiet == [d \in 1..MaxDay |-> {}]
High(days) == [d \in 1..MaxDay |-> IF d \in days THEN {[hour |-> 23, sleep |-> {0}, high |-> TRUE]}
                                   ELSE {[hour |-> 22, sleep |-> {0}, high |-> TRUE]}]

Cell(expansion, constriction, white, busy) ==
  [expansion |-> expansion, constriction |-> constriction, white |-> white, busy |-> busy, site |-> "macro"]

Situations ==
  { Cell(Expansion({22}, "no", "right", "no"), {}, "no", Quiet),
    Cell(Expansion({}, None, "wrong", "no"), {Around(22, "100m"), Around(None, "far")}, "yes", Quiet),
    Cell(Expansion({}, "no", "missing", "dirty"), {Around(None, "200m")}, "no", High({2, 3})),
    Cell(None, {Around(None, "100m")}, "no", High({1})),
    Cell(None, {Around(23, "far")}, "yes", High({2})),
    Cell(Expansion({}, "no", "right", "yes"), {}, "no", High({3})) }

At(cell, area) == [n \in DOMAIN cell \cup {"area"} |-> IF n = "area" THEN area ELSE cell[n]]

MCCells == {(a :> At(x, city)) @@ (b :> At(y, town)) : x, y \in Situations}

MCCalls ==
  [target : {"all", "expansion", "constriction"}, supported : {TRUE}, day : {None}, area : {None, all, city}]
    \cup [target : {"all"}, supported : {TRUE}, day : 1..MaxDay + 1 \cup {Unreadable}, area : {None}]
    \cup [target : {"all"}, supported : {FALSE}, day : {None}, area : {None}]

=============================================================================

-------------------------- MODULE MCEnergyAnalysis --------------------------
(***************************************************************************)
(* Two analysed hours, three days, and rows for every class of evidence:   *)
(* neighbours whose network is in their own row, only in the relation or   *)
(* nowhere, and site types that are in the row or looked up.               *)
(***************************************************************************)
EXTENDS EnergyAnalysis, TLC

Night == {22, 23}

Expansion(filter, early, low, white) ==
  [filter |-> filter, early |-> early,
   detail |-> [h \in Night |-> IF h \in low THEN "low" ELSE IF h = 22 THEN "busy" ELSE None],
   white |-> white]

Around(network, relation, lte, nr, site) ==
  [network |-> network, relation |-> relation, types |-> "4G" :> lte @@ "5G" :> nr, site |-> site]

Rows ==
  { Around("5G", [network |-> None, distance |-> "200m"], None, "macro", None),
    Around(None, [network |-> "4G", distance |-> "100m"], "indoor", "macro", "macro"),
    Around("4G", None, "macro", None, "indoor"),
    Around("other", [network |-> "4G", distance |-> "far"], "macro", "micro", "indoor"),
    Around("4G", [network |-> "4G", distance |-> "far"], "micro", None, None) }

NoLoad == [d \in 1..MaxDay |-> {}]
High   == [hour |-> 23, sleep |-> {0, 1}, high |-> TRUE]
Asleep == [hour |-> 0, sleep |-> {0, 1, 2}, high |-> TRUE]
Late   == [hour |-> 22, sleep |-> {0}, high |-> TRUE]
Calm   == [hour |-> 23, sleep |-> {0}, high |-> FALSE]

Cell(expansion, sleep, constriction, site, white, load, checks) ==
  [expansion |-> expansion, sleep |-> sleep, constriction |-> constriction,
   site |-> site, white |-> white, busy |-> load, checks |-> checks]

Sleeps == {[h \in Night |-> IF h = 22 THEN s ELSE "zero"] : s \in {"zero", "some", None}}
Zero   == [h \in Night |-> "zero"]

Expandable ==
  { Cell(e, s, {}, "macro", "no", NoLoad, {"right"}) :
      e \in { None, Expansion({}, {}, {22}, "no"), Expansion({}, {}, Night, "yes"), Expansion({}, {}, {}, "dirty"),
              Expansion({22}, {}, {22}, "no"), Expansion({}, {23}, Night, "no"), Expansion({22}, {23}, {}, "yes") },
      s \in Sleeps }

Constricted ==
  { Cell(None, Zero, rows, site, "no", NoLoad, {"wrong", "right"}) : 
      rows \in {{a, b} : a, b \in Rows}, site \in SiteTypes }

Loaded ==
  { Cell(None, Zero, {}, None, "no", load, {}) :
      load \in [1..MaxDay -> {{Late, Calm}, {High, Asleep}}] }

White ==
  { Cell(Expansion({}, {}, {}, e), Zero, Rows, "macro", w, [d \in 1..MaxDay |-> {High}], {"missing"}) :
      e \in Flags, w \in Flags }

Targets == {"all", "expansion", "constriction", "pre_sleep_load", "load"}

MCCalls ==
  [target : Targets, day : {None, MaxDay, MaxDay + 1}, by : {"cgi"}]
    \cup [target : {"all"}, day : {None}, by : {"name", "nothing"}]
    \cup [target : {"load"}, day : {Unreadable}, by : {"cgi"}]

MCCells == Expandable \cup Constricted \cup Loaded \cup White

=============================================================================

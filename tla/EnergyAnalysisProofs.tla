------------------------ MODULE EnergyAnalysisProofs ------------------------
(***************************************************************************)
(* Proofs about EnergyAnalysis for any cells, any hours and any number of  *)
(* days.  The date that is chosen is one the tables of the target hold,    *)
(* and imports only add days: so a section that has been read holds what   *)
(* the tables say of the cell, in whatever order the sections are read.    *)
(* Its last part proves the same of BatchAnalysis, the analysis of an      *)
(* area, whose reads follow the same rules beside the same imports.        *)
(***************************************************************************)
EXTENDS EnergyAnalysis, AreaAnalysis, FiniteSetTheorems, TLAPS

Chosen == {"naming", "reading", "load", "done"}

(* The sections as records.                                                *)
Sections ==
  /\ exp \in [row : {NoRow, cell.expansion}, sleep : [Hours -> {"zero", "some", None}]]
  /\ con \in [rows : {{}, cell.constriction}, kept : SUBSET cell.constriction]
  /\ pre \in [detail : {{}} \cup {cell.busy[d] : d \in 1..MaxDay}, days : 0..LoadDays]

DateIsHeld ==
  pc \in Chosen => date \in 1..MaxDay /\ \A t \in Sources(req.target) : date <= loaded[t]

(* Exactly what the target wants is read, and nothing has failed quietly.  *)
JobsAreWanted ==
  /\ pc = "asked" => \A j \in Jobs : job[j] = "off"
  /\ pc \in Chosen => \A j \in Jobs : job[j] # "failed" /\ (job[j] = "off" <=> j \notin Wanted(req.target))
  /\ pc \in {"load", "done"} => \A j \in Jobs : job[j] \in {"off", "read"}
  /\ pc = "load" => req.target = "load"

ExpansionIsRead ==
  "expansion" \in Wanted(req.target) =>
    /\ job["expansion"] \in {"sleep", "read"} => exp.row = cell.expansion
    /\ job["expansion"] = "read" =>
         exp.sleep = [h \in Hours |-> IF h \in QueriedHours(exp.row) THEN cell.sleep[h] ELSE None]

ConstrictionIsRead ==
  /\ con.kept = Enrich(con.rows, IF LookedUpMain(con.rows) THEN cell.site ELSE None)
  /\ job["constriction"] = "read" => con.rows = cell.constriction

HighOn(d) == \E r \in cell.busy[d] : r.high /\ IsPreSleepHour(r)

(* An analysis of the load alone, in either order of its two queries.      *)
LoadIsRead ==
  req.target = "pre_sleep_load" =>
    /\ job["busy"] \in {"count", "read"} =>
         pre.days = Cardinality({d \in 1..date : d > date - LoadDays /\ HighOn(d)})
    /\ job["busy"] \in {"detail", "read"} => pre.detail = cell.busy[date]

IInv == /\ TypeOK /\ Sections /\ DateIsHeld /\ JobsAreWanted
        /\ ExpansionIsRead /\ ConstrictionIsRead /\ LoadIsRead

-----------------------------------------------------------------------------
(* Lemmas about the operators.                                             *)

(* The smaller of two numbers.                                             *)
LEMMA MinOfTwo ==
  ASSUME NEW a \in Int, NEW b \in Int
  PROVE  Min({a, b}) \in {a, b} /\ Min({a, b}) <= a /\ Min({a, b}) <= b
<1>1. CASE a <= b
  BY <1>1 DEF Min
<1>2. CASE b <= a
  BY <1>2 DEF Min
<1>. QED
  BY <1>1, <1>2

(* The latest date is one that every table of the target holds.            *)
LEMMA LatestIsHeld ==
  ASSUME loaded \in [Tables -> FirstDay..MaxDay],
         NEW target \in {"all", "expansion", "constriction", "pre_sleep_load", "load"}
  PROVE  /\ LatestDate(target) \in 1..MaxDay
         /\ \A t \in Sources(target) : LatestDate(target) <= loaded[t]
<1> USE DaysAssumption DEF Tables
<1>0. \A t \in Tables : loaded[t] \in Int /\ loaded[t] \in 1..MaxDay
  OBVIOUS
<1>1. CASE target = "all"
  <2>1. Sources(target) = {"expansion", "constriction"}
    BY <1>1 DEF Sources
  <2>2. {loaded[t] : t \in Sources(target)} = {loaded["expansion"], loaded["constriction"]}
    BY <2>1
  <2>3. LatestDate(target) = Min({loaded["expansion"], loaded["constriction"]})
    BY <2>2 DEF LatestDate
  <2>4. /\ loaded["expansion"] \in Int /\ loaded["constriction"] \in Int
        /\ loaded["expansion"] \in 1..MaxDay /\ loaded["constriction"] \in 1..MaxDay
    BY <1>0
  <2> HIDE DEF Tables
  <2>5. /\ LatestDate(target) \in {loaded["expansion"], loaded["constriction"]}
        /\ LatestDate(target) <= loaded["expansion"] /\ LatestDate(target) <= loaded["constriction"]
    BY ONLY <2>3, <2>4, MinOfTwo
  <2>. QED
    BY ONLY <2>1, <2>4, <2>5
<1>2. ASSUME NEW t \in Tables, Sources(target) = {t}
      PROVE  /\ LatestDate(target) \in 1..MaxDay
             /\ \A u \in Sources(target) : LatestDate(target) <= loaded[u]
  <2>1. {loaded[u] : u \in Sources(target)} = {loaded[t], loaded[t]}
    BY <1>2
  <2>. QED
    BY <1>0, <1>2, <2>1, MinOfTwo DEF LatestDate
<1>3. CASE target # "all"
  <2>1. \E t \in Tables : Sources(target) = {t}
    BY <1>3 DEF Sources
  <2>. QED
    BY <1>2, <2>1
<1>. QED
  BY <1>1, <1>3

(* The hour before one of the hours of sleep, read from either end.        *)
LEMMA HourBefore ==
  ASSUME NEW r, r.hour \in 0..23, r.sleep \subseteq 0..23
  PROVE  IsPreSleepHour(r) <=> (r.hour + 1) % 24 \in r.sleep
<1>1. \A h \in 0..23 : (h + 23) % 24 = IF h = 0 THEN 23 ELSE h - 1
  OBVIOUS
<1>2. (r.hour + 1) % 24 = IF r.hour = 23 THEN 0 ELSE r.hour + 1
  OBVIOUS
<1>3. ASSUME IsPreSleepHour(r) PROVE (r.hour + 1) % 24 \in r.sleep
  <2>1. PICK h \in r.sleep : r.hour = (h + 23) % 24
    BY <1>3 DEF IsPreSleepHour
  <2>2. h \in 0..23
    OBVIOUS
  <2>3. (r.hour + 1) % 24 = h
    BY <1>1, <1>2, <2>1, <2>2
  <2>. QED
    BY <2>3
<1>4. ASSUME (r.hour + 1) % 24 \in r.sleep PROVE IsPreSleepHour(r)
  <2>1. (r.hour + 1) % 24 \in 0..23
    BY <1>4
  <2>2. r.hour = (((r.hour + 1) % 24) + 23) % 24
    BY <1>1, <1>2, <2>1
  <2>. QED
    BY <1>4, <2>2 DEF IsPreSleepHour
<1>. QED
  BY <1>3, <1>4

(* No more days than the window has are counted.                           *)
LEMMA WindowBounds ==
  ASSUME date \in Nat, NEW days, days \subseteq date - LoadDays + 1..date
  PROVE  HighDays(days) \in 0..LoadDays
<1> DEFINE high   == {d \in days : \E r \in cell.busy[d] : r.high /\ IsPreSleepHour(r)}
           window == date - LoadDays + 1..date
<1>1. date - LoadDays + 1 \in Int /\ date \in Int /\ LoadDays \in Nat
  BY DaysAssumption
<1>2. IsFiniteSet(window) /\ Cardinality(window) = LoadDays
  BY <1>1, FS_Interval, DaysAssumption
<1>3. high \subseteq window
  OBVIOUS
<1> HIDE DEF high, window
<1>4. IsFiniteSet(high) /\ Cardinality(high) <= Cardinality(window)
  BY <1>2, <1>3, FS_Subset
<1>5. Cardinality(high) \in Nat
  BY <1>4, FS_CardinalityType
<1>6. HighDays(days) = Cardinality(high)
  BY DEF HighDays, high
<1>. QED
  BY <1>1, <1>2, <1>4, <1>5, <1>6

(* What the report keeps, in the words of the rule: a neighbour is dropped *)
(* only when both site types and the distance are on record and break it.  *)
LEMMA NeighbourRule ==
  ASSUME NEW main \in SiteTypes, NEW around \in SiteTypes, NEW distance \in Distances
  PROVE  Relation(main, around, distance) \notin {"out_of_range", "site_type_mismatch"} <=>
           \/ None \in {main, around, distance}
           \/ /\ main = "macro" => around = "macro"
              /\ main = "indoor" => around \in {"macro", "indoor"} /\ distance = "100m"
              /\ distance # "far"
<1>1. CASE None \in {main, around, distance}
  BY <1>1 DEF Relation
<1>2. CASE None \notin {main, around, distance}
  <2>1. /\ main \in {"macro", "indoor", "micro"} /\ around \in {"macro", "indoor", "micro"}
        /\ distance \in {"100m", "200m", "far"}
    BY <1>2 DEF SiteTypes, Distances
  <2>2. Relation(main, around, distance) = IF distance \notin Reach(main) THEN "out_of_range"
                                           ELSE IF around \notin Allowed(main) THEN "site_type_mismatch"
                                           ELSE "allowed"
    BY <1>2 DEF Relation
  <2>3. CASE main = "macro"
    BY <1>2, <2>1, <2>2, <2>3 DEF Reach, Allowed
  <2>4. CASE main = "indoor"
    BY <1>2, <2>1, <2>2, <2>4 DEF Reach, Allowed
  <2>5. CASE main = "micro"
    <3>1. Allowed(main) = SiteTypes /\ Reach(main) = {"100m", "200m"}
      BY <2>5 DEF Allowed, Reach
    <3>. QED
      BY <1>2, <2>1, <2>2, <2>5, <3>1
  <2>. QED
    BY <2>1, <2>3, <2>4, <2>5
<1>. QED
  BY <1>1, <1>2

(* What the lookup of a neighbour returns has its type.                    *)
LEMMA NeighbourTypes ==
  ASSUME NEW r, IsConstrictionRow(r)
  PROVE  r.site \in SiteTypes /\ AroundType(r) \in SiteTypes /\ Distance(r) \in Distances
<1>0. /\ r.site \in SiteTypes /\ None \in Distances
      /\ r.relation # None => r.relation.distance \in Distances
  BY DEF IsConstrictionRow, Distances
<1>1. Distance(r) \in Distances
  <2>1. CASE r.relation = None
    BY <1>0, <2>1 DEF Distance
  <2>2. CASE r.relation # None
    BY <1>0, <2>2 DEF Distance
  <2>. QED
    BY <2>1, <2>2
<1>2. CASE RelationNetwork(r) = None
  BY <1>0, <1>1, <1>2 DEF AroundType, SiteTypes
<1>3. CASE RelationNetwork(r) # None
  <2>1. RelationNetwork(r) \in {"4G", "5G"}
    BY <1>3 DEF RelationNetwork, IsConstrictionRow, Networks
  <2>. QED
    BY <1>0, <1>1, <1>3, <2>1 DEF AroundType, IsConstrictionRow
<1>. QED
  BY <1>0, <1>1, <1>2, <1>3

(* Only rows that were read are kept.                                      *)
LEMMA KeptAreRows ==
  ASSUME NEW rows, NEW main
  PROVE  Enrich(rows, main) \subseteq rows
BY DEF Enrich

(* Only hours of the day are queried.                                      *)
LEMMA QueriedAreHours ==
  ASSUME NEW row, row # None => IsExpansionRow(row)
  PROVE  QueriedHours(row) \subseteq Hours
BY DEF QueriedHours, Candidates, NoRow, IsExpansionRow

(* What the tables hold for the cell.                                      *)
LEMMA CellIsKnown ==
  ASSUME cell \in Cells
  PROVE  /\ cell.expansion # None => IsExpansionRow(cell.expansion)
         /\ cell.sleep \in [Hours -> {"zero", "some", None}]
         /\ \A r \in cell.constriction : IsConstrictionRow(r)
         /\ cell.site \in SiteTypes
         /\ \A d \in 1..MaxDay : \A r \in cell.busy[d] : IsBusyRow(r)
BY CellsAssumption

-----------------------------------------------------------------------------
(* A call that has not read anything knows nothing.                        *)
LEMMA IInvInit == Init => IInv
<1> SUFFICES ASSUME Init PROVE IInv
  OBVIOUS
<1>1. /\ exp = [row |-> NoRow, sleep |-> [h \in Hours |-> None]]
      /\ con = [rows |-> {}, kept |-> {}] /\ pre = [detail |-> {}, days |-> 0]
      /\ job = [j \in Jobs |-> "off"] /\ pc = "asked" /\ date = 0 /\ param = "unavailable"
      /\ loaded = [t \in Tables |-> FirstDay] /\ cell \in Cells /\ req \in Calls
  BY DEF Init
<1>2. Sections
  BY <1>1, DaysAssumption DEF Sections
<1>3. TypeOK
  BY <1>1, DaysAssumption DEF TypeOK
<1>4. DateIsHeld /\ JobsAreWanted /\ ExpansionIsRead /\ LoadIsRead
  BY <1>1 DEF DateIsHeld, JobsAreWanted, ExpansionIsRead, LoadIsRead, Chosen, Jobs
<1>5. ConstrictionIsRead
  BY <1>1 DEF ConstrictionIsRead, Enrich, Jobs
<1>. QED
  BY <1>2, <1>3, <1>4, <1>5 DEF IInv

(* The shape of the sections implies what the type invariant says of them. *)
LEMMA SectionsAreTyped ==
  ASSUME Sections, ConstrictionIsRead
  PROVE  /\ exp.row \in {NoRow, cell.expansion} /\ exp.sleep \in [Hours -> {"zero", "some", None}]
         /\ con.rows \in {{}, cell.constriction} /\ con.kept \subseteq con.rows
         /\ pre.detail \in {{}} \cup {cell.busy[d] : d \in 1..MaxDay} /\ pre.days \in 0..LoadDays
BY KeptAreRows DEF Sections, ConstrictionIsRead

(* A step of one section.                                                  *)
LEMMA SectionStep ==
  ASSUME IInv, UNCHANGED <<loaded, inputs, pc, date>>, pc = "reading",
         NEW j \in Jobs, job[j] # "off",
         NEW stage \in {"open", "sleep", "detail", "count", "read"}, Step(j, stage),
         Sections', ConstrictionIsRead', ExpansionIsRead', LoadIsRead',
         param' \in {"compliant", "not_compliant", "unavailable"}
  PROVE  IInv'
<1>1. job \in [Jobs -> {"off", "open", "sleep", "detail", "count", "read", "failed"}]
  BY DEF IInv, TypeOK
<1>2. /\ job' \in [Jobs -> {"off", "open", "sleep", "detail", "count", "read", "failed"}]
      /\ job'[j] = stage /\ \A i \in Jobs \ {j} : job'[i] = job[i]
  BY <1>1 DEF Step
<1>3. JobsAreWanted'
  BY <1>2 DEF IInv, JobsAreWanted, inputs, Chosen
<1>4. DateIsHeld'
  BY DEF IInv, DateIsHeld, inputs
<1>5. TypeOK'
  <2>1. /\ exp'.row \in {NoRow, cell'.expansion} /\ exp'.sleep \in [Hours -> {"zero", "some", None}]
        /\ con'.rows \in {{}, cell'.constriction} /\ con'.kept \subseteq con'.rows
        /\ pre'.detail \in {{}} \cup {cell'.busy[d] : d \in 1..MaxDay} /\ pre'.days \in 0..LoadDays
    BY KeptAreRows DEF Sections, ConstrictionIsRead
  <2>. QED
    BY <1>2, <2>1 DEF IInv, TypeOK, inputs
<1>. QED
  BY <1>3, <1>4, <1>5 DEF IInv

(* A step of the call or of an import that reads nothing.                  *)
LEMMA CallStep ==
  ASSUME IInv, UNCHANGED <<inputs, date, job, sections>>,
         loaded' \in [Tables -> FirstDay..MaxDay], \A t \in Tables : loaded[t] <= loaded'[t],
         \/ pc' = pc
         \/ pc' \in {"refused", "failed"}
         \/ pc = "naming" /\ pc' = "reading"
         \/ /\ pc = "reading" /\ pc' = IF req.target = "load" THEN "load" ELSE "done"
            /\ \A j \in Jobs : job[j] \in {"off", "read"}
  PROVE  IInv'
<1>1. TypeOK'
  BY DEF IInv, TypeOK, inputs, sections
<1>2. Sections' /\ ConstrictionIsRead' /\ ExpansionIsRead'
  BY DEF IInv, Sections, ConstrictionIsRead, ExpansionIsRead, inputs, sections
<1>3. LoadIsRead'
  BY DEF IInv, LoadIsRead, HighOn, inputs, sections
<1>4. JobsAreWanted'
  BY DEF IInv, JobsAreWanted, inputs, Chosen
<1>5. DateIsHeld'
  <2>1. pc' \in Chosen => pc \in Chosen
    BY DEF Chosen
  <2>2. \A t \in Sources(req.target) : t \in Tables
    BY DEF Sources, Tables, IInv, TypeOK
  <2>3. \A t \in Tables : loaded[t] \in Int /\ loaded'[t] \in Int
    BY DaysAssumption DEF IInv, TypeOK
  <2>4. date \in Int
    BY DEF IInv, TypeOK
  <2>5. \A t \in Sources(req.target) : date <= loaded[t] => date <= loaded'[t]
    BY <2>2, <2>3, <2>4
  <2>. QED
    BY <2>1, <2>5 DEF IInv, DateIsHeld, inputs
<1>. QED
  BY <1>1, <1>2, <1>3, <1>4, <1>5 DEF IInv

(* The date: the one asked for if every table has it, else the latest      *)
(* that every table has.                                                   *)
LEMMA ChooseStep ==
  ASSUME IInv, ChooseDate
  PROVE  IInv'
<1> DEFINE newest == LatestDate(req.target)
<1>0. /\ TypeOK /\ pc = "asked" /\ req \in Calls /\ req.day # Unreadable
      /\ pc' \in {"naming", "reading"}
      /\ date' = IF req.day = None \/ req.day > newest THEN newest ELSE req.day
      /\ job' = [j \in Jobs |-> IF j \in Wanted(req.target) THEN "open" ELSE "off"]
      /\ UNCHANGED <<loaded, inputs, sections>>
  BY DEF IInv, TypeOK, ChooseDate
<1>1. /\ req.target \in {"all", "expansion", "constriction", "pre_sleep_load", "load"}
      /\ req.day = None \/ req.day \in 1..MaxDay + 1
  BY <1>0, CallsAssumption
<1>2. newest \in 1..MaxDay /\ \A t \in Sources(req.target) : newest <= loaded[t]
  BY <1>0, <1>1, LatestIsHeld DEF TypeOK
<1> HIDE DEF newest
<1>3. date' \in 1..MaxDay /\ date' <= newest
  BY <1>0, <1>1, <1>2, DaysAssumption
<1>4. \A t \in Sources(req.target) : loaded[t] \in Int
  BY <1>0, DaysAssumption DEF TypeOK, Sources, Tables
<1>5. DateIsHeld'
  BY <1>0, <1>2, <1>3, <1>4 DEF DateIsHeld, inputs
<1>6. JobsAreWanted'
  BY <1>0 DEF JobsAreWanted, inputs, Chosen
<1>7. \A j \in Jobs : job'[j] \in {"off", "open"}
  BY <1>0
<1>8. ExpansionIsRead' /\ ConstrictionIsRead' /\ LoadIsRead' /\ Sections'
  BY <1>0, <1>7 DEF IInv, ExpansionIsRead, ConstrictionIsRead, LoadIsRead, Sections, inputs, sections, Jobs
<1>9. TypeOK'
  <2>1. job' \in [Jobs -> {"off", "open", "sleep", "detail", "count", "read", "failed"}]
    BY <1>0
  <2>2. date' \in 0..MaxDay
    BY <1>3
  <2>. QED
    BY <1>0, <2>1, <2>2 DEF TypeOK, inputs, sections
<1>. QED
  BY <1>5, <1>6, <1>8, <1>9 DEF IInv

-----------------------------------------------------------------------------
(* The sections.                                                           *)

(* What a target wants is read from a table whose day is held.             *)
LEMMA WantedIsHeld ==
  ASSUME IInv, pc \in Chosen
  PROVE  /\ "expansion" \in Wanted(req.target) => Holds("expansion")
         /\ "constriction" \in Wanted(req.target) => Holds("constriction")
         /\ req.target = "pre_sleep_load" => Holds("busy")
<1>1. req.target \in {"all", "expansion", "constriction", "pre_sleep_load", "load"}
  BY CallsAssumption DEF IInv, TypeOK
<1>2. /\ req.target = "all" => Sources(req.target) = {"expansion", "constriction"}
      /\ req.target = "expansion" => Sources(req.target) = {"expansion"}
      /\ req.target = "constriction" => Sources(req.target) = {"constriction"}
      /\ req.target = "pre_sleep_load" => Sources(req.target) = {"busy"}
  BY DEF Sources
<1>3. /\ req.target = "constriction" => "expansion" \notin Wanted(req.target)
      /\ req.target = "expansion" => "constriction" \notin Wanted(req.target)
      /\ req.target \in {"pre_sleep_load", "load"} =>
           "expansion" \notin Wanted(req.target) /\ "constriction" \notin Wanted(req.target)
  BY DEF Wanted
<1>4. \A t \in Sources(req.target) : Holds(t)
  BY DEF IInv, DateIsHeld, Holds
<1>. QED
  BY <1>1, <1>2, <1>3, <1>4

(* The expansion row is that of the date.                                  *)
LEMMA ExpansionStep ==
  ASSUME IInv, ReadExpansion
  PROVE  IInv'
<1>0. /\ TypeOK /\ Sections /\ pc = "reading" /\ job["expansion"] = "open" /\ "expansion" \in Jobs
      /\ Step("expansion", "sleep") /\ UNCHANGED <<loaded, inputs, pc, date, con, pre, param>>
      /\ exp' = [exp EXCEPT !.row = IF Holds("expansion") THEN cell.expansion ELSE NoRow]
      /\ job \in [Jobs -> {"off", "open", "sleep", "detail", "count", "read", "failed"}]
  BY DEF IInv, TypeOK, ReadExpansion, Jobs
<1>1. "expansion" \in Wanted(req.target) /\ pc \in Chosen
  BY <1>0 DEF IInv, JobsAreWanted, Chosen
<1>2. Holds("expansion")
  BY <1>1, WantedIsHeld
<1>3. exp' = [exp EXCEPT !.row = cell.expansion]
  BY <1>0, <1>2
<1>4. exp' \in [row : {NoRow, cell.expansion}, sleep : [Hours -> {"zero", "some", None}]] /\ exp'.row = cell.expansion
  BY <1>0, <1>3 DEF Sections
<1>5. Sections'
  BY <1>0, <1>4 DEF Sections, inputs
<1>6. job'["expansion"] = "sleep" /\ job'["constriction"] = job["constriction"] /\ job'["busy"] = job["busy"]
  BY <1>0 DEF Step, Jobs
<1>7. ExpansionIsRead' /\ ConstrictionIsRead' /\ LoadIsRead'
  BY <1>0, <1>4, <1>6 DEF IInv, ExpansionIsRead, ConstrictionIsRead, LoadIsRead, HighOn, inputs
<1>. QED
  BY <1>0, <1>5, <1>7, SectionStep DEF TypeOK

(* The average sleep is that of the queried hours.                         *)
LEMMA SleepStep ==
  ASSUME IInv, ReadSleep
  PROVE  IInv'
<1> DEFINE asked == [h \in Hours |-> IF h \in QueriedHours(exp.row) THEN cell.sleep[h] ELSE None]
<1>0. /\ TypeOK /\ Sections /\ pc = "reading" /\ job["expansion"] = "sleep" /\ "expansion" \in Jobs
      /\ Step("expansion", "read") /\ UNCHANGED <<loaded, inputs, pc, date, con, pre, param>>
      /\ exp' = [exp EXCEPT !.sleep = asked]
      /\ job \in [Jobs -> {"off", "open", "sleep", "detail", "count", "read", "failed"}]
  BY DEF IInv, TypeOK, ReadSleep, Jobs
<1>1. cell.sleep \in [Hours -> {"zero", "some", None}]
  BY <1>0, CellIsKnown DEF TypeOK
<1>2. asked \in [Hours -> {"zero", "some", None}]
  BY <1>1
<1>3. exp' = [exp EXCEPT !.sleep = asked] /\ exp.row = exp.row
  BY <1>0
<1> HIDE DEF asked
<1>4. /\ exp' \in [row : {NoRow, cell.expansion}, sleep : [Hours -> {"zero", "some", None}]]
      /\ exp'.row = exp.row /\ exp'.sleep = asked
  BY <1>0, <1>2, <1>3 DEF Sections
<1>5. Sections'
  BY <1>0, <1>4 DEF Sections, inputs
<1>6. job'["expansion"] = "read" /\ job'["constriction"] = job["constriction"] /\ job'["busy"] = job["busy"]
  BY <1>0 DEF Step, Jobs
<1>7. ExpansionIsRead'
  BY <1>0, <1>4, <1>6 DEF IInv, ExpansionIsRead, inputs, asked
<1>8. ConstrictionIsRead' /\ LoadIsRead'
  BY <1>0, <1>6 DEF IInv, ConstrictionIsRead, LoadIsRead, HighOn, inputs
<1>. QED
  BY <1>0, <1>5, <1>7, <1>8, SectionStep DEF TypeOK

(* The neighbours' rows are those of the date, and what is dropped is      *)
(* dropped for cause.                                                      *)
LEMMA ConstrictionStep ==
  ASSUME IInv, ReadConstriction
  PROVE  IInv'
<1> DEFINE rows == cell.constriction
           kept == Enrich(rows, IF LookedUpMain(rows) THEN cell.site ELSE None)
<1>0. /\ TypeOK /\ Sections /\ pc = "reading" /\ job["constriction"] = "open" /\ "constriction" \in Jobs
      /\ Step("constriction", "read") /\ UNCHANGED <<loaded, inputs, pc, date, exp, pre, param>>
      /\ job \in [Jobs -> {"off", "open", "sleep", "detail", "count", "read", "failed"}]
  BY DEF IInv, TypeOK, ReadConstriction, Jobs
<1>1. "constriction" \in Wanted(req.target) /\ pc \in Chosen
  BY <1>0 DEF IInv, JobsAreWanted, Chosen
<1>2. Holds("constriction")
  BY <1>1, WantedIsHeld
<1>3. con' = [rows |-> rows, kept |-> kept] /\ kept \subseteq rows
  BY <1>2, KeptAreRows DEF ReadConstriction
<1>4. Sections'
  BY <1>0, <1>3 DEF Sections, inputs
<1>5. job'["constriction"] = "read" /\ job'["expansion"] = job["expansion"] /\ job'["busy"] = job["busy"]
  BY <1>0 DEF Step, Jobs
<1>6. ConstrictionIsRead'
  BY <1>0, <1>3 DEF ConstrictionIsRead, inputs
<1>7. ExpansionIsRead' /\ LoadIsRead'
  BY <1>0, <1>5 DEF IInv, ExpansionIsRead, LoadIsRead, HighOn, inputs
<1>. QED
  BY <1>0, <1>4, <1>6, <1>7, SectionStep DEF TypeOK

(* The load before sleep is that of the day that is shown.                 *)
LEMMA DetailStep ==
  ASSUME IInv, ReadDetail
  PROVE  IInv'
<1> DEFINE rows  == IF Holds("busy") THEN cell.busy[date] ELSE {}
           stage == IF job["busy"] = "open" THEN "detail" ELSE "read"
<1>0. /\ TypeOK /\ Sections /\ pc = "reading" /\ pc \in Chosen /\ job["busy"] \in {"open", "count"} /\ "busy" \in Jobs
      /\ Step("busy", stage) /\ UNCHANGED <<loaded, inputs, pc, date, exp, con, param>>
      /\ pre' = [pre EXCEPT !.detail = rows]
      /\ job \in [Jobs -> {"off", "open", "sleep", "detail", "count", "read", "failed"}]
  BY DEF IInv, TypeOK, ReadDetail, Jobs, Chosen
<1>1. date \in 1..MaxDay /\ (req.target = "pre_sleep_load" => rows = cell.busy[date])
  BY <1>0, WantedIsHeld DEF IInv, DateIsHeld
<1>2. rows \in {{}} \cup {cell.busy[d] : d \in 1..MaxDay}
  BY <1>1
<1>3. stage \in {"detail", "read"} /\ (stage = "read" => job["busy"] = "count")
  BY <1>0
<1>4. pre' = [pre EXCEPT !.detail = rows] /\ Step("busy", stage)
  BY <1>0
<1> HIDE DEF rows, stage
<1>5. /\ pre' \in [detail : {{}} \cup {cell.busy[d] : d \in 1..MaxDay}, days : 0..LoadDays]
      /\ pre'.detail = rows /\ pre'.days = pre.days
  BY <1>0, <1>2, <1>4 DEF Sections
<1>6. Sections'
  BY <1>0, <1>5 DEF Sections, inputs
<1>7. job'["busy"] = stage /\ job'["expansion"] = job["expansion"] /\ job'["constriction"] = job["constriction"]
  BY <1>0, <1>4 DEF Step, Jobs
<1>8. ExpansionIsRead' /\ ConstrictionIsRead'
  BY <1>0, <1>7 DEF IInv, ExpansionIsRead, ConstrictionIsRead, inputs
<1>9. LoadIsRead'
  BY <1>0, <1>1, <1>3, <1>5, <1>7 DEF IInv, LoadIsRead, HighOn, inputs
<1>. QED
  BY <1>0, <1>3, <1>4, <1>6, <1>8, <1>9, SectionStep DEF TypeOK

(* The days that are counted are those of the window.                      *)
LEMMA CountStep ==
  ASSUME IInv, CountHighDays
  PROVE  IInv'
<1> DEFINE days  == {d \in date - LoadDays + 1..date : d \in 1..loaded["busy"]}
           count == HighDays(days)
           stage == IF job["busy"] = "open" THEN "count" ELSE "read"
<1>0. /\ TypeOK /\ Sections /\ pc = "reading" /\ pc \in Chosen /\ job["busy"] \in {"open", "detail"} /\ "busy" \in Jobs
      /\ Step("busy", stage) /\ UNCHANGED <<loaded, inputs, pc, date, exp, con, param>>
      /\ pre' = [pre EXCEPT !.days = count]
      /\ job \in [Jobs -> {"off", "open", "sleep", "detail", "count", "read", "failed"}]
  BY DEF IInv, TypeOK, CountHighDays, Jobs, Chosen
<1>1. date \in Nat /\ loaded["busy"] \in Nat /\ LoadDays \in Nat
  BY <1>0, DaysAssumption DEF TypeOK, Tables
<1>2. count \in 0..LoadDays
  BY <1>1, WindowBounds
<1>3. req.target = "pre_sleep_load" => count = Cardinality({d \in 1..date : d > date - LoadDays /\ HighOn(d)})
  <2>1. SUFFICES ASSUME req.target = "pre_sleep_load"
                 PROVE  count = Cardinality({d \in 1..date : d > date - LoadDays /\ HighOn(d)})
    OBVIOUS
  <2>2. date <= loaded["busy"]
    BY <1>0, <2>1, WantedIsHeld DEF Holds
  <2>3. days = {d \in 1..date : d > date - LoadDays}
    BY <1>1, <2>2
  <2>4. {d \in days : HighOn(d)} = {d \in 1..date : d > date - LoadDays /\ HighOn(d)}
    BY <2>3
  <2>. QED
    BY <2>4 DEF HighDays, HighOn
<1>4. stage \in {"count", "read"} /\ (stage = "read" => job["busy"] = "detail")
  BY <1>0
<1>5. pre' = [pre EXCEPT !.days = count] /\ Step("busy", stage)
  BY <1>0
<1> HIDE DEF days, count, stage
<1>6. /\ pre' \in [detail : {{}} \cup {cell.busy[d] : d \in 1..MaxDay}, days : 0..LoadDays]
      /\ pre'.days = count /\ pre'.detail = pre.detail
  BY <1>0, <1>2, <1>5 DEF Sections
<1>7. Sections'
  BY <1>0, <1>6 DEF Sections, inputs
<1>8. job'["busy"] = stage /\ job'["expansion"] = job["expansion"] /\ job'["constriction"] = job["constriction"]
  BY <1>0, <1>5 DEF Step, Jobs
<1>9. ExpansionIsRead' /\ ConstrictionIsRead'
  BY <1>0, <1>8 DEF IInv, ExpansionIsRead, ConstrictionIsRead, inputs
<1>10. LoadIsRead'
  BY <1>0, <1>3, <1>4, <1>6, <1>8 DEF IInv, LoadIsRead, HighOn, inputs
<1>. QED
  BY <1>0, <1>4, <1>5, <1>7, <1>9, <1>10, SectionStep DEF TypeOK

(* The verdict on the parameters touches no other section.                 *)
LEMMA ParameterStep ==
  ASSUME IInv, CheckParameters
  PROVE  IInv'
<1>0. /\ TypeOK /\ Sections /\ pc = "reading" /\ job["param"] = "open" /\ "param" \in Jobs
      /\ Step("param", "read") /\ UNCHANGED <<loaded, inputs, pc, date, exp, con, pre>>
      /\ param' \in {"compliant", "not_compliant", "unavailable"}
      /\ job \in [Jobs -> {"off", "open", "sleep", "detail", "count", "read", "failed"}]
  BY DEF IInv, TypeOK, CheckParameters, Verdict, Jobs
<1>1. job'["expansion"] = job["expansion"] /\ job'["constriction"] = job["constriction"] /\ job'["busy"] = job["busy"]
  BY <1>0 DEF Step, Jobs
<1>2. Sections' /\ ExpansionIsRead' /\ ConstrictionIsRead' /\ LoadIsRead'
  BY <1>0, <1>1 DEF IInv, Sections, ExpansionIsRead, ConstrictionIsRead, LoadIsRead, HighOn, inputs
<1>. QED
  BY <1>0, <1>2, SectionStep

(* A section that fails ends the call; nothing counts it as read.          *)
LEMMA FailStep ==
  ASSUME IInv, NEW j \in Jobs, Fail(j)
  PROVE  IInv'
<1>0. /\ TypeOK /\ pc' = "failed" /\ Step(j, "failed") /\ UNCHANGED <<loaded, inputs, date, sections>>
      /\ job \in [Jobs -> {"off", "open", "sleep", "detail", "count", "read", "failed"}]
  BY DEF IInv, TypeOK, Fail
<1>1. /\ job' \in [Jobs -> {"off", "open", "sleep", "detail", "count", "read", "failed"}]
      /\ \A i \in Jobs : job'[i] = job[i] \/ job'[i] = "failed"
  BY <1>0 DEF Step
<1>2. TypeOK' /\ Sections' /\ DateIsHeld' /\ JobsAreWanted'
  BY <1>0, <1>1 DEF IInv, TypeOK, Sections, DateIsHeld, JobsAreWanted, Chosen, inputs, sections
<1>3. /\ job'["expansion"] \in {job["expansion"], "failed"}
      /\ job'["constriction"] \in {job["constriction"], "failed"}
      /\ job'["busy"] \in {job["busy"], "failed"}
  BY <1>1 DEF Jobs
<1>4. ExpansionIsRead' /\ ConstrictionIsRead'
  BY <1>0, <1>3 DEF IInv, ExpansionIsRead, ConstrictionIsRead, inputs, sections
<1>5. LoadIsRead'
  BY <1>0, <1>3 DEF IInv, LoadIsRead, HighOn, inputs, sections
<1>. QED
  BY <1>2, <1>4, <1>5 DEF IInv

(* The load alone, whose row is part of no other conclusion.               *)
LEMMA LoadStep ==
  ASSUME IInv, ReadLoad
  PROVE  IInv'
<1>0. /\ TypeOK /\ Sections /\ pc = "load" /\ pc' \in {"done", "failed"}
      /\ UNCHANGED <<loaded, inputs, date, job, con, pre, param>>
  BY DEF IInv, TypeOK, ReadLoad
<1>1. \E row \in {NoRow, cell.expansion} : exp' = [exp EXCEPT !.row = row] \/ exp' = exp
  BY DEF ReadLoad
<1>2. exp' \in [row : {NoRow, cell.expansion}, sleep : [Hours -> {"zero", "some", None}]]
  BY <1>0, <1>1 DEF Sections
<1>3. Sections'
  BY <1>0, <1>2 DEF Sections, inputs
<1>4. DateIsHeld' /\ JobsAreWanted'
  BY <1>0 DEF IInv, DateIsHeld, JobsAreWanted, Chosen, inputs
<1>5. "expansion" \notin Wanted(req.target) /\ req.target # "pre_sleep_load"
  BY <1>0 DEF IInv, JobsAreWanted, Wanted
<1>6. ExpansionIsRead' /\ ConstrictionIsRead' /\ LoadIsRead'
  BY <1>0, <1>5 DEF IInv, ExpansionIsRead, ConstrictionIsRead, LoadIsRead, inputs
<1>7. TypeOK'
  <2>1. exp'.row \in {NoRow, cell'.expansion} /\ exp'.sleep \in [Hours -> {"zero", "some", None}]
    BY <1>0, <1>2 DEF inputs
  <2>. QED
    BY <1>0, <2>1 DEF TypeOK, inputs
<1>. QED
  BY <1>3, <1>4, <1>6, <1>7 DEF IInv

(* Every step of the call and every import keeps the invariant.            *)
LEMMA IInvStep == IInv /\ [Next]_vars => IInv'
<1> SUFFICES ASSUME IInv, [Next]_vars PROVE IInv'
  OBVIOUS
<1>0. /\ loaded \in [Tables -> FirstDay..MaxDay]
      /\ \A t \in Tables : loaded[t] \in Int
  BY DaysAssumption DEF IInv, TypeOK
<1>1. ASSUME NEW t \in Tables, Import(t) PROVE IInv'
  <2>1. loaded[t] < MaxDay /\ loaded' = [loaded EXCEPT ![t] = loaded[t] + 1]
    BY <1>1 DEF Import
  <2>2. loaded' \in [Tables -> FirstDay..MaxDay] /\ \A u \in Tables : loaded[u] <= loaded'[u]
    BY <1>0, <2>1, DaysAssumption
  <2>. QED
    BY <1>1, <2>2, CallStep DEF Import
<1>a. ASSUME UNCHANGED <<loaded, inputs, date, job, sections>>,
             \/ pc' = pc
             \/ pc' \in {"refused", "failed"}
             \/ pc = "naming" /\ pc' = "reading"
             \/ /\ pc = "reading" /\ pc' = IF req.target = "load" THEN "load" ELSE "done"
                /\ \A j \in Jobs : job[j] \in {"off", "read"}
      PROVE  IInv'
  BY <1>0, <1>a, CallStep
<1>2. CASE Refuse \/ DateFails
  BY <1>2, <1>a DEF Refuse, DateFails
<1>3. CASE ResolveName
  BY <1>3, <1>a DEF ResolveName
<1>4. CASE Finish
  <2>1. \A j \in Jobs : job[j] \in {"off", "read"}
    BY <1>4 DEF Finish, IInv, JobsAreWanted, Chosen
  <2>. QED
    BY <1>4, <1>a, <2>1 DEF Finish
<1>5. CASE UNCHANGED vars
  BY <1>5, <1>a DEF vars
<1>. QED
  BY <1>1, <1>2, <1>3, <1>4, <1>5, ChooseStep, ExpansionStep, SleepStep, ConstrictionStep, DetailStep,
     CountStep, ParameterStep, FailStep, LoadStep DEF Next

-----------------------------------------------------------------------------
(* A section that has been read holds what the tables say of the cell on a *)
(* day that they hold, however the imports and the sections interleave.    *)
THEOREM Inductive == Spec => []IInv
BY IInvInit, IInvStep, PTL DEF Spec

(* Types; among them, the report keeps only rows that it has read and      *)
(* counts no more days than the window has.                                *)
THEOREM TypeCorrect == Spec => []TypeOK
<1>1. IInv => TypeOK
  BY DEF IInv
<1>. QED
  BY <1>1, Inductive, PTL

(* A finished section is read, not left out or failed.                     *)
LEMMA ReportedIsRead ==
  ASSUME IInv, pc = "done"
  PROVE  /\ pc \in Chosen
         /\ \A j \in Wanted(req.target) : j \in Jobs => job[j] = "read"
BY DEF IInv, JobsAreWanted, Chosen

(* Neighbours are dropped for cause, whatever rows the tables hold.        *)
LEMMA Dropped == IInv => DroppedForCause
<1> SUFFICES ASSUME IInv, NEW r \in con.rows
             PROVE  LET main   == IF r.site # None THEN r.site ELSE cell.site
                        around == AroundType(r) IN
                    r \in con.kept <=>
                      \/ None \in {main, around, Distance(r)}
                      \/ /\ main = "macro" => around = "macro"
                         /\ main = "indoor" => around \in {"macro", "indoor"} /\ Distance(r) = "100m"
                         /\ Distance(r) # "far"
  BY DEF DroppedForCause
<1> DEFINE main   == IF r.site # None THEN r.site ELSE cell.site
           around == AroundType(r)
           lookup == IF LookedUpMain(con.rows) THEN cell.site ELSE None
<1>1. r \in cell.constriction /\ cell \in Cells
  BY DEF IInv, TypeOK
<1>2. IsConstrictionRow(r) /\ cell.site \in SiteTypes
  BY <1>1, CellIsKnown
<1>3. main \in SiteTypes /\ around \in SiteTypes /\ Distance(r) \in Distances
  BY <1>2, NeighbourTypes
<1>4. main = IF r.site = None THEN lookup ELSE r.site
  BY DEF LookedUpMain
<1>5. con.kept = Enrich(con.rows, lookup)
  BY DEF IInv, ConstrictionIsRead
<1>6. r \in con.kept <=> Relation(main, around, Distance(r)) \notin {"out_of_range", "site_type_mismatch"}
  BY <1>4, <1>5 DEF Enrich
<1> HIDE DEF main, around, lookup
<1>7. r \in con.kept <=>
        \/ None \in {main, around, Distance(r)}
        \/ /\ main = "macro" => around = "macro"
           /\ main = "indoor" => around \in {"macro", "indoor"} /\ Distance(r) = "100m"
           /\ Distance(r) # "far"
  BY <1>3, <1>6, NeighbourRule
<1>. QED
  BY <1>7 DEF main, around

(* No hour to expand, no hour to remove, not on the whitelist: what the    *)
(* report denies is not there, on a day that the table holds.              *)
THEOREM Negatives == Spec => []NegativesAreFacts
<1>1. IInv => NegativesAreFacts
  <2> SUFFICES ASSUME IInv PROVE NegativesAreFacts
    OBVIOUS
  <2>1. DroppedForCause
    BY Dropped
  <2>2. ASSUME Reported("expansion") PROVE Holds("expansion") /\ exp.row = cell.expansion
    <3>1. pc = "done" /\ "expansion" \in Wanted(req.target)
      BY <2>2 DEF Reported
    <3>2. pc \in Chosen /\ job["expansion"] = "read"
      BY <3>1, ReportedIsRead DEF Jobs
    <3>. QED
      BY <3>1, <3>2, WantedIsHeld DEF IInv, ExpansionIsRead
  <2>3. ASSUME Reported("constriction") PROVE Holds("constriction") /\ con.rows = cell.constriction
    <3>1. pc = "done" /\ "constriction" \in Wanted(req.target)
      BY <2>3 DEF Reported
    <3>2. pc \in Chosen /\ job["constriction"] = "read"
      BY <3>1, ReportedIsRead DEF Jobs
    <3>. QED
      BY <3>1, <3>2, WantedIsHeld DEF IInv, ConstrictionIsRead
  <2>4. Reported("expansion") /\ ResultStatus(exp.row) = "no_candidate" =>
          Holds("expansion") /\ Candidates(cell.expansion) = {}
    BY <2>2 DEF ResultStatus
  <2>5. ASSUME pc = "done", WhitelistStatus = "not_whitelisted"
        PROVE  /\ "expansion" \in Wanted(req.target) /\ cell.expansion # None => cell.expansion.white # "yes"
               /\ "constriction" \in Wanted(req.target) /\ cell.constriction # {} => cell.white # "yes"
    <3>1. "yes" \notin WhiteFlags
      BY <2>5 DEF WhitelistStatus
    <3>2. ASSUME "expansion" \in Wanted(req.target), cell.expansion # None PROVE cell.expansion.white # "yes"
      BY <2>2, <2>5, <3>1, <3>2 DEF WhiteFlags, Reported, NoRow
    <3>3. ASSUME "constriction" \in Wanted(req.target), cell.constriction # {} PROVE cell.white # "yes"
      BY <2>3, <2>5, <3>1, <3>3 DEF WhiteFlags, Reported
    <3>. QED
      BY <3>2, <3>3
  <2>. QED
    BY <2>1, <2>3, <2>4, <2>5 DEF NegativesAreFacts
<1>. QED
  BY <1>1, Inductive, PTL

(* The report explains what it has queried, and counts the days it shows.  *)
LEMMA Explained == IInv => ProcessShowsTheTable
<1> SUFFICES ASSUME IInv, Reported("expansion"), NEW h \in ShownHours(exp.row)
             PROVE  /\ exp.sleep[h] = cell.sleep[h]
                    /\ Suggestion(exp.row, exp.sleep, h) = "expand" <=> ResultStatus(exp.row) = "candidate_available"
  BY DEF ProcessShowsTheTable
<1>1. pc = "done" /\ "expansion" \in Wanted(req.target) /\ job["expansion"] = "read"
  BY ReportedIsRead DEF Reported, Jobs
<1>2. exp.sleep = [g \in Hours |-> IF g \in QueriedHours(exp.row) THEN cell.sleep[g] ELSE None]
  BY <1>1 DEF IInv, ExpansionIsRead
<1>3. h \in Hours /\ h \in QueriedHours(exp.row)
  BY DEF ShownHours, QueriedHours
<1>4. h \in Candidates(exp.row) <=> Candidates(exp.row) # {}
  BY DEF ShownHours
<1>5. Suggestion(exp.row, exp.sleep, h) = "expand" <=> h \in Candidates(exp.row)
  BY DEF Suggestion
<1>6. ResultStatus(exp.row) = "candidate_available" <=> Candidates(exp.row) # {}
  BY DEF ResultStatus
<1>. QED
  BY <1>2, <1>3, <1>4, <1>5, <1>6

(* The day that is shown is among those counted.                           *)
LEMMA Counted == IInv => CountsWhatItShows
<1> SUFFICES ASSUME IInv, pc = "done", req.target = "pre_sleep_load" PROVE CountsWhatItShows
  BY DEF CountsWhatItShows
<1> DEFINE high(rows) == \E r \in rows : r.high /\ (r.hour + 1) % 24 \in r.sleep
           days == {d \in 1..date : d > date - LoadDays /\ high(cell.busy[d])}
<1>1. "busy" \in Wanted(req.target)
  BY DEF Wanted
<1>2. pc \in Chosen /\ job["busy"] = "read" /\ date \in 1..MaxDay
  BY <1>1, ReportedIsRead DEF IInv, DateIsHeld, Jobs
<1>3. /\ pre.days = Cardinality({d \in 1..date : d > date - LoadDays /\ HighOn(d)})
      /\ pre.detail = cell.busy[date]
  BY <1>2 DEF IInv, LoadIsRead
<1>4. ASSUME NEW d \in 1..MaxDay PROVE HighOn(d) <=> high(cell.busy[d])
  <2>1. \A r \in cell.busy[d] : r.hour \in 0..23 /\ r.sleep \subseteq 0..23
    BY CellIsKnown DEF IInv, TypeOK, IsBusyRow
  <2>2. \A r \in cell.busy[d] : IsPreSleepHour(r) <=> (r.hour + 1) % 24 \in r.sleep
    BY <2>1, HourBefore
  <2>. QED
    BY <2>2 DEF HighOn
<1>5. \A d \in 1..date : d \in 1..MaxDay
  BY <1>2, DaysAssumption
<1>6. {d \in 1..date : d > date - LoadDays /\ HighOn(d)} = days
  BY <1>4, <1>5
<1>7. pre.days = Cardinality(days)
  BY <1>3, <1>6
<1>8. ASSUME high(pre.detail) PROVE pre.days > 0
  <2>1. date \in days
    BY <1>2, <1>3, <1>8, DaysAssumption
  <2>2. IsFiniteSet(1..date) /\ days \in SUBSET (1..date)
    BY <1>2, FS_Interval
  <2> HIDE DEF days
  <2>3. IsFiniteSet(days)
    BY <2>2, FS_Subset
  <2>4. Cardinality(days) \in Nat /\ Cardinality(days) # 0
    BY <2>1, <2>3, FS_CardinalityType, FS_EmptySet
  <2>. QED
    BY <1>7, <2>4
<1>. QED
  BY <1>7, <1>8 DEF CountsWhatItShows

(* Two readings of the same rows agree: the hours that are queried with    *)
(* those that are explained, and the days that are counted with the day    *)
(* that is shown, whatever is imported between the two queries.            *)
THEOREM Agrees == Spec => []ReportAgrees
<1>1. IInv => ReportAgrees
  BY Explained, Counted DEF ReportAgrees
<1>. QED
  BY <1>1, Inductive, PTL

-----------------------------------------------------------------------------
(***************************************************************************)
(* The analysis of an area: BatchAnalysis, for any cells, calls, filters   *)
(* and days.  It has the same tables, days and kinds of state as the       *)
(* diagnosis of one cell.                                                  *)
(***************************************************************************)
Finished == pc \in {"enriched", "done"} \/ (pc = "refused" /\ date # 0)

(* The date is one that no table which had days is behind.                 *)
DateIsReached ==
  /\ pc \in {"asked", "dating"} => date = 0
  /\ pc \in {"reading", "enriched", "done"} => date # 0
  /\ \A t \in Batch!Tables : latest[t] # 0 => latest[t] \in FirstDay..loaded[t]
  /\ date # 0 => \A t \in Batch!Sources : latest[t] = 0 \/ date <= latest[t]

(* The tables of the target are read, the others are not, and none failed. *)
SourcesAreRead ==
  /\ pc \in {"dating", "reading"} =>
       \A t \in Batch!Tables : IF t \in Batch!Sources THEN job[t] \in {"open", "read"} ELSE job[t] = "off"
  /\ Finished => \A t \in Batch!Tables : job[t] = IF t \in Batch!Sources THEN "read" ELSE "off"

(* What the tables say of a cell on a day that they can hold; Had: the     *)
(* table was not empty when the date was chosen, and the day is not older. *)
Expansion(i)    == IF "expansion" \in Batch!Sources /\ Batch!InScope(i) THEN cells[i].expansion ELSE NoRow
Constriction(i) == IF "constriction" \in Batch!Sources /\ Batch!InScope(i) THEN cells[i].constriction ELSE {}
Had(t)          == latest[t] # 0 /\ date >= FirstDay

RowsAreRead ==
  \A i \in Batch!Cgis :
    /\ "expansion" \notin Batch!Sources => exp[i] = NoRow
    /\ "constriction" \notin Batch!Sources => con[i] = {}
    /\ (pc = "reading" \/ Finished) /\ job["expansion"] = "read" /\ Had("expansion") => exp[i] = Expansion(i)
    /\ pc = "reading" /\ job["constriction"] = "read" /\ Had("constriction") => con[i] = Constriction(i)
    /\ Finished /\ Had("constriction") => con[i] = Batch!Enrich(Constriction(i), cells[i].site)

LoadsAreRead ==
  \A i \in Batch!Cgis :
    /\ pc \in {"asked", "dating", "reading", "enriched"} => pre[i] = {}
    /\ \A d \in pre[i] : /\ d \in 1..date /\ d > date - LoadDays
                         /\ \E r \in cells[i].busy[d] : r.high /\ Batch!IsPreSleepHour(r)

AreaInv == Batch!TypeOK /\ DateIsReached /\ SourcesAreRead /\ RowsAreRead /\ LoadsAreRead

-----------------------------------------------------------------------------
(* The bounds, and the dates in their range.                               *)
LEMMA AreaDays ==
  ASSUME Batch!TypeOK
  PROVE  /\ FirstDay \in Nat /\ FirstDay >= 1 /\ MaxDay \in Nat /\ FirstDay <= MaxDay /\ LoadDays \in Nat
         /\ date \in 0..MaxDay
         /\ \A t \in Batch!Tables : loaded[t] \in FirstDay - 1..MaxDay /\ latest[t] \in 0..MaxDay
         /\ req.day \in 1..MaxDay + 1 \cup {None, Unreadable}
         /\ Batch!Sources \subseteq {"expansion", "constriction"}
         /\ Batch!Tables = {"expansion", "constriction", "busy"}
<1>1. req \in [target : {"all", "expansion", "constriction"}, supported : BOOLEAN,
               day : 1..MaxDay + 1 \cup {None, Unreadable}, area : Areas \cup {None}]
  BY AreaIsKnown DEF Batch!BatchAssumption, Batch!TypeOK
<1>2. Batch!Sources \subseteq {"expansion", "constriction"}
  BY DEF Batch!Sources
<1>. QED
  BY <1>1, <1>2, DaysAssumption, AreaIsKnown DEF Batch!BatchAssumption, Batch!TypeOK, Batch!Tables

(* The lookup of the main cell matters only to rows that lack its type.    *)
LEMMA AreaEnrich ==
  ASSUME NEW rows, NEW site
  PROVE  /\ Batch!Enrich(rows, IF Batch!LookedUpMain(rows) THEN site ELSE None) = Batch!Enrich(rows, site)
         /\ Batch!Enrich(rows, site) \subseteq rows
<1>1. CASE Batch!LookedUpMain(rows)
  BY <1>1 DEF Batch!Enrich
<1>2. CASE ~Batch!LookedUpMain(rows)
  BY <1>2 DEF Batch!Enrich, Batch!LookedUpMain
<1>. QED
  BY <1>1, <1>2 DEF Batch!Enrich

(* A table that is a source, had days and is asked for one holds it.       *)
LEMMA AreaHolds ==
  ASSUME Batch!TypeOK, DateIsReached, NEW t \in Batch!Sources, Had(t)
  PROVE  Batch!Holds(t)
<1>1. t \in Batch!Tables /\ loaded[t] \in Int /\ latest[t] \in Int /\ date \in Int /\ FirstDay \in Int
  BY AreaDays
<1>2. date # 0
  BY AreaDays DEF Had
<1>. QED
  BY <1>1, <1>2, AreaDays DEF DateIsReached, Had, Batch!Holds

(* While nothing of the call changes, imports may go on.                   *)
LEMMA AreaRests ==
  ASSUME AreaInv, UNCHANGED <<cells, req, pc, latest, date, job, exp, con, pre>>,
         loaded' \in [Batch!Tables -> FirstDay - 1..MaxDay],
         \A t \in Batch!Tables : loaded'[t] >= loaded[t]
  PROVE  AreaInv'
<1>1. Batch!Sources' = Batch!Sources /\ Batch!Tables' = Batch!Tables /\ Finished' = Finished
  BY DEF Batch!Sources, Batch!Tables, Finished
<1>2. \A i : Expansion(i)' = Expansion(i) /\ Constriction(i)' = Constriction(i)
  BY <1>1 DEF Expansion, Constriction, Batch!InScope, Batch!NormalizeFilter
<1>3. \A t : Had(t)' = Had(t)
  BY DEF Had
<1>4. Batch!TypeOK'
  BY DEF AreaInv, Batch!TypeOK
<1>5. DateIsReached'
  <2>1. \A t \in Batch!Tables : loaded[t] \in Int /\ loaded'[t] \in Int /\ latest[t] \in Int /\ FirstDay \in Int
    BY AreaDays DEF AreaInv
  <2>. QED
    BY <1>1, <2>1 DEF AreaInv, DateIsReached
<1>6. SourcesAreRead'
  BY <1>1 DEF AreaInv, SourcesAreRead
<1>7. RowsAreRead'
  BY <1>1, <1>2, <1>3 DEF AreaInv, RowsAreRead
<1>8. LoadsAreRead'
  BY DEF AreaInv, LoadsAreRead
<1>. QED
  BY <1>4, <1>5, <1>6, <1>7, <1>8 DEF AreaInv

(* Nothing is read at first.                                               *)
LEMMA AreaInit == Batch!Init => AreaInv
<1> SUFFICES ASSUME Batch!Init PROVE AreaInv
  OBVIOUS
<1>1. /\ FirstDay \in Nat /\ FirstDay >= 1 /\ MaxDay \in Nat /\ FirstDay <= MaxDay /\ LoadDays \in Nat
  BY DaysAssumption
<1>2. /\ loaded \in [Batch!Tables -> {FirstDay - 1, FirstDay}] /\ cells \in AreaCells /\ req \in AreaCalls
      /\ pc = "asked" /\ latest = [t \in Batch!Tables |-> 0] /\ date = 0
      /\ job = [t \in Batch!Tables |-> "off"]
      /\ \A i \in Batch!Cgis : exp[i] = NoRow /\ con[i] = {} /\ pre[i] = {}
  BY DEF Batch!Init, Batch!NoRow, NoRow
<1>3. loaded \in [Batch!Tables -> FirstDay - 1..MaxDay]
  <2>1. {FirstDay - 1, FirstDay} \subseteq FirstDay - 1..MaxDay
    BY <1>1
  <2>. QED
    BY <1>2, <2>1
<1>4. Batch!TypeOK
  BY <1>1, <1>2, <1>3 DEF Batch!TypeOK, Batch!NoRow, NoRow
<1>5. ~Finished
  BY <1>2 DEF Finished
<1>. QED
  BY <1>2, <1>4, <1>5 DEF AreaInv, DateIsReached, SourcesAreRead, RowsAreRead, LoadsAreRead

(* A step that reads nothing: the call is asked, dated, refused or fails.  *)
LEMMA AreaMoves ==
  ASSUME AreaInv, UNCHANGED <<loaded, cells, req, exp, con, pre>>,
         pc' \in {"dating", "reading", "refused", "failed"},
         job' \in [Batch!Tables -> {"off", "open", "read", "failed"}],
         latest' \in [Batch!Tables -> 0..MaxDay], date' \in 0..MaxDay,
         \A i \in Batch!Cgis : pc' # "failed" => pre[i] = {},
         \A i \in Batch!Cgis : date' = date \/ pre[i] = {},
         pc' = "refused" => date' = 0,
         pc' \in {"dating", "reading"} =>
           \A t \in Batch!Tables : IF t \in Batch!Sources THEN job'[t] \in {"open", "read"} ELSE job'[t] = "off",
         pc' = "reading" => \A t \in Batch!Tables : job'[t] # "read",
         DateIsReached'
  PROVE  AreaInv'
<1>1. Batch!Sources' = Batch!Sources /\ Batch!Tables' = Batch!Tables /\ ~Finished'
  BY DEF Batch!Sources, Batch!Tables, Finished
<1>2. Batch!TypeOK'
  <2>1. /\ loaded' \in [Batch!Tables -> FirstDay - 1..MaxDay] /\ cells' \in AreaCells /\ req' \in AreaCalls
    BY DEF AreaInv, Batch!TypeOK
  <2>2. ASSUME NEW i \in Batch!Cgis
        PROVE  /\ exp'[i] \in {NoRow, cells'[i].expansion} /\ con'[i] \subseteq cells'[i].constriction
               /\ pre'[i] \subseteq date' - LoadDays + 1..date'
    <3>1. /\ exp[i] \in {NoRow, cells[i].expansion} /\ con[i] \subseteq cells[i].constriction
          /\ pre[i] \subseteq date - LoadDays + 1..date
      BY <2>2 DEF AreaInv, Batch!TypeOK, Batch!NoRow, NoRow
    <3>. QED
      BY <2>2, <3>1
  <2>. QED
    BY <2>1, <2>2 DEF Batch!TypeOK, Batch!NoRow, NoRow
<1>3. SourcesAreRead'
  BY <1>1 DEF SourcesAreRead
<1>4. RowsAreRead'
  <2>1. \A i \in Batch!Cgis : /\ "expansion" \notin Batch!Sources => exp[i] = NoRow
                              /\ "constriction" \notin Batch!Sources => con[i] = {}
    BY DEF AreaInv, RowsAreRead
  <2>2. pc' = "reading" => job'["expansion"] # "read" /\ job'["constriction"] # "read"
    BY DEF Batch!Tables
  <2>. QED
    BY <1>1, <2>1, <2>2 DEF RowsAreRead
<1>5. LoadsAreRead'
  <2> SUFFICES ASSUME NEW i \in Batch!Cgis
               PROVE  /\ pc' \in {"asked", "dating", "reading", "enriched"} => pre[i] = {}
                      /\ \A d \in pre[i] : /\ d \in 1..date' /\ d > date' - LoadDays
                                           /\ \E r \in cells[i].busy[d] : r.high /\ Batch!IsPreSleepHour(r)
    BY DEF LoadsAreRead
  <2>. QED
    BY DEF AreaInv, LoadsAreRead
<1>. QED
  BY <1>2, <1>3, <1>4, <1>5 DEF AreaInv

(* Before anything is read nothing is there.                               *)
LEMMA AreaEmpty ==
  ASSUME AreaInv, pc \in {"asked", "dating"}
  PROVE  \A i \in Batch!Cgis : pre[i] = {}
BY DEF AreaInv, LoadsAreRead

(* The actions, one by one: the imports,                                   *)
LEMMA ImportKeeps ==
  ASSUME AreaInv, NEW t \in Batch!Tables, Batch!Import(t)
  PROVE  AreaInv'
<1>1. /\ loaded[t] < MaxDay /\ loaded' = [loaded EXCEPT ![t] = @ + 1]
      /\ UNCHANGED <<cells, req, pc, latest, date, job, exp, con, pre>>
  BY DEF Batch!Import, Batch!inputs, Batch!found
<1>2. /\ loaded \in [Batch!Tables -> FirstDay - 1..MaxDay] /\ FirstDay \in Nat /\ MaxDay \in Nat
      /\ \A u \in Batch!Tables : loaded[u] \in Int
  BY AreaDays DEF AreaInv, Batch!TypeOK
<1>3. loaded[t] + 1 \in FirstDay - 1..MaxDay
  BY <1>1, <1>2
<1>. QED
  BY <1>1, <1>2, <1>3, AreaRests

(* a call that is refused or begins to look for the date,                  *)
LEMMA BeginKeeps ==
  ASSUME AreaInv, Batch!Refuse \/ Batch!Begin
  PROVE  AreaInv'
<1>1. /\ pc = "asked" /\ UNCHANGED <<loaded, cells, req, latest, date, exp, con, pre>>
      /\ \/ pc' = "refused" /\ job' = job
         \/ pc' = "dating" /\ job' = [t \in Batch!Tables |-> IF t \in Batch!Sources THEN "open" ELSE "off"]
  BY DEF Batch!Refuse, Batch!Begin, Batch!inputs, Batch!found
<1>2. job' \in [Batch!Tables -> {"off", "open", "read", "failed"}]
  BY <1>1 DEF AreaInv, Batch!TypeOK
<1>3. latest' \in [Batch!Tables -> 0..MaxDay] /\ date' \in 0..MaxDay /\ date' = 0
  BY <1>1 DEF AreaInv, Batch!TypeOK, DateIsReached
<1>4. DateIsReached'
  BY <1>1, <1>3 DEF AreaInv, DateIsReached, Batch!Tables
<1>. QED
  BY <1>1, <1>2, <1>3, <1>4, AreaEmpty, AreaMoves

(* the latest date of a table,                                             *)
LEMMA ReadLatestKeeps ==
  ASSUME AreaInv, NEW t \in Batch!Tables, Batch!ReadLatest(t)
  PROVE  AreaInv'
<1>1. /\ pc = "dating" /\ job[t] = "open" /\ UNCHANGED <<loaded, cells, req, pc, date, exp, con, pre>>
      /\ latest' = [latest EXCEPT ![t] = IF loaded[t] < FirstDay THEN 0 ELSE loaded[t]]
      /\ job' = [job EXCEPT ![t] = "read"]
  BY DEF Batch!ReadLatest, Batch!inputs, Batch!found
<1>2. /\ latest \in [Batch!Tables -> 0..MaxDay] /\ job \in [Batch!Tables -> {"off", "open", "read", "failed"}]
      /\ date = 0 /\ loaded[t] \in FirstDay - 1..MaxDay /\ FirstDay \in Nat /\ FirstDay >= 1 /\ MaxDay \in Nat
  BY <1>1, AreaDays DEF AreaInv, Batch!TypeOK, DateIsReached
<1>3. /\ latest' \in [Batch!Tables -> 0..MaxDay] /\ job' \in [Batch!Tables -> {"off", "open", "read", "failed"}]
      /\ latest'[t] # 0 => latest'[t] \in FirstDay..loaded[t]
      /\ \A u \in Batch!Tables \ {t} : latest'[u] = latest[u] /\ job'[u] = job[u]
      /\ job'[t] = "read"
  BY <1>1, <1>2
<1>4. \A u \in Batch!Tables : IF u \in Batch!Sources THEN job'[u] \in {"open", "read"} ELSE job'[u] = "off"
  BY <1>1, <1>3 DEF AreaInv, SourcesAreRead
<1>5. DateIsReached'
  <2>1. Batch!Tables' = Batch!Tables
    BY DEF Batch!Tables
  <2>. QED
    BY <1>1, <1>2, <1>3, <2>1 DEF AreaInv, DateIsReached
<1>. QED
  BY <1>1, <1>2, <1>3, <1>4, <1>5, AreaEmpty, AreaMoves

(* The latest date is reached by each table that is not empty.             *)
LEMMA AreaLatest ==
  ASSUME AreaInv, Batch!LatestDate # 0
  PROVE  /\ Batch!LatestDate \in 1..MaxDay
         /\ \A t \in Batch!Sources : latest[t] = 0 \/ Batch!LatestDate <= latest[t]
<1> DEFINE known == Batch!Known
<1>1. /\ known \subseteq {latest["expansion"], latest["constriction"]} \ {0}
      /\ \A t \in Batch!Sources : latest[t] = 0 \/ latest[t] \in known
  BY AreaDays DEF AreaInv, Batch!Known
<1>2. latest["expansion"] \in 0..MaxDay /\ latest["constriction"] \in 0..MaxDay /\ MaxDay \in Nat
  BY AreaDays DEF AreaInv
<1>3. known # {} /\ Batch!LatestDate = Min(known)
  BY DEF Batch!LatestDate, Batch!Min, Min
<1> HIDE DEF known
<1>4. \E a, b \in 1..MaxDay : known = {a, b}
  BY <1>1, <1>2, <1>3
<1>5. PICK a \in 1..MaxDay, b \in 1..MaxDay : known = {a, b}
  BY <1>4
<1>6. Min(known) \in {a, b} /\ Min(known) <= a /\ Min(known) <= b
  BY <1>5, MinOfTwo
<1>. QED
  BY <1>1, <1>2, <1>3, <1>5, <1>6

(* the choice of the date,                                                 *)
LEMMA ChooseDateKeeps ==
  ASSUME AreaInv, Batch!ChooseDate
  PROVE  AreaInv'
<1>1. /\ pc = "dating" /\ UNCHANGED <<loaded, cells, req, latest, exp, con, pre>>
      /\ \/ pc' \in {"refused", "failed"} /\ UNCHANGED <<date, job>>
         \/ /\ Batch!LatestDate # 0 /\ req.day # Unreadable /\ pc' = "reading"
            /\ date' = IF req.day = None \/ req.day > Batch!LatestDate THEN Batch!LatestDate ELSE req.day
            /\ job' = [t \in Batch!Tables |-> IF t \in Batch!Sources THEN "open" ELSE "off"]
  BY DEF Batch!ChooseDate, Batch!inputs, Batch!found
<1>2. /\ latest \in [Batch!Tables -> 0..MaxDay] /\ job \in [Batch!Tables -> {"off", "open", "read", "failed"}]
      /\ date = 0 /\ MaxDay \in Nat
  BY <1>1, AreaDays DEF AreaInv, Batch!TypeOK, DateIsReached
<1>3. Batch!Tables' = Batch!Tables /\ Batch!Sources' = Batch!Sources
  BY <1>1 DEF Batch!Tables, Batch!Sources
<1>4. CASE pc' \in {"refused", "failed"} /\ UNCHANGED <<date, job>>
  <2>1. DateIsReached'
    BY <1>1, <1>2, <1>3, <1>4 DEF AreaInv, DateIsReached
  <2>. QED
    BY <1>1, <1>2, <1>4, <2>1, AreaEmpty, AreaMoves
<1>5. CASE ~(pc' \in {"refused", "failed"} /\ UNCHANGED <<date, job>>)
  <2>1. /\ Batch!LatestDate \in 1..MaxDay
        /\ \A t \in Batch!Sources : latest[t] = 0 \/ Batch!LatestDate <= latest[t]
    BY <1>1, <1>5, AreaLatest
  <2>2. date' \in 1..MaxDay /\ date' <= Batch!LatestDate
    BY <1>1, <1>2, <1>5, <2>1, AreaDays DEF AreaInv
  <2>3. \A t \in Batch!Sources : latest[t] \in Int /\ t \in Batch!Tables
    BY <1>2, AreaDays DEF AreaInv
  <2>4. DateIsReached'
    BY <1>1, <1>3, <1>5, <2>1, <2>2, <2>3 DEF AreaInv, DateIsReached
  <2>5. /\ job' \in [Batch!Tables -> {"off", "open", "read", "failed"}]
        /\ \A t \in Batch!Tables : job'[t] = IF t \in Batch!Sources THEN "open" ELSE "off"
    BY <1>1, <1>5
  <2>. QED
    BY <1>1, <1>2, <1>5, <2>2, <2>4, <2>5, AreaEmpty, AreaMoves
<1>. QED
  BY <1>4, <1>5

(* a call that fails,                                                      *)
LEMMA FailKeeps ==
  ASSUME AreaInv, Batch!Fail
  PROVE  AreaInv'
<1>1. pc' = "failed" /\ UNCHANGED <<loaded, cells, req, latest, date, job, exp, con, pre>>
  BY DEF Batch!Fail, Batch!inputs, Batch!found
<1>2. /\ latest' \in [Batch!Tables -> 0..MaxDay] /\ date' \in 0..MaxDay
      /\ job' \in [Batch!Tables -> {"off", "open", "read", "failed"}]
  BY <1>1 DEF AreaInv, Batch!TypeOK
<1>3. DateIsReached'
  <2>1. Batch!Tables' = Batch!Tables /\ Batch!Sources' = Batch!Sources
    BY <1>1 DEF Batch!Tables, Batch!Sources
  <2>. QED
    BY <1>1, <2>1 DEF AreaInv, DateIsReached
<1>. QED
  BY <1>1, <1>2, <1>3, AreaMoves

(* The queries change neither what is asked nor the dates.                 *)
LEMMA AreaReads ==
  ASSUME AreaInv, UNCHANGED <<loaded, cells, req, latest, date>>, pc # "asked", pc # "dating",
         pc' \in {"reading", "enriched", "done", "refused"}, pc \in {"reading", "enriched", "done"},
         job' \in [Batch!Tables -> {"off", "open", "read", "failed"}],
         \A i \in Batch!Cgis : /\ exp'[i] \in {NoRow, cells[i].expansion}
                               /\ con'[i] \subseteq cells[i].constriction
                               /\ pre'[i] \subseteq date - LoadDays + 1..date,
         SourcesAreRead', RowsAreRead', LoadsAreRead'
  PROVE  AreaInv'
<1>1. Batch!Sources' = Batch!Sources /\ Batch!Tables' = Batch!Tables
  BY DEF Batch!Sources, Batch!Tables
<1>2. Batch!TypeOK'
  BY DEF AreaInv, Batch!TypeOK, Batch!NoRow, NoRow
<1>3. DateIsReached'
  BY <1>1 DEF AreaInv, DateIsReached
<1>. QED
  BY <1>2, <1>3 DEF AreaInv

(* the expansion rows,                                                     *)
LEMMA ReadExpansionKeeps ==
  ASSUME AreaInv, Batch!ReadExpansion
  PROVE  AreaInv'
<1>1. /\ pc = "reading" /\ job["expansion"] = "open" /\ UNCHANGED <<loaded, cells, req, pc, latest, date, con, pre>>
      /\ exp' = [i \in Batch!Cgis |-> IF Batch!Matches("expansion", i) THEN cells[i].expansion ELSE NoRow]
      /\ job' = [job EXCEPT !["expansion"] = "read"]
  BY DEF Batch!ReadExpansion, Batch!inputs, Batch!found, Batch!NoRow, NoRow
<1>2. /\ Batch!Sources' = Batch!Sources /\ Batch!Tables' = Batch!Tables
      /\ Batch!Tables = {"expansion", "constriction", "busy"} /\ ~Finished'
  BY <1>1 DEF Batch!Sources, Batch!Tables, Finished
<1>3. /\ job' \in [Batch!Tables -> {"off", "open", "read", "failed"}] /\ job'["expansion"] = "read"
      /\ \A t \in Batch!Tables \ {"expansion"} : job'[t] = job[t]
  BY <1>1, <1>2 DEF AreaInv, Batch!TypeOK
<1>4. "expansion" \in Batch!Sources
  BY <1>1, <1>2 DEF AreaInv, SourcesAreRead
<1>5. SourcesAreRead'
  BY <1>1, <1>2, <1>3, <1>4 DEF AreaInv, SourcesAreRead
<1>6. \A i : Expansion(i)' = Expansion(i) /\ Constriction(i)' = Constriction(i)
  BY <1>1, <1>2 DEF Expansion, Constriction, Batch!InScope, Batch!NormalizeFilter
<1>7. ASSUME NEW i \in Batch!Cgis, Had("expansion") PROVE exp'[i] = Expansion(i)
  <2>1. Batch!Holds("expansion")
    BY <1>4, <1>7, AreaHolds DEF AreaInv
  <2>. QED
    BY <1>1, <1>4, <1>7, <2>1 DEF Expansion, Batch!Matches
<1>8. RowsAreRead'
  <2> SUFFICES ASSUME NEW i \in Batch!Cgis
               PROVE  /\ "expansion" \notin Batch!Sources => exp'[i] = NoRow
                      /\ "constriction" \notin Batch!Sources => con[i] = {}
                      /\ Had("expansion") => exp'[i] = Expansion(i)
                      /\ job["constriction"] = "read" /\ Had("constriction") => con[i] = Constriction(i)
    BY <1>1, <1>2, <1>3, <1>6 DEF RowsAreRead, Had
  <2>. QED
    BY <1>1, <1>4, <1>7 DEF AreaInv, RowsAreRead
<1>9. LoadsAreRead'
  BY <1>1 DEF AreaInv, LoadsAreRead
<1>10. \A i \in Batch!Cgis : /\ exp'[i] \in {NoRow, cells[i].expansion}
                             /\ con'[i] \subseteq cells[i].constriction
                             /\ pre'[i] \subseteq date - LoadDays + 1..date
  BY <1>1 DEF AreaInv, Batch!TypeOK
<1>. QED
  BY <1>1, <1>3, <1>5, <1>8, <1>9, <1>10, AreaReads

(* the constriction rows,                                                  *)
LEMMA ReadConstrictionKeeps ==
  ASSUME AreaInv, Batch!ReadConstriction
  PROVE  AreaInv'
<1>1. /\ pc = "reading" /\ job["constriction"] = "open" /\ UNCHANGED <<loaded, cells, req, pc, latest, date, exp, pre>>
      /\ con' = [i \in Batch!Cgis |-> IF Batch!Matches("constriction", i) THEN cells[i].constriction ELSE {}]
      /\ job' = [job EXCEPT !["constriction"] = "read"]
  BY DEF Batch!ReadConstriction, Batch!inputs, Batch!found
<1>2. /\ Batch!Sources' = Batch!Sources /\ Batch!Tables' = Batch!Tables
      /\ Batch!Tables = {"expansion", "constriction", "busy"} /\ ~Finished'
  BY <1>1 DEF Batch!Sources, Batch!Tables, Finished
<1>3. /\ job' \in [Batch!Tables -> {"off", "open", "read", "failed"}] /\ job'["constriction"] = "read"
      /\ \A t \in Batch!Tables \ {"constriction"} : job'[t] = job[t]
  BY <1>1, <1>2 DEF AreaInv, Batch!TypeOK
<1>4. "constriction" \in Batch!Sources
  BY <1>1, <1>2 DEF AreaInv, SourcesAreRead
<1>5. SourcesAreRead'
  BY <1>1, <1>2, <1>3, <1>4 DEF AreaInv, SourcesAreRead
<1>6. \A i : Expansion(i)' = Expansion(i) /\ Constriction(i)' = Constriction(i)
  BY <1>1, <1>2 DEF Expansion, Constriction, Batch!InScope, Batch!NormalizeFilter
<1>7. ASSUME NEW i \in Batch!Cgis, Had("constriction") PROVE con'[i] = Constriction(i)
  <2>1. Batch!Holds("constriction")
    BY <1>4, <1>7, AreaHolds DEF AreaInv
  <2>. QED
    BY <1>1, <1>4, <1>7, <2>1 DEF Constriction, Batch!Matches
<1>8. RowsAreRead'
  <2> SUFFICES ASSUME NEW i \in Batch!Cgis
               PROVE  /\ "expansion" \notin Batch!Sources => exp[i] = NoRow
                      /\ "constriction" \notin Batch!Sources => con'[i] = {}
                      /\ job["expansion"] = "read" /\ Had("expansion") => exp[i] = Expansion(i)
                      /\ Had("constriction") => con'[i] = Constriction(i)
    BY <1>1, <1>2, <1>3, <1>6 DEF RowsAreRead, Had
  <2>. QED
    BY <1>1, <1>4, <1>7 DEF AreaInv, RowsAreRead
<1>9. LoadsAreRead'
  BY <1>1 DEF AreaInv, LoadsAreRead
<1>10. \A i \in Batch!Cgis : /\ exp'[i] \in {NoRow, cells[i].expansion}
                             /\ con'[i] \subseteq cells[i].constriction
                             /\ pre'[i] \subseteq date - LoadDays + 1..date
  BY <1>1 DEF AreaInv, Batch!TypeOK, Batch!NoRow, NoRow
<1>. QED
  BY <1>1, <1>3, <1>5, <1>8, <1>9, <1>10, AreaReads

(* the neighbours that are looked up,                                      *)
LEMMA EnrichRowsKeeps ==
  ASSUME AreaInv, Batch!EnrichRows
  PROVE  AreaInv'
<1>1. /\ pc = "reading" /\ pc' = "enriched" /\ UNCHANGED <<loaded, cells, req, latest, date, job, exp, pre>>
      /\ \A t \in Batch!Tables : job[t] \in {"off", "read", "failed"}
      /\ con' = [i \in Batch!Cgis |->
                   Batch!Enrich(con[i], IF Batch!LookedUpMain(con[i]) THEN cells[i].site ELSE None)]
  BY DEF Batch!EnrichRows, Batch!inputs, Batch!found
<1>2. /\ Batch!Sources' = Batch!Sources /\ Batch!Tables' = Batch!Tables
      /\ Batch!Tables = {"expansion", "constriction", "busy"}
  BY <1>1 DEF Batch!Sources, Batch!Tables
<1>3. \A t \in Batch!Tables : job[t] = IF t \in Batch!Sources THEN "read" ELSE "off"
  BY <1>1 DEF AreaInv, SourcesAreRead
<1>4. \A i \in Batch!Cgis : con'[i] = Batch!Enrich(con[i], cells[i].site) /\ con'[i] \subseteq con[i]
  BY <1>1, AreaEnrich
<1>5. SourcesAreRead'
  BY <1>1, <1>2, <1>3 DEF SourcesAreRead
<1>6. \A i : Expansion(i)' = Expansion(i) /\ Constriction(i)' = Constriction(i)
  BY <1>1, <1>2 DEF Expansion, Constriction, Batch!InScope, Batch!NormalizeFilter
<1>7. RowsAreRead'
  <2> SUFFICES ASSUME NEW i \in Batch!Cgis
               PROVE  /\ "expansion" \notin Batch!Sources => exp[i] = NoRow
                      /\ "constriction" \notin Batch!Sources => con'[i] = {}
                      /\ job["expansion"] = "read" /\ Had("expansion") => exp[i] = Expansion(i)
                      /\ Had("constriction") => con'[i] = Batch!Enrich(Constriction(i), cells[i].site)
    BY <1>1, <1>2, <1>6 DEF RowsAreRead, Had
  <2>1. "constriction" \notin Batch!Sources => con[i] = {} /\ Constriction(i) = {}
    BY DEF AreaInv, RowsAreRead, Constriction
  <2>2. "constriction" \in Batch!Sources /\ Had("constriction") => con[i] = Constriction(i)
    BY <1>1, <1>2, <1>3 DEF AreaInv, RowsAreRead
  <2>3. "expansion" \notin Batch!Sources => exp[i] = NoRow
    BY DEF AreaInv, RowsAreRead
  <2>4. job["expansion"] = "read" /\ Had("expansion") => exp[i] = Expansion(i)
    BY <1>1 DEF AreaInv, RowsAreRead
  <2>. QED
    BY <1>4, <2>1, <2>2, <2>3, <2>4
<1>8. LoadsAreRead'
  BY <1>1 DEF AreaInv, LoadsAreRead
<1>9. \A i \in Batch!Cgis : /\ exp'[i] \in {NoRow, cells[i].expansion}
                            /\ con'[i] \subseteq cells[i].constriction
                            /\ pre'[i] \subseteq date - LoadDays + 1..date
  BY <1>1, <1>4 DEF AreaInv, Batch!TypeOK, Batch!NoRow, NoRow
<1>10. job' \in [Batch!Tables -> {"off", "open", "read", "failed"}]
  BY <1>1, <1>2 DEF AreaInv, Batch!TypeOK
<1>. QED
  BY <1>1, <1>5, <1>7, <1>8, <1>9, <1>10, AreaReads

(* and the loads before sleep.                                             *)
LEMMA ReadBusyKeeps ==
  ASSUME AreaInv, Batch!ReadBusy
  PROVE  AreaInv'
<1>1. /\ pc = "enriched" /\ pc' \in {"refused", "done"}
      /\ UNCHANGED <<loaded, cells, req, latest, date, job, exp, con>>
      /\ pre' = [i \in Batch!Cgis |->
                   IF con[i] = {} THEN {}
                   ELSE {d \in Batch!Window : \E r \in cells[i].busy[d] : r.high /\ Batch!IsPreSleepHour(r)}]
  BY DEF Batch!ReadBusy, Batch!inputs, Batch!found
<1>2. /\ Batch!Sources' = Batch!Sources /\ Batch!Tables' = Batch!Tables
      /\ date # 0 /\ Finished /\ Finished'
  BY <1>1 DEF Batch!Sources, Batch!Tables, Finished, AreaInv, DateIsReached
<1>3. date \in Nat /\ LoadDays \in Nat
  BY AreaDays DEF AreaInv
<1>4. \A d \in Batch!Window : d \in date - LoadDays + 1..date /\ d \in 1..date /\ d > date - LoadDays
  BY <1>3 DEF Batch!Window
<1>5. SourcesAreRead'
  BY <1>1, <1>2 DEF AreaInv, SourcesAreRead
<1>6. \A i : Expansion(i)' = Expansion(i) /\ Constriction(i)' = Constriction(i)
  BY <1>1, <1>2 DEF Expansion, Constriction, Batch!InScope, Batch!NormalizeFilter
<1>7. RowsAreRead'
  BY <1>1, <1>2, <1>6 DEF AreaInv, RowsAreRead, Had
<1>8. LoadsAreRead'
  BY <1>1, <1>4 DEF LoadsAreRead
<1>9. \A i \in Batch!Cgis : /\ exp'[i] \in {NoRow, cells[i].expansion}
                            /\ con'[i] \subseteq cells[i].constriction
                            /\ pre'[i] \subseteq date - LoadDays + 1..date
  BY <1>1, <1>4 DEF AreaInv, Batch!TypeOK, Batch!NoRow, NoRow
<1>10. job' \in [Batch!Tables -> {"off", "open", "read", "failed"}]
  BY <1>1, <1>2 DEF AreaInv, Batch!TypeOK
<1>. QED
  BY <1>1, <1>5, <1>7, <1>8, <1>9, <1>10, AreaReads

(* Every step of the call and every import keeps it.                       *)
LEMMA AreaStep == AreaInv /\ [Batch!Next]_Batch!vars => AreaInv'
<1> SUFFICES ASSUME AreaInv, [Batch!Next]_Batch!vars PROVE AreaInv'
  OBVIOUS
<1>1. CASE UNCHANGED Batch!vars
  <2>1. UNCHANGED <<loaded, cells, req, pc, latest, date, job, exp, con, pre>>
    BY <1>1 DEF Batch!vars, Batch!inputs, Batch!found
  <2>2. /\ loaded' \in [Batch!Tables -> FirstDay - 1..MaxDay]
        /\ \A t \in Batch!Tables : loaded'[t] >= loaded[t]
    BY <2>1, AreaDays DEF AreaInv, Batch!TypeOK
  <2>. QED
    BY <2>1, <2>2, AreaRests
<1>2. CASE Batch!Next
  BY <1>2, ImportKeeps, ReadLatestKeeps, BeginKeeps, ChooseDateKeeps, ReadExpansionKeeps,
    ReadConstrictionKeeps, EnrichRowsKeeps, ReadBusyKeeps, FailKeeps DEF Batch!Next
<1>. QED
  BY <1>1, <1>2

(* The inductive invariant of the analysis of an area.                     *)
THEOREM AreaInductive == AreaSpec => []AreaInv
BY AreaInit, AreaStep, PTL DEF AreaSpec, Batch!Spec

(* The variables of the call keep their types: a date within the days that *)
(* are known, and only rows that the tables hold for the cell.             *)
THEOREM AreaTypes == AreaSpec => []AreaTypeOK
<1>1. AreaInv => AreaTypeOK
  BY DEF AreaInv, AreaTypeOK
<1>. QED
  BY <1>1, AreaInductive, PTL

(* What was read is what the tables say, where they had days.              *)
LEMMA AreaIsRead ==
  ASSUME AreaInv, pc \in {"done", "refused"}, date >= FirstDay,
         \A t \in Batch!Sources : latest[t] # 0, NEW i \in Batch!Cgis
  PROVE  /\ exp[i] = Expansion(i)
         /\ con[i] = Batch!Enrich(Constriction(i), cells[i].site)
<1>1. Finished
  BY AreaDays DEF AreaInv, Finished
<1>2. \A t \in Batch!Tables : t \in Batch!Sources => job[t] = "read" /\ Had(t)
  BY <1>1 DEF AreaInv, SourcesAreRead, Had
<1>3. "expansion" \in Batch!Tables /\ "constriction" \in Batch!Tables
  BY DEF Batch!Tables
<1>4. exp[i] = Expansion(i)
  BY <1>1, <1>2, <1>3 DEF AreaInv, RowsAreRead, Expansion
<1>5. CASE "constriction" \in Batch!Sources
  BY <1>1, <1>2, <1>3, <1>4, <1>5 DEF AreaInv, RowsAreRead
<1>6. CASE "constriction" \notin Batch!Sources
  <2>1. con[i] = {} /\ Constriction(i) = {}
    BY <1>6 DEF AreaInv, RowsAreRead, Constriction
  <2>. QED
    BY <1>4, <2>1, AreaEnrich
<1>. QED
  BY <1>5, <1>6, <1>4

(* A load before sleep that is counted is one of the days before.          *)
LEMMA AreaLoads ==
  ASSUME AreaInv, NEW i \in Batch!Cgis, pre[i] # {}
  PROVE  \E d \in 1..date : d > date - LoadDays
           /\ \E r \in cells[i].busy[d] : r.high /\ (r.hour + 1) % 24 \in r.sleep
<1>1. PICK d \in pre[i] : /\ d \in 1..date /\ d > date - LoadDays
                         /\ \E r \in cells[i].busy[d] : r.high /\ Batch!IsPreSleepHour(r)
  BY DEF AreaInv, LoadsAreRead
<1>2. PICK r \in cells[i].busy[d] : r.high /\ Batch!IsPreSleepHour(r)
  BY <1>1
<1>3. d \in 1..MaxDay
  BY <1>1, AreaDays DEF AreaInv
<1>4. Batch!IsBusyRow(r)
  BY <1>2, <1>3, AreaIsKnown DEF Batch!CellsAssumption, AreaInv, Batch!TypeOK
<1>5. r.hour \in 0..23 /\ r.sleep \subseteq 0..23
  BY <1>4 DEF Batch!IsBusyRow
<1>6. IsPreSleepHour(r)
  BY <1>2 DEF Batch!IsPreSleepHour, IsPreSleepHour
<1>7. (r.hour + 1) % 24 \in r.sleep
  BY <1>5, <1>6, HourBefore
<1>. QED
  BY <1>1, <1>2, <1>7

(* Every figure is the set of the cells that it counts.                    *)
LEMMA AreaFigures == AreaInv => Batch!FiguresAreFacts
<1> SUFFICES ASSUME AreaInv, pc \in {"done", "refused"}, date >= FirstDay
             PROVE  Batch!FiguresAreFacts
  BY DEF Batch!FiguresAreFacts
<1> DEFINE scope   == {i \in Batch!Cgis : req.area \in Wildcards \cup {None, cells[i].area}}
           here(t) == t \in Batch!Sources
           row(i)  == IF here("expansion") THEN cells[i].expansion ELSE Batch!NoRow
           kept(i) == IF here("constriction") THEN Batch!Enrich(cells[i].constriction, cells[i].site) ELSE {}
           marks(i) == (IF row(i) = Batch!NoRow THEN {} ELSE {row(i).white})
                         \cup (IF kept(i) = {} THEN {} ELSE {cells[i].white})
           high(r) == r.high /\ (r.hour + 1) % 24 \in r.sleep
<1>1. date # 0 /\ \A t \in Batch!Sources : latest[t] = 0 \/ date <= latest[t]
  BY AreaDays DEF AreaInv, DateIsReached
<1>2. \A i \in Batch!HighSleepCount : \E d \in 1..date : d > date - LoadDays /\ \E r \in cells[i].busy[d] : high(r)
  BY AreaLoads DEF Batch!HighSleepCount, Batch!Total
<1>3. ASSUME \A t \in Batch!Sources : latest[t] # 0
      PROVE  /\ Batch!Total = {i \in scope : row(i) # Batch!NoRow \/ kept(i) # {}}
             /\ Batch!CanExpand = {i \in scope : row(i) # Batch!NoRow /\ row(i).filter # {}}
             /\ Batch!ParamNoncompliant = {i \in scope : row(i) # Batch!NoRow /\ row(i).switch = "wrong"}
             /\ Batch!HighLoad = {i \in Batch!Total : here("expansion")
                                                     /\ (row(i) = Batch!NoRow \/ row(i).highload # "no")}
             /\ Batch!NeighborPressure = {i \in scope : \E r \in kept(i) : r.hours # None}
             /\ Batch!Whitelist \subseteq {i \in scope : "yes" \in marks(i)}
             /\ {i \in scope : marks(i) = {"yes"}} \subseteq Batch!Whitelist
  <2>1. \A i \in Batch!Cgis : i \in scope <=> Batch!InScope(i)
    BY DEF Batch!InScope, Batch!NormalizeFilter
  <2>2. ASSUME NEW i \in scope PROVE exp[i] = row(i) /\ con[i] = kept(i)
    <3>1. /\ exp[i] = Expansion(i) /\ con[i] = Batch!Enrich(Constriction(i), cells[i].site)
      BY <1>3, AreaIsRead
    <3>2. Batch!Enrich({}, cells[i].site) = {}
      BY AreaEnrich
    <3>. QED
      BY <2>1, <3>1, <3>2 DEF Expansion, Constriction, Batch!NoRow, NoRow
  <2>3. ASSUME NEW i \in Batch!Cgis \ scope PROVE exp[i] = Batch!NoRow /\ con[i] = {}
    <3>1. /\ exp[i] = Expansion(i) /\ con[i] = Batch!Enrich(Constriction(i), cells[i].site)
      BY <1>3, AreaIsRead
    <3>2. Batch!Enrich({}, cells[i].site) = {}
      BY AreaEnrich
    <3>. QED
      BY <2>1, <3>1, <3>2 DEF Expansion, Constriction, Batch!NoRow, NoRow
  <2>4. "expansion" \in Batch!Sources <=> Batch!Shows("expansion")
    BY DEF Batch!Shows
  <2>5. ~here("expansion") => \A i \in Batch!Cgis : row(i) = Batch!NoRow
    OBVIOUS
  <2>6. scope \subseteq Batch!Cgis /\ \A i : marks(i) = (IF row(i) = Batch!NoRow THEN {} ELSE {row(i).white})
                                          \cup (IF kept(i) = {} THEN {} ELSE {cells[i].white})
    OBVIOUS
  <2> HIDE DEF scope, row, kept, marks
  <2>7. Batch!Total = {i \in scope : row(i) # Batch!NoRow \/ kept(i) # {}}
    BY <2>2, <2>3, <2>6 DEF Batch!Total
  <2>8. Batch!CanExpand = {i \in scope : row(i) # Batch!NoRow /\ row(i).filter # {}}
    BY <2>2, <2>4, <2>5, <2>6, <2>7 DEF Batch!CanExpand
  <2>9. Batch!ParamNoncompliant = {i \in scope : row(i) # Batch!NoRow /\ row(i).switch = "wrong"}
    BY <2>2, <2>3, <2>6 DEF Batch!ParamNoncompliant
  <2>10. Batch!HighLoad = {i \in Batch!Total : here("expansion")
                                             /\ (row(i) = Batch!NoRow \/ row(i).highload # "no")}
    BY <2>2, <2>4, <2>7 DEF Batch!HighLoad, Batch!NotLowLoad
  <2>11. Batch!NeighborPressure = {i \in scope : \E r \in kept(i) : r.hours # None}
    BY <2>2, <2>7 DEF Batch!NeighborPressure, Batch!HoursToRemove
  <2>12. Batch!Whitelist \subseteq {i \in scope : "yes" \in marks(i)}
    BY <2>2, <2>6, <2>7 DEF Batch!Whitelist, Batch!Whitelisted
  <2>13. {i \in scope : marks(i) = {"yes"}} \subseteq Batch!Whitelist
    <3> SUFFICES ASSUME NEW i \in scope, marks(i) = {"yes"} PROVE i \in Batch!Whitelist
      OBVIOUS
    <3>1. row(i) # Batch!NoRow \/ kept(i) # {}
      BY <2>6
    <3>2. row(i) # Batch!NoRow => row(i).white = "yes"
      BY <2>6
    <3>3. kept(i) # {} => cells[i].white = "yes"
      BY <2>6
    <3>. QED
      BY <2>2, <2>7, <3>1, <3>2, <3>3 DEF Batch!Whitelist, Batch!Whitelisted
  <2>. QED
    BY <2>7, <2>8, <2>9, <2>10, <2>11, <2>12, <2>13
<1>. QED
  BY <1>1, <1>2, <1>3 DEF Batch!FiguresAreFacts

(* The list of problems holds the cells that some figure counts.           *)
LEMMA AreaProblems == AreaInv => Batch!ProblemsAreCounted
<1> SUFFICES ASSUME AreaInv, NEW i \in Batch!Total
             PROVE  Batch!IsProblem(Batch!Row(i)) <=>
                      \/ i \in Batch!Whitelist
                      \/ Batch!Shows("expansion") /\ i \in Batch!HighLoad \cup Batch!CanExpand
                      \/ Batch!Shows("constriction") /\ i \in Batch!NeedConstriction
  <2>1. /\ Batch!Whitelist \subseteq Batch!Total /\ Batch!HighLoad \subseteq Batch!Total
        /\ Batch!CanExpand \subseteq Batch!Total /\ Batch!NeedConstriction \subseteq Batch!Total
    BY DEF Batch!Whitelist, Batch!HighLoad, Batch!CanExpand, Batch!NeedConstriction
  <2>. QED
    BY <2>1 DEF Batch!ProblemsAreCounted, Batch!Problems
<1> DEFINE days == Cardinality(pre[i])
<1>1. days \in Nat /\ (days = 0 <=> pre[i] = {})
  <2>1. pre[i] \subseteq date - LoadDays + 1..date /\ date - LoadDays + 1 \in Int /\ date \in Int
    BY AreaDays DEF AreaInv, Batch!TypeOK, Batch!Total
  <2>2. IsFiniteSet(pre[i])
    BY <2>1, FS_Interval, FS_Subset
  <2>. QED
    BY <2>2, FS_CardinalityType, FS_EmptySet
<1>2. Batch!Row(i) = [risk |-> IF Batch!Shows("expansion") /\ Batch!NotLowLoad(i) THEN "high" ELSE "not high",
                      expand |-> IF Batch!Shows("expansion") /\ exp[i] # Batch!NoRow THEN exp[i].filter ELSE {},
                      remove |-> IF Batch!Shows("constriction") THEN Batch!HoursToRemove(i) ELSE {},
                      days   |-> IF Batch!Shows("constriction") THEN days ELSE 0,
                      white  |-> Batch!Whitelisted(i)]
  BY DEF Batch!Row, Batch!Cardinality, Cardinality
<1> HIDE DEF days
<1>3. i \in Batch!Whitelist <=> Batch!Whitelisted(i)
  BY DEF Batch!Whitelist
<1>4. Batch!Shows("expansion") =>
        /\ i \in Batch!HighLoad <=> Batch!NotLowLoad(i)
        /\ i \in Batch!CanExpand <=> exp[i] # Batch!NoRow /\ exp[i].filter # {}
  BY DEF Batch!HighLoad, Batch!CanExpand
<1>5. i \in Batch!NeedConstriction <=> Batch!HoursToRemove(i) # {} \/ days > 0
  BY <1>1 DEF Batch!NeedConstriction
<1>6. Batch!IsProblem(Batch!Row(i)) <=>
        \/ Batch!Whitelisted(i)
        \/ Batch!Shows("expansion") /\ (Batch!NotLowLoad(i) \/ (exp[i] # Batch!NoRow /\ exp[i].filter # {}))
        \/ Batch!Shows("constriction") /\ (Batch!HoursToRemove(i) # {} \/ days > 0)
  <2> DEFINE risk0   == IF Batch!Shows("expansion") /\ Batch!NotLowLoad(i) THEN "high" ELSE "not high"
             expand0 == IF Batch!Shows("expansion") /\ exp[i] # Batch!NoRow THEN exp[i].filter ELSE {}
             remove0 == IF Batch!Shows("constriction") THEN Batch!HoursToRemove(i) ELSE {}
             days0   == IF Batch!Shows("constriction") THEN days ELSE 0
             white0  == Batch!Whitelisted(i)
             row     == [risk |-> risk0, expand |-> expand0, remove |-> remove0, days |-> days0, white |-> white0]
  <2>1. Batch!Row(i) = row
    BY <1>2
  <2>2. risk0 # "not high" <=> Batch!Shows("expansion") /\ Batch!NotLowLoad(i)
    OBVIOUS
  <2>3. expand0 # {} <=> Batch!Shows("expansion") /\ exp[i] # Batch!NoRow /\ exp[i].filter # {}
    OBVIOUS
  <2>4. remove0 # {} <=> Batch!Shows("constriction") /\ Batch!HoursToRemove(i) # {}
    OBVIOUS
  <2>5. days0 > 0 <=> Batch!Shows("constriction") /\ days > 0
    OBVIOUS
  <2> HIDE DEF risk0, expand0, remove0, days0, white0
  <2>6. Batch!IsProblem(row) <=>
          white0 \/ risk0 # "not high" \/ expand0 # {} \/ remove0 # {} \/ days0 > 0
    BY DEF Batch!IsProblem
  <2>7. Batch!IsProblem(row) <=>
          \/ Batch!Whitelisted(i)
          \/ Batch!Shows("expansion") /\ (Batch!NotLowLoad(i) \/ (exp[i] # Batch!NoRow /\ exp[i].filter # {}))
          \/ Batch!Shows("constriction") /\ (Batch!HoursToRemove(i) # {} \/ days > 0)
    BY <2>2, <2>3, <2>4, <2>5, <2>6 DEF white0
  <2>. QED
    BY <2>1, <2>7
<1>. QED
  BY <1>3, <1>4, <1>5, <1>6

(* Every figure of the overview of an area is a fact of the day it names,  *)
(* and the list of problems holds what the figures count, for any cells,   *)
(* filters, days and imports.                                              *)
THEOREM AreaOverview == AreaSpec => []AreaOverviewIsTrue
<1>1. AreaInv => AreaOverviewIsTrue
  BY AreaFigures, AreaProblems DEF AreaOverviewIsTrue, Batch!OverviewIsTrue
<1>. QED
  BY <1>1, AreaInductive, PTL
=============================================================================

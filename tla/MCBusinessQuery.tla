-------------------------- MODULE MCBusinessQuery --------------------------
(***************************************************************************)
(* The questions that are checked: plans over the catalog's own tables and *)
(* relationships, in every order and at every grain that can matter, and   *)
(* plans of one table with every pair of date filters.                     *)
(***************************************************************************)
EXTENDS BusinessQuery, BusinessCatalog

(***************************************************************************)
(* Data: one cell, two days, and two rows of a cell and a day wherever a   *)
(* table has more keys than these.                                         *)
(***************************************************************************)
DataDays == {1, 2}
SubKeys(t) == Keys(t) \ {"cgi", "day"}

DataRows ==
  [t \in CatalogTables |->
     LET sub == IF SubKeys(t) = {} THEN {1} ELSE {1, 2} IN
     {[k \in Keys(t) |-> CASE k = "cgi" -> "c" [] k = "day" -> d [] OTHER -> n] : d \in DataDays, n \in sub}]

-----------------------------------------------------------------------------
(***************************************************************************)
(* Structure.                                                              *)
(***************************************************************************)
PlanTables == CatalogTables \ {"expansion_400"}

Inside(ts) == {n \in DOMAIN CatalogRelationships :
                 {CatalogRelationships[n].left, CatalogRelationships[n].right} \subseteq ts}

\* A relationship that no plan of these tables may use.
Stray == "expansion_400_to_nr_prm"

RelationshipSeqs(ts) ==
  CASE Cardinality(ts) = 1 -> {<<>>}
    [] Cardinality(ts) = 2 -> {<<n>> : n \in Inside(ts) \cup {Stray}}
    [] OTHER -> {q \in Inside(ts) \X Inside(ts) : q[1] # q[2] \/ "around" \in ts}

\* Three tables are joined only if two relationships lie among them.
TableSets ==
  {ts \in UNION {kSubset(k, PlanTables) : k \in 1..3} :
     Cardinality(Inside(ts)) >= Cardinality(ts) - 1}

\* The first table is the base: the order of the others decides the grain's owner.
TableSeqs(ts) == {q \in SetToAllKPermutations(ts) : Len(q) = Cardinality(ts)}

PlanGrains(ts) ==
  {NoGrain} \cup UNION {DOMAIN CatalogGrainKeys[t] : t \in ts}
  \cup (IF Cardinality(ts) = 3 THEN {} ELSE {"rru_item", "summary_day"})

(***************************************************************************)
(* What is asked for: a key or the value of some table, a count, sums, an  *)
(* order, a metric, and requests that make no sense.                       *)
(***************************************************************************)
Nothing ==
  [select |-> {}, groupBy |-> {}, orderBy |-> {}, aggregations |-> {}, metrics |-> {}, orderMetrics |-> {}]

Sum(c)   == [function |-> "sum", column |-> c]
Count(c) == [function |-> "count", column |-> c]

AKey(t) == <<t, IF SubKeys(t) = {} THEN "cgi" ELSE CHOOSE k \in SubKeys(t) : TRUE>>
Value(t) == <<t, "value">>

Single(t) ==
  {[Nothing EXCEPT !.select = {Value(t)}],
   [Nothing EXCEPT !.select = {AKey(t)}],
   [Nothing EXCEPT !.aggregations = {Sum(Value(t))}],
   [Nothing EXCEPT !.select = {AKey(t)}, !.groupBy = {AKey(t)}]}

Senseless(t) ==
  {[Nothing EXCEPT !.aggregations = {Sum(AKey(t))}],
   [Nothing EXCEPT !.select = {AKey(t)}, !.groupBy = {AKey(t)}, !.orderBy = {Value(t)}],
   [Nothing EXCEPT !.select = {<<t, "unknown">>}]}

Paired(t, u) ==
  {[Nothing EXCEPT !.select = {Value(t)}, !.orderBy = {Value(u)}],
   [Nothing EXCEPT !.select = {AKey(t)}, !.groupBy = {AKey(t)}, !.aggregations = {Sum(Value(u))}]}

Measured ==
  {[Nothing EXCEPT !.metrics = {"energy_wan"}, !.orderMetrics = m] : m \in {{}, {"energy_wan"}}}
  \cup {[Nothing EXCEPT !.select = {AKey("report_collect")}, !.groupBy = {AKey("report_collect")},
                        !.metrics = {"energy_wan"}, !.orderMetrics = {"energy_wan"}]}

Requests(ts) ==
  UNION {Single(t) : t \in ts} \cup UNION {Paired(p[1], p[2]) : p \in {q \in ts \X ts : q[1] # q[2]}}
  \cup (IF Cardinality(ts) = 3 THEN {} ELSE UNION {Senseless(t) : t \in ts})
  \cup {Nothing, [Nothing EXCEPT !.aggregations = {Count(Star)}]}
  \cup (IF "report_collect" \in ts THEN Measured ELSE {})

Plan(q, rels, g, r, dates) ==
  [base |-> q[1], tables |-> q, relationships |-> rels, grain |-> g, select |-> r.select,
   groupBy |-> r.groupBy, orderBy |-> r.orderBy, aggregations |-> r.aggregations,
   metrics |-> r.metrics, orderMetrics |-> r.orderMetrics, clarification |-> FALSE, dates |-> dates]

StructurePlans(ts) ==
  {Plan(q, rels, g, r, <<>>) :
     q \in TableSeqs(ts), rels \in RelationshipSeqs(ts), g \in PlanGrains(ts), r \in Requests(ts)}

-----------------------------------------------------------------------------
(***************************************************************************)
(* Dates.                                                                  *)
(***************************************************************************)
DateValues ==
  {[at |-> 2 * d, dateOnly |-> TRUE] : d \in 0..3} \cup {[at |-> 2 * d + 1, dateOnly |-> FALSE] : d \in 0..3}

Comparisons == {DateFilter(op, <<x>>) : op \in Before \cup After, x \in DateValues}

Betweens == {DateFilter("between", <<x, y>>) : x, y \in DateValues}

Others ==
  {DateFilter(op, <<x>>) : op \in {"eq", "ne", "is_null"}, x \in DateValues}
  \cup {DateFilter("in", <<x, y>>) : x, y \in DateValues} \cup {DateFilter("in", <<>>)}

DatePlans(t, filters) ==
  {Plan(<<t>>, <<>>, NoGrain, [Nothing EXCEPT !.select = {Value(t)}], dates) : dates \in filters}

FilterSeqs ==
  {{<<f>> : f \in Comparisons \cup Betweens \cup Others},
   {<<f, h>> : f, h \in Comparisons},
   {<<f, h>> : f \in Betweens, h \in Comparisons}}

Unclear == [Plan(<<"expansion">>, <<>>, NoGrain, Nothing, <<>>) EXCEPT !.clarification = TRUE]

MCPlans ==
  {StructurePlans(ts) : ts \in TableSets}
  \cup {DatePlans(t, filters) : t \in {"expansion", "check_result"}, filters \in FilterSeqs}
  \cup {{Unclear}}

MCCandidates == {{}, {"expansion", "around"}, PlanTables}

MCLookups == {[i \in 1..k |-> AKey("report_collect")] : k \in 1..2}

-----------------------------------------------------------------------------
(***************************************************************************)
(* Values of constants: names of their own for what would else be computed *)
(* at every use.                                                           *)
(***************************************************************************)
MCTables        == CatalogTables
MCGrainKeys     == CatalogGrainKeys
MCDefaultGrain  == CatalogDefaultGrain
MCDated         == CatalogDated
MCTimestamps    == CatalogTimestamps
MCRelationships == CatalogRelationships
MCMetrics       == CatalogMetrics
MCRows          == DataRows
=============================================================================

----------------------------- MODULE QueryPlan -----------------------------
(***************************************************************************)
(* Validation of a structured business query and the SELECT built from it. *)
(*                                                                         *)
(* A plan names a base table, the tables and relationships to join, the    *)
(* columns to show, group and order by, aggregations, metrics and the      *)
(* grain, which is what one row of the result stands for.  A column is     *)
(* <<table, field>>; besides its keys a table has one more, value.         *)
(* Validation turns the relationships into a tree of edges leading away    *)
(* from the base.  An edge to many rows is aggregated by the keys of the   *)
(* base in a branch, a common table expression of its own, unless it is    *)
(* the detail that the grain asks for.                                     *)
(*                                                                         *)
(* Filters but those on the date are left out: they only remove rows.      *)
(***************************************************************************)
EXTENDS DateRange

CONSTANTS
  Tables, GrainKeys, DefaultGrain,   \* the catalog: what a row is, and its keys
  Dated, Timestamps,                 \* tables with a date column, with a timestamp
  Relationships, Metrics,
  Rows,                              \* what the tables hold
  WindowDays,                        \* days_before of a date window
  NoGrain, Star, Null

DetailGrains == {"constriction_record", "hour", "neighbor", "parameter_item", "rru_item"}
Grains       == DetailGrains \cup {"cell_day", "summary_day", "cell_snapshot"}

ASSUME CatalogAssumption ==
  /\ DOMAIN GrainKeys = Tables /\ DOMAIN DefaultGrain = Tables /\ DOMAIN Rows = Tables
  /\ Timestamps \subseteq Dated /\ Dated \subseteq Tables
  /\ \A t \in Tables : DefaultGrain[t] \in DOMAIN GrainKeys[t] /\ DOMAIN GrainKeys[t] \subseteq Grains
  /\ \A t \in Tables : \A g \in DOMAIN GrainKeys[t] : IsFiniteSet(GrainKeys[t][g])
  /\ \A n \in DOMAIN Relationships :
       LET r == Relationships[n] IN
       /\ {r.left, r.right} \subseteq Tables /\ r.left # r.right /\ r.grains \subseteq Grains
       /\ \A m \in DOMAIN Metrics : Metrics[m].table \notin {r.left, r.right}
  /\ \A m \in DOMAIN Metrics : DOMAIN GrainKeys[Metrics[m].table] = {Metrics[m].grain}
  /\ NoGrain \notin Grains

Keys(t)    == UNION {GrainKeys[t][g] : g \in DOMAIN GrainKeys[t]}
Columns(t) == Keys(t) \cup {"value"}

Numeric(column) == column[2] = "value"

Rel(n) == Relationships[n]

(***************************************************************************)
(* A relationship to one row names the keys of its right table, but for    *)
(* the day of a snapshot.  One to many rows leads to the detail it is      *)
(* declared for, and a table from which relationships lead on is the only  *)
(* one of its details.                                                     *)
(***************************************************************************)
ASSUME RelationshipAssumption ==
  \A n \in DOMAIN Relationships :
    LET r == Rel(n)
        DetailsOf(t) == DOMAIN GrainKeys[t] \cap DetailGrains
    IN
    /\ r.many \in BOOLEAN /\ r.time \in {"any", "window", "same_day"}
    /\ r.detail \in DetailGrains \cup {"none"}
    /\ r.snapshot => r.right \in Dated
    /\ IF r.many
         THEN /\ r.left \notin Timestamps /\ (r.time = "any" => "day" \in r.keys)
              /\ r.detail # "none" => r.detail \in DetailsOf(r.right)
         ELSE /\ r.right \notin Timestamps
              /\ Keys(r.right) \subseteq r.keys \cup (IF r.snapshot THEN {"day"} ELSE {})
              /\ r.detail # "none" =>
                   /\ r.right \notin Dated
                   /\ \A m \in DOMAIN Relationships : r.right \in {Rel(m).left, Rel(m).right} => m = n
    /\ \A g \in DetailsOf(r.right) : r.detail = g
    /\ \A g \in DetailsOf(r.left) : \A t \in Tables : g \in DetailsOf(t) => t = r.left

(***************************************************************************)
(* The keys of a table identify its rows; of a timestamp a row has only    *)
(* the day.                                                                *)
(***************************************************************************)
ASSUME DataAssumption ==
  /\ \A t \in Tables \ Timestamps : \A r, q \in Rows[t] : (\A k \in Keys(t) : r[k] = q[k]) => r = q
  /\ \A t \in Dated : \A r \in Rows[t] : r.day \in Int

(***************************************************************************)
(* BusinessQueryPlan: what the structured output of the model must satisfy.*)
(***************************************************************************)
AggregatedColumns(p) == {a.column : a \in p.aggregations} \ {Star}

References(p) == p.select \cup p.groupBy \cup p.orderBy \cup AggregatedColumns(p)

WellFormed(p) ==
  /\ Len(p.tables) \in 1..3 /\ IsInjective(p.tables)
  /\ p.base \in ToSet(p.tables)
  /\ Len(p.relationships) = Len(p.tables) - 1
  /\ \A c \in References(p) : c[1] \in ToSet(p.tables)
  /\ p.clarification \/ p.select # {} \/ p.metrics # {} \/ p.aggregations # {}

Grain(p) == IF p.grain = NoGrain THEN DefaultGrain[p.base] ELSE p.grain

-----------------------------------------------------------------------------
(***************************************************************************)
(* The tree of edges.                                                      *)
(***************************************************************************)

\* Mutant: the cardinality read as declared, whichever way the edge leads.
DeclaredMany(n, parent) == Rel(n).many

\* Seen from its right table a relationship to many rows is one to one row.
EffectiveMany(n, parent) == Rel(n).many = (parent = Rel(n).left)

Edge(n, parent) ==
  [rel |-> n, parent |-> parent,
   child |-> IF parent = Rel(n).left THEN Rel(n).right ELSE Rel(n).left]

Attach(tree, n) ==
  LET seen == {Rel(n).left, Rel(n).right} \cap tree.visited IN
  IF Cardinality(seen) # 1
    THEN [tree EXCEPT !.remaining = Append(@, n)]
    ELSE LET e == Edge(n, CHOOSE t \in seen : TRUE) IN
         [tree EXCEPT !.visited = @ \cup {e.child}, !.edges = Append(@, e)]

\* One turn of the loop over what remains; each turn attaches an edge or the loop ends.
Pass(tree) == FoldLeft(Attach, [tree EXCEPT !.remaining = <<>>], tree.remaining)

Tree(p) ==
  FoldLeft(LAMBDA tree, n : Pass(tree),
           [visited |-> {p.base}, edges |-> <<>>, remaining |-> p.relationships],
           p.relationships)

DetailEdges(edges, g) == {i \in DOMAIN edges : Rel(edges[i].rel).detail = g}

(***************************************************************************)
(* The tables between the base and the parent of the only detail edge: the *)
(* edges to them are expanded too.                                         *)
(***************************************************************************)
Upstream(edges, g) ==
  IF Cardinality(DetailEdges(edges, g)) # 1 THEN {}
  ELSE LET d == CHOOSE i \in DetailEdges(edges, g) : TRUE IN
       FoldRight(LAMBDA e, ts : IF e.child \in ts THEN ts \cup {e.parent} ELSE ts,
                 SubSeq(edges, 1, d - 1), {edges[d].parent})

\* Mutant: every edge to many rows is joined as it is.
NeverPreaggregated(e, g) == FALSE

Preaggregated(e, g) == EffectiveMany(e.rel, e.parent) /\ Rel(e.rel).detail # g

Path(p) ==
  LET edges == Tree(p).edges
      up    == Upstream(edges, Grain(p))
  IN [i \in DOMAIN edges |->
        [rel |-> edges[i].rel, parent |-> edges[i].parent, child |-> edges[i].child,
         preaggregate |-> Preaggregated(edges[i], Grain(p)) /\ edges[i].child \notin up]]

\* The tables below edges[i], its child included.
Below(edges, i) ==
  FoldLeft(LAMBDA ts, e : IF e.parent \in ts THEN ts \cup {e.child} ELSE ts,
           {edges[i].child}, SubSeq(edges, i + 1, Len(edges)))

\* The tables that are only seen through an aggregation.
Aggregated(edges) == UNION {Below(edges, i) : i \in {j \in DOMAIN edges : edges[j].preaggregate}}

-----------------------------------------------------------------------------
(***************************************************************************)
(* validate_query_plan                                                     *)
(***************************************************************************)
RelationshipsResolve(p) ==
  \A i \in DOMAIN p.relationships :
    /\ p.relationships[i] \in DOMAIN Relationships
    /\ {Rel(p.relationships[i]).left, Rel(p.relationships[i]).right} \subseteq ToSet(p.tables)

BaseSupports(p) == Grain(p) \in DOMAIN GrainKeys[p.base]

GrainAuthorised(p) ==
  BaseSupports(p) \/ \E n \in ToSet(p.relationships) : Grain(p) \in Rel(n).grains

OneDetailAxis(p, edges) ==
  Grain(p) \notin DetailGrains \/ BaseSupports(p) \/ Cardinality(DetailEdges(edges, Grain(p))) = 1

RelationshipGrains(p, edges) ==
  \A i \in DOMAIN edges :
    LET r == Rel(edges[i].rel) IN
    (IF Grain(p) \in DetailGrains /\ r.detail # Grain(p) THEN DefaultGrain[p.base] ELSE Grain(p))
      \in r.grains

AggregationAllowed(a) ==
  IF a.column = Star THEN a.function = "count"
  ELSE a.function \in {"sum", "avg"} => Numeric(a.column)

ReferencesExist(p) ==
  /\ \A c \in References(p) : c[2] \in Columns(c[1])
  /\ \A a \in p.aggregations : AggregationAllowed(a)
  /\ p.orderMetrics \subseteq p.metrics

MetricsAllowed(p) ==
  \A m \in p.metrics :
    /\ m \in DOMAIN Metrics
    /\ Metrics[m].table \in ToSet(p.tables)
    /\ Metrics[m].grain = Grain(p)
    /\ Metrics[m].fields \subseteq Columns(Metrics[m].table)

\* Mutant: only what is shown is compared with the groups.
BranchesMayBeGrouped(p, edges) ==
  p.aggregations # {} \/ p.groupBy # {} =>
    /\ p.select \subseteq p.groupBy /\ p.orderBy \subseteq p.groupBy

(***************************************************************************)
(* What is aggregated may be shown and ordered by only as it is grouped,   *)
(* and nothing may be taken from a table that is aggregated in a branch.   *)
(***************************************************************************)
MultiTableAggregation(p, edges) ==
  p.aggregations # {} \/ p.groupBy # {} =>
    /\ p.select \subseteq p.groupBy /\ p.orderBy \subseteq p.groupBy
    /\ \A c \in AggregatedColumns(p) \cup p.groupBy : c[1] \notin Aggregated(edges)
    /\ \A m \in p.metrics : Metrics[m].table \notin Aggregated(edges)

\* All that is checked before the filters are.
Structured(p) ==
  /\ ToSet(p.tables) \subseteq Tables
  /\ Len(p.tables) > 1 => p.base \in Dated
  /\ RelationshipsResolve(p)
  /\ GrainAuthorised(p)
  /\ Tree(p).remaining = <<>>
  /\ LET edges == Path(p) IN
     /\ OneDetailAxis(p, edges)
     /\ RelationshipGrains(p, edges)
     /\ ReferencesExist(p)
     /\ MetricsAllowed(p)
     /\ MultiTableAggregation(p, edges)

\* The dates of a table that has no date column are not checked.
DatesInRange(p) == p.base \in Dated => DatesAccepted(p.dates, p.base \in Timestamps)

Validated(p) == [plan |-> p, edges |-> Path(p), grain |-> Grain(p)]
=============================================================================

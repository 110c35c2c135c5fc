--------------------------- MODULE QueryStatement ---------------------------
(***************************************************************************)
(* The SELECT that build_business_statement makes of a validated plan v,   *)
(* and what a database makes of it.                                        *)
(*                                                                         *)
(* A tuple of FROM maps each joined table to one of its rows, or to Null   *)
(* where an outer join finds none.  A branch contributes one row for every *)
(* value of the base's keys, so that it neither adds nor removes tuples.   *)
(* A query of one table has no edges: it is the same statement.            *)
(***************************************************************************)
EXTENDS QueryPlan

Base(v) == v.plan.base

\* The edges that start a branch; a branch is all that lies below its first edge.
BranchRoots(v) ==
  {i \in DOMAIN v.edges : v.edges[i].preaggregate /\ v.edges[i].parent \notin Aggregated(v.edges)}

DirectEdges(v) == {e \in ToSet(v.edges) : e.child \notin Aggregated(v.edges)}

Direct(v) == {Base(v)} \cup {e.child : e \in DirectEdges(v)}

\* The keys that tie the branches to the base.
BaseKeys(v) ==
  GrainKeys[Base(v)][IF v.grain \in DOMAIN GrainKeys[Base(v)] THEN v.grain ELSE DefaultGrain[Base(v)]]

\* The base is stored at a finer grain than the result's.
StorageIsFiner(v) ==
  /\ v.grain \in DOMAIN GrainKeys[Base(v)]
  /\ \E g \in DOMAIN GrainKeys[Base(v)] :
       Cardinality(GrainKeys[Base(v)][g]) > Cardinality(BaseKeys(v))

Owners(v) == {i \in DOMAIN v.plan.tables : v.grain \in DOMAIN GrainKeys[v.plan.tables[i]]}

\* The table whose rows the result's rows are.
Owner(v) ==
  IF Owners(v) = {} \/ v.grain \in DOMAIN GrainKeys[Base(v)] THEN Base(v)
  ELSE v.plan.tables[Min(Owners(v))]

ExternalDetail(v) == Owner(v) # Base(v)

OwnerKeys(v) == GrainKeys[Owner(v)][v.grain]

Aggregates(v) == v.plan.aggregations # {}

\* The statement is grouped to bring the rows to the grain of the result.
Regrouped(v) == ~Aggregates(v) /\ (ExternalDetail(v) \/ StorageIsFiner(v))

-----------------------------------------------------------------------------
(***************************************************************************)
(* Columns of the outer SELECT.  A column of a table in a branch is an     *)
(* array that the branch has made of it: it is seen as "branch".           *)
(***************************************************************************)
ColumnsOf(metrics) == UNION {{<<Metrics[m].table, f>> : f \in Metrics[m].fields} : m \in metrics}

MetricColumns(v) == ColumnsOf(v.plan.metrics)

QueryFields(v) == v.plan.select \cup MetricColumns(v) \cup v.plan.orderBy

Seen(v, c) == [column |-> c, from |-> IF c[1] \in Direct(v) THEN "table" ELSE "branch"]

OfTable(v, t, keys) == {[column |-> <<t, k>>, from |-> "table"] : k \in keys}

\* The columns shown as they are, neither max() nor array_agg() around them.
Bare(v) ==
  LET summed == IF Aggregates(v) \/ v.plan.groupBy # {} THEN MetricColumns(v) ELSE {}
      IsBare(c) ==
        \/ ~Regrouped(v)
        \/ c[1] = Base(v) /\ c[2] \in BaseKeys(v)
        \/ ExternalDetail(v) /\ c[1] = Owner(v) /\ c[2] \in OwnerKeys(v)
        \/ c[1] \notin Direct(v) /\ ~(ExternalDetail(v) /\ c[1] = Owner(v))
  IN {Seen(v, c) : c \in {d \in QueryFields(v) \ summed : IsBare(d)}}

\* The formula of a metric that orders the result, where nothing is aggregated by request.
Formulas(v) ==
  IF Aggregates(v) \/ v.plan.groupBy # {} THEN {}
  ELSE {[column |-> c, from |-> "table"] : c \in ColumnsOf(v.plan.orderMetrics)}

\* Mutant: the statement is not grouped by the rows it stands for.
GroupByRequest(v) == {[column |-> c, from |-> "table"] : c \in v.plan.groupBy}

GroupBy(v) ==
  IF Regrouped(v)
    THEN OfTable(v, Base(v), BaseKeys(v))
         \cup (IF ExternalDetail(v) THEN OfTable(v, Owner(v), OwnerKeys(v)) ELSE {})
         \cup {s \in Bare(v) : s.from = "branch" /\ ~(ExternalDetail(v) /\ s.column[1] = Owner(v))}
  ELSE {[column |-> c, from |-> "table"] : c \in v.plan.groupBy}

\* Tables whose own columns the list of columns names.
Named(v) ==
  (IF Regrouped(v) /\ ExternalDetail(v)
     THEN {c[1] : c \in {d \in QueryFields(v) : d[1] = Owner(v) /\ d[2] \notin OwnerKeys(v)}}
     ELSE {})
  \cup {c[1] : c \in AggregatedColumns(v.plan)}
  \cup {Metrics[m].table : m \in v.plan.orderMetrics}

(***************************************************************************)
(* A table that is named and not joined is added to FROM, paired with      *)
(* every tuple.                                                            *)
(***************************************************************************)
Implicit(v) == Named(v) \ Direct(v)

\* An ON clause in a branch names a table that the branch does not join.
BranchIsDetached(v) == \E i \in BranchRoots(v) : v.edges[i].parent # Base(v)

\* A column is neither aggregated nor one of those the statement is grouped by.
IsGrouped(v) == GroupBy(v) # {} \/ Aggregates(v) \/ {s.column : s \in Bare(v)} # QueryFields(v)

Ungrouped(v) == IsGrouped(v) /\ ~(Bare(v) \cup Formulas(v) \subseteq GroupBy(v))

\* GROUP BY names a table that is not in FROM.
GroupsUnknown(v) ==
  \E s \in GroupBy(v) : s.from = "table" /\ s.column[1] \notin Direct(v) \cup Implicit(v)

DatabaseRefuses(v) == BranchIsDetached(v) \/ Ungrouped(v) \/ GroupsUnknown(v)

-----------------------------------------------------------------------------
(***************************************************************************)
(* FROM                                                                    *)
(***************************************************************************)

\* Mutant: every snapshot counts.
AllSnapshots(v, t) == Rows[t]

\* _source_tables: of a table reached as a snapshot only the latest rows count.
Source(v, t) ==
  {r \in Rows[t] :
     \A n \in ToSet(v.plan.relationships) :
       Rel(n).snapshot /\ Rel(n).right = t =>
         \A q \in Rows[t] : (\A k \in Rel(n).keys : q[k] = r[k]) => q.day <= r.day}

JoinCondition(n, left, right) ==
  /\ left # Null /\ right # Null
  /\ \A k \in Rel(n).keys : left[k] = right[k]
  /\ Rel(n).time = "window"   => left.day <= right.day + WindowDays /\ right.day <= left.day
  /\ Rel(n).time = "same_day" => right.day = left.day

Matching(v, e, row) ==
  {r \in Source(v, e.child) :
     IF e.parent = Rel(e.rel).left THEN JoinCondition(e.rel, row, r) ELSE JoinCondition(e.rel, r, row)}

Joined(f, t, r) == [u \in DOMAIN f \cup {t} |-> IF u = t THEN r ELSE f[u]]

OuterJoin(v, tuples, e) ==
  UNION {LET found == Matching(v, e, f[e.parent]) IN
         {Joined(f, e.child, r) : r \in IF found = {} THEN {Null} ELSE found} : f \in tuples}

From(v) ==
  FoldLeft(LAMBDA tuples, e : IF e \in DirectEdges(v) THEN OuterJoin(v, tuples, e) ELSE tuples,
           {[t \in {Base(v)} |-> r] : r \in Source(v, Base(v))}, v.edges)
=============================================================================

--------------------------- MODULE BusinessQuery ---------------------------
(***************************************************************************)
(* BusinessDataQueryService.query: one question, from the catalog to the   *)
(* answer.                                                                 *)
(*                                                                         *)
(* A question for the values of a dimension is answered by fixed plans,    *)
(* one per network, without the model.  Any other question is matched with *)
(* candidate tables; a simple lookup is planned by rules, the rest by the  *)
(* model, whose answer is free and which gets a second attempt when its    *)
(* structure is wrong.  A plan is validated before it is executed.         *)
(***************************************************************************)
EXTENDS QueryStatement

CONSTANTS
  Plans,          \* families of plans: the model may answer any of any
  CandidateSets,  \* what the search may find
  Lookups,        \* tables and dimensions of a question for the values of a dimension
  None

Answers == {"rows", "clarify", "refused", "timeout", "failed", "raised"}

(***************************************************************************)
(* The plans that are made without the model: the values of a dimension of *)
(* one table, and some fields of one table for one cell on one day.        *)
(***************************************************************************)
PlanOf(t, k, groups, dates) ==
  [base |-> t, tables |-> <<t>>, relationships |-> <<>>, grain |-> NoGrain, select |-> {<<t, k>>},
   groupBy |-> groups, orderBy |-> {}, aggregations |-> {}, metrics |-> {}, orderMetrics |-> {},
   clarification |-> FALSE, dates |-> dates]

ValuesPlan(t, k) == PlanOf(t, k, {<<t, k>>}, <<>>)
DirectPlan(t, d) == PlanOf(t, "value", {}, <<DateFilter("eq", <<[at |-> 2 * d, dateOnly |-> TRUE]>>)>>)

Dimensions == UNION {{<<t, k>> : k \in Columns(t)} : t \in Tables}
OwnPlans   == {ValuesPlan(c[1], c[2]) : c \in Dimensions} \cup {DirectPlan(t, Today) : t \in Tables}

(***************************************************************************)
(* The lists of a plan are lists, whatever they name.                      *)
(***************************************************************************)
ASSUME QueryAssumption ==
  /\ CandidateSets \subseteq SUBSET Tables
  /\ Lookups \subseteq Seq(Dimensions) \ {<<>>}
  /\ \A family \in Plans \cup {OwnPlans} : \A p \in family :
       /\ p.tables \in Seq(ToSet(p.tables)) /\ p.relationships \in Seq(ToSet(p.relationships))
       /\ p.dates \in Seq(ToSet(p.dates)) /\ \A f \in ToSet(p.dates) : IsDateFilter(f)
       /\ \A c \in References(p) : c = <<c[1], c[2]>>
       /\ Validated(p) # None
  /\ None \notin Answers

VARIABLES
  step,        \* where the call is
  candidates,  \* the tables the planner is offered
  attempts,    \* failed calls of the model for the plan being made
  pending,     \* the plans still to be validated and executed
  query,       \* the validated plan that is being executed
  selects,     \* the queries that have returned rows
  answer

vars == <<step, candidates, attempts, pending, query, selects, answer>>

Init ==
  /\ step = "asked" /\ candidates = {} /\ attempts = 0 /\ pending = <<>>
  /\ query = None /\ selects = <<>> /\ answer = None

Respond(a) == step' = "answered" /\ answer' = a

-----------------------------------------------------------------------------
(***************************************************************************)
(* The candidates.                                                         *)
(***************************************************************************)

(***************************************************************************)
(* find_paths: the whitelisted relationships make a tree of the tables.    *)
(* One relationship for two tables, or two for three, make one if they     *)
(* leave no table out.                                                     *)
(***************************************************************************)
HasPath(ts) ==
  LET available == {n \in DOMAIN Relationships : {Rel(n).left, Rel(n).right} \subseteq ts} IN
  \E edges \in kSubset(Cardinality(ts) - 1, available) :
    Cardinality(ts) = 1 \/ UNION {{Rel(n).left, Rel(n).right} : n \in edges} = ts

\* complete_candidates: the only table through which two unrelated ones are related.
Completed(ts) ==
  LET bridges == {t \in Tables \ ts : HasPath(ts \cup {t})} IN
  IF Cardinality(ts) = 2 /\ ~HasPath(ts) /\ Cardinality(bridges) = 1 THEN ts \cup bridges ELSE ts

Search(ts) ==
  /\ step = "asked"
  /\ candidates' = Completed(ts)
  /\ IF candidates' = {} THEN Respond("clarify") ELSE step' = "planning" /\ UNCHANGED answer
  /\ UNCHANGED <<attempts, pending, query, selects>>

\* build_dimension_value_lookup finds a dimension and a table that has it.
AskForValues(ps) ==
  /\ step = "asked"
  /\ pending' = [i \in DOMAIN ps |-> ValuesPlan(ps[i][1], ps[i][2])] /\ step' = "checking"
  /\ UNCHANGED <<candidates, attempts, query, selects, answer>>

-----------------------------------------------------------------------------
(***************************************************************************)
(* The plan.                                                               *)
(***************************************************************************)

\* build_direct_lookup_plan finds a table, a cell and a day.
PlanDirectly(t) ==
  /\ step = "planning" /\ attempts = 0
  /\ t \in candidates /\ t \in Dated /\ "cgi" \in Columns(t)
  /\ pending' = <<DirectPlan(t, Today)>> /\ step' = "checking"
  /\ UNCHANGED <<candidates, attempts, query, selects, answer>>

\* The structured output passes the model's validation.
ModelPlans ==
  /\ step = "planning"
  /\ \E family \in Plans : \E p \in {q \in family : WellFormed(q)} :
       IF p.clarification THEN Respond("clarify") /\ UNCHANGED pending
                          ELSE step' = "checking" /\ pending' = <<p>> /\ UNCHANGED answer
  /\ attempts' = 0
  /\ UNCHANGED <<candidates, query, selects>>

\* Mutant: after the second error the loop falls through, with no plan.
ErrsThrough ==
  /\ step = "planning"
  /\ IF attempts = 0 THEN attempts' = 1 /\ UNCHANGED <<step, answer>>
                     ELSE attempts' = 0 /\ step' = "checking" /\ UNCHANGED answer
  /\ UNCHANGED <<candidates, pending, query, selects>>

\* It does not: the errors are sent back once.
ModelErrs ==
  /\ step = "planning"
  /\ IF attempts = 0 THEN attempts' = 1 /\ UNCHANGED <<step, answer>>
                     ELSE attempts' = 0 /\ Respond("refused")
  /\ UNCHANGED <<candidates, pending, query, selects>>

\* The call of the model fails otherwise.
ModelFails ==
  /\ step = "planning"
  /\ attempts' = 0
  /\ Respond("refused")
  /\ UNCHANGED <<candidates, pending, query, selects>>

-----------------------------------------------------------------------------
(***************************************************************************)
(* Validation and execution.                                               *)
(***************************************************************************)

\* Only plans of the planner are compared with the candidates.
WithinCandidates(p) == candidates = {} \/ ToSet(p.tables) \subseteq candidates

(***************************************************************************)
(* What the checks end the call with; None if they pass.  An exception of  *)
(* the check of the dates is none that the call expects.                   *)
(***************************************************************************)
Refusal(p) ==
  IF ~WithinCandidates(p) \/ ~Structured(p) THEN "refused"
  ELSE IF p.base \in Dated /\ Raises(p.dates) THEN "raised"
  ELSE IF DatesInRange(p) THEN None ELSE "refused"

Validate ==
  /\ step = "checking"
  /\ \E refusal \in {Refusal(Head(pending))} :
       IF refusal = None
         THEN step' = "executing" /\ query' = Validated(Head(pending)) /\ UNCHANGED answer
         ELSE Respond(refusal) /\ UNCHANGED query
  /\ UNCHANGED <<candidates, attempts, pending, selects>>

Execute ==
  /\ step = "executing" /\ ~DatabaseRefuses(query)
  /\ pending' = Tail(pending) /\ selects' = Append(selects, query) /\ query' = None
  /\ IF pending' = <<>> THEN Respond("rows") ELSE step' = "checking" /\ UNCHANGED answer
  /\ UNCHANGED <<candidates, attempts>>

\* Mutant: what the failed query would have added is left out of the answer.
FailsQuietly ==
  /\ step = "executing"
  /\ Respond(IF selects = <<>> THEN "failed" ELSE "rows")
  /\ query' = None
  /\ UNCHANGED <<candidates, attempts, pending, selects>>

\* The statement is refused, or fails, or takes too long.
ExecuteFails ==
  /\ step = "executing"
  /\ \/ Respond("failed")
     \/ ~DatabaseRefuses(query) /\ Respond("timeout")
  /\ query' = None
  /\ UNCHANGED <<candidates, attempts, pending, selects>>

Next ==
  \/ \E ts \in CandidateSets : Search(ts)
  \/ \E ps \in Lookups : AskForValues(ps)
  \/ \E t \in candidates : PlanDirectly(t)
  \/ ModelPlans
  \/ ModelErrs
  \/ ModelFails
  \/ Validate
  \/ Execute
  \/ ExecuteFails

Spec == Init /\ [][Next]_vars

-----------------------------------------------------------------------------
(***************************************************************************)
(* Properties.                                                             *)
(***************************************************************************)

(***************************************************************************)
(* A call is where its data say: something is pending from the plan on, a  *)
(* query is being executed from the validation on, and an answer is final. *)
(***************************************************************************)
TypeOK ==
  /\ step \in {"asked", "planning", "checking", "executing", "answered"}
  /\ candidates \subseteq Tables /\ attempts \in 0..1
  /\ attempts = 1 => step = "planning"
  /\ (step = "answered") = (answer # None) /\ (answer # None => answer \in Answers)
  /\ step \in {"checking", "executing"} => pending # <<>>
  /\ (step = "executing") = (query # None) /\ (query # None => query.plan = Head(pending))

\* The owner of the result's rows is only seen through an aggregation.
OwnerIsHidden(v) == ExternalDetail(v) /\ Owner(v) \notin Direct(v) /\ ~Aggregates(v)

(***************************************************************************)
(* The checks of validate_query_plan suffice for the statement that        *)
(* build_business_statement makes: whatever the model asks for, a plan     *)
(* that is accepted names only tables that are joined, pairs no table with *)
(* every row, and shows nothing that it does not group by, but for two     *)
(* shapes: a branch that starts at a table other than the base, and a      *)
(* grain whose table lies in a branch.                                     *)
(***************************************************************************)
AcceptedRuns ==
  query # None /\ ~BranchIsDetached(query) /\ ~OwnerIsHidden(query) =>
    ~DatabaseRefuses(query) /\ Implicit(query) = {}

\* A row of the parent may meet several of the child though the edge says one.
LeadsBackToMany(e) ==
  /\ e.parent = Rel(e.rel).right
  /\ \/ Rel(e.rel).time = "window"
     \/ \E g \in DOMAIN GrainKeys[e.child] : ~(GrainKeys[e.child][g] \subseteq Rel(e.rel).keys \cup {"day"})

(***************************************************************************)
(* Only the detail that the grain asks for multiplies rows: a row of the   *)
(* base and a row of the grain's table meet in one tuple of FROM at most,  *)
(* so that nothing is counted, summed or shown twice whatever else is      *)
(* joined.  Not claimed of three kinds of plan: those that walk a          *)
(* relationship backward to many rows, those whose base owns the detail    *)
(* grain and that join another table of that detail, and those that reach  *)
(* the detail through a table of other details.                            *)
(***************************************************************************)
OnlyDetailMultiplies ==
  LET v      == query
      direct == DirectEdges(v)
      given  == {Base(v)} \cup ({Owner(v)} \cap Direct(v))
      many   == {e \in direct : EffectiveMany(e.rel, e.parent)}
      twice  == \/ \E e \in direct : LeadsBackToMany(e)
                \/ v.grain \in DetailGrains \cap DOMAIN GrainKeys[Base(v)] /\ many # {}
                \/ \E e \in many : e.child \in Upstream(Tree(v.plan).edges, v.grain)
  IN query # None /\ ~twice =>
       LET tuples == From(v) IN
       \A f, h \in tuples : (\A t \in given : f[t] = h[t]) => f = h

(***************************************************************************)
(* A query reads its base table on self_service_max_days days at most,     *)
(* whatever filters the model combines; on a timestamp column one more,    *)
(* when the range ends before a time of day and not before midnight.       *)
(***************************************************************************)
RangeIsBounded ==
  query # None /\ Base(query) \in Dated =>
    LET timestamp == Base(query) \in Timestamps
        filters   == DateFilters(query.plan.dates, timestamp)
        partial   == \E f \in ToSet(filters) : f.op = "lt" /\ \E t \in Times(f) : t # 2 * Day(t)
    IN Cardinality(DaysRead(filters, timestamp, Today + MaxDays + 2))
         <= MaxDays + (IF timestamp /\ partial THEN 1 ELSE 0)

(***************************************************************************)
(* An answer with rows is whole: every plan of the question was validated, *)
(* within the candidates it was made from, and executed.  A question that  *)
(* is turned down or sent back has read nothing.                           *)
(***************************************************************************)
AnswerIsWhole ==
  /\ answer = "rows" => pending = <<>> /\ selects # <<>>
  /\ answer \in {"clarify", "refused", "raised"} => selects = <<>>
  /\ candidates # {} => \A i \in DOMAIN selects : ToSet(selects[i].plan.tables) \subseteq candidates
=============================================================================

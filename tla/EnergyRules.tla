----------------------------- MODULE EnergyRules -----------------------------
(***************************************************************************)
(* services/energy_analysis.py: the rules that the diagnosis of one cell   *)
(* and the analysis of many share, and the rows they look at.  Loads,      *)
(* shares of low traffic and distances are classes (above or below the     *)
(* threshold of the rule).                                                 *)
(***************************************************************************)
EXTENDS Integers

CONSTANTS
  Hours,  \* EXPANSION_HOURS
  None

NoRow == None

Flags     == {"yes", "no", "dirty"}           \* parse_boolean_flag: dirty is None
SiteTypes == {"macro", "indoor", "micro", None}
Networks  == {"4G", "5G", "other", None}      \* other: a name that is no alias of the two
Distances == {"100m", "200m", "far", None}    \* at most 100 m, at most 200 m, more

IsExpansionRow(r) ==
  /\ r.filter \subseteq Hours /\ r.early \subseteq Hours
  /\ r.detail \in [Hours -> {"low", "busy", None}] /\ r.white \in Flags

(* With what jd_cell_around and the parameter tables say of the neighbour. *)
IsConstrictionRow(r) ==
  /\ r.site \in SiteTypes /\ r.network \in Networks
  /\ r.relation # None => r.relation.network \in Networks /\ r.relation.distance \in Distances
  /\ r.types \in [{"4G", "5G"} -> SiteTypes]

IsBusyRow(r) == r.hour \in 0..23 /\ r.sleep \subseteq 0..23 /\ r.high \in BOOLEAN

-----------------------------------------------------------------------------
Candidates(row) == IF row = NoRow THEN {} ELSE row.filter \cup row.early

ResultStatus(row) == IF Candidates(row) = {} THEN "no_candidate" ELSE "candidate_available"

QueriedFullWindow(row) ==          \* mutant: forgets hour_filter_early
  IF row = NoRow \/ row.filter = {} THEN Hours ELSE row.filter
QueriedHours(row) == IF Candidates(row) = {} THEN Hours ELSE Candidates(row)

(* select_expansion_process_rows: which hours the report explains. *)
ShownHours(row) == IF Candidates(row) = {} THEN Hours ELSE Hours \cap Candidates(row)

Suggestion(row, sleep, h) ==
  LET flow == IF row = NoRow THEN None ELSE row.detail[h] IN
  IF h \in Candidates(row) THEN "expand"
  ELSE IF None \in {flow, sleep[h]} THEN "incomplete"
  ELSE IF flow = "busy" THEN "too_busy"
  ELSE IF sleep[h] = "some" THEN "sleeps_already"
  ELSE "see_result"

RelationNetwork(r) ==
  LET name == IF r.network # None THEN r.network
              ELSE IF r.relation = None THEN None ELSE r.relation.network
  IN IF name = "other" THEN None ELSE name

Distance(r) == IF r.relation = None THEN None ELSE r.relation.distance

(* neighbor_policy: how far and among which site types a cell has influence. *)
Reach(main)   == IF main = "indoor" THEN {"100m"} ELSE {"100m", "200m"}
Allowed(main) == CASE main = "macro"  -> {"macro"}
                   [] main = "indoor" -> {"macro", "indoor"}
                   [] OTHER           -> SiteTypes

Relation(main, around, distance) ==
  IF None \in {main, around, distance} THEN "missing"
  ELSE IF distance \notin Reach(main) THEN "out_of_range"
  ELSE IF around \notin Allowed(main) THEN "site_type_mismatch"
  ELSE "allowed"

(* collect_site_type_cgis and query_site_types: the main cell is looked up *)
(* when a row lacks its type, a neighbour in the table of its network.     *)
LookedUpMain(rows) == \E r \in rows : r.site = None
AroundType(r) == IF RelationNetwork(r) = None THEN None ELSE r.types[RelationNetwork(r)]

DropsUnproven(rows, main) ==       \* mutant: keeps only what is proven allowed
  {r \in rows : Relation(IF r.site = None THEN main ELSE r.site, AroundType(r), Distance(r)) = "allowed"}
Enrich(rows, main) ==
  {r \in rows : Relation(IF r.site = None THEN main ELSE r.site, AroundType(r), Distance(r))
                  \notin {"out_of_range", "site_type_mismatch"}}

IsPreSleepHour(r) == r.hour \in {(h + 23) % 24 : h \in r.sleep}

=============================================================================

---------------------------- MODULE BatchAnalysis ----------------------------
(***************************************************************************)
(* analyze_batch_cells_energy: the overview of the cells of an area,       *)
(* beside the daily imports.                                               *)
(*                                                                         *)
(* The latest date is taken first, from one or two tables; then the tables *)
(* are read concurrently, the neighbours of the constriction rows are      *)
(* looked up, and the loads before sleep are read for the cells that keep  *)
(* such a row: every query in a session of its own.  A table is filled day *)
(* by day, one commit per day, from FirstDay on, and may still be empty;   *)
(* jd_cell_pre_hour_busy has older days.                                   *)
(*                                                                         *)
(* What the tables hold for a cell is the same on every day but for        *)
(* jd_cell_pre_hour_busy.  The report gives numbers of cells, so here it   *)
(* is the sets of the cells they count.                                    *)
(***************************************************************************)
EXTENDS AnalysisState

CONSTANTS
  Cells,      \* what the tables hold, by cell: one choice per behaviour
  Areas,      \* names of the filters' values
  Wildcards,  \* those that _FILTER_ALL takes for no filter
  Calls       \* arguments of the tool

Cgis   == UNION {DOMAIN c : c \in Cells}
Tables == {"expansion", "constriction", "busy"}

(***************************************************************************)
(* What the constants are: AreaAnalysis assumes it.  An area has the same  *)
(* cells, whatever the tables hold for them.                               *)
(***************************************************************************)
BatchAssumption ==
  /\ Wildcards \subseteq Areas /\ None \notin Areas
  /\ Calls \subseteq [target : {"all", "expansion", "constriction"}, supported : BOOLEAN,
                      day : 1..MaxDay + 1 \cup {None, Unreadable}, area : Areas \cup {None}]

CellsAssumption ==
  \A c \in Cells : DOMAIN c = Cgis /\ \A i \in Cgis :
    /\ c[i].area \in Areas \ Wildcards /\ c[i].site \in SiteTypes /\ c[i].white \in Flags
    /\ c[i].expansion # None =>
         /\ c[i].expansion.filter \subseteq Hours /\ c[i].expansion.white \in Flags
         /\ c[i].expansion.highload \in {"no", "yes", None}
         /\ c[i].expansion.switch \in {"right", "wrong", "missing"}
    /\ \A r \in c[i].constriction : IsConstrictionRow(r) /\ r.hours \in 0..23 \cup {None}
    /\ DOMAIN c[i].busy = 1..MaxDay /\ \A d \in 1..MaxDay : \A r \in c[i].busy[d] : IsBusyRow(r)

(***************************************************************************)
(* A table that is empty is loaded up to FirstDay - 1.  exp has the        *)
(* expansion rows by cell, con the constriction rows, those of dropped     *)
(* neighbours too until "enriched", pre the days with high load before     *)
(* sleep.                                                                  *)
(***************************************************************************)
VARIABLES
  cells,   \* what the tables hold for each cell, which does not change
  latest   \* the maximal date read from each table, 0 before and for an empty table

inputs == <<cells, req>>
found  == <<exp, con, pre>>
vars   == <<loaded, inputs, pc, latest, date, job, found>>

Sources == {"expansion", "constriction"} \ (CASE req.target = "expansion"    -> {"constriction"}
                                               [] req.target = "constriction" -> {"expansion"}
                                               [] OTHER                       -> {})

TypeOK ==
  /\ loaded \in [Tables -> FirstDay - 1..MaxDay]
  /\ cells \in Cells /\ req \in Calls
  /\ pc \in {"asked", "dating", "reading", "enriched", "done", "refused", "failed"}
  /\ latest \in [Tables -> 0..MaxDay] /\ date \in 0..MaxDay
  /\ job \in [Tables -> {"off", "open", "read", "failed"}]
  /\ \A i \in Cgis : /\ exp[i] \in {NoRow, cells[i].expansion} /\ con[i] \subseteq cells[i].constriction
                     /\ pre[i] \subseteq date - LoadDays + 1..date

-----------------------------------------------------------------------------
(* The date.                                                               *)

Init ==
  /\ loaded \in [Tables -> {FirstDay - 1, FirstDay}]
  /\ cells \in Cells /\ req \in Calls
  /\ pc = "asked" /\ latest = [t \in Tables |-> 0] /\ date = 0
  /\ job = [t \in Tables |-> "off"]
  /\ exp = [i \in Cgis |-> NoRow] /\ con = [i \in Cgis |-> {}] /\ pre = [i \in Cgis |-> {}]

Import(t) ==
  /\ loaded[t] < MaxDay
  /\ loaded' = [loaded EXCEPT ![t] = @ + 1]
  /\ UNCHANGED <<inputs, pc, latest, date, job, found>>

(* An expansion level or a province that is not supported. *)
Refuse ==
  /\ pc = "asked" /\ ~req.supported
  /\ pc' = "refused" /\ UNCHANGED <<loaded, inputs, latest, date, job, found>>

Begin ==
  /\ pc = "asked" /\ req.supported
  /\ pc' = "dating" /\ job' = [t \in Tables |-> IF t \in Sources THEN "open" ELSE "off"]
  /\ UNCHANGED <<loaded, inputs, latest, date, found>>

ReadLatest(t) ==
  /\ pc = "dating" /\ job[t] = "open"
  /\ latest' = [latest EXCEPT ![t] = IF loaded[t] < FirstDay THEN 0 ELSE loaded[t]]
  /\ job' = [job EXCEPT ![t] = "read"]
  /\ UNCHANGED <<loaded, inputs, pc, date, found>>

(* _resolve_latest_date: the smaller one; of an empty table, the other's. *)
Known == {latest[t] : t \in Sources} \ {0}
NewestDate == IF Known = {} THEN 0 ELSE Max(Known)   \* mutant
LatestDate == IF Known = {} THEN 0 ELSE Min(Known)

ChooseDate ==
  /\ pc = "dating" /\ \A t \in Sources : job[t] = "read"
  /\ IF LatestDate = 0 THEN pc' = "refused" /\ UNCHANGED <<date, job>>
     ELSE IF req.day = Unreadable THEN pc' = "failed" /\ UNCHANGED <<date, job>>
     ELSE /\ date' = IF req.day = None \/ req.day > LatestDate THEN LatestDate ELSE req.day
          /\ pc' = "reading" /\ job' = [t \in Tables |-> IF t \in Sources THEN "open" ELSE "off"]
  /\ UNCHANGED <<loaded, inputs, latest, found>>

-----------------------------------------------------------------------------
(* The queries.                                                            *)

(* _normalize_filter: a wildcard is no filter. *)
AsWritten(area)       == area       \* mutant: looks for cells of that name
NormalizeFilter(area) == IF area \in Wildcards THEN None ELSE area
InScope(i) == NormalizeFilter(req.area) \in {None, cells[i].area}

Holds(t) == date \in FirstDay..loaded[t]
Matches(t, i) == Holds(t) /\ InScope(i)

ReadExpansion ==
  /\ pc = "reading" /\ job["expansion"] = "open"
  /\ exp' = [i \in Cgis |-> IF Matches("expansion", i) THEN cells[i].expansion ELSE NoRow]
  /\ job' = [job EXCEPT !["expansion"] = "read"]
  /\ UNCHANGED <<loaded, inputs, pc, latest, date, con, pre>>

ReadConstriction ==
  /\ pc = "reading" /\ job["constriction"] = "open"
  /\ con' = [i \in Cgis |-> IF Matches("constriction", i) THEN cells[i].constriction ELSE {}]
  /\ job' = [job EXCEPT !["constriction"] = "read"]
  /\ UNCHANGED <<loaded, inputs, pc, latest, date, exp, pre>>

(* The relations and site types, which do not change: two queries.  They   *)
(* are asked for when both tables have been read.                          *)
EnrichRows ==
  /\ pc = "reading" /\ \A t \in Tables : job[t] \in {"off", "read", "failed"}
  /\ con' = [i \in Cgis |-> Enrich(con[i], IF LookedUpMain(con[i]) THEN cells[i].site ELSE None)]
  /\ pc' = "enriched"
  /\ UNCHANGED <<loaded, inputs, latest, date, job, exp, pre>>

(* _query_pre_sleep_rows and _count_pre_sleep_days_by_cgi: for the cells   *)
(* that keep a constriction row, each day once.                            *)
WindowOfEight == {d \in date - LoadDays..date : d \in 1..loaded["busy"]}   \* mutant
Window        == {d \in date - LoadDays + 1..date : d \in 1..loaded["busy"]}

ReadBusy ==
  /\ pc = "enriched"
  /\ pre' = [i \in Cgis |-> IF con[i] = {} THEN {}
                            ELSE {d \in Window : \E r \in cells[i].busy[d] : r.high /\ IsPreSleepHour(r)}]
  /\ pc' = IF \A i \in Cgis : exp[i] = NoRow /\ con[i] = {} THEN "refused" ELSE "done"
  /\ UNCHANGED <<loaded, inputs, latest, date, job, exp, con>>

(* The first query that raises ends the call: "try again later". *)
FailQuietly ==                     \* mutant: gather(return_exceptions=True)
  /\ pc = "reading"
  /\ \E t \in Tables : job[t] = "open" /\ job' = [job EXCEPT ![t] = "failed"]
  /\ UNCHANGED <<loaded, inputs, pc, latest, date, found>>
Fail ==
  /\ pc \in {"dating", "reading", "enriched"} /\ pc' = "failed"
  /\ UNCHANGED <<loaded, inputs, latest, date, job, found>>

Next ==
  \/ \E t \in Tables : Import(t) \/ ReadLatest(t)
  \/ Refuse \/ Begin \/ ChooseDate
  \/ ReadExpansion \/ ReadConstriction \/ EnrichRows \/ ReadBusy \/ Fail

Spec == Init /\ [][Next]_vars

-----------------------------------------------------------------------------
(* _build_table_data: the rows of the summary, and the figures.            *)

Shows(t) == t \in Sources
Total    == {i \in Cgis : exp[i] # NoRow \/ con[i] # {}}

HoursToRemove(i) == {r.hours : r \in con[i]} \ {None}
HighLoadIfSaid(i)  == exp[i] # NoRow /\ exp[i].highload = "yes"   \* mutant: nothing said is "no"
NotLowLoad(i)      == exp[i] = NoRow \/ exp[i].highload # "no"
HighLoad         == {i \in Total : Shows("expansion") /\ NotLowLoad(i)}
CanExpand        == {i \in Total : Shows("expansion") /\ exp[i] # NoRow /\ exp[i].filter # {}}
NeighborPressure == {i \in Total : HoursToRemove(i) # {}}
HighSleepCount   == {i \in Total : pre[i] # {}}
NeedConstriction == {i \in Total : HoursToRemove(i) # {} \/ pre[i] # {}}
Whitelisted(i)   == IF exp[i] # NoRow THEN exp[i].white = "yes" ELSE cells[i].white = "yes"
Whitelist        == {i \in Total : Whitelisted(i)}
ParamNoncompliant == {i \in Cgis : exp[i] # NoRow /\ exp[i].switch = "wrong"}

(* The columns of a row, and _filter_empty_cells, which reads them again.  *)
Row(i) == [risk |-> IF Shows("expansion") /\ NotLowLoad(i) THEN "high" ELSE "not high",
           expand |-> IF Shows("expansion") /\ exp[i] # NoRow THEN exp[i].filter ELSE {},
           remove |-> IF Shows("constriction") THEN HoursToRemove(i) ELSE {},
           days   |-> IF Shows("constriction") THEN Cardinality(pre[i]) ELSE 0,
           white  |-> Whitelisted(i)]
HasHours(row) == row.expand # {} \/ row.remove # {} \/ row.white   \* mutant: hours only
IsProblem(row) ==
  row.white \/ row.risk # "not high" \/ row.expand # {} \/ row.remove # {} \/ row.days > 0
Problems == {i \in Total : IsProblem(Row(i))}

-----------------------------------------------------------------------------
(***************************************************************************)
(* Properties.                                                             *)
(***************************************************************************)

(* Every figure of the overview is a fact of the area on the day it names, *)
(* whatever is imported meanwhile: no cell is missing because a table did  *)
(* not hold that day yet or a query failed, no hour is counted that the    *)
(* diagnosis of the cell alone would not report, and no load before sleep  *)
(* from outside the week; and "nothing found" is said only where nothing   *)
(* is.  Known exceptions of the code: a table that was empty when the date *)
(* was chosen (the other one then decides alone); a cell that only the     *)
(* constriction table holds, which counts as highly loaded although        *)
(* nothing says so; and a cell on whose whitelist flag the two tables      *)
(* disagree, where the expansion table decides.                            *)
FiguresAreFacts ==
  pc \in {"done", "refused"} /\ date >= FirstDay =>
    LET scope   == {i \in Cgis : req.area \in Wildcards \cup {None, cells[i].area}}
        here(t) == t \in Sources
        row(i)  == IF here("expansion") THEN cells[i].expansion ELSE NoRow
        kept(i) == IF here("constriction") THEN Enrich(cells[i].constriction, cells[i].site) ELSE {}
        marks(i) == (IF row(i) = NoRow THEN {} ELSE {row(i).white}) \cup (IF kept(i) = {} THEN {} ELSE {cells[i].white})
        high(r) == r.high /\ (r.hour + 1) % 24 \in r.sleep
    IN
    /\ \A t \in Sources : latest[t] = 0 \/ date <= latest[t]
    /\ \A i \in HighSleepCount : \E d \in 1..date : d > date - LoadDays /\ \E r \in cells[i].busy[d] : high(r)
    /\ (\A t \in Sources : latest[t] # 0) =>
         /\ Total = {i \in scope : row(i) # NoRow \/ kept(i) # {}}
         /\ CanExpand = {i \in scope : row(i) # NoRow /\ row(i).filter # {}}
         /\ ParamNoncompliant = {i \in scope : row(i) # NoRow /\ row(i).switch = "wrong"}
         /\ HighLoad = {i \in Total : here("expansion") /\ (row(i) = NoRow \/ row(i).highload # "no")}
         /\ NeighborPressure = {i \in scope : \E r \in kept(i) : r.hours # None}
         /\ Whitelist \subseteq {i \in scope : "yes" \in marks(i)}
         /\ {i \in scope : marks(i) = {"yes"}} \subseteq Whitelist

(* The list of problems and the overview classify the same cells by two    *)
(* pieces of code, one from the rows of the database and one from the      *)
(* texts of the summary: a cell is listed as a problem if and only if some *)
(* figure that the report shows, or the whitelist, counts it.              *)
ProblemsAreCounted ==
  pc = "done" =>
    Problems = Whitelist \cup (IF Shows("expansion") THEN HighLoad \cup CanExpand ELSE {})
                         \cup (IF Shows("constriction") THEN NeedConstriction ELSE {})

OverviewIsTrue == FiguresAreFacts /\ ProblemsAreCounted

=============================================================================

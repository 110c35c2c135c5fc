--------------------------- MODULE EnergyAnalysis ---------------------------
(***************************************************************************)
(* analyze_single_cell_energy: one diagnosis of a 5G cell, beside the      *)
(* daily imports that fill the tables it reads.                            *)
(*                                                                         *)
(* The tool takes the latest date first, then reads the sections of the    *)
(* report concurrently, every query in a session of its own: an import     *)
(* may commit between any two of them.  A table is filled day by day, one  *)
(* commit per day, and all three hold FirstDay when the tool is called.    *)
(*                                                                         *)
(* A cell is what the tables hold for it, on every day the same but for    *)
(* jd_cell_pre_hour_busy, which is read for several days.                  *)
(***************************************************************************)
EXTENDS AnalysisState

CONSTANTS
  Cells,  \* what the tables may hold for the cell
  Calls   \* arguments of the tool

ASSUME CallsAssumption ==          \* what the cell is given by; MaxDay + 1 is in the future
  Calls \subseteq [target : {"all", "expansion", "constriction", "pre_sleep_load", "load"},
                   day : 1..MaxDay + 1 \cup {None, Unreadable}, by : {"cgi", "name", "nothing"}]

ASSUME CellsAssumption ==
  \A c \in Cells :
    /\ c.expansion # None => IsExpansionRow(c.expansion)
    /\ c.sleep \in [Hours -> {"zero", "some", None}]
    /\ \A r \in c.constriction : IsConstrictionRow(r)
    /\ c.site \in SiteTypes /\ c.white \in Flags
    /\ DOMAIN c.busy = 1..MaxDay /\ \A d \in 1..MaxDay : \A r \in c.busy[d] : IsBusyRow(r)
    /\ c.checks \subseteq {"right", "wrong", "missing"}

Tables == {"expansion", "constriction", "busy"}
Jobs   == {"expansion", "constriction", "busy", "param"}

(***************************************************************************)
(* The arguments are the target, the date, and what the cell is given by;  *)
(* exp has the row and the average sleep by hour, con the rows that were   *)
(* read and those kept, pre the rows of the day and the high days.         *)
(***************************************************************************)
VARIABLES
  cell,  \* the cell, which does not change
  param  \* the outcome of the parameter check

inputs   == <<cell, req>>
sections == <<exp, con, pre, param>>
vars     == <<loaded, inputs, pc, date, job, sections>>

TypeOK ==
  /\ loaded \in [Tables -> FirstDay..MaxDay]
  /\ cell \in Cells /\ req \in Calls
  /\ pc \in {"asked", "naming", "reading", "load", "done", "refused", "failed"}
  /\ date \in 0..MaxDay
  /\ job \in [Jobs -> {"off", "open", "sleep", "detail", "count", "read", "failed"}]
  /\ exp.row \in {NoRow, cell.expansion} /\ exp.sleep \in [Hours -> {"zero", "some", None}]
  /\ con.rows \in {{}, cell.constriction} /\ con.kept \subseteq con.rows
  /\ pre.detail \in {{}} \cup {cell.busy[d] : d \in 1..MaxDay} /\ pre.days \in 0..LoadDays
  /\ param \in {"compliant", "not_compliant", "unavailable"}

-----------------------------------------------------------------------------
HighRows(days) ==                  \* mutant: several rows of a day count
  Cardinality(UNION {{d} \X {r \in cell.busy[d] : r.high /\ IsPreSleepHour(r)} : d \in days})
HighDays(days) == Cardinality({d \in days : \E r \in cell.busy[d] : r.high /\ IsPreSleepHour(r)})

-----------------------------------------------------------------------------
(* The imports: the next day of a table, in one commit.                    *)

Import(t) ==
  /\ loaded[t] < MaxDay
  /\ loaded' = [loaded EXCEPT ![t] = @ + 1]
  /\ UNCHANGED <<inputs, pc, date, job, sections>>

Holds(t) == date <= loaded[t]

Init ==
  /\ loaded = [t \in Tables |-> FirstDay]
  /\ cell \in Cells /\ req \in Calls
  /\ pc = "asked" /\ date = 0 /\ job = [j \in Jobs |-> "off"]
  /\ exp = [row |-> NoRow, sleep |-> [h \in Hours |-> None]]
  /\ con = [rows |-> {}, kept |-> {}]
  /\ pre = [detail |-> {}, days |-> 0]
  /\ param = "unavailable"

-----------------------------------------------------------------------------
(* The latest date, and the date that is analysed.                         *)

Sources(target) ==
  CASE target = "pre_sleep_load"         -> {"busy"}
    [] target \in {"expansion", "load"}  -> {"expansion"}
    [] target = "constriction"           -> {"constriction"}
    [] OTHER                             -> {"expansion", "constriction"}

NewestDate(target) == Max({loaded[t] : t \in Sources(target)})   \* mutant: GREATEST
LatestDate(target) == Min({loaded[t] : t \in Sources(target)})

Wanted(target) ==
  CASE target = "all"            -> Jobs
    [] target = "expansion"      -> {"expansion", "param"}
    [] target = "constriction"   -> {"constriction", "busy"}
    [] target = "pre_sleep_load" -> {"busy"}
    [] OTHER                     -> {}

Refuse ==
  /\ pc = "asked" /\ req.by = "nothing"
  /\ pc' = "refused" /\ UNCHANGED <<loaded, inputs, date, job, sections>>

(* The query of the latest date raises, or a date that did not parse does  *)
(* when it is formatted.                                                   *)
DateFails ==
  /\ pc = "asked" /\ req.by # "nothing"
  /\ pc' = "failed" /\ UNCHANGED <<loaded, inputs, date, job, sections>>

ChooseDate ==
  /\ pc = "asked" /\ req.by # "nothing" /\ req.day # Unreadable
  /\ LET latest == LatestDate(req.target) IN
     date' = IF req.day = None \/ req.day > latest THEN latest ELSE req.day
  /\ pc' = IF req.by = "name" THEN "naming" ELSE "reading"
  /\ job' = [j \in Jobs |-> IF j \in Wanted(req.target) THEN "open" ELSE "off"]
  /\ UNCHANGED <<loaded, inputs, sections>>

(* resolve_cell_name: the exact name first, then names that contain it.    *)
Resolution(exact, containing, short) ==
  LET of(n) == IF n > 1 THEN "ambiguous" ELSE "resolved" IN
  IF exact > 0 THEN of(exact)
  ELSE IF short THEN "invalid"
  ELSE IF containing > 0 THEN of(containing)
  ELSE "not_found"

(* How many cells match does not matter beyond two.  A failed query is an  *)
(* error of the tool like an unresolved name.                              *)
ResolveName ==
  /\ pc = "naming"
  /\ \E exact, containing \in 0..2, short \in BOOLEAN :
       /\ exact <= containing
       /\ pc' = IF Resolution(exact, containing, short) = "resolved" THEN "reading" ELSE "refused"
  /\ UNCHANGED <<loaded, inputs, date, job, sections>>

-----------------------------------------------------------------------------
(* The sections, under asyncio.gather.                                     *)

Step(j, stage) == job' = [job EXCEPT ![j] = stage]

ReadExpansion ==
  /\ pc = "reading" /\ job["expansion"] = "open"
  /\ exp' = [exp EXCEPT !.row = IF Holds("expansion") THEN cell.expansion ELSE NoRow]
  /\ Step("expansion", "sleep")
  /\ UNCHANGED <<loaded, inputs, pc, date, con, pre, param>>

(* The average sleep of the hours that are asked for, where there is one.  *)
ReadSleep ==
  /\ pc = "reading" /\ job["expansion"] = "sleep"
  /\ exp' = [exp EXCEPT !.sleep = [h \in Hours |-> IF h \in QueriedHours(exp.row) THEN cell.sleep[h] ELSE None]]
  /\ Step("expansion", "read")
  /\ UNCHANGED <<loaded, inputs, pc, date, con, pre, param>>

(* The rows, then their relations, then the site types: what they read     *)
(* does not change meanwhile, so the three queries are one step.           *)
ReadConstriction ==
  /\ pc = "reading" /\ job["constriction"] = "open"
  /\ LET rows == IF Holds("constriction") THEN cell.constriction ELSE {} IN
     con' = [rows |-> rows, kept |-> Enrich(rows, IF LookedUpMain(rows) THEN cell.site ELSE None)]
  /\ Step("constriction", "read")
  /\ UNCHANGED <<loaded, inputs, pc, date, exp, pre, param>>

(* The rows of the day and those of the last LoadDays days: two queries at *)
(* a time, each in its own session, answered in any order.                 *)
ReadDetail ==
  /\ pc = "reading" /\ job["busy"] \in {"open", "count"}
  /\ pre' = [pre EXCEPT !.detail = IF Holds("busy") THEN cell.busy[date] ELSE {}]
  /\ Step("busy", IF job["busy"] = "open" THEN "detail" ELSE "read")
  /\ UNCHANGED <<loaded, inputs, pc, date, exp, con, param>>

CountWholeWeek ==                  \* mutant: one day too many
  /\ pc = "reading" /\ job["busy"] \in {"open", "detail"}
  /\ pre' = [pre EXCEPT !.days = HighDays({d \in date - LoadDays..date : d \in 1..loaded["busy"]})]
  /\ Step("busy", IF job["busy"] = "open" THEN "count" ELSE "read")
  /\ UNCHANGED <<loaded, inputs, pc, date, exp, con, param>>
CountHighDays ==
  /\ pc = "reading" /\ job["busy"] \in {"open", "detail"}
  /\ pre' = [pre EXCEPT !.days = HighDays({d \in date - LoadDays + 1..date : d \in 1..loaded["busy"]})]
  /\ Step("busy", IF job["busy"] = "open" THEN "count" ELSE "read")
  /\ UNCHANGED <<loaded, inputs, pc, date, exp, con, param>>

(* A cell without rows, and a query that fails, have no verdict.  Values   *)
(* that are missing do not count.                                          *)
Verdict(states) == IF states = {} THEN "unavailable"
                   ELSE IF "wrong" \in states THEN "not_compliant" ELSE "compliant"

CheckParameters ==
  /\ pc = "reading" /\ job["param"] = "open"
  /\ param' \in {Verdict(cell.checks), Verdict({})}
  /\ Step("param", "read")
  /\ UNCHANGED <<loaded, inputs, pc, date, exp, con, pre>>

(* The first section that raises ends the call: gather hands its exception *)
(* on, and what the other sections find is dropped.  The parameter check   *)
(* catches its own exceptions.                                             *)
FailQuietly(j) ==                  \* mutant: gather(return_exceptions=True)
  /\ pc = "reading" /\ j # "param" /\ job[j] \notin {"off", "read", "failed"}
  /\ Step(j, "failed") /\ UNCHANGED <<loaded, inputs, pc, date, sections>>
Fail(j) ==
  /\ pc = "reading" /\ j # "param" /\ job[j] \notin {"off", "read", "failed"}
  /\ Step(j, "failed") /\ pc' = "failed"
  /\ UNCHANGED <<loaded, inputs, date, sections>>

Finish ==
  /\ pc = "reading" /\ \A j \in Jobs : job[j] \in {"off", "read", "failed"}
  /\ pc' = IF req.target = "load" THEN "load" ELSE "done"
  /\ UNCHANGED <<loaded, inputs, date, job, sections>>

(* The load alone takes one more query, of the same table. *)
ReadLoad ==
  /\ pc = "load"
  /\ \/ /\ pc' = "done"
        /\ exp' = [exp EXCEPT !.row = IF Holds("expansion") THEN cell.expansion ELSE NoRow]
     \/ pc' = "failed" /\ UNCHANGED exp
  /\ UNCHANGED <<loaded, inputs, date, job, con, pre, param>>

Next ==
  \/ \E t \in Tables : Import(t)
  \/ Refuse \/ DateFails \/ ChooseDate \/ ResolveName
  \/ ReadExpansion \/ ReadSleep \/ ReadConstriction
  \/ ReadDetail \/ CountHighDays \/ CheckParameters
  \/ \E j \in Jobs : Fail(j)
  \/ Finish \/ ReadLoad

Spec == Init /\ [][Next]_vars

-----------------------------------------------------------------------------
(* The report is a function of what was read.                              *)

Reported(section) == pc = "done" /\ section \in Wanted(req.target)

WhiteFlags ==
  (IF "expansion" \in Wanted(req.target) THEN {IF exp.row = NoRow THEN "no" ELSE exp.row.white} ELSE {})
    \cup (IF "constriction" \in Wanted(req.target) THEN {IF con.rows = {} THEN "no" ELSE cell.white} ELSE {})

WhitelistStatus == IF "yes" \in WhiteFlags THEN "whitelisted"
                   ELSE IF "no" \in WhiteFlags THEN "not_whitelisted"
                   ELSE "unknown"

(***************************************************************************)
(* Properties.                                                             *)
(***************************************************************************)

(* The hours the report explains are hours it has asked about: the query   *)
(* narrows its hours by one rule (_parse_hour_values) and the report       *)
(* selects its rows by another (_hour_set), and a row they disagree about  *)
(* would show as missing what the table holds.  The hours it suggests are  *)
(* the ones behind its conclusion.                                         *)
ProcessShowsTheTable ==
  Reported("expansion") =>
    \A h \in ShownHours(exp.row) :
      /\ exp.sleep[h] = cell.sleep[h]
      /\ Suggestion(exp.row, exp.sleep, h) = "expand" <=> ResultStatus(exp.row) = "candidate_available"

(* A neighbour is dropped from the report only when its site type, the     *)
(* main cell's and their distance are all on record and break the rule; a  *)
(* lookup that is skipped, or in the wrong network, cannot drop one.  So   *)
(* "no hour to remove" is said only if that holds of every neighbour.      *)
DroppedForCause ==
  Reported("constriction") =>
    \A r \in con.rows :
      LET main   == IF r.site # None THEN r.site ELSE cell.site
          around == AroundType(r) IN
      r \in con.kept <=>
        \/ None \in {main, around, Distance(r)}
        \/ /\ main = "macro" => around = "macro"
           /\ main = "indoor" => around \in {"macro", "indoor"} /\ Distance(r) = "100m"
           /\ Distance(r) # "far"

(* A negative conclusion is a fact of the cell on a date its table holds:  *)
(* "no hour to expand", "no hour to remove" and "not on the whitelist" are *)
(* never said because a query failed, because the sections disagree about  *)
(* the date, or because an import came late.                               *)
NegativesAreFacts ==
  /\ DroppedForCause
  /\ Reported("expansion") /\ ResultStatus(exp.row) = "no_candidate" =>
       Holds("expansion") /\ Candidates(cell.expansion) = {}
  /\ Reported("constriction") /\ con.kept = {} =>
       Holds("constriction") /\ con.rows = cell.constriction
  /\ pc = "done" /\ WhitelistStatus = "not_whitelisted" =>
       /\ "expansion" \in Wanted(req.target) /\ cell.expansion # None => cell.expansion.white # "yes"
       /\ "constriction" \in Wanted(req.target) /\ cell.constriction # {} => cell.white # "yes"

(* An analysis of the load before sleep counts every day of its window,    *)
(* the day it shows included, although the two queries see different       *)
(* imports.  (A full analysis takes its date from other tables, and its    *)
(* count may miss the day its table shows.)                                *)
CountsWhatItShows ==
  pc = "done" /\ req.target = "pre_sleep_load" =>
    LET high(rows) == \E r \in rows : r.high /\ (r.hour + 1) % 24 \in r.sleep IN
    /\ pre.days = Cardinality({d \in 1..date : d > date - LoadDays /\ high(cell.busy[d])})
    /\ high(pre.detail) => pre.days > 0

(* Two queries, and a query and a report, that read the same rows by rules *)
(* of their own agree about them.                                          *)
ReportAgrees == ProcessShowsTheTable /\ CountsWhatItShows

=============================================================================

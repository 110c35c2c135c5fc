---------------------------- MODULE NetworkReport ----------------------------
(***************************************************************************)
(* One call of query_report or query_anomaly beside the daily imports of   *)
(* lte_report_day_collect and nr_report_day_collect, one commit per table  *)
(* and day.  Dates are written YYYY-MM-DD, so they compare as day numbers. *)
(*                                                                         *)
(* A row of these tables sums up a scope for a day.  query_report names    *)
(* the whole scope; query_anomaly names only the city and the vendor, here *)
(* "city", and leaves county, band, site type and area, here "rest", open. *)
(***************************************************************************)
EXTENDS Integers, FiniteSets, FiniteSetsExt

CONSTANTS
  FirstDay, Yesterday,  \* the first day the tables hold, and the last of all
  Lookback,             \* BASELINE_LOOKBACK_DAYS
  Cities, Rests,        \* scopes
  Whole,                \* the word for no restriction, which both fields have
  Contents,             \* what the tables hold in the end: one choice per behaviour
  Calls,                \* arguments of the tools
  None

Nets == {"lte", "nr"}

(***************************************************************************)
(* What the tools compare, by kind: rate is the share of energy saved,     *)
(* power the energy of all stations, single that of one, traffic also      *)
(* stands for the efficiency, low is the number of inefficient cells,      *)
(* saved the energy saved, and hours every count of stations, cells and    *)
(* hours.  Each tool has a list of its own.                                *)
(***************************************************************************)
ReportMetrics == [n \in Nets |-> {"rate", "power", "saved", "hours"} \cup (IF n = "lte" THEN {"single"} ELSE {})]
CoreMetrics   == {"rate", "power", "single", "traffic", "low"}
Metrics       == {"rate", "power", "single", "traffic", "low", "saved", "hours"}

HigherIsBetter == {"rate", "traffic"}   \* of the core metrics
InWanDu        == {"power", "saved"}    \* converted by the report

ASSUME ReportAssumption ==
  /\ FirstDay \in Nat /\ Yesterday \in Nat /\ FirstDay <= Yesterday /\ Lookback \in Nat \ {0}
  /\ Whole \in Cities \cap Rests
  /\ Calls \subseteq [tool : {"report", "anomaly"}, city : Cities \cup {None}, rest : Rests \cup {None},
                      start : Int \cup {None}, end : Int \cup {None}]
  /\ \A c \in Contents, n \in Nets, d \in FirstDay..Yesterday :
       /\ IsFiniteSet(c[n][d])
       /\ \A r \in c[n][d] :
            /\ r.city \in Cities /\ r.rest \in Rests
            /\ \A m \in Metrics : r[m] \in Nat \cup {None}
            /\ \A m \in InWanDu : r[m] # None => r[m] % 100 # 50

VARIABLES
  loaded,  \* the last day each table holds, FirstDay - 1 while it is empty
  tables,  \* what they hold, which does not change
  call,    \* the arguments
  pc,      \* how far the call is
  latest,  \* get_latest_date
  span,    \* the first day read, the last one, and the day asked about first
  got      \* for each network <<day, row>> of the target, or NoRow, and of the baseline

vars == <<loaded, tables, call, pc, latest, span, got>>

NoRow   == <<>>
NoSpan  == [first |-> 0, last |-> 0, start |-> 0]
Nothing == [target |-> NoRow, base |-> {}]

TypeOK ==
  /\ loaded \in [Nets -> FirstDay - 1..Yesterday]
  /\ tables \in Contents /\ call \in Calls
  /\ pc \in {"asked", "dated", "lte", "nr", "done", "nothing", "failed"}
  /\ latest \in FirstDay - 1..Yesterday
  /\ pc \in {"lte", "nr", "done"} =>
       span.first + Lookback = span.start /\ (call.tool = "report" => span.last <= latest)
  /\ \A n \in Nets : \A dr \in got[n].base : dr[1] \in span.first..span.last /\ dr[2] \in tables[n][dr[1]]

-----------------------------------------------------------------------------
Init ==
  /\ loaded \in [Nets -> {FirstDay - 1, Yesterday - 1}]
  /\ tables \in Contents /\ call \in Calls
  /\ pc = "asked" /\ latest = FirstDay - 1 /\ span = NoSpan
  /\ got = [n \in Nets |-> Nothing]

Import(n) ==
  /\ loaded[n] < Yesterday
  /\ loaded' = [loaded EXCEPT ![n] = @ + 1]
  /\ UNCHANGED <<tables, call, pc, latest, span, got>>

City == IF call.city = None THEN Whole ELSE call.city
Rest == IF call.rest = None THEN Whole ELSE call.rest

(* get_latest_date: one statement over both tables. *)
ReadLatest ==
  /\ pc = "asked" /\ call.tool = "report"
  /\ latest' = Max({loaded[n] : n \in Nets})
  /\ pc' = IF latest' < FirstDay THEN "nothing" ELSE "dated"
  /\ UNCHANGED <<loaded, tables, call, span, got>>

(* query_report: neither date is later than the latest one. *)
Earlier(d, e) == IF d = None \/ d > e THEN e ELSE d
AsAsked ==   \* mutant: the end is taken as it is
  LET start == Earlier(call.start, latest)
  IN [first |-> start - Lookback, last |-> IF call.end = None THEN start ELSE call.end, start |-> start]
Dates ==
  LET start == Earlier(call.start, latest)
      last  == Earlier(IF call.end = None THEN start ELSE call.end, latest)
  IN [first |-> start - Lookback, last |-> last, start |-> start]

ChooseDates ==
  /\ pc = "dated"
  /\ span' = Dates
  /\ pc' = "lte" /\ UNCHANGED <<loaded, tables, call, latest, got>>

(* _calculate_baseline_start: query_anomaly takes the date as it is. *)
Begin ==
  /\ pc = "asked" /\ call.tool = "anomaly"
  /\ LET day == IF call.end = None THEN Yesterday ELSE call.end
     IN span' = [first |-> day - Lookback, last |-> day, start |-> day]
  /\ pc' = "lte" /\ UNCHANGED <<loaded, tables, call, latest, got>>

Held(n) == {dr \in UNION {{d} \X tables[n][d] : d \in FirstDay..loaded[n]} :
              dr[1] \in span.first..span.last /\ dr[2].city = City}

InScope(dr) == dr[2].rest = Rest
Advance(n, found) == pc' = IF n = "lte" THEN "nr" ELSE IF found THEN "done" ELSE "nothing"

(* _fetch_data_with_baseline and _split_target_and_baseline: every day at  *)
(* most once.  No network has the day: nothing is found.                   *)
NewestOf(rows) == {dr \in rows : \A other \in rows : other[1] <= dr[1]}   \* mutant
TargetOf(rows) == {dr \in rows : dr[1] = span.last}
ReadReport(n) ==
  /\ pc = n /\ call.tool = "report"
  /\ LET rows   == {dr \in Held(n) : InScope(dr)}
         target == IF TargetOf(rows) = {} THEN NoRow ELSE CHOOSE dr \in TargetOf(rows) : TRUE
         after  == [got EXCEPT ![n] = [target |-> target, base |-> rows \ TargetOf(rows)]]
     IN IF Cardinality(rows) # Cardinality({dr[1] : dr \in rows})
        THEN pc' = "failed" /\ UNCHANGED got
        ELSE got' = after /\ Advance(n, \E m \in Nets : after[m].target # NoRow)
  /\ UNCHANGED <<loaded, tables, call, latest, span>>

(* _fetch_network_data: the rows of the day overwrite each other, and the  *)
(* statement does not order them.                                          *)
ReadAnomaly(n) ==
  /\ pc = n /\ call.tool = "anomaly"
  /\ \E target \in IF TargetOf(Held(n)) = {} THEN {NoRow} ELSE TargetOf(Held(n)) :
       got' = [got EXCEPT ![n] = [target |-> target, base |-> Held(n) \ TargetOf(Held(n))]]
  /\ Advance(n, TRUE)
  /\ UNCHANGED <<loaded, tables, call, latest, span>>

(* A query raises, or a date does not parse: "try again later". *)
Fail ==
  /\ pc \in {"asked", "dated", "lte", "nr"} /\ pc' = "failed"
  /\ UNCHANGED <<loaded, tables, call, latest, span, got>>

Next ==
  \/ \E n \in Nets : Import(n) \/ ReadReport(n) \/ ReadAnomaly(n)
  \/ ReadLatest \/ ChooseDates \/ Begin \/ Fail

Spec == Init /\ [][Next]_vars

-----------------------------------------------------------------------------
(* What the tools say of the rows.                                         *)

(* to_wan_du: in hundredths of 10 000 kWh. *)
ToWanDu(v) == (v + 50) \div 100
Convert(m, v) == IF m \in InWanDu THEN ToWanDu(v) ELSE v

Values(g, m) == {dr[2][m] : dr \in {b \in g.base : b[2][m] # None}}
Peak(values) == IF values = {} THEN 0 ELSE Max(values)

(* _diagnose_anomalies: by a tenth or more, up or down; no value is 0. *)
FallsOnly(t, peak) == 10 * (peak - t) >= peak   \* mutant: the sign is lost
Deviates(t, peak)  == 10 * (peak - t) >= peak \/ 10 * (t - peak) >= peak
Reported(n, g) == {m \in ReportMetrics[n] :
  LET peak == Peak({Convert(m, v) : v \in Values(g, m)})
      t    == IF g.target[2][m] = None THEN 0 ELSE Convert(m, g.target[2][m])
  IN g.target # NoRow /\ peak # 0 /\ Deviates(t, peak)}

(* _process_lte_data and _process_nr_data, without the figures they copy;  *)
(* then the report's one date, and the networks it has sections for.       *)
Processed(n) == [date |-> IF got[n].target = NoRow THEN None ELSE got[n].target[1],
                 anomalies |-> Reported(n, got[n])]
ReportDate == Processed(IF Processed("nr").date # None THEN "nr" ELSE "lte").date
Sections   == {n \in Nets : Processed(n).date # None}

(* _detect_anomalies: by more than a tenth, to the worse. *)
Worse(m, t, peak) == IF m \in HigherIsBetter THEN 10 * t < 9 * peak ELSE 10 * t > 11 * peak
Degraded(g) == {m \in CoreMetrics :
  LET peak == Peak(Values(g, m))
  IN g.target # NoRow /\ peak # 0 /\ g.target[2][m] # None /\ Worse(m, g.target[2][m], peak)}

-----------------------------------------------------------------------------
(***************************************************************************)
(* Properties.                                                             *)
(***************************************************************************)

Scoped(n, d) == IF d \in FirstDay..Yesterday
                THEN {r \in tables[n][d] : r.city = City /\ r.rest = Rest} ELSE {}

(* What the report prints under its one date is of that date for both      *)
(* networks, though one table may be a day behind and the other may grow   *)
(* between the two queries; it is the one row of exactly the scope asked   *)
(* for; and what it is compared with is the complete baseline of that      *)
(* scope, at most one row for each of the days before.  When the newest    *)
(* day is asked for, "nothing found" is not said of a scope that both      *)
(* tables have on that day.                                                *)
ReportIsOfItsDay ==
  call.tool = "report" =>
    /\ pc = "done" =>
         \A n \in Sections :
           /\ Processed(n).date = ReportDate /\ ReportDate = span.last
           /\ Scoped(n, span.last) = {got[n].target[2]}
           /\ got[n].base = UNION {{d} \X Scoped(n, d) : d \in span.start - Lookback..span.last - 1}
           /\ span.start = span.last => Cardinality(got[n].base) <= Lookback
    /\ pc = "nothing" /\ latest >= FirstDay /\ call.start = None /\ call.end = None =>
         \E n \in Nets : Scoped(n, span.last) = {}

(* What query_anomaly's rule calls worse in the rows the report is made    *)
(* from is in the report's list of deviations, but for two things.  The    *)
(* report does not look at traffic, efficiency and inefficient cells, nor  *)
(* at the energy of a single 5G station.  And it rounds the energy of all  *)
(* stations to 100 kWh before it compares it: there the deviation has to   *)
(* be 200 kWh more than the tenth, and the peak no less than the 50 kWh    *)
(* that do not round to nothing.                                           *)
NotListed(n) == {"traffic", "low"} \cup (IF n = "nr" THEN {"single"} ELSE {})
Rounded(t, peak) == peak < 50 \/ 10 * (t - 200) <= 11 * peak
WorseIsReported ==
  call.tool = "report" /\ pc = "done" =>
    \A n \in Nets : \A m \in Degraded(got[n]) :
      \/ m \in Processed(n).anomalies \cup NotListed(n)
      \/ m = "power" /\ Rounded(got[n].target[2][m], Peak(Values(got[n], m)))

(* "baseline_data: 基线数据列表(最多7条)": the baseline of query_anomaly   *)
(* is one row for each of the seven days.                                  *)
BaselineIsAWeek ==
  call.tool = "anomaly" => \A n \in Nets : Cardinality(got[n].base) <= Lookback

=============================================================================

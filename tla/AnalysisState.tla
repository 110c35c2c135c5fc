---------------------------- MODULE AnalysisState ----------------------------
(***************************************************************************)
(* What the diagnosis of one cell and the analysis of an area keep beside  *)
(* the daily imports, each in a call of its own.  Dates are day numbers.   *)
(***************************************************************************)
EXTENDS EnergyRules, FiniteSets, FiniteSetsExt

CONSTANTS
  FirstDay, MaxDay,  \* the first day the analysed tables hold, and the last of all
  LoadDays,          \* PRE_SLEEP_LOAD_DAYS, the analysed day included
  Unreadable         \* a stat_time that does not parse

VARIABLES
  loaded,  \* the last day each table holds
  req,     \* the arguments
  pc,      \* how far the call is
  date,    \* query_date
  job,     \* how far each concurrent query is
  exp,     \* what was read of the expansion table
  con,     \* of the constriction table
  pre      \* of the load before sleep

ASSUME DaysAssumption ==
  /\ FirstDay \in Nat \ {0} /\ MaxDay \in Nat /\ FirstDay <= MaxDay
  /\ LoadDays \in Nat \ {0}
=============================================================================

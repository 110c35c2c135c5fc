-------------------------- MODULE BusinessCatalog --------------------------
(***************************************************************************)
(* The authorised tables and relationships of business_data_catalog.yaml.  *)
(*                                                                         *)
(* Names are shortened.  lte_report_day_* and lte_fix_prm are left out:    *)
(* their entries are those of nr_*.  jd_cell_expansion_day_500 is left     *)
(* out: it is as _400.  The date column of every table is called day, and  *)
(* the other columns of the daily summary's key are one, dimension.        *)
(***************************************************************************)
EXTENDS Naturals

CatalogTables ==
  {"report_detail", "report_collect", "fix_prm", "expansion", "expansion_400", "constriction",
   "detail_hour", "pre_hour_busy", "around", "check_result"}

\* What a row of the table stands for, and the columns that identify it.
CatalogGrainKeys ==
  [report_detail  |-> [cell_day       |-> {"cgi", "day"}],
   report_collect |-> [summary_day    |-> {"day", "dimension"}],
   fix_prm        |-> [cell_snapshot  |-> {"cgi", "day"}],
   expansion      |-> [cell_day       |-> {"cgi", "day"}],
   expansion_400  |-> [cell_day       |-> {"cgi", "day"}],
   constriction   |-> [cell_day       |-> {"cgi", "day"},
                       constriction_record |-> {"cgi", "day", "hours", "around_cgi"}],
   detail_hour    |-> [cell_day       |-> {"cgi", "day"}, hour |-> {"cgi", "day", "hours"}],
   pre_hour_busy  |-> [cell_day       |-> {"cgi", "day"}, hour |-> {"cgi", "day", "prb_hour"}],
   around         |-> [neighbor       |-> {"cgi", "around_cgi"}],
   check_result   |-> [parameter_item |-> {"cgi", "day", "saving_para_name"}]]

CatalogDefaultGrain ==
  [report_detail |-> "cell_day", report_collect |-> "summary_day", fix_prm |-> "cell_snapshot",
   expansion |-> "cell_day", expansion_400 |-> "cell_day", constriction |-> "cell_day", detail_hour |-> "cell_day",
   pre_hour_busy |-> "cell_day", around |-> "neighbor", check_result |-> "parameter_item"]

\* Tables with a default_date_column, and those whose column is a timestamp.
CatalogDated      == CatalogTables \ {"around"}
CatalogTimestamps == {"check_result"}

(***************************************************************************)
(* many: the cardinality begins with one_to_many.  time: how the dates of  *)
(* the two rows are matched beside the keys.  snapshot: only the latest    *)
(* row of the right table counts.                                          *)
(***************************************************************************)
Relation(left, right, many, keys, time, snapshot, grains, detail) ==
  [left |-> left, right |-> right, many |-> many, keys |-> keys, time |-> time,
   snapshot |-> snapshot, grains |-> grains, detail |-> detail]

CellDay == {"cgi", "day"}

\* What jd_cell_expansion_day and its variants are related to.
FromExpansion(table) ==
  [constriction  |-> Relation(table, "constriction", TRUE, CellDay, "any", FALSE,
                              {"cell_day", "constriction_record"}, "constriction_record"),
   detail_hour   |-> Relation(table, "detail_hour", TRUE, CellDay, "any", FALSE,
                              {"cell_day", "hour"}, "hour"),
   pre_hour_busy |-> Relation(table, "pre_hour_busy", TRUE, {"cgi"}, "window", FALSE,
                              {"cell_day", "hour"}, "hour"),
   fix_prm       |-> Relation(table, "fix_prm", FALSE, {"cgi"}, "any", TRUE,
                              {"cell_day"}, "none"),
   check_result  |-> Relation(table, "check_result", TRUE, {"cgi"}, "same_day", FALSE,
                              {"cell_day", "parameter_item"}, "parameter_item")]

CatalogRelationships ==
  [expansion_to_constriction     |-> FromExpansion("expansion").constriction,
   expansion_to_hour_detail      |-> FromExpansion("expansion").detail_hour,
   expansion_to_pre_sleep        |-> FromExpansion("expansion").pre_hour_busy,
   expansion_to_nr_prm           |-> FromExpansion("expansion").fix_prm,
   expansion_to_param_check      |-> FromExpansion("expansion").check_result,
   expansion_400_to_constriction |-> FromExpansion("expansion_400").constriction,
   expansion_400_to_hour_detail  |-> FromExpansion("expansion_400").detail_hour,
   expansion_400_to_pre_sleep    |-> FromExpansion("expansion_400").pre_hour_busy,
   expansion_400_to_nr_prm       |-> FromExpansion("expansion_400").fix_prm,
   expansion_400_to_param_check  |-> FromExpansion("expansion_400").check_result,
   constriction_to_around |->
     Relation("constriction", "around", FALSE, {"cgi", "around_cgi"}, "any", FALSE,
              {"cell_day", "constriction_record", "neighbor"}, "neighbor"),
   constriction_to_pre_sleep |->
     Relation("constriction", "pre_hour_busy", TRUE, {"cgi"}, "window", FALSE,
              {"cell_day", "hour"}, "hour"),
   constriction_to_nr_prm |->
     Relation("constriction", "fix_prm", FALSE, {"cgi"}, "any", TRUE,
              {"cell_day", "constriction_record"}, "none"),
   constriction_to_param_check |->
     Relation("constriction", "check_result", TRUE, {"cgi"}, "same_day", FALSE,
              {"cell_day", "constriction_record", "parameter_item"}, "parameter_item"),
   nr_detail_to_prm |->
     Relation("report_detail", "fix_prm", FALSE, CellDay, "any", FALSE, {"cell_day"}, "none")]

(***************************************************************************)
(* METRIC_REGISTRY: every metric is of a daily summary, at its grain.  The *)
(* columns a metric is computed from are one, value.                       *)
(***************************************************************************)
CatalogMetrics ==
  [energy_wan |-> [table |-> "report_collect", fields |-> {"value"}, grain |-> "summary_day"]]
=============================================================================

----------------------------- MODULE AreaAnalysis -----------------------------
(***************************************************************************)
(* BatchAnalysis under names of its own, so that what it promises can be   *)
(* stated beside the diagnosis of one cell, EnergyAnalysis: both have the  *)
(* days and the kinds of state of AnalysisState.                           *)
(***************************************************************************)
EXTENDS AnalysisState

CONSTANTS AreaCells, AreaCalls, Areas, Wildcards
VARIABLES cells, latest

Batch == INSTANCE BatchAnalysis WITH Cells <- AreaCells, Calls <- AreaCalls

ASSUME AreaIsKnown == Batch!BatchAssumption /\ Batch!CellsAssumption

AreaSpec == Batch!Spec

(* A call is where its data say; what has been read is the tables'.        *)
AreaTypeOK == Batch!TypeOK

(* Every figure of the overview is a fact of the area on the day it names, *)
(* and the list of problems holds what the figures count.                  *)
AreaOverviewIsTrue == Batch!OverviewIsTrue
=============================================================================

---------------------------- MODULE TaskContext ----------------------------
(***************************************************************************)
(* The structured conditions of the current task, query_scope.py: how the  *)
(* user's words change them, and how they overrule the arguments a model   *)
(* proposes for a tool.                                                    *)
(*                                                                         *)
(* A text is seen through what the patterns of query_scope.py find in it.  *)
(* Dates follow the same merge as expansion levels and are left out; CGI   *)
(* and cell name are one field.                                            *)
(***************************************************************************)
EXTENDS Integers, Sequences, SequencesExt

CONSTANTS
  Cities, Counties, Cells, Vendors, Levels,
  Conservative,  \* the default level
  Home,   \* the province of every whole-province query
  All,    \* the wildcard of reports and anomaly queries
  None    \* a field that is absent

ASSUME ContextAssumption ==
  /\ {All, None} \cap (Cities \cup Counties \cup Cells \cup Vendors \cup Levels) = {}
  /\ None # All /\ None # Home /\ Conservative \in Levels

Arguments == [province : {Home, None}, dist : Cities \cup {All, None},
              county : Counties \cup {All, None}, cell : Cells \cup {None},
              vendor : Vendors \cup {All, None}, level : Levels \cup {None},
              target : {"all", "one", None}]
NoArguments == [province |-> None, dist |-> None, county |-> None, cell |-> None,
                vendor |-> None, level |-> None, target |-> None]

Analysis == {"batch", "single"}
Scoped   == {"batch", "report", "anomaly", "param"}
Task     == [tool : Scoped \cup Analysis, args : Arguments]

(* What the patterns find: the words named, whether the whole province is  *)
(* meant, the goals, whether the text asks for one cell, has a word for an *)
(* area or for a batch of cells beside the places it names, names several  *)
(* places or vendors at once, says more than conditions, or refers to an   *)
(* earlier answer.                                                         *)
Text == [words : Arguments, wide : BOOLEAN, area : BOOLEAN, goals : SUBSET {"energy", "report"},
         oneCell : BOOLEAN, ambiguous : BOOLEAN, residual : BOOLEAN, refers : BOOLEAN,
         kind : {"business", "guidance", "dimension", "explain"}]

-----------------------------------------------------------------------------
(* _reduce_task                                                            *)

Wide(text) == text.wide /\ text.words.dist = None /\ text.words.county = None

Patch(text) == [text.words EXCEPT !.province = IF Wide(text) /\ @ = None THEN Home ELSE @]
Updated(args, patch) ==
  [key \in DOMAIN args |-> IF patch[key] = None THEN args[key] ELSE patch[key]]

AreaNamed(text) == text.area \/ text.words.province # None
                     \/ text.words.dist # None \/ text.words.county # None

(* energy_analysis_route: the tool an energy goal is bound to, if any. *)
EnergyRoute(text) ==
  IF "energy" \notin text.goals   THEN "none"
  ELSE IF text.words.cell # None THEN "single"
  ELSE IF text.oneCell           THEN "none"
  ELSE IF AreaNamed(text)        THEN "batch" ELSE "none"
Route(text) ==
  IF EnergyRoute(text) = "none" /\ "report" \in text.goals THEN "report" ELSE EnergyRoute(text)

Defaults(tool) ==
  [NoArguments EXCEPT !.level = IF tool \in Analysis THEN Conservative ELSE None,
                      !.target = IF tool = "batch" THEN "all" ELSE None]
NewTask(text) ==
  [tool |-> Route(text), args |-> Updated(Defaults(Route(text)), Patch(text))]

(* A new area forgets the old one, and the cell with it. *)
Forgotten(previous, text) ==
  LET patch == Patch(text) IN
  IF \/ Wide(text)
     \/ patch.dist \notin {None, previous.args.dist}
     \/ patch.province \notin {None, previous.args.province}
    THEN [previous.args EXCEPT !.dist = None, !.county = None, !.cell = None]
    ELSE previous.args

(* Naming a cell turns an analysis into one of that cell. *)
KeepsTool(previous, text) ==      \* mutant: the area function gets the cell
  [tool |-> previous.tool, args |-> Updated(Forgotten(previous, text), Patch(text))]
Patched(previous, text) ==
  LET args == Updated(Forgotten(previous, text), Patch(text)) IN
  IF text.words.cell # None /\ previous.tool \in Analysis
    THEN [tool |-> "single",
          args |-> [args EXCEPT !.province = None, !.dist = None, !.county = None, !.vendor = None]]
    ELSE [tool |-> previous.tool, args |-> args]

IsFollowUp(previous, text) ==
  /\ ~text.ambiguous /\ Route(text) = "none"
  /\ previous # None /\ Patch(text) # NoArguments /\ ~text.residual

RefersBack(previous, text) ==
  /\ Route(text) = "none" /\ ~IsFollowUp(previous, text)
  /\ previous # None /\ text.refers

(* The task of a request; an ambiguous text has none. *)
Reduced(previous, text) ==
  CASE text.ambiguous -> None
    [] ~text.ambiguous /\ Route(text) # "none" -> NewTask(text)
    [] IsFollowUp(previous, text) -> Patched(previous, text)
    [] ~text.ambiguous /\ RefersBack(previous, text) -> previous
    [] OTHER -> None

(* A conversation older than the snapshots: its texts, one after another. *)
Replayed(texts) ==
  LET task[n \in 0 .. Len(texts)] ==
        IF n = 0 THEN None ELSE Reduced(task[n - 1], texts[n])
  IN  task[Len(texts)]

-----------------------------------------------------------------------------
(* normalize_analysis_arguments, then normalize_tool_scope.                *)

AnalysisArguments(tool, args, text, task) ==
  IF tool \notin Analysis
    THEN args
    ELSE LET merged == IF task # None /\ task.tool = tool THEN Updated(args, task.args) ELSE args
         IN  [merged EXCEPT !.level = IF text.words.level = None THEN @ ELSE text.words.level]

Plain(value)      == IF value = All THEN None ELSE value
Spoken(text, task) == IF task = None THEN text.words ELSE task.args
VendorOf(args, text, task) ==
  LET spoken == Plain(Spoken(text, task).vendor) IN
  IF spoken = None /\ args.vendor = text.words.vendor THEN args.vendor ELSE spoken

ScopeFree(tool, args) == tool \notin Scoped \/ (tool = "param" /\ args.cell # None)

(* The scope cannot be expressed: the tool asks back. *)
Unclear(tool, args, text, task) ==
  LET spoken == Spoken(text, task)
      city == Plain(spoken.dist)  county == Plain(spoken.county) IN
  \/ /\ tool = "batch" /\ ~text.wide
     /\ {spoken.province, city, county, VendorOf(args, text, task)} = {None}
  \/ tool \in {"anomaly", "param"} /\ county # None
Rejected(tool, args, text, task) ==
  /\ tool \in Scoped
  /\ text.ambiguous \/ (~ScopeFree(tool, args) /\ Unclear(tool, args, text, task))

(* What the user said replaces what the model proposed. *)
ProposedCity(args, text, task) == \* mutant: where the user named no city, the model's stays
  LET spoken == Spoken(text, task) IN
  [args EXCEPT !.province = spoken.province, !.county = Plain(spoken.county),
               !.dist = IF Plain(spoken.dist) = None THEN @ ELSE Plain(spoken.dist),
               !.vendor = VendorOf(args, text, task)]
Scope(args, text, task) ==
  [args EXCEPT !.province = Spoken(text, task).province, !.dist = Plain(Spoken(text, task).dist),
               !.county = Plain(Spoken(text, task).county), !.vendor = VendorOf(args, text, task)]

OrElse(value, default) == IF value = None THEN default ELSE value
Normalised(tool, args, text, task) ==
  LET scope == Scope(args, text, task)
      rest  == IF tool \in {"report", "anomaly"} THEN All ELSE None
      named == [scope EXCEPT !.dist = OrElse(@, rest), !.vendor = OrElse(@, rest)] IN
  CASE ScopeFree(tool, args) -> args
    [] tool \in {"batch", "report"} ->
         [named EXCEPT !.province = OrElse(@, Home), !.county = OrElse(@, rest)]
    [] OTHER -> [named EXCEPT !.province = None, !.county = None]
Effective(tool, args, text, task) ==
  Normalised(tool, AnalysisArguments(tool, args, text, task), text, task)

-----------------------------------------------------------------------------
(* The parameters of the tool functions, and those their schemas require.  *)

Area == {"province", "dist", "county", "vendor"}
Parameters(tool) ==
  CASE tool = "batch"   -> Area \cup {"level", "target"}
    [] tool = "single"  -> {"cell", "level", "target"}
    [] tool = "report"  -> Area
    [] tool = "anomaly" -> {"dist", "vendor"}
    [] tool = "param"   -> {"dist", "vendor", "cell"}
    [] OTHER            -> {}
Required(tool) ==
  CASE tool = "single" -> {"target"} [] tool = "report" -> Area [] OTHER -> {}

Accepted(tool, args) == \A key \in DOMAIN args : args[key] # None => key \in Parameters(tool)
Callable(tool, args) == Accepted(tool, args) /\ (tool = "single" => args.target # None)
Complete(tool, args) == Accepted(tool, args) /\ \A key \in Required(tool) : args[key] # None
=============================================================================

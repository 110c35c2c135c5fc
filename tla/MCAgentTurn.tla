---------------------------- MODULE MCAgentTurn ----------------------------
(***************************************************************************)
(* Two turns, in a new conversation or after an older text, about two      *)
(* cities, the province, a cell and a vendor.                              *)
(***************************************************************************)
EXTENDS AgentTurn

CONSTANTS A, B, district, cgi, vendor, level

Says(words)  == [Silence EXCEPT !.words = words]
Asks(words)  == [Says(words) EXCEPT !.residual = TRUE]
In(city)     == [NoArguments EXCEPT !.dist = city]

EnergyOfA == [Asks(In(A)) EXCEPT !.goals = {"energy"}]
AndB      == Says(In(B))
AndCell   == Says([NoArguments EXCEPT !.cell = cgi])

MCTexts == {
  EnergyOfA, AndB, AndCell,
  [Asks(NoArguments) EXCEPT !.goals = {"energy"}, !.wide = TRUE, !.area = TRUE],
  [Asks([In(A) EXCEPT !.vendor = vendor]) EXCEPT !.goals = {"report"}],
  [Asks(NoArguments) EXCEPT !.refers = TRUE, !.kind = "explain"],
  [Asks(NoArguments) EXCEPT !.kind = "guidance"] }
MCHistories == {<<EnergyOfA>>}

(* Another city, or a cell. *)
MCProposals == {[In(B) EXCEPT !.target = "all"], [NoArguments EXCEPT !.cell = cgi, !.target = "one"]}
=============================================================================

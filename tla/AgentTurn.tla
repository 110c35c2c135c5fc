----------------------------- MODULE AgentTurn -----------------------------
(***************************************************************************)
(* The agent's turns in one conversation: AgentScope's loop of reasoning   *)
(* and acting, with the four middlewares of app/agent around it, and the   *)
(* task that is carried from turn to turn.                                 *)
(*                                                                         *)
(* The model is outside: it obeys the tool choice it is given, but picks   *)
(* tools and arguments freely, may ask for several tools at once, answers  *)
(* late, never or badly.  The tools of one answer run concurrently.  A     *)
(* turn that completes is saved, or refused; see ConversationStore.        *)
(***************************************************************************)
EXTENDS TaskContext

CONSTANTS
  Texts,      \* what the user may say
  Histories,  \* the texts of conversations older than the snapshots
  Proposals,  \* arguments the model may propose
  Budget,     \* agent_model_budget_seconds, in units of waiting
  MaxSteps,   \* agent_max_steps
  MaxCalls,   \* bound: tool calls in one answer of the model
  MaxTurns    \* bound: turns begun

ASSUME TurnAssumption ==
  /\ Texts \subseteq Text /\ Histories \subseteq Seq(Texts) /\ Proposals \subseteq Arguments
  /\ {Budget, MaxSteps, MaxCalls, MaxTurns} \subseteq Nat \ {0}

VARIABLES
  saved,     \* what the store has: the task, its texts, the agent's context
  turns,     \* turns begun
  phase,     \* where the loop is
  text,      \* the user's text of this turn
  asked,     \* ToolRequestContext: the task the text asks for
  followUp,  \* ToolRequestContext: the text only changes its conditions
  task,      \* the task in the agent's state
  context,   \* user messages and tool results in the agent's state
  planned,   \* _planned: the local plan has been tried
  remaining, \* _remaining: what is left of the budget
  waited,    \* history: the time spent waiting for the model
  steps,     \* iterations of the loop
  retried,   \* this model call has been tried before
  calls,     \* the tool calls of the current answer
  completed, \* completed_results of DirectAnswerMiddleware
  answer     \* how the reply was completed, or none

request == <<text, asked, followUp, task, context, planned, remaining, waited, steps, retried>>
vars    == <<saved, turns, phase, request, calls, completed, answer>>

Tools   == Scoped \cup Analysis \cup {"business", "guidance"}
UserSays == [tool |-> "user", ok |-> TRUE]
Entry   == {UserSays} \cup [tool : Tools, ok : BOOLEAN]
Call    == [tool : Tools, args : Arguments, clear : BOOLEAN, state : {"running", "done"}]
Result  == [tool : Tools, ok : BOOLEAN, direct : BOOLEAN, clarifies : BOOLEAN]
Silence == [words |-> NoArguments, wide |-> FALSE, area |-> FALSE, goals |-> {}, oneCell |-> FALSE,
            ambiguous |-> FALSE, residual |-> FALSE, refers |-> FALSE, kind |-> "business"]

TypeOK ==
  /\ saved \in [task : Task \cup {None}, restored : BOOLEAN, texts : Seq(Texts), context : Seq(Entry)]
  /\ turns \in 0 .. MaxTurns
  /\ phase \in {"idle", "compress", "reason", "model", "act", "ended"}
  /\ text \in Texts \cup {Silence} /\ asked \in Task \cup {None} /\ followUp \in BOOLEAN
  /\ task \in Task \cup {None} /\ context \in Seq(Entry)
  /\ planned \in BOOLEAN /\ retried \in BOOLEAN
  /\ remaining \in 0 .. Budget /\ waited \in Nat /\ steps \in 0 .. MaxSteps
  /\ calls \in Seq(Call) /\ Len(calls) <= MaxCalls
  /\ completed \in Seq(Result)
  /\ answer \in {"none", "direct", "clarification", "model"}

(* A new conversation, or one from before the snapshots. *)
Init ==
  /\ saved \in [task : {None}, restored : {FALSE}, texts : {<< >>} \cup Histories,
                context : {<< >>}]
  /\ turns = 0 /\ phase = "idle"
  /\ text = Silence /\ asked = None /\ followUp = FALSE /\ task = None /\ context = << >>
  /\ planned = FALSE /\ remaining = Budget /\ waited = 0 /\ steps = 0 /\ retried = FALSE
  /\ calls = << >> /\ completed = << >> /\ answer = "none"

-----------------------------------------------------------------------------
(* ExecutionPolicyMiddleware.on_reply.  The request context is built once,  *)
(* from the saved task or, without a snapshot, from the texts before it.   *)

Prior == IF saved.restored THEN saved.task ELSE Replayed(saved.texts)

Begin(t) ==
  /\ phase = "idle" /\ turns < MaxTurns
  /\ phase' = "compress" /\ turns' = turns + 1
  /\ text' = t
  /\ asked' = Reduced(Prior, t) /\ task' = asked'
  /\ followUp' = IsFollowUp(Prior, t)
  /\ context' = Append(saved.context, UserSays)
  /\ UNCHANGED <<saved, planned, remaining, waited, steps, retried, calls, completed, answer>>

-----------------------------------------------------------------------------
(* Waiting for the model, at most as long as the budget lasts.             *)

FreshBudget(d) ==                 \* mutant: every call has the whole budget
  /\ UNCHANGED remaining
  /\ waited' = waited + d
Spend(d) ==
  /\ remaining' = remaining - d
  /\ waited' = waited + d

Ends(how) == phase' = "ended" /\ answer' = how
Untouched == UNCHANGED <<saved, turns, text, asked, followUp>>

(* on_compress_context: a fixed answer needs no summary. *)
LocalGuidance == text.kind = "guidance"
CompressContext ==
  /\ phase = "compress" /\ phase' = "reason"
  /\ \/ LocalGuidance /\ UNCHANGED <<remaining, waited>>
     \/ ~LocalGuidance /\ remaining > 0 /\ \E d \in 0 .. remaining : Spend(d)
  /\ Untouched /\ UNCHANGED <<task, context, planned, steps, retried, calls, completed, answer>>

(* A budget that is spent, a protocol violation or an error of the model   *)
(* ends the reply.                                                         *)
OnlySummaries == phase = "compress" /\ ~LocalGuidance  \* mutant: answers have no deadline
Timed         == (phase = "compress" /\ ~LocalGuidance) \/ phase = "model"
ModelFails ==
  /\ Timed
  /\ \E d \in 0 .. remaining : Spend(d)
  /\ Ends("none")
  /\ Untouched /\ UNCHANGED <<task, context, planned, steps, retried, calls, completed>>

-----------------------------------------------------------------------------
(* GroundedToolChoiceMiddleware: what the next model call may do.          *)

WholeContext(entries) ==          \* mutant: results of earlier turns count
  SelectSeq(entries, LAMBDA e : e # UserSays)
ThisTurn(entries) == SubSeq(entries, SelectLastInSeq(entries, LAMBDA e : e = UserSays) + 1,
                            Len(entries))

HasResult  == ThisTurn(context) # << >>
LastFailed == HasResult /\ ~ThisTurn(context)[Len(ThisTurn(context))].ok

RequiredTools ==
  LET energy == IF asked # None THEN asked.tool ELSE EnergyRoute(text) IN
  CASE text.kind = "guidance"  -> {"guidance"}
    [] text.kind = "dimension" -> {"business"}
    [] text.kind \notin {"guidance", "dimension"} /\ energy # "none" -> {energy}
    [] OTHER -> IF "report" \in text.goals THEN {"report"} ELSE Tools \ {"guidance"}

MayAnswer == LastFailed \/ HasResult \/ text.kind = "explain"
MayCall   == IF LastFailed THEN {}
             ELSE IF HasResult THEN Tools
             ELSE IF text.kind = "explain" THEN {} ELSE RequiredTools

(* ExecutionPolicyMiddleware.on_model_call: two plans need no model.       *)

(* A call, as EnergyFunctionTool.call runs it: with the user's conditions,  *)
(* or as a question back when they are not clear.                          *)
Clear(tool, args) == ~Rejected(tool, AnalysisArguments(tool, args, text, asked), text, asked)
Running(tool, args) ==
  [tool |-> tool, args |-> Effective(tool, args, text, asked), clear |-> Clear(tool, args),
   state |-> "running"]
PlanLocally(tool, args) ==
  /\ phase' = "act" /\ planned' = TRUE
  /\ calls' = <<Running(tool, args)>>
  /\ Untouched /\ UNCHANGED <<task, context, remaining, waited, steps, retried, completed, answer>>

GuidanceIsPlan == ~planned /\ LocalGuidance /\ ~HasResult
FollowUpIsPlan == ~planned /\ followUp /\ Complete(asked.tool, asked.args)

PlanGuidance ==
  /\ phase = "reason" /\ GuidanceIsPlan
  /\ PlanLocally("guidance", NoArguments)
PlanFollowUp ==
  /\ phase = "reason" /\ ~GuidanceIsPlan /\ FollowUpIsPlan
  /\ PlanLocally(asked.tool, asked.args)

AskModel ==
  /\ phase = "reason" /\ ~GuidanceIsPlan /\ ~FollowUpIsPlan
  /\ phase' = "model"
  /\ planned' = (planned \/ followUp)
  /\ retried' = FALSE
  /\ Untouched /\ UNCHANGED <<task, context, remaining, waited, steps, calls, completed, answer>>

(* Arguments that are no JSON object: the same question once more. *)
BadArguments ==
  /\ phase = "model" /\ remaining > 0 /\ MayCall # {} /\ ~retried
  /\ \E d \in 0 .. remaining : Spend(d)
  /\ retried' = TRUE
  /\ Untouched /\ UNCHANGED <<phase, task, context, planned, steps, calls, completed, answer>>

ModelCalls ==
  /\ phase = "model" /\ remaining > 0
  /\ phase' = "act"
  /\ \E d \in 0 .. remaining : Spend(d)
  /\ \E n \in 1 .. MaxCalls : \E tools \in [1 .. n -> MayCall], args \in [1 .. n -> Proposals] :
       /\ \A i \in 1 .. n : Accepted(tools[i], args[i])
       /\ calls' = [i \in 1 .. n |-> Running(tools[i], args[i])]
  /\ Untouched /\ UNCHANGED <<task, context, planned, steps, retried, completed, answer>>

ModelAnswers ==
  /\ phase = "model" /\ remaining > 0 /\ MayAnswer
  /\ \E d \in 0 .. remaining : Spend(d)
  /\ Ends("model")
  /\ Untouched /\ UNCHANGED <<task, context, planned, steps, retried, calls, completed>>

-----------------------------------------------------------------------------
(* The results of the tools and what the middlewares make of them.         *)

HasTask(tool) == tool \in Scoped \cup Analysis

Success(call, direct) == [tool |-> call.tool, ok |-> TRUE, direct |-> direct, clarifies |-> FALSE]
Failure(call) == [tool |-> call.tool, ok |-> FALSE, direct |-> FALSE, clarifies |-> ~call.clear]

Outcomes(call) ==
  CASE call.tool = "guidance" -> {Success(call, TRUE)}
    [] HasTask(call.tool) /\ ~(call.clear /\ Callable(call.tool, call.args)) -> {Failure(call)}
    [] OTHER -> {Success(call, TRUE), Success(call, FALSE), Failure(call)}

(* on_reply: a success leaves the conditions it ran with, a failure those  *)
(* of the request.                                                         *)
TaskAfter(call, result) ==
  IF ~result.ok THEN asked
  ELSE IF HasTask(call.tool) THEN [tool |-> call.tool, args |-> call.args]
  ELSE task

(* _select_direct_answer *)
DirectOnce(results) == results[Len(results)].direct      \* mutant: the last result decides
DirectAnswer(results) ==
  \A i \in DOMAIN results :
    results[i].ok /\ results[i].direct /\ results[i].tool = results[1].tool

StepTooMany(n) == n > MaxSteps                           \* mutant
OutOfSteps(n)  == n >= MaxSteps

(* DirectAnswerMiddleware: once the whole batch is in, the reply may end.  *)
AnyResult(batch)  == TRUE                                \* mutant: does not wait for the batch
WholeBatch(batch) == \A i \in DOMAIN batch : batch[i].state = "done"

ToolEnds(i) ==
  /\ phase = "act" /\ i \in DOMAIN calls /\ calls[i].state = "running"
  /\ calls' = [calls EXCEPT ![i].state = "done"]
  /\ \E result \in Outcomes(calls[i]) :
       LET results == Append(completed, result) IN
       /\ completed' = results
       /\ context' = Append(context, [tool |-> result.tool, ok |-> result.ok])
       /\ task' = TaskAfter(calls[i], result)
       /\ CASE ~WholeBatch(calls') -> UNCHANGED <<phase, answer, steps>>
            [] WholeBatch(calls') /\ DirectAnswer(results) -> Ends("direct") /\ UNCHANGED steps
            [] WholeBatch(calls') /\ Len(results) = 1 /\ result.clarifies ->
                 Ends("clarification") /\ UNCHANGED steps
            [] OTHER -> /\ steps' = steps + 1
                        /\ IF OutOfSteps(steps') THEN Ends("none")
                                                ELSE phase' = "compress" /\ UNCHANGED answer
  /\ Untouched /\ UNCHANGED <<planned, remaining, waited, retried>>

-----------------------------------------------------------------------------
(* A completed turn is saved with the agent's state, or refused; any other *)
(* leaves what was saved before.                                           *)

SaveAlways(accepted) ==           \* mutant: a failed turn is saved too
  saved' = [task |-> task, restored |-> TRUE, context |-> context,
            texts |-> IF answer = "none" THEN saved.texts ELSE Append(saved.texts, text)]
Save(accepted) ==
  IF answer # "none" /\ accepted
    THEN saved' = [task |-> task, restored |-> TRUE, context |-> context,
                   texts |-> Append(saved.texts, text)]
    ELSE UNCHANGED saved

TurnEnds ==
  /\ phase = "ended"
  /\ \E accepted \in BOOLEAN : Save(accepted)
  /\ phase' = "idle" /\ text' = Silence /\ asked' = None /\ followUp' = FALSE /\ task' = None /\ context' = << >>
  /\ planned' = FALSE /\ remaining' = Budget /\ waited' = 0 /\ steps' = 0 /\ retried' = FALSE
  /\ calls' = << >> /\ completed' = << >> /\ answer' = "none"
  /\ UNCHANGED turns

-----------------------------------------------------------------------------
Wait == CompressContext \/ ModelFails
Plan == PlanGuidance \/ PlanFollowUp \/ AskModel
Act  == \E i \in 1 .. MaxCalls : ToolEnds(i)
Next ==
  \/ \E t \in Texts : Begin(t)
  \/ Wait \/ Plan \/ BadArguments \/ ModelCalls \/ ModelAnswers \/ Act \/ TurnEnds

(* The deadline expires, tools return, and the loop goes on; the model     *)
(* need not answer.                                                        *)
Fairness == WF_vars(Wait) /\ WF_vars(Plan) /\ WF_vars(Act) /\ WF_vars(TurnEnds)
Spec     == Init /\ [][Next]_vars
FairSpec == Spec /\ Fairness

-----------------------------------------------------------------------------
(* The model answers with words of its own only if a tool has returned in  *)
(* this turn, or the user asks about an earlier answer: results of earlier *)
(* turns, though still in the context, are no evidence.                    *)
EvidenceBeforeAnswer ==
  answer = "model" => completed # << >> \/ text.kind = "explain"

(* A reply that ends with a tool's own report leaves nothing out: no call  *)
(* is still running, and none of the turn's results failed.                *)
DirectAnswerIsWhole ==
  answer \in {"direct", "clarification"} =>
    /\ \A i \in DOMAIN calls : calls[i].state = "done"
    /\ answer = "direct" => \A i \in DOMAIN completed : completed[i].ok
    /\ Len(completed) >= Len(calls)

(* Whatever ends the reply rests on what the tools returned in this turn. *)
AnswerHasEvidence == EvidenceBeforeAnswer /\ DirectAnswerIsWhole

(* All the waiting of one turn, for plans, retries and summaries, stays    *)
(* within the one budget.                                                  *)
WaitIsBounded == waited <= Budget

(* The places and the vendor of a task are the user's own words, of this   *)
(* turn or of a saved one: what a model proposes, and what a failed or a   *)
(* refused turn was about, never gets into it.  A parameter check of one   *)
(* cell is excepted, which runs with the model's arguments as they are.    *)
BesideCell(key) == {Plain(p[key]) : p \in {p \in Proposals : p.cell # None}}
SaidIn(texts, key) == {None} \cup {Plain(t.words[key]) : t \in texts} \cup BesideCell(key)
TaskIsTheUsers ==
  \A t \in {saved.task, asked, task} \ {None}, key \in {"dist", "county", "vendor"} :
    Plain(t.args[key]) \in SaidIn(ToSet(saved.texts) \cup {text}, key)

(* A follow-up bound to the analysis of an area has conditions that it     *)
(* takes: no cell, however the conditions came about.                      *)
FollowUpFits == followUp /\ asked.tool = "batch" => Accepted("batch", asked.args)

(* What a turn starts from is what the user's words lead to. *)
TaskIsCarriedOver == TaskIsTheUsers /\ FollowUpFits

(* Every turn ends, even if the model never answers.                       *)
TurnsEnd == phase # "idle" ~> phase = "idle"
=============================================================================

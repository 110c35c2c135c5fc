---------------------------- MODULE ChatDelivery ----------------------------
(***************************************************************************)
(* One chat request, from the agent's events to what the client, the       *)
(* transcript, the message store and the metrics table learn of it.        *)
(*                                                                         *)
(* DifyEventAdapter turns the agent's events into Dify envelopes.  The     *)
(* streaming handler forwards them as they come, but holds message_end     *)
(* back until the turn is stored; the blocking handler discards them and   *)
(* replies once, after the metrics row.  The client of a stream may go     *)
(* away and the process may stop at any await.                             *)
(***************************************************************************)
EXTENDS Integers, Sequences, FiniteSets

CONSTANTS
  Tools,    \* ids of the tool calls the agent may make
  MaxText   \* bound: text deltas of one reply

ASSUME DeliveryAssumption == MaxText \in Nat \ {0}

VARIABLES
  mode,      \* "stream" or "blocking"
  phase,     \* where the handler is
  agent,     \* how far the agent's reply is
  agentCall, \* how far each tool call is
  result,    \* adapter.result
  calls,     \* adapter._tool_calls: the position of each open call, or 0
  position,  \* adapter._thought_position
  ending,    \* the envelope or reply held back until the metrics are stored
  sent,      \* what has been delivered to the client, in order
  turn,      \* text deltas of the answer committed to the transcript, or 0
  notice,    \* the fire-and-forget task that notifies the message store
  rows       \* `success` of the metrics rows written

adapter == <<result, calls, position>>
effects == <<turn, notice, rows>>
vars    == <<mode, phase, agent, agentCall, adapter, ending, sent, effects>>

Refusals == {"conversation_not_found", "conversation_conflict"}
Raised   == {"model_timeout", "model_protocol_error", "internal_error"}
Codes    == Refusals \cup Raised \cup {"agent_error"}

Nothing     == [event |-> "none"]
Message     == [event |-> "message"]
Thought(n)  == [event |-> "agent_thought", position |-> n]
MessageEnd  == [event |-> "message_end"]
Error(code) == [event |-> "error", code |-> code]
Envelope    == {Message, MessageEnd} \cup [event : {"error"}, code : Codes]
                 \cup [event : {"agent_thought"}, position : Nat \ {0}]

TypeOK ==
  /\ mode \in {"stream", "blocking"}
  /\ phase \in {"agent", "check", "persist", "metrics", "reply", "done", "gone"}
  /\ agent \in {"running", "stateSent", "ended"}
  /\ agentCall \in [Tools -> {"idle", "called", "running", "done"}]
  /\ result \in [answer : 0 .. MaxText, completed : BOOLEAN, memory : BOOLEAN,
                 error : Codes \cup {"none"}]
  /\ calls \in [Tools -> Nat] /\ position \in Nat
  /\ ending \in Envelope \cup {Nothing}
  /\ sent \in Seq(Envelope)
  /\ turn \in 0 .. MaxText
  /\ notice \in {"none", "created", "posted", "lost"}
  /\ rows \in Seq(BOOLEAN) /\ Len(rows) <= 1

(* The adapter opens a stream with an empty message envelope. *)
Init ==
  /\ mode \in {"stream", "blocking"}
  /\ phase = "agent" /\ agent = "running"
  /\ agentCall = [t \in Tools |-> "idle"]
  /\ result = [answer |-> 0, completed |-> FALSE, memory |-> FALSE, error |-> "none"]
  /\ calls = [t \in Tools |-> 0] /\ position = 0
  /\ ending = Nothing
  /\ sent = IF mode = "stream" THEN <<Message>> ELSE << >>
  /\ turn = 0 /\ notice = "none" /\ rows = << >>

-----------------------------------------------------------------------------
(* What the adapter yields reaches the client of a stream only. *)
Emit(envelope) == sent' = IF mode = "stream" THEN Append(sent, envelope) ELSE sent
Failed(code)   == [result EXCEPT !.completed = FALSE, !.error = code]

(* A reply is text and tool calls in any order; the calls of one step run  *)
(* concurrently.  stream_agent_events announces the agent's state just     *)
(* before a reply that completes.                                          *)
Reading(stage) == phase = "agent" /\ agent = stage

TextWithoutOpenCalls ==              \* mutant: text beside a tool call is dropped
  /\ Reading("running") /\ result.answer < MaxText
  /\ result' = [result EXCEPT !.answer = IF \E t \in Tools : calls[t] # 0 THEN @ ELSE @ + 1]
  /\ Emit(Message)
  /\ UNCHANGED <<mode, phase, agent, agentCall, calls, position, ending, effects>>
OnTextDelta ==
  /\ Reading("running") /\ result.answer < MaxText
  /\ result' = [result EXCEPT !.answer = @ + 1]
  /\ Emit(Message)
  /\ UNCHANGED <<mode, phase, agent, agentCall, calls, position, ending, effects>>

(* _ensure_tool_call numbers a call when it is first heard of. *)
OpenCalls(t) == IF calls[t] = 0 THEN Cardinality({u \in Tools : calls[u] # 0}) + 1
                                ELSE calls[t]  \* mutant: counts the open calls
Position(t)  == IF calls[t] = 0 THEN position + 1 ELSE calls[t]

OnToolCall(t, from, to) ==
  /\ Reading("running") /\ agentCall[t] \in from
  /\ agentCall' = [agentCall EXCEPT ![t] = to]
  /\ calls' = [calls EXCEPT ![t] = Position(t)]
  /\ position' = IF Position(t) > position THEN Position(t) ELSE position
  /\ UNCHANGED <<mode, phase, agent, result, ending, sent, effects>>
OnToolCallStart(t)   == OnToolCall(t, {"idle"}, "called")
OnToolResultStart(t) == OnToolCall(t, {"idle", "called"}, "running")

OnToolResultEnd(t) ==
  /\ Reading("running") /\ agentCall[t] = "running"
  /\ agentCall' = [agentCall EXCEPT ![t] = "done"]
  /\ calls' = [calls EXCEPT ![t] = 0]
  /\ Emit(Thought(Position(t)))
  /\ UNCHANGED <<mode, phase, agent, result, position, ending, effects>>

OnAgentState ==
  /\ Reading("running")
  /\ agent' = "stateSent"
  /\ result' = [result EXCEPT !.memory = TRUE]
  /\ UNCHANGED <<mode, phase, agentCall, calls, position, ending, sent, effects>>

(* The handler keeps message_end for later; the adapter only notes it. *)
ForwardedReplyEnd ==                 \* mutant: message_end is forwarded at once
  /\ Reading("stateSent")
  /\ agent' = "ended"
  /\ result' = [result EXCEPT !.completed = TRUE]
  /\ Emit(MessageEnd)
  /\ UNCHANGED <<mode, phase, agentCall, calls, position, ending, effects>>
OnReplyCompleted ==
  /\ Reading("stateSent")
  /\ agent' = "ended"
  /\ result' = [result EXCEPT !.completed = TRUE]
  /\ UNCHANGED <<mode, phase, agentCall, calls, position, ending, sent, effects>>

(* The reply ran out of steps or was interrupted. *)
OnReplyStopped ==
  /\ Reading("running")
  /\ agent' = "ended"
  /\ result' = [result EXCEPT !.error = "internal_error"]
  /\ Emit(Error("internal_error"))
  /\ UNCHANGED <<mode, phase, agentCall, calls, position, ending, effects>>

SilentStreamEnd ==                   \* mutant: end of stream is taken as it is
  /\ phase = "agent"
  /\ phase' = "check"
  /\ UNCHANGED <<mode, agent, agentCall, adapter, ending, sent, effects>>

(* The event stream is over; without a reply end that is an error too. *)
OnStreamEnd ==
  /\ phase = "agent"
  /\ phase' = "check"
  /\ IF ~result.completed /\ result.error = "none"
       THEN /\ result' = [result EXCEPT !.error = "internal_error"]
            /\ Emit(Error("internal_error"))
       ELSE UNCHANGED <<result, sent>>
  /\ UNCHANGED <<mode, agent, agentCall, calls, position, ending, effects>>

(* A model call raises, or anything else does at any time. *)
OnException(code) ==
  /\ phase = "agent" /\ (agent = "running" \/ code = "internal_error")
  /\ phase' = "check"
  /\ result' = [result EXCEPT !.error = code]
  /\ Emit(Error(code))
  /\ UNCHANGED <<mode, agent, agentCall, calls, position, ending, effects>>

-----------------------------------------------------------------------------
(* The handler, once the event stream is over.                             *)

(* What a handler replies to a request that failed, after the metrics: the *)
(* stream has its error envelope already, a blocking call gets one code.   *)
Afterwards(code) == IF mode = "blocking" THEN Error(code) ELSE Nothing

PartialAccepted == FALSE             \* mutant: whatever text there is, is kept
Unsuccessful    == ~result.completed \/ result.error # "none"

CheckFailure ==
  /\ phase = "check" /\ Unsuccessful
  /\ phase' = "metrics" /\ ending' = Afterwards("agent_error")
  /\ UNCHANGED <<mode, agent, agentCall, adapter, sent, effects>>

CheckEmptyAnswer ==
  /\ phase = "check" /\ ~Unsuccessful /\ result.answer = 0
  /\ result' = Failed("agent_error")
  /\ Emit(Error("agent_error"))
  /\ phase' = "metrics" /\ ending' = Afterwards("agent_error")
  /\ UNCHANGED <<mode, agent, agentCall, calls, position, effects>>

CheckAnswer ==
  /\ phase = "check" /\ ~Unsuccessful /\ result.answer > 0
  /\ phase' = "persist"
  /\ UNCHANGED <<mode, agent, agentCall, adapter, ending, sent, effects>>

(* _persist_answer_and_notify: the save commits, and only then the task    *)
(* that notifies the message store is created.                             *)
PersistSucceeds ==
  /\ phase = "persist"
  /\ turn' = result.answer /\ notice' = "created"
  /\ phase' = "metrics" /\ ending' = MessageEnd
  /\ UNCHANGED <<mode, agent, agentCall, adapter, sent, rows>>

RecordFailure(code) == result' = Failed(code)

(* The save is refused: the conversation changed or is not the user's. *)
NotifiedFirst(code) ==               \* mutant: the task is created before the save
  /\ phase = "persist"
  /\ RecordFailure(code)
  /\ Emit(Error(code))
  /\ phase' = "metrics" /\ ending' = Afterwards(code) /\ notice' = "created"
  /\ UNCHANGED <<mode, agent, agentCall, calls, position, turn, rows>>
PersistRefused(code) ==
  /\ phase = "persist"
  /\ RecordFailure(code)
  /\ Emit(Error(code))
  /\ phase' = "metrics" /\ ending' = Afterwards(code)
  /\ UNCHANGED <<mode, agent, agentCall, calls, position, effects>>

(* The save breaks, and the commit may or may not have happened. *)
PersistBreaks ==
  /\ phase = "persist"
  /\ turn' \in {0, result.answer}
  /\ RecordFailure("agent_error")
  /\ Emit(Error("agent_error"))
  /\ phase' = "metrics" /\ ending' = Afterwards("internal_error")
  /\ UNCHANGED <<mode, agent, agentCall, calls, position, notice, rows>>

(* _persist_metrics tries once to insert one row. *)
MetricsRetried ==                    \* mutant: the insert may be tried again
  /\ phase = "metrics"
  /\ phase' \in {"metrics", "reply"}
  /\ rows' = Append(rows, result.completed /\ result.error = "none")
  /\ UNCHANGED <<mode, agent, agentCall, adapter, ending, sent, turn, notice>>
PersistMetrics ==
  /\ phase = "metrics"
  /\ phase' = "reply"
  /\ \/ rows' = Append(rows, result.completed /\ result.error = "none")
     \/ UNCHANGED rows
  /\ UNCHANGED <<mode, agent, agentCall, adapter, ending, sent, turn, notice>>

Reply ==
  /\ phase = "reply"
  /\ phase' = "done"
  /\ sent' = IF ending = Nothing THEN sent ELSE Append(sent, ending)
  /\ UNCHANGED <<mode, agent, agentCall, adapter, ending, effects>>

(* store_message posts the turn once; a failure is only logged. *)
StoreMessage ==
  /\ notice = "created"
  /\ notice' \in {"posted", "lost"}
  /\ UNCHANGED <<mode, phase, agent, agentCall, adapter, ending, sent, turn, rows>>

(* The client leaves, so the stream is cancelled where it waits, be it in  *)
(* the commit; or the process stops, and takes the pending task with it.   *)
MayHaveCommitted == turn' \in IF phase = "persist" THEN {0, result.answer} ELSE {turn}
Disconnect ==
  /\ mode = "stream" /\ phase \notin {"done", "gone"}
  /\ phase' = "gone"
  /\ MayHaveCommitted
  /\ UNCHANGED <<mode, agent, agentCall, adapter, ending, sent, notice, rows>>
ProcessStops ==
  /\ phase # "gone"
  /\ phase' = IF phase = "done" THEN "done" ELSE "gone"
  /\ notice' = IF notice = "created" THEN "lost" ELSE notice
  /\ phase' # phase \/ notice' # notice
  /\ MayHaveCommitted
  /\ UNCHANGED <<mode, agent, agentCall, adapter, ending, sent, rows>>

-----------------------------------------------------------------------------
ReadEvent ==
  \/ OnTextDelta \/ OnAgentState \/ OnReplyCompleted \/ OnReplyStopped \/ OnStreamEnd
  \/ \E t \in Tools : OnToolCallStart(t) \/ OnToolResultStart(t) \/ OnToolResultEnd(t)
  \/ \E code \in Raised : OnException(code)
Handle ==
  \/ CheckFailure \/ CheckEmptyAnswer \/ CheckAnswer
  \/ PersistSucceeds \/ PersistBreaks \/ \E code \in Refusals : PersistRefused(code)
  \/ PersistMetrics \/ Reply

Next == ReadEvent \/ Handle \/ StoreMessage \/ Disconnect \/ ProcessStops

(* The agent's reply is bounded by its steps and the model budget, and the *)
(* event loop resumes a handler whose await is over.                       *)
Fairness == WF_vars(ReadEvent) /\ WF_vars(Handle)
Spec     == Init /\ [][Next]_vars
FairSpec == Spec /\ Fairness

-----------------------------------------------------------------------------
Delivered(event) == {i \in DOMAIN sent : sent[i].event = event}

(* A client told that its answer is complete can rely on it: the turn is   *)
(* in the transcript before message_end, or the 200 reply, leaves, with    *)
(* the agent's memory of it, from which the next turn starts.              *)
EndMeansStored == Delivered("message_end") # {} => turn > 0 /\ result.memory

(* Except for a save that broke in the middle, whose outcome nobody knows, *)
(* an error means that nothing was stored.                                 *)
BeforeCommit == Refusals \cup IF mode = "stream" THEN Raised ELSE {"agent_error"}

ErrorMeansNotStored ==
  \A i \in Delivered("error") : sent[i].code \in BeforeCommit => turn = 0

(* A client never hears both that a turn ended well and that it failed,    *)
(* and hears nothing more after message_end.                               *)
OneOutcome ==
  \A i \in Delivered("message_end") : i = Len(sent) /\ Delivered("error") = {}

(* The stored answer is the text that was streamed, all of it, whatever    *)
(* tool calls came between.                                                *)
StoredIsStreamed ==
  mode = "stream" /\ turn > 0 => turn + 1 = Cardinality(Delivered("message"))

(* The message store is told of stored turns only.  A success in the       *)
(* metrics table is a stored turn and no error was or will be reported for *)
(* it; a failure there was never reported as an end.                       *)
RecordsAreTrue ==
  /\ notice # "none" => turn > 0
  /\ \A i \in DOMAIN rows :
       /\ rows[i] => turn > 0 /\ Delivered("error") = {} /\ ending = MessageEnd
       /\ ~rows[i] => Delivered("message_end") = {} /\ ending # MessageEnd

(* A model timeout is reported under its own code while streaming.  (A     *)
(* blocking call gets the general one, against what the design asks for.)  *)
TimeoutSaysTimeout ==
  mode = "stream" /\ result.error = "model_timeout" =>
    \A i \in Delivered("error") : sent[i].code = "model_timeout"

(* What the client is told, once and for all, and what the two records say *)
(* of the turn is true of the transcript.                                  *)
EnvelopeIsTrue == EndMeansStored /\ ErrorMeansNotStored /\ OneOutcome /\ RecordsAreTrue
                   /\ TimeoutSaysTimeout

(* Tool calls that ran concurrently are shown as different thoughts. *)
ThoughtsAreDistinct ==
  \A i, j \in Delivered("agent_thought") : sent[i].position = sent[j].position => i = j

(* What was streamed is the turn as it happened. *)
StreamIsTrue == StoredIsStreamed /\ ThoughtsAreDistinct

(* A client that stays connected hears how its request ended. *)
HearsTheOutcome ==
  phase = "agent" ~> phase = "gone" \/ Delivered("message_end") \cup Delivered("error") # {}
=============================================================================

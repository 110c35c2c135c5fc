------------------------- MODULE ChatDeliveryProofs -------------------------
(***************************************************************************)
(* Proofs about ChatDelivery for any tools and replies of any length: what *)
(* the client is told is true of what was stored.  FlowInv says what each  *)
(* phase of the handler has settled, ToldInv what may have been delivered  *)
(* by then; CountInv and ThoughtInv account for the text and the thoughts. *)
(***************************************************************************)
EXTENDS ChatDelivery, FiniteSetTheorems, TLAPS

Before  == {"agent", "check", "persist"}   \* nothing is stored yet
Settled == {"metrics", "reply", "done"}    \* the outcome is known

(* The agent's reply: its state is announced before it completes, and a    *)
(* reply that goes on has neither completed nor failed.                    *)
ReplyInv ==
  /\ agent = "stateSent" => result.memory
  /\ result.completed => result.memory
  /\ phase = "agent" /\ agent # "ended" => ~result.completed /\ result.error = "none"

(* The handler: effects come after the checks, and what it holds back says *)
(* how the request ended.                                                  *)
HandlerInv ==
  /\ phase \in Before => ending = Nothing /\ rows = << >> /\ turn = 0 /\ notice = "none"
  /\ phase \in Settled \cup {"check"} => result.completed \/ result.error # "none"
  /\ phase = "persist" => ~Unsuccessful /\ result.answer > 0
  /\ phase \in Settled => (ending = MessageEnd <=> ~Unsuccessful)
  /\ phase = "metrics" => rows = << >>
  /\ ending = MessageEnd => ~Unsuccessful /\ turn > 0
  /\ ending.event = "error" => mode = "blocking" /\ result.error # "none"
  /\ turn > 0 => turn = result.answer
  /\ turn > 0 /\ ending.event = "error" => ending.code \notin BeforeCommit
  /\ notice # "none" => turn > 0
  /\ \A i \in DOMAIN rows : rows[i] <=> ending = MessageEnd

FlowInv == ReplyInv /\ HandlerInv

(* What the client has heard. *)
ToldInv ==
  /\ result.error = "none" => Delivered("error") = {}
  /\ \A i \in Delivered("message_end") : i = Len(sent) /\ phase = "done" /\ ending = MessageEnd
  /\ turn > 0 => \A i \in Delivered("error") : sent[i].code \notin BeforeCommit
  /\ TimeoutSaysTimeout

IInv == TypeOK /\ FlowInv /\ ToldInv

-----------------------------------------------------------------------------
(* Nothing has been said or stored when the request arrives.               *)
LEMMA Init_IInv == Init => IInv
<1> SUFFICES ASSUME Init PROVE IInv
  OBVIOUS
<1> USE DEF Init
<1>0. Message \in Envelope /\ Message.event = "message"
  BY DEF Envelope, Message
<1>1. TypeOK
  BY <1>0, DeliveryAssumption DEF TypeOK
<1>2. FlowInv
  BY DEF FlowInv, ReplyInv, HandlerInv, Before, Settled, Nothing, MessageEnd
<1>3. ToldInv
  BY <1>0 DEF ToldInv, Delivered, TimeoutSaysTimeout
<1>. QED
  BY <1>1, <1>2, <1>3 DEF IInv

(* The envelopes, and what tells them apart. *)
LEMMA Envelopes ==
  /\ Message \in Envelope /\ MessageEnd \in Envelope /\ Nothing \notin Envelope
  /\ Message.event = "message" /\ MessageEnd.event = "message_end" /\ Nothing.event = "none"
  /\ Message # MessageEnd /\ Nothing # MessageEnd /\ Nothing # Message
  /\ \A code \in Codes : /\ Error(code) \in Envelope /\ Error(code).event = "error"
                         /\ Error(code).code = code
                         /\ Error(code) # Nothing /\ Error(code) # MessageEnd
  /\ \A n \in Nat \ {0} : /\ Thought(n) \in Envelope /\ Thought(n).event = "agent_thought"
                          /\ Thought(n).position = n
<1>1. /\ Message.event = "message" /\ MessageEnd.event = "message_end" /\ Nothing.event = "none"
      /\ \A code : Error(code).event = "error" /\ Error(code).code = code
      /\ \A n : Thought(n).event = "agent_thought" /\ Thought(n).position = n
  BY DEF Message, MessageEnd, Nothing, Error, Thought
<1>2. Message \in Envelope /\ MessageEnd \in Envelope
  BY DEF Envelope
<1>3. \A code \in Codes : Error(code) \in Envelope
  BY DEF Envelope, Error
<1>4. \A n \in Nat \ {0} : Thought(n) \in Envelope
  BY DEF Envelope, Thought
<1>5. \A e \in Envelope : e.event # "none"
  BY DEF Envelope, Message, MessageEnd
<1>. QED
  BY <1>1, <1>2, <1>3, <1>4, <1>5

(* What an emitted envelope adds to what was delivered. *)
Adds(e) ==
  /\ sent' \in Seq(Envelope)
  /\ \A x : Delivered(x)' = IF mode = "stream" /\ e.event = x
                              THEN Delivered(x) \cup {Len(sent) + 1} ELSE Delivered(x)
  /\ \A i \in 1 .. Len(sent) : sent'[i] = sent[i]
  /\ mode = "stream" => Len(sent') = Len(sent) + 1 /\ sent'[Len(sent) + 1] = e
  /\ mode # "stream" => sent' = sent

(* What one envelope more changes in what the client has received.         *)
LEMMA Appended ==
  ASSUME sent \in Seq(Envelope), NEW e \in Envelope, sent' = Append(sent, e)
  PROVE  /\ sent' \in Seq(Envelope) /\ Len(sent') = Len(sent) + 1 /\ sent'[Len(sent) + 1] = e
         /\ \A i \in 1 .. Len(sent) : sent'[i] = sent[i]
         /\ \A x : Delivered(x)' = IF e.event = x THEN Delivered(x) \cup {Len(sent) + 1}
                                                  ELSE Delivered(x)
<1>1. /\ sent' \in Seq(Envelope) /\ Len(sent') = Len(sent) + 1 /\ sent'[Len(sent) + 1] = e
      /\ \A i \in 1 .. Len(sent) : sent'[i] = sent[i]
  OBVIOUS
<1>2. DOMAIN sent = 1 .. Len(sent) /\ DOMAIN sent' = 1 .. Len(sent) + 1 /\ Len(sent) \in Nat
  BY <1>1
<1>. QED
  BY <1>1, <1>2 DEF Delivered

(* A stream gets the envelope; a blocking reply sends none on its way.       *)
LEMMA Emitted ==
  ASSUME TypeOK, NEW e \in Envelope, Emit(e) PROVE Adds(e)
<1>1. CASE mode = "stream"
  BY <1>1, Appended DEF Emit, Adds, TypeOK
<1>2. CASE mode # "stream"
  BY <1>2 DEF Emit, Adds, TypeOK, Delivered
<1>. QED
  BY <1>1, <1>2

(* Delivered indices are those of the sequence. *)
LEMMA Indices ==
  ASSUME TypeOK, NEW x PROVE Delivered(x) \subseteq 1 .. Len(sent) /\ Len(sent) \in Nat
BY DEF TypeOK, Delivered

-----------------------------------------------------------------------------
(* Every variable keeps its type. *)
LEMMA TypeStep == TypeOK /\ FlowInv /\ Next => TypeOK'
<1> SUFFICES ASSUME TypeOK, FlowInv, Next PROVE TypeOK'
  OBVIOUS
<1> USE DeliveryAssumption
<1>0. /\ result.answer \in 0 .. MaxText /\ result.completed \in BOOLEAN /\ result.memory \in BOOLEAN
      /\ result.error \in Codes \cup {"none"}
  BY DEF TypeOK
<1>a. ASSUME sent' \in Seq(Envelope), UNCHANGED <<mode, agentCall, calls, position, ending, effects>>,
             phase' \in {phase, "check"}, agent' \in {agent, "stateSent", "ended"},
             result' \in [answer : 0 .. MaxText, completed : BOOLEAN, memory : BOOLEAN, error : Codes \cup {"none"}]
      PROVE  TypeOK'
  BY <1>a DEF TypeOK, effects
<1>b. ASSUME NEW e \in Envelope, Emit(e) PROVE sent' \in Seq(Envelope)
  BY <1>b, Emitted DEF Adds
<1>c. "internal_error" \in Codes /\ "agent_error" \in Codes /\ Raised \subseteq Codes /\ Refusals \subseteq Codes
  BY DEF Codes, Raised
<1>d. ASSUME NEW code \in Codes PROVE Failed(code) \in
        [answer : 0 .. MaxText, completed : BOOLEAN, memory : BOOLEAN, error : Codes \cup {"none"}]
  BY <1>d DEF Failed, TypeOK
<1>e. \A code \in Codes : Afterwards(code) \in Envelope \cup {Nothing}
  BY Envelopes DEF Afterwards
<1>1. CASE OnTextDelta
  <2>1. sent' \in Seq(Envelope)
    BY <1>1, <1>b, Envelopes DEF OnTextDelta
  <2>. QED
    BY <1>1, <2>1, <1>a, <1>0 DEF OnTextDelta, TypeOK, effects
<1>2. ASSUME NEW t \in Tools, NEW from, NEW to \in {"called", "running"}, OnToolCall(t, from, to) PROVE TypeOK'
  <2>1. Position(t) \in Nat
    BY DEF Position, TypeOK
  <2>. QED
    BY <1>2, <2>1 DEF OnToolCall, TypeOK, effects
<1>3. ASSUME NEW t \in Tools, OnToolResultEnd(t) PROVE TypeOK'
  <2>1. Position(t) \in Nat \ {0}
    BY DEF Position, TypeOK
  <2>2. sent' \in Seq(Envelope)
    BY <1>3, <2>1, <1>b, Envelopes DEF OnToolResultEnd
  <2>. QED
    BY <1>3, <2>2 DEF OnToolResultEnd, TypeOK, effects
<1>4. CASE OnAgentState \/ OnReplyCompleted
  BY <1>4, <1>a DEF OnAgentState, OnReplyCompleted, TypeOK, effects
<1>5. CASE OnReplyStopped
  <2>1. sent' \in Seq(Envelope)
    BY <1>5, <1>b, <1>c, Envelopes DEF OnReplyStopped
  <2>. QED
    BY <1>5, <2>1, <1>a, <1>c DEF OnReplyStopped, TypeOK, effects
<1>6. CASE OnStreamEnd
  <2>1. sent' \in Seq(Envelope)
    BY <1>6, <1>b, <1>c, Envelopes DEF OnStreamEnd, TypeOK
  <2>2. result' \in [answer : 0 .. MaxText, completed : BOOLEAN, memory : BOOLEAN, error : Codes \cup {"none"}]
    BY <1>6, <1>c DEF OnStreamEnd, TypeOK
  <2>. QED
    BY <1>6, <2>1, <2>2, <1>a DEF OnStreamEnd
<1>7. ASSUME NEW code \in Raised, OnException(code) PROVE TypeOK'
  <2>1. sent' \in Seq(Envelope)
    BY <1>7, <1>b, <1>c, Envelopes DEF OnException
  <2>. QED
    BY <1>7, <2>1, <1>a, <1>c DEF OnException, TypeOK, effects
<1>8. CASE CheckFailure \/ CheckAnswer
  BY <1>8, <1>c, <1>e DEF CheckFailure, CheckAnswer, TypeOK, effects, adapter
<1>9. CASE CheckEmptyAnswer
  <2>1. sent' \in Seq(Envelope)
    BY <1>9, <1>b, <1>c, Envelopes DEF CheckEmptyAnswer
  <2>. QED
    BY <1>9, <2>1, <1>c, <1>d, <1>e DEF CheckEmptyAnswer, TypeOK, effects
<1>10. CASE PersistSucceeds
  BY <1>10, <1>0, Envelopes DEF PersistSucceeds, TypeOK, adapter
<1>11. ASSUME NEW code \in Refusals, PersistRefused(code) PROVE TypeOK'
  <2>1. sent' \in Seq(Envelope)
    BY <1>11, <1>b, <1>c, Envelopes DEF PersistRefused
  <2>. QED
    BY <1>11, <2>1, <1>c, <1>d, <1>e DEF PersistRefused, RecordFailure, TypeOK, effects
<1>12. CASE PersistBreaks
  <2>1. sent' \in Seq(Envelope)
    BY <1>12, <1>b, <1>c, Envelopes DEF PersistBreaks
  <2>. QED
    BY <1>12, <2>1, <1>0, <1>c, <1>d, <1>e DEF PersistBreaks, RecordFailure, TypeOK
<1>13. CASE PersistMetrics
  <2>1. rows = << >> /\ (result.completed /\ result.error = "none") \in BOOLEAN
    BY <1>13 DEF PersistMetrics, FlowInv, HandlerInv
  <2>2. \A b \in BOOLEAN : Append(<< >>, b) \in Seq(BOOLEAN) /\ Len(Append(<< >>, b)) <= 1
    OBVIOUS
  <2>3. << >> \in Seq(BOOLEAN) /\ Len(<< >>) <= 1
    OBVIOUS
  <2>4. rows' \in Seq(BOOLEAN) /\ Len(rows') <= 1
    BY <1>13, <2>1, <2>2, <2>3, Zenon DEF PersistMetrics
  <2>. QED
    BY <1>13, <2>4 DEF PersistMetrics, TypeOK, adapter
<1>14. CASE Reply
  <2>1. sent' \in Seq(Envelope)
    BY <1>14 DEF Reply, TypeOK
  <2>. QED
    BY <1>14, <2>1 DEF Reply, TypeOK, adapter, effects
<1>15. CASE StoreMessage
  BY <1>15 DEF StoreMessage, TypeOK, adapter
<1>16. CASE Disconnect \/ ProcessStops
  BY <1>16, <1>0 DEF Disconnect, ProcessStops, MayHaveCommitted, TypeOK, adapter
<1>. QED
  BY <1>1, <1>2, <1>3, <1>4, <1>5, <1>6, <1>7, <1>8, <1>9, <1>10, <1>11, <1>12, <1>13, <1>14, <1>15, <1>16
  DEF Next, ReadEvent, Handle, OnToolCallStart, OnToolResultStart

(* Each phase settles what FlowInv says of it. *)
LEMMA FlowStep == TypeOK /\ FlowInv /\ Next => FlowInv'
<1> SUFFICES ASSUME TypeOK, FlowInv, Next PROVE FlowInv'
  OBVIOUS
<1> USE DEF FlowInv, ReplyInv, HandlerInv, Before, Settled, Unsuccessful, effects, adapter
<1>0. result \in [answer : 0 .. MaxText, completed : BOOLEAN, memory : BOOLEAN, error : Codes \cup {"none"}]
  BY DEF TypeOK
<1>a. MessageEnd # Nothing /\ Nothing.event = "none" /\ MessageEnd.event = "message_end"
  BY Envelopes
<1>b. \A code \in Codes : Error(code).event = "error" /\ Error(code).code = code
                          /\ Error(code) # MessageEnd /\ code # "none"
  BY Envelopes DEF Codes, Refusals, Raised
<1>c. "internal_error" \in Codes /\ "agent_error" \in Codes /\ Raised \subseteq Codes /\ Refusals \subseteq Codes
  BY DEF Codes, Raised
<1>d. ASSUME NEW code \in Codes PROVE
        /\ Afterwards(code) # MessageEnd
        /\ Afterwards(code).event = "error" => mode = "blocking" /\ Afterwards(code).code = code
  BY <1>a, <1>b DEF Afterwards
<1>e. ASSUME NEW code \in Codes, result' = Failed(code) PROVE
        result'.error = code /\ result'.completed = FALSE /\ result'.answer = result.answer
          /\ result'.memory = result.memory
  BY <1>0, <1>e DEF Failed
<1>1. CASE OnTextDelta
  BY <1>0, <1>1 DEF OnTextDelta, Reading
<1>2. ASSUME NEW t \in Tools, NEW from, NEW to, OnToolCall(t, from, to) PROVE FlowInv'
  BY <1>2 DEF OnToolCall, BeforeCommit
<1>3. ASSUME NEW t \in Tools, OnToolResultEnd(t) PROVE FlowInv'
  BY <1>3 DEF OnToolResultEnd, BeforeCommit
<1>4. CASE OnAgentState
  BY <1>0, <1>4 DEF OnAgentState, Reading
<1>5. CASE OnReplyCompleted
  BY <1>0, <1>5 DEF OnReplyCompleted, Reading
<1>6. CASE OnReplyStopped
  BY <1>0, <1>6 DEF OnReplyStopped, Reading
<1>7. CASE OnStreamEnd
  BY <1>0, <1>7, <1>a DEF OnStreamEnd
<1>8. ASSUME NEW code \in Raised, OnException(code) PROVE FlowInv'
  BY <1>0, <1>8, <1>a, <1>b, <1>c DEF OnException
<1>9. CASE CheckFailure
  BY <1>9, <1>c, <1>d DEF CheckFailure
<1>10. CASE CheckEmptyAnswer
  <2>1. result'.error = "agent_error" /\ "agent_error" # "none" /\ result'.completed = FALSE
          /\ result'.answer = result.answer /\ result'.memory = result.memory
    BY <1>10, <1>b, <1>c, <1>e DEF CheckEmptyAnswer
  <2>2. /\ Afterwards("agent_error") # MessageEnd
        /\ Afterwards("agent_error").event = "error" => mode = "blocking"
    BY <1>10, <1>c, <1>d
  <2>. QED
    BY <1>10, <2>1, <2>2 DEF CheckEmptyAnswer
<1>11. CASE CheckAnswer
  BY <1>0, <1>11, <1>a DEF CheckAnswer
<1>12. CASE PersistSucceeds
  BY <1>0, <1>12, <1>a DEF PersistSucceeds
<1>13. ASSUME NEW code \in Refusals, PersistRefused(code) PROVE FlowInv'
  <2>1. result'.error = code /\ code # "none" /\ result'.completed = FALSE
          /\ result'.answer = result.answer /\ result'.memory = result.memory
    BY <1>13, <1>b, <1>c, <1>e DEF PersistRefused, RecordFailure
  <2>2. /\ Afterwards(code) # MessageEnd
        /\ Afterwards(code).event = "error" => mode = "blocking"
    BY <1>13, <1>c, <1>d
  <2>. QED
    BY <1>13, <2>1, <2>2 DEF PersistRefused, RecordFailure
<1>14. CASE PersistBreaks
  <2>1. mode = "blocking" => "internal_error" \notin BeforeCommit
    BY DEF BeforeCommit, Refusals
  <2>2. /\ Afterwards("internal_error") # MessageEnd
        /\ Afterwards("internal_error").event = "error" =>
             mode = "blocking" /\ Afterwards("internal_error").code = "internal_error"
    BY <1>c, <1>d
  <2>3. result'.error = "agent_error" /\ result'.completed = FALSE /\ result'.answer = result.answer
          /\ result'.memory = result.memory
    BY <1>14, <1>c, <1>e DEF PersistBreaks, RecordFailure
  <2>4. BeforeCommit' = BeforeCommit
    BY <1>14 DEF PersistBreaks, BeforeCommit
  <2>. QED
    BY <1>14, <2>1, <2>2, <2>3, <2>4 DEF PersistBreaks
<1>15. CASE PersistMetrics
  <2>1. \A b \in BOOLEAN : DOMAIN Append(<< >>, b) = {1} /\ Append(<< >>, b)[1] = b
    OBVIOUS
  <2>2. (result.completed /\ result.error = "none") <=> ending = MessageEnd
    BY <1>0, <1>15 DEF PersistMetrics
  <2>3. \A i \in DOMAIN rows' : rows'[i] <=> ending = MessageEnd
    BY <1>15, <2>1, <2>2 DEF PersistMetrics
  <2>. QED
    BY <1>15, <2>3 DEF PersistMetrics, BeforeCommit
<1>16. CASE Reply
  BY <1>16 DEF Reply, BeforeCommit
<1>17. CASE StoreMessage
  BY <1>17 DEF StoreMessage, BeforeCommit
<1>18. CASE Disconnect \/ ProcessStops
  BY <1>0, <1>18, <1>a DEF Disconnect, ProcessStops, MayHaveCommitted, BeforeCommit
<1>. QED
  BY <1>1, <1>2, <1>3, <1>4, <1>5, <1>6, <1>7, <1>8, <1>9, <1>10, <1>11, <1>12, <1>13, <1>14, <1>15, <1>16, <1>17, <1>18
  DEF Next, ReadEvent, Handle, OnToolCallStart, OnToolResultStart

(* Nothing is delivered: what was told stays true if the outcome does.     *)
LEMMA Untold ==
  ASSUME ToldInv, UNCHANGED <<mode, sent>>, result'.error = result.error,
         turn' # 0 => turn' = turn \/ result.error = "none",
         phase = "done" => phase' = "done" /\ ending' = ending
  PROVE  ToldInv'
<1>1. \A x : Delivered(x)' = Delivered(x)
  BY DEF Delivered
<1>2. BeforeCommit' = BeforeCommit
  BY DEF BeforeCommit
<1>. QED
  BY <1>1, <1>2 DEF ToldInv, TimeoutSaysTimeout

(* An error is delivered before any end, and before a turn is stored.      *)
LEMMA ErrorTold ==
  ASSUME IInv, NEW code \in Codes, Emit(Error(code)), result'.error = code, mode' = mode,
         phase # "done", result.error = "none" \/ code # "model_timeout",
         turn' # 0 => result.error = "none" /\ (mode = "stream" => code \notin BeforeCommit)
  PROVE  ToldInv'
<1>1. Adds(Error(code))
  BY Emitted, Envelopes DEF IInv
<1>2. Error(code).event = "error" /\ Error(code).code = code /\ code # "none"
  BY Envelopes DEF Codes, Refusals, Raised
<1>3. Delivered("message_end")' = {}
  BY <1>1, <1>2 DEF Adds, IInv, ToldInv
<1>4. \A i \in Delivered("error")' : \/ i \in Delivered("error") /\ sent'[i] = sent[i]
                                     \/ mode = "stream" /\ sent'[i] = Error(code)
  <2>1. Delivered("error")' = IF mode = "stream" THEN Delivered("error") \cup {Len(sent) + 1}
                                                 ELSE Delivered("error")
    BY <1>1, <1>2 DEF Adds
  <2>2. \A i \in Delivered("error") : sent'[i] = sent[i]
    BY <1>1, Indices DEF Adds, IInv
  <2>3. mode = "stream" => sent'[Len(sent) + 1] = Error(code)
    BY <1>1 DEF Adds
  <2>. QED
    BY <2>1, <2>2, <2>3
<1>5. turn' > 0 => \A i \in Delivered("error")' : sent'[i].code \notin BeforeCommit
  BY <1>2, <1>4 DEF IInv, ToldInv
<1>6. BeforeCommit' = BeforeCommit
  BY DEF BeforeCommit
<1>7. TimeoutSaysTimeout'
  BY <1>2, <1>4 DEF IInv, ToldInv, TimeoutSaysTimeout
<1>. QED
  BY <1>2, <1>3, <1>5, <1>6, <1>7 DEF ToldInv

(* A message or a thought is delivered while the agent replies. *)
LEMMA ProgressTold ==
  ASSUME IInv, NEW e \in Envelope, Emit(e), e.event \in {"message", "agent_thought"},
         phase = "agent", UNCHANGED <<mode, turn>>, result'.error = result.error
  PROVE  ToldInv'
<1>1. Adds(e)
  BY Emitted DEF IInv
<1>2. Delivered("message_end")' = {} /\ Delivered("error")' = Delivered("error")
  BY <1>1 DEF Adds, IInv, ToldInv
<1>3. \A i \in Delivered("error") : sent'[i] = sent[i]
  BY <1>1, Indices DEF Adds, IInv
<1>4. BeforeCommit' = BeforeCommit
  BY DEF BeforeCommit
<1>. QED
  BY <1>2, <1>3, <1>4 DEF IInv, ToldInv, TimeoutSaysTimeout

(* The last envelope or the reply leaves, when the effects are settled.    *)
LEMMA ReplyTold == IInv /\ Reply => ToldInv'
<1> SUFFICES ASSUME IInv, Reply PROVE ToldInv'
  OBVIOUS
<1>0. UNCHANGED <<mode, result, ending, turn>> /\ phase = "reply" /\ phase' = "done" /\ BeforeCommit' = BeforeCommit
  BY DEF Reply, adapter, effects, BeforeCommit
<1>1. CASE ending = Nothing
  BY <1>0, <1>1, Untold DEF Reply, IInv
<1>2. CASE ending # Nothing
  <2>1. ending \in Envelope /\ sent' = Append(sent, ending)
    BY <1>2 DEF Reply, IInv, TypeOK
  <2>2. /\ Len(sent') = Len(sent) + 1 /\ sent'[Len(sent) + 1] = ending
        /\ \A i \in 1 .. Len(sent) : sent'[i] = sent[i]
        /\ \A x : Delivered(x)' = IF ending.event = x THEN Delivered(x) \cup {Len(sent) + 1} ELSE Delivered(x)
    BY <2>1, Appended DEF IInv, TypeOK
  <2>3. Delivered("message_end") = {} /\ (ending.event = "message_end" => ending = MessageEnd)
    BY <1>0, <2>1, Envelopes DEF IInv, ToldInv, Envelope, Message
  <2>4. \A i \in Delivered("error") : sent'[i] = sent[i]
    BY <2>2, Indices DEF IInv
  <2>5. ending.event = "error" => mode = "blocking" /\ result.error # "none"
                                    /\ (turn > 0 => ending.code \notin BeforeCommit)
    BY DEF IInv, FlowInv, HandlerInv
  <2>6. result.error = "none" => Delivered("error")' = {}
    BY <2>2, <2>5 DEF IInv, ToldInv
  <2>7. \A i \in Delivered("message_end")' : i = Len(sent') /\ ending = MessageEnd
    BY <2>2, <2>3
  <2>8. turn > 0 => \A i \in Delivered("error")' : sent'[i].code \notin BeforeCommit
    BY <2>2, <2>4, <2>5 DEF IInv, ToldInv
  <2>9. TimeoutSaysTimeout'
    BY <1>0, <2>2, <2>4, <2>5 DEF IInv, ToldInv, TimeoutSaysTimeout
  <2>. QED
    BY <1>0, <2>6, <2>7, <2>8, <2>9 DEF ToldInv
<1>. QED
  BY <1>1, <1>2

(* What the client may have heard stays true in every phase.               *)
LEMMA ToldStep == IInv /\ Next => ToldInv'
<1> SUFFICES ASSUME IInv, Next PROVE ToldInv'
  OBVIOUS
<1> USE DEF effects, adapter
<1>0. /\ result \in [answer : 0 .. MaxText, completed : BOOLEAN, memory : BOOLEAN, error : Codes \cup {"none"}]
      /\ turn \in 0 .. MaxText /\ ToldInv /\ FlowInv
  BY DEF TypeOK, IInv
<1>a. "internal_error" \in Codes /\ "agent_error" \in Codes /\ Raised \subseteq Codes /\ Refusals \subseteq Codes
  BY DEF Codes, Raised
<1>b. phase \in Before => turn = 0
  BY <1>0 DEF FlowInv, HandlerInv
<1>1. CASE OnTextDelta
  BY <1>0, <1>1, ProgressTold, Envelopes DEF OnTextDelta, Reading
<1>2. ASSUME NEW t \in Tools, NEW from, NEW to, OnToolCall(t, from, to) PROVE ToldInv'
  BY <1>0, <1>2, Untold DEF OnToolCall
<1>3. ASSUME NEW t \in Tools, OnToolResultEnd(t) PROVE ToldInv'
  <2>1. Position(t) \in Nat \ {0}
    BY DEF Position, IInv, TypeOK
  <2>. QED
    BY <1>3, <2>1, ProgressTold, Envelopes DEF OnToolResultEnd, Reading
<1>4. CASE OnAgentState \/ OnReplyCompleted
  BY <1>0, <1>4, Untold DEF OnAgentState, OnReplyCompleted, Reading
<1>5. CASE OnReplyStopped
  <2>1. result'.error = "internal_error"
    BY <1>0, <1>5 DEF OnReplyStopped
  <2>. QED
    BY <1>5, <1>a, <1>b, <2>1, ErrorTold DEF OnReplyStopped, Reading, Before
<1>6. CASE OnStreamEnd
  <2>1. CASE ~result.completed /\ result.error = "none"
    <3>1. result'.error = "internal_error"
      BY <1>0, <1>6, <2>1 DEF OnStreamEnd
    <3>. QED
      BY <1>6, <1>a, <1>b, <2>1, <3>1, ErrorTold DEF OnStreamEnd, Before
  <2>2. CASE ~(~result.completed /\ result.error = "none")
    BY <1>0, <1>6, <2>2, Untold DEF OnStreamEnd
  <2>. QED
    BY <2>1, <2>2
<1>7. ASSUME NEW code \in Raised, OnException(code) PROVE ToldInv'
  <2>1. result'.error = code
    BY <1>0, <1>7 DEF OnException
  <2>2. result.error = "none" \/ code # "model_timeout"
    BY <1>0, <1>7 DEF OnException, FlowInv, ReplyInv
  <2>. QED
    BY <1>7, <1>a, <1>b, <2>1, <2>2, ErrorTold DEF OnException, Before
<1>8. CASE CheckFailure \/ CheckAnswer
  BY <1>0, <1>8, Untold DEF CheckFailure, CheckAnswer
<1>9. CASE CheckEmptyAnswer
  <2>1. result'.error = "agent_error" /\ result.error = "none"
    BY <1>0, <1>9 DEF CheckEmptyAnswer, Failed, Unsuccessful
  <2>. QED
    BY <1>9, <1>a, <1>b, <2>1, ErrorTold DEF CheckEmptyAnswer, Before
<1>10. CASE PersistSucceeds
  <2>1. result.error = "none"
    BY <1>0, <1>10 DEF PersistSucceeds, FlowInv, HandlerInv, Unsuccessful
  <2>. QED
    BY <1>0, <1>10, <2>1, Untold DEF PersistSucceeds
<1>11. ASSUME NEW code \in Refusals, PersistRefused(code) PROVE ToldInv'
  <2>1. result'.error = code /\ result.error = "none"
    BY <1>0, <1>11 DEF PersistRefused, RecordFailure, Failed, FlowInv, HandlerInv, Unsuccessful
  <2>. QED
    BY <1>11, <1>a, <1>b, <2>1, ErrorTold DEF PersistRefused, Before
<1>12. CASE PersistBreaks
  <2>1. result'.error = "agent_error" /\ result.error = "none"
    BY <1>0, <1>12 DEF PersistBreaks, RecordFailure, Failed, FlowInv, HandlerInv, Unsuccessful
  <2>2. mode = "stream" => "agent_error" \notin BeforeCommit
    BY DEF BeforeCommit, Refusals, Raised
  <2>. QED
    BY <1>12, <1>a, <2>1, <2>2, ErrorTold DEF PersistBreaks
<1>13. CASE PersistMetrics \/ StoreMessage
  BY <1>0, <1>13, Untold DEF PersistMetrics, StoreMessage
<1>14. CASE Reply
  BY <1>14, ReplyTold
<1>15. CASE Disconnect \/ ProcessStops
  <2>1. phase = "persist" => result.error = "none"
    BY <1>0 DEF FlowInv, HandlerInv, Unsuccessful
  <2>2. turn' # turn => phase = "persist"
    BY <1>15 DEF Disconnect, ProcessStops, MayHaveCommitted
  <2>. QED
    BY <1>0, <1>15, <2>1, <2>2, Untold DEF Disconnect, ProcessStops
<1>. QED
  BY <1>1, <1>2, <1>3, <1>4, <1>5, <1>6, <1>7, <1>8, <1>9, <1>10, <1>11, <1>12, <1>13, <1>14, <1>15
  DEF Next, ReadEvent, Handle, OnToolCallStart, OnToolResultStart

(* Every step of the agent, the adapter and the handlers keeps the         *)
(* invariant.                                                              *)
LEMMA Step_IInv == IInv /\ [Next]_vars => IInv'
<1> SUFFICES ASSUME IInv, [Next]_vars PROVE IInv'
  OBVIOUS
<1>1. CASE Next
  BY <1>1, TypeStep, FlowStep, ToldStep DEF IInv
<1>2. CASE UNCHANGED vars
  BY <1>2 DEF vars, adapter, effects, IInv, TypeOK, FlowInv, ReplyInv, HandlerInv, Unsuccessful, BeforeCommit,
    ToldInv, Delivered, TimeoutSaysTimeout
<1>. QED
  BY <1>1, <1>2

-----------------------------------------------------------------------------
(* The inductive invariant: what every phase of a request has settled and  *)
(* what its client may have heard by then.                                 *)
THEOREM Inductive == Spec => []IInv
BY Init_IInv, Step_IInv, PTL DEF Spec

(* Events, results, envelopes and records keep their shape, and there is   *)
(* at most one row of metrics.                                             *)
THEOREM TypeCorrect == Spec => []TypeOK
<1>1. IInv => TypeOK
  BY DEF IInv
<1>. QED
  BY <1>1, Inductive, PTL

(* What the client is told of its request, and what the metrics and the    *)
(* message store record of it, is true of the transcript.                  *)
THEOREM Truthful == Spec => []EnvelopeIsTrue
<1>1. IInv => EnvelopeIsTrue
  <2> SUFFICES ASSUME IInv PROVE EnvelopeIsTrue
    OBVIOUS
  <2>0. turn \in 0 .. MaxText /\ ToldInv /\ FlowInv /\ rows \in Seq(BOOLEAN)
    BY DEF IInv, TypeOK
  <2>1. EndMeansStored
    BY <2>0 DEF EndMeansStored, ToldInv, FlowInv, HandlerInv, ReplyInv, Unsuccessful
  <2>2. ErrorMeansNotStored
    BY <2>0 DEF ErrorMeansNotStored, ToldInv
  <2>3. OneOutcome
    BY <2>0 DEF OneOutcome, ToldInv, FlowInv, HandlerInv, Unsuccessful
  <2>4. RecordsAreTrue
    BY <2>0 DEF RecordsAreTrue, ToldInv, FlowInv, HandlerInv, Unsuccessful
  <2>. QED
    BY <2>0, <2>1, <2>2, <2>3, <2>4 DEF EnvelopeIsTrue, ToldInv
<1>. QED
  BY <1>1, Inductive, PTL

-----------------------------------------------------------------------------
(* What was streamed, counted.  A reply holds no text and no thought back; *)
(* each delta was sent once, after the empty message that opens a stream;  *)
(* and a position belongs to one open call or to one thought.              *)
CountInv   == mode = "stream" => Cardinality(Delivered("message")) = result.answer + 1
CallsInv   ==
  /\ \A t \in Tools : calls[t] <= position /\ (agentCall[t] = "running" => calls[t] # 0)
  /\ \A t, u \in Tools : calls[t] # 0 /\ calls[t] = calls[u] => t = u
ThoughtInv ==
  /\ \A i \in Delivered("agent_thought") :
       sent[i].position <= position /\ \A t \in Tools : calls[t] # sent[i].position
  /\ ThoughtsAreDistinct
StreamInv  == ending.event \in {"none", "message_end", "error"} /\ CountInv /\ CallsInv /\ ThoughtInv

(* The empty stream counts right.                                          *)
LEMMA Init_StreamInv == Init => StreamInv
<1> SUFFICES ASSUME Init PROVE StreamInv
  OBVIOUS
<1> USE DEF Init
<1>1. Delivered("agent_thought") = {} /\ (mode = "stream" => Delivered("message") = {1})
  BY Envelopes DEF Delivered
<1>2. CountInv
  <2>1. Cardinality({1}) = 1
    BY FS_Singleton
  <2>2. result.answer + 1 = 1
    OBVIOUS
  <2>3. mode = "stream" => Cardinality(Delivered("message")) = 1
    BY ONLY <1>1, <2>1, Zenon
  <2>. QED
    BY ONLY <2>2, <2>3 DEF CountInv
<1>3. CallsInv /\ ThoughtInv
  BY <1>1 DEF CallsInv, ThoughtInv, ThoughtsAreDistinct
<1>. QED
  BY <1>2, <1>3, Envelopes DEF StreamInv

(* Envelopes of one kind are as they were. *)
Silent(x) == Delivered(x)' = Delivered(x) /\ \A i \in Delivered(x) : sent'[i] = sent[i]

(* An envelope of another kind adds none of this kind.                     *)
LEMMA Silence ==
  ASSUME TypeOK, NEW x, NEW e \in Envelope, e.event # x, Emit(e) \/ sent' = Append(sent, e)
  PROVE  Silent(x)
<1>1. CASE Emit(e)
  <2>1. Adds(e)
    BY <1>1, Emitted
  <2>. QED
    BY <2>1, Indices DEF Adds, Silent
<1>2. CASE sent' = Append(sent, e)
  <2>1. Delivered(x)' = Delivered(x) /\ \A i \in 1 .. Len(sent) : sent'[i] = sent[i]
    BY <1>2, Appended DEF TypeOK
  <2>. QED
    BY <2>1, Indices DEF Silent
<1>. QED
  BY <1>1, <1>2

(* A step that sends neither text nor a thought keeps the account. *)
LEMMA Accounted ==
  ASSUME StreamInv, ending'.event \in {"none", "message_end", "error"},
         UNCHANGED <<mode, agentCall, calls, position>>, result'.answer = result.answer,
         Silent("message"), Silent("agent_thought")
  PROVE  StreamInv'
BY DEF StreamInv, CountInv, CallsInv, ThoughtInv, ThoughtsAreDistinct, Silent

(* An error changes no count.                                              *)
LEMMA AccountedError ==
  ASSUME TypeOK, StreamInv, ending'.event \in {"none", "message_end", "error"},
         UNCHANGED <<mode, agentCall, calls, position>>, result'.answer = result.answer,
         NEW code \in Codes, Emit(Error(code))
  PROVE  StreamInv'
BY Accounted, Silence, Envelopes

(* Neither does a step that sends nothing.                                 *)
LEMMA AccountedQuiet ==
  ASSUME StreamInv, ending'.event \in {"none", "message_end", "error"},
         UNCHANGED <<mode, agentCall, calls, position, sent>>, result'.answer = result.answer
  PROVE  StreamInv'
<1>1. \A x : Silent(x)
  BY DEF Silent, Delivered
<1>. QED
  BY <1>1, Accounted

(* One delta is one message and a longer answer.                           *)
LEMMA TextStep == TypeOK /\ StreamInv /\ OnTextDelta => StreamInv'
<1> SUFFICES ASSUME TypeOK, StreamInv, OnTextDelta PROVE StreamInv'
  OBVIOUS
<1>1. /\ Message \in Envelope /\ Message.event = "message" /\ Emit(Message)
      /\ UNCHANGED <<mode, agentCall, calls, position, ending>>
      /\ result'.answer = result.answer + 1 /\ result.answer \in Nat
  BY Envelopes, DeliveryAssumption DEF OnTextDelta, TypeOK
<1>2. Silent("agent_thought") /\ Adds(Message)
  BY <1>1, Silence, Emitted
<1>3. CountInv'
  <2> SUFFICES ASSUME mode = "stream" PROVE Cardinality(Delivered("message")') = result'.answer + 1
    BY <1>1 DEF CountInv
  <2>1. Delivered("message")' = Delivered("message") \cup {Len(sent) + 1}
    BY <1>1, <1>2 DEF Adds
  <2>2. Delivered("message") \subseteq 1 .. Len(sent) /\ Len(sent) \in Nat
    BY Indices
  <2>3. IsFiniteSet(Delivered("message")) /\ Len(sent) + 1 \notin Delivered("message")
    <3>1. IsFiniteSet(1 .. Len(sent))
      BY <2>2, FS_Interval
    <3>. QED
      BY <2>2, <3>1, FS_Subset
  <2>4. Cardinality(Delivered("message") \cup {Len(sent) + 1}) = Cardinality(Delivered("message")) + 1
    BY <2>3, FS_AddElement
  <2>. QED
    BY <1>1, <2>1, <2>4 DEF StreamInv, CountInv
<1>. QED
  BY <1>1, <1>2, <1>3 DEF StreamInv, CallsInv, ThoughtInv, ThoughtsAreDistinct, Silent

(* A call that opens takes a position of its own.                          *)
LEMMA CallStep ==
  ASSUME TypeOK, StreamInv, NEW t \in Tools, NEW from, NEW to, OnToolCall(t, from, to)
  PROVE  StreamInv'
<1>0. /\ calls \in [Tools -> Nat] /\ position \in Nat /\ UNCHANGED <<mode, result, ending, sent>>
      /\ agentCall \in [Tools -> {"idle", "called", "running", "done"}]
  BY DEF OnToolCall, TypeOK
<1>1. \A x : Delivered(x)' = Delivered(x)
  BY <1>0 DEF Delivered
<1>2. \A i \in Delivered("agent_thought") : sent[i].position \in Nat \ {0}
  BY DEF TypeOK, Delivered, Envelope, Message, MessageEnd
<1>3. CASE calls[t] # 0
  <2>1. calls' = calls /\ position' = position
    BY <1>0, <1>3 DEF OnToolCall, Position, StreamInv, CallsInv
  <2>. QED
    BY <1>0, <1>1, <1>3, <2>1 DEF OnToolCall, StreamInv, CountInv, CallsInv, ThoughtInv, ThoughtsAreDistinct
<1>4. CASE calls[t] = 0
  <2>1. position' = position + 1 /\ calls' = [calls EXCEPT ![t] = position + 1]
    BY <1>0, <1>4 DEF OnToolCall, Position
  <2>2. CallsInv'
    BY <1>0, <2>1 DEF OnToolCall, StreamInv, CallsInv
  <2>3. \A i \in Delivered("agent_thought") :
          sent[i].position <= position' /\ \A u \in Tools : calls'[u] # sent[i].position
    BY <1>0, <1>2, <2>1 DEF StreamInv, ThoughtInv
  <2>. QED
    BY <1>0, <1>1, <2>2, <2>3 DEF StreamInv, CountInv, ThoughtInv, ThoughtsAreDistinct
<1>. QED
  BY <1>3, <1>4

(* The thought of a call that ends takes over its position.                *)
LEMMA ThoughtStep ==
  ASSUME TypeOK, StreamInv, NEW t \in Tools, OnToolResultEnd(t)
  PROVE  StreamInv'
<1>0. /\ calls \in [Tools -> Nat] /\ position \in Nat /\ UNCHANGED <<mode, result, ending, position>>
      /\ agentCall \in [Tools -> {"idle", "called", "running", "done"}]
      /\ calls[t] # 0 /\ calls[t] <= position /\ Position(t) = calls[t]
      /\ calls' = [calls EXCEPT ![t] = 0]
  BY DEF OnToolResultEnd, Position, TypeOK, StreamInv, CallsInv
<1>1. /\ Thought(calls[t]) \in Envelope /\ Thought(calls[t]).event = "agent_thought"
      /\ Thought(calls[t]).position = calls[t] /\ Emit(Thought(calls[t]))
  BY <1>0, Envelopes DEF OnToolResultEnd
<1>2. Silent("message") /\ Adds(Thought(calls[t]))
  BY <1>1, Silence, Emitted
<1>3. CountInv' /\ CallsInv'
  BY <1>0, <1>2 DEF OnToolResultEnd, StreamInv, CountInv, CallsInv, Silent
<1>4. \A i \in Delivered("agent_thought") : sent[i].position \in Nat \ {0}
  BY DEF TypeOK, Delivered, Envelope, Message, MessageEnd
<1>5. \A i \in Delivered("agent_thought")' :
        \/ i \in Delivered("agent_thought") /\ sent'[i] = sent[i]
        \/ i = Len(sent) + 1 /\ sent'[i] = Thought(calls[t])
  <2>1. \A i \in Delivered("agent_thought")' :
          i \in Delivered("agent_thought") \/ (mode = "stream" /\ i = Len(sent) + 1)
    BY <1>2 DEF Adds
  <2>. QED
    BY <1>2, <2>1, Indices DEF Adds
<1>6. \A i \in Delivered("agent_thought")' :
        sent'[i].position <= position /\ \A u \in Tools : calls'[u] # sent'[i].position
  BY <1>0, <1>1, <1>4, <1>5 DEF StreamInv, ThoughtInv, CallsInv
<1>7. ThoughtsAreDistinct'
  BY <1>1, <1>5, Indices DEF StreamInv, ThoughtInv, ThoughtsAreDistinct
<1>. QED
  BY <1>0, <1>3, <1>6, <1>7 DEF StreamInv, ThoughtInv

(* Every step keeps the counts.                                            *)
LEMMA Step_StreamInv == TypeOK /\ StreamInv /\ [Next]_vars => StreamInv'
<1> SUFFICES ASSUME TypeOK, StreamInv, [Next]_vars PROVE StreamInv'
  OBVIOUS
<1> USE DEF effects, adapter
<1>0. /\ result \in [answer : 0 .. MaxText, completed : BOOLEAN, memory : BOOLEAN, error : Codes \cup {"none"}]
      /\ ending.event \in {"none", "message_end", "error"}
  BY DEF TypeOK, StreamInv
<1>a. "internal_error" \in Codes /\ "agent_error" \in Codes /\ Raised \subseteq Codes /\ Refusals \subseteq Codes
  BY DEF Codes, Raised
<1>b. \A code \in Codes : Afterwards(code).event \in {"none", "message_end", "error"}
  BY Envelopes DEF Afterwards
<1>c. \A code : Failed(code).answer = result.answer
  BY <1>0 DEF Failed
<1>1. CASE OnTextDelta
  BY <1>1, TextStep
<1>2. ASSUME NEW t \in Tools, OnToolCallStart(t) \/ OnToolResultStart(t) PROVE StreamInv'
  BY <1>2, CallStep DEF OnToolCallStart, OnToolResultStart
<1>3. ASSUME NEW t \in Tools, OnToolResultEnd(t) PROVE StreamInv'
  BY <1>3, ThoughtStep
<1>4. CASE OnAgentState \/ OnReplyCompleted
  BY <1>0, <1>4, AccountedQuiet DEF OnAgentState, OnReplyCompleted
<1>5. CASE OnReplyStopped
  BY <1>0, <1>5, <1>a, AccountedError DEF OnReplyStopped
<1>6. CASE OnStreamEnd
  <2>1. CASE ~result.completed /\ result.error = "none"
    BY <1>0, <1>6, <1>a, <2>1, AccountedError DEF OnStreamEnd
  <2>2. CASE ~(~result.completed /\ result.error = "none")
    BY <1>0, <1>6, <2>2, AccountedQuiet DEF OnStreamEnd
  <2>. QED
    BY <2>1, <2>2
<1>7. ASSUME NEW code \in Raised, OnException(code) PROVE StreamInv'
  BY <1>0, <1>7, <1>a, AccountedError DEF OnException
<1>8. CASE CheckFailure
  BY <1>8, <1>a, <1>b, AccountedQuiet DEF CheckFailure
<1>9. CASE CheckEmptyAnswer
  BY <1>9, <1>a, <1>b, <1>c, AccountedError DEF CheckEmptyAnswer
<1>10. CASE CheckAnswer
  BY <1>0, <1>10, AccountedQuiet DEF CheckAnswer
<1>11. CASE PersistSucceeds
  BY <1>11, Envelopes, AccountedQuiet DEF PersistSucceeds
<1>12. ASSUME NEW code \in Refusals, PersistRefused(code) PROVE StreamInv'
  BY <1>12, <1>a, <1>b, <1>c, AccountedError DEF PersistRefused, RecordFailure
<1>13. CASE PersistBreaks
  BY <1>13, <1>a, <1>b, <1>c, AccountedError DEF PersistBreaks, RecordFailure
<1>14. CASE PersistMetrics \/ StoreMessage \/ Disconnect \/ ProcessStops
  BY <1>0, <1>14, AccountedQuiet DEF PersistMetrics, StoreMessage, Disconnect, ProcessStops
<1>15. CASE Reply
  <2>1. CASE ending = Nothing
    BY <1>0, <1>15, <2>1, AccountedQuiet DEF Reply
  <2>2. CASE ending # Nothing
    <3>1. ending \in Envelope /\ sent' = Append(sent, ending)
      BY <1>15, <2>2 DEF Reply, TypeOK
    <3>2. Silent("message") /\ Silent("agent_thought")
      BY <1>0, <3>1, Silence
    <3>. QED
      BY <1>0, <1>15, <3>2, Accounted DEF Reply
  <2>. QED
    BY <2>1, <2>2
<1>16. CASE UNCHANGED vars
  BY <1>0, <1>16, AccountedQuiet DEF vars
<1>. QED
  BY <1>1, <1>2, <1>3, <1>4, <1>5, <1>6, <1>7, <1>8, <1>9, <1>10, <1>11, <1>12, <1>13, <1>14, <1>15, <1>16
  DEF Next, ReadEvent, Handle

(* What was streamed is the turn as it happened: the stored answer is all  *)
(* of the text, and concurrent calls are different thoughts.               *)
THEOREM StreamedAsItHappened == Spec => []StreamIsTrue
<1>1. Spec => []StreamInv
  BY TypeCorrect, Init_StreamInv, Step_StreamInv, PTL DEF Spec
<1>2. IInv /\ StreamInv => StreamIsTrue
  BY DEF IInv, TypeOK, FlowInv, HandlerInv, StreamInv, CountInv, ThoughtInv, StreamIsTrue, StoredIsStreamed
<1>. QED
  BY <1>1, <1>2, Inductive, PTL

=============================================================================

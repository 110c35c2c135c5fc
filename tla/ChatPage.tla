------------------------------ MODULE ChatPage ------------------------------
(***************************************************************************)
(* The chat page of one user, chat.html, and the requests it has in        *)
(* flight: the stream of the answer being read, the conversations being    *)
(* fetched and the deletions.  Responses arrive in any order.              *)
(*                                                                         *)
(* JavaScript runs one handler at a time: an action is a handler up to its *)
(* next await.  Aborting a fetch rejects the pending read before any other *)
(* handler runs, so the aborted stream ends in the same action.  The       *)
(* server is seen through what it stores, as in ConversationStore.  It is  *)
(* ready throughout: the banner's health check is not modelled.            *)
(***************************************************************************)
EXTENDS Integers, FiniteSets

CONSTANTS
  Cids,      \* conversation ids the server may generate
  Messages,  \* what the user submits: one click or Enter each, the text aside
  Slots,     \* bound: conversation fetches in flight
  None

ASSUME PageAssumption == None \notin Cids \cup Messages

VARIABLES
  conversationId,  \* the active conversation, or None
  history,         \* the conversation whose stored messages fill the page
  stream,          \* the answer being read (isStreaming), or None
  timers,          \* messages waiting 200 ms for the aborted stream to end
  switching,       \* the conversation each fetch in flight is for, or None
  deleting,        \* deletions in flight
  request,         \* the chat requests, as the server sees them
  stored, erased   \* conversations with stored turns; those deleted

page   == <<conversationId, history, stream, timers>>
nets   == <<switching, deleting>>
server == <<request, stored, erased>>
vars   == <<page, nets, server>>

Status == {"none", "sent", "answering", "saved", "failed", "refused", "cancelled"}
Reading == [message : Messages, phase : {"fetch", "reading", "refresh"}]

TypeOK ==
  /\ conversationId \in Cids \cup {None} /\ history \in Cids \cup {None}
  /\ stream \in Reading \cup {None}
  /\ timers \subseteq {m \in Messages : request[m].status = "none"}
  /\ switching \in [Slots -> Cids \cup {None}]
  /\ deleting \subseteq [cid : Cids, isCurrent : BOOLEAN, answer : {"none", "ok", "missing"}]
  /\ request \in [Messages -> [cid : Cids \cup {None}, existed : BOOLEAN, status : Status]]
  /\ stored \subseteq Cids /\ erased \subseteq Cids \ stored

(* The page opens on no conversation; some may be stored already. *)
Init ==
  /\ conversationId = None /\ history = None /\ stream = None /\ timers = {}
  /\ switching = [s \in Slots |-> None] /\ deleting = {}
  /\ stored \in SUBSET Cids /\ erased = {}
  /\ request = [m \in Messages |-> [cid |-> None, existed |-> FALSE, status |-> "none"]]

-----------------------------------------------------------------------------
(* abort() ends a stream that is fetching or reading; it does not reach    *)
(* the list that is fetched after the last event.                          *)
KeepReading == UNCHANGED stream    \* mutant: the old stream is not aborted
Abort == stream' = IF stream # None /\ stream.phase = "refresh" THEN stream ELSE None

(* newConversation(); the list it reloads is not kept, see Sidebar. *)
OpenNew ==
  /\ Abort
  /\ conversationId' = None /\ history' = None

(* streamChat(), up to the response of its POST. *)
StartStream(m) ==
  /\ stream' = [message |-> m, phase |-> "fetch"]
  /\ request' = [request EXCEPT ![m] = [cid |-> conversationId, status |-> "sent",
                                        existed |-> conversationId # None]]

(* handleSend(), on a click or when the 200 ms are over. *)
HandleSend(m) ==
  IF stream = None
    THEN StartStream(m) /\ timers' = timers \ {m}
    ELSE Abort /\ timers' = timers \cup {m} /\ UNCHANGED request

Submit(m) ==
  /\ request[m].status = "none" /\ m \notin timers
  /\ HandleSend(m)
  /\ UNCHANGED <<conversationId, history, nets, stored, erased>>

GivesUp(m) ==                      \* mutant: the waiting message is sent once only
  /\ m \in timers
  /\ timers' = timers \ {m}
  /\ IF stream = None THEN StartStream(m) ELSE UNCHANGED <<stream, request>>
  /\ UNCHANGED <<conversationId, history, nets, stored, erased>>
TimerFires(m) ==
  /\ m \in timers
  /\ HandleSend(m)
  /\ UNCHANGED <<conversationId, history, nets, stored, erased>>

Stop ==
  /\ Abort
  /\ UNCHANGED <<conversationId, history, timers, nets, server>>

ClickNew ==
  /\ OpenNew
  /\ UNCHANGED <<timers, switching, deleting, server>>

(* The lists the sidebar shows arrive in any order, so it may show any     *)
(* conversation that is stored or once was.                                *)
Sidebar == stored \cup erased

(* switchConversation(): the id changes at once, the messages later. *)
ClickConversation(c, s) ==
  /\ c \in Sidebar /\ switching[s] = None
  /\ Abort
  /\ conversationId' = c
  /\ switching' = [switching EXCEPT ![s] = c]
  /\ UNCHANGED <<history, timers, deleting, server>>

ConversationArrives(s) ==
  /\ switching[s] # None
  /\ switching' = [switching EXCEPT ![s] = None]
  /\ \/ history' = switching[s] /\ UNCHANGED <<conversationId, stream>>
     \/ OpenNew                     \* it was deleted, or the fetch failed
  /\ UNCHANGED <<timers, deleting, server>>

(* deleteConversation(): whether it is the active one is asked before the  *)
(* request is sent, and not again.                                         *)
ClickDelete(c) ==
  /\ c \in Sidebar /\ \A d \in deleting : d.cid # c
  /\ deleting' = deleting \cup
       {[cid |-> c, isCurrent |-> c = conversationId, answer |-> "none"]}
  /\ UNCHANGED <<page, switching, server>>

DeleteExecutes(d) ==
  /\ d.answer = "none"
  /\ deleting' = (deleting \ {d}) \cup
       {[d EXCEPT !.answer = IF d.cid \in stored THEN "ok" ELSE "missing"]}
  /\ stored' = stored \ {d.cid}
  /\ erased' = erased \cup ({d.cid} \cap stored)
  /\ UNCHANGED <<page, switching, request>>

DeleteArrives(d) ==
  /\ d.answer # "none"
  /\ deleting' = deleting \ {d}
  /\ \/ d.answer = "ok" /\ d.isCurrent /\ OpenNew
     \/ UNCHANGED <<conversationId, history, stream>>   \* also: the answer is lost
  /\ UNCHANGED <<timers, switching, server>>

(* The list is in and the stream that waited for it, or failed to get it, *)
(* is over.                                                                *)
ListArrives ==
  /\ stream # None /\ stream.phase = "refresh"
  /\ stream' = None
  /\ UNCHANGED <<conversationId, history, timers, nets, server>>

-----------------------------------------------------------------------------
(* What the open stream receives.  The first message event carries no      *)
(* text, only the conversation id, before anything is stored under it;     *)
(* every later one carries the id again.                                   *)
MessageEvent ==
  /\ stream # None /\ stream.phase \in {"fetch", "reading"}
  /\ request[stream.message].status \in {"answering", "saved", "failed"}
  /\ stream' = [stream EXCEPT !.phase = "reading"]
  /\ conversationId' = request[stream.message].cid
  /\ UNCHANGED <<history, timers, nets, server>>

StreamEnds ==
  /\ stream # None /\ stream.phase = "reading"
  /\ request[stream.message].status \in {"saved", "failed"}
  /\ stream' = IF request[stream.message].existed \/ conversationId = None
                 THEN None ELSE [stream EXCEPT !.phase = "refresh"]
  /\ UNCHANGED <<conversationId, history, timers, nets, server>>

(* An error status, or the connection breaks. *)
StreamFails ==
  /\ stream # None /\ stream.phase \in {"fetch", "reading"}
  /\ stream' = None
  /\ UNCHANGED <<conversationId, history, timers, nets, server>>

(* The server's side of a chat request. *)
Becomes(m, status) == request' = [request EXCEPT ![m].status = status]

ServerLoads(m) ==
  /\ request[m].status = "sent"
  /\ IF request[m].existed
       THEN Becomes(m, IF request[m].cid \in stored THEN "answering" ELSE "refused")
       ELSE \E c \in Cids \ (stored \cup erased \cup {request[n].cid : n \in Messages}) :
              request' = [request EXCEPT ![m].cid = c, ![m].status = "answering"]
  /\ UNCHANGED <<page, nets, stored, erased>>

SavesAnyway(m) ==                  \* mutant: a deleted conversation comes back
  /\ request[m].status = "answering"
  /\ Becomes(m, "saved") /\ stored' = stored \cup {request[m].cid}
  /\ UNCHANGED <<page, nets, erased>>
SavesNothing(m) ==                 \* mutant: the save is not committed
  /\ request[m].status = "answering"
  /\ Becomes(m, "saved") /\ UNCHANGED <<page, nets, stored, erased>>
ServerSaves(m) ==
  /\ request[m].status = "answering"
  /\ IF request[m].existed /\ request[m].cid \notin stored
       THEN Becomes(m, "failed") /\ UNCHANGED stored
       ELSE Becomes(m, "saved") /\ stored' = stored \cup {request[m].cid}
  /\ UNCHANGED <<page, nets, erased>>

ServerFails(m) ==
  /\ request[m].status = "answering"
  /\ Becomes(m, "failed")
  /\ UNCHANGED <<page, nets, stored, erased>>

(* The server notices that the page has gone away, sooner or later. *)
ServerCancels(m) ==
  /\ request[m].status \in {"sent", "answering"}
  /\ ~(stream # None /\ stream.message = m)
  /\ Becomes(m, "cancelled")
  /\ UNCHANGED <<page, nets, stored, erased>>

-----------------------------------------------------------------------------
User ==
  \/ Stop \/ ClickNew
  \/ \E m \in Messages : Submit(m)
  \/ \E c \in Cids : ClickDelete(c) \/ \E s \in Slots : ClickConversation(c, s)
Receive ==
  \/ MessageEvent \/ StreamEnds \/ StreamFails \/ ListArrives
  \/ \E s \in Slots : ConversationArrives(s)
  \/ \E d \in deleting : DeleteArrives(d)
Serve ==
  \/ \E m \in Messages : ServerLoads(m) \/ ServerSaves(m) \/ ServerFails(m) \/ ServerCancels(m)
  \/ \E d \in deleting : DeleteExecutes(d)

Next == User \/ Receive \/ Serve \/ \E m \in Messages : TimerFires(m)

(* Timers fire, and the list a stream waits for arrives or fails.  Nothing *)
(* is assumed of the answers themselves.                                   *)
Fairness == WF_vars(ListArrives) /\ \A m \in Messages : WF_vars(TimerFires(m))
Spec     == Init /\ [][Next]_vars
FairSpec == Spec /\ Fairness

-----------------------------------------------------------------------------
(* A late event of an old answer never moves the page from the conversation *)
(* the user chose to another one.                                          *)
StreamNeverSwitches ==
  [][conversationId # None /\ conversationId' \notin {conversationId, None}
       => switching' # switching]_vars

(* A message typed while an answer is still streaming is not lost: it is   *)
(* sent once the old stream has ended, even if others are waiting too.     *)
WaitingIsSent ==
  \A m \in Messages : m \in timers ~> request[m].status # "none"

(* A message is refused only if the user deleted its conversation, or if   *)
(* the conversation's first answer is not stored: the page takes its id    *)
(* from the first event, so stopping that answer loses the conversation    *)
(* although the page says that one may stop and send.                      *)
FirstAnswers(c) == {m \in Messages : request[m].cid = c /\ ~request[m].existed}
RefusedForCause ==
  [][\A m \in Messages : request[m].status = "sent" /\ request'[m].status = "refused" =>
       \/ request[m].cid \in erased
       \/ \E n \in FirstAnswers(request[m].cid) :
            request[n].status \in {"answering", "failed", "cancelled"}]_vars

(* Messages get through. *)
MessagesArrive == WaitingIsSent /\ RefusedForCause

(* What the page's comments say of its state: the stored messages shown    *)
(* are those of the active conversation, if there is one and no fetch is   *)
(* in flight.                                                              *)
ShowsActive ==
  conversationId # None /\ (\A s \in Slots : switching[s] = None) =>
    history \in {None, conversationId}
=============================================================================

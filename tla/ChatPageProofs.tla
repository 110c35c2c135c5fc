--------------------------- MODULE ChatPageProofs ---------------------------
(***************************************************************************)
(* Proofs about ChatPage for any numbers of messages, conversations and    *)
(* fetches in flight.  A conversation id is known before the page can hold *)
(* it: it is stored, was deleted, or was given out for a first answer that *)
(* is not stored, and from then on it is never forgotten.  The open stream *)
(* belongs to the conversation of the page unless the page is on none.     *)
(***************************************************************************)
EXTENDS ChatPage, TLAPS

Requests == [cid : Cids \cup {None}, existed : BOOLEAN, status : Status]

(* First answers that are not stored.                                      *)
Unsaved == {"answering", "failed", "cancelled"}
Known(c) == c \in Sidebar \/ \E n \in FirstAnswers(c) : request[n].status \in Unsaved

(* A request names a known conversation, or gets a new id of its own when  *)
(* the server answers it.                                                  *)
RequestsAreKnown ==
  \A m \in Messages :
    /\ request[m].existed => request[m].cid # None /\ Known(request[m].cid)
    /\ request[m].status \in {"none", "sent"} /\ ~request[m].existed => request[m].cid = None
    /\ request[m].status \in {"answering", "saved", "failed"} => request[m].cid # None
    /\ request[m].status = "saved" => request[m].cid \in Sidebar
    /\ request[m].status = "answering" /\ ~request[m].existed => request[m].cid \notin Sidebar

FirstIdsDiffer ==
  \A m, n \in Messages :
    ~request[m].existed /\ ~request[n].existed /\ request[m].cid # None
      /\ request[m].cid = request[n].cid => m = n

PageIsKnown == conversationId # None => Known(conversationId)

(* What the open stream still brings belongs to the active conversation.   *)
StreamIsCurrent ==
  stream # None /\ stream.phase # "refresh" /\ conversationId # None =>
    request[stream.message].cid = conversationId

IInv == TypeOK /\ RequestsAreKnown /\ FirstIdsDiffer /\ PageIsKnown /\ StreamIsCurrent

-----------------------------------------------------------------------------
(* What is known stays known.                                              *)
LEMMA KnownStays ==
  ASSUME Sidebar \subseteq Sidebar',
         \A n \in Messages :
           ~request[n].existed /\ request[n].status \in Unsaved =>
             /\ request'[n].cid = request[n].cid /\ ~request'[n].existed
             /\ request'[n].status \in Unsaved \/ request'[n].cid \in Sidebar',
         NEW c, Known(c)
  PROVE  Known(c)'
BY DEF Known, FirstAnswers

(* A step of the page that sends nothing, beside which the server rests.   *)
LEMMA PageStep ==
  ASSUME IInv, UNCHANGED server,
         conversationId' \in Cids \cup {None}, history' \in Cids \cup {None},
         stream' \in Reading \cup {None},
         timers' \subseteq {m \in Messages : request[m].status = "none"},
         switching' \in [Slots -> Cids \cup {None}],
         deleting' \subseteq [cid : Cids, isCurrent : BOOLEAN, answer : {"none", "ok", "missing"}],
         PageIsKnown', StreamIsCurrent'
  PROVE  IInv'
<1>1. TypeOK'
  BY DEF IInv, TypeOK, server
<1>2. \A c : Known(c)' <=> Known(c)
  BY DEF server, Known, FirstAnswers, Sidebar
<1>3. RequestsAreKnown' /\ FirstIdsDiffer'
  BY <1>2 DEF IInv, RequestsAreKnown, FirstIdsDiffer, server, Sidebar
<1>. QED
  BY <1>1, <1>3 DEF IInv

(* A step that changes one request.                                        *)
LEMMA OneRequest ==
  ASSUME IInv, NEW m \in Messages, request' \in [Messages -> Requests],
         \A n \in Messages \ {m} : request'[n] = request[n],
         Sidebar \subseteq Sidebar',
         \A n \in Messages \ {m} :
           ~request[n].existed /\ request[n].cid # None => request[n].cid \notin Sidebar' \ Sidebar,
         request'[m].existed => request'[m].cid # None /\ Known(request'[m].cid),
         request'[m].status \in {"none", "sent"} /\ ~request'[m].existed => request'[m].cid = None,
         request'[m].status \in {"answering", "saved", "failed"} => request'[m].cid # None,
         request'[m].status = "saved" => request'[m].cid \in Sidebar',
         request'[m].status = "answering" /\ ~request'[m].existed => request'[m].cid \notin Sidebar',
         ~request[m].existed /\ request[m].status \in Unsaved =>
           /\ request'[m].cid = request[m].cid /\ ~request'[m].existed
           /\ request'[m].status \in Unsaved \/ request'[m].cid \in Sidebar',
         ~request'[m].existed /\ request'[m].cid # None =>
           \A n \in Messages \ {m} : ~request[n].existed => request[n].cid # request'[m].cid
  PROVE  RequestsAreKnown' /\ FirstIdsDiffer' /\ \A c : Known(c) => Known(c)'
<1>1. \A n \in Messages :
        ~request[n].existed /\ request[n].status \in Unsaved =>
          /\ request'[n].cid = request[n].cid /\ ~request'[n].existed
          /\ request'[n].status \in Unsaved \/ request'[n].cid \in Sidebar'
  OBVIOUS
<1>2. \A c : Known(c) => Known(c)'
  BY <1>1, KnownStays
<1>3. ASSUME NEW n \in Messages
      PROVE  /\ request'[n].existed => request'[n].cid # None /\ Known(request'[n].cid)
             /\ request'[n].status \in {"none", "sent"} /\ ~request'[n].existed => request'[n].cid = None
             /\ request'[n].status \in {"answering", "saved", "failed"} => request'[n].cid # None
             /\ request'[n].status = "saved" => request'[n].cid \in Sidebar'
             /\ request'[n].status = "answering" /\ ~request'[n].existed => request'[n].cid \notin Sidebar'
  <2>1. CASE n = m
    BY <2>1
  <2>2. CASE n # m
    BY <2>2 DEF IInv, RequestsAreKnown
  <2>. QED
    BY <2>1, <2>2
<1>4. RequestsAreKnown'
  <2>1. \A n \in Messages : request'[n].existed => Known(request'[n].cid)
    BY <1>3
  <2>2. \A n \in Messages : Known(request'[n].cid) => (\E c : c = request'[n].cid /\ Known(c)')
    BY <1>2
  <2>3. \A n \in Messages : request'[n].existed => Known(request[n].cid)'
    BY <2>1, <2>2
  <2>. QED
    BY <1>3, <2>3 DEF RequestsAreKnown
<1>5. FirstIdsDiffer'
  <2> SUFFICES ASSUME NEW k \in Messages, NEW n \in Messages,
                      ~request'[k].existed, ~request'[n].existed, request'[k].cid # None,
                      request'[k].cid = request'[n].cid
               PROVE  k = n
    BY DEF FirstIdsDiffer
  <2>1. CASE k # m /\ n # m
    BY <2>1 DEF IInv, FirstIdsDiffer
  <2>2. CASE k = m \/ n = m
    BY <2>2
  <2>. QED
    BY <2>1, <2>2
<1>. QED
  BY <1>2, <1>4, <1>5

-----------------------------------------------------------------------------
(* The page opens on no conversation.                                      *)
LEMMA IInvInit == Init => IInv
<1> SUFFICES ASSUME Init PROVE IInv
  OBVIOUS
<1>1. request = [m \in Messages |-> [cid |-> None, existed |-> FALSE, status |-> "none"]]
  BY DEF Init
<1>2. TypeOK
  BY <1>1 DEF Init, TypeOK, Status
<1>3. RequestsAreKnown /\ FirstIdsDiffer /\ PageIsKnown /\ StreamIsCurrent
  BY <1>1 DEF Init, RequestsAreKnown, FirstIdsDiffer, PageIsKnown, StreamIsCurrent
<1>. QED
  BY <1>2, <1>3 DEF IInv

(* An aborted stream brings nothing more.                                  *)
LEMMA AbortEnds ==
  ASSUME TypeOK, Abort
  PROVE  stream' \in Reading \cup {None} /\ (stream' = None \/ stream'.phase = "refresh")
BY DEF TypeOK, Abort

(* A message is sent, or has to wait.                                      *)
LEMMA SendStep ==
  ASSUME IInv, NEW m \in Messages, request[m].status = "none", HandleSend(m),
         UNCHANGED <<conversationId, history, nets, stored, erased>>
  PROVE  IInv'
<1>0. /\ TypeOK /\ RequestsAreKnown /\ PageIsKnown /\ None \notin Messages /\ Sidebar' = Sidebar
  BY PageAssumption DEF IInv, Sidebar
<1>1. CASE stream = None
  <2>1. /\ stream' = [message |-> m, phase |-> "fetch"] /\ timers' = timers \ {m}
        /\ request' = [request EXCEPT ![m] = [cid |-> conversationId, status |-> "sent",
                                              existed |-> conversationId # None]]
    BY <1>1 DEF HandleSend, StartStream
  <2> DEFINE sent == [cid |-> conversationId, status |-> "sent", existed |-> conversationId # None]
  <2>2. /\ sent \in Requests /\ sent.cid = conversationId /\ sent.status = "sent"
        /\ sent.existed <=> conversationId # None
    BY <1>0 DEF TypeOK, Requests, Status
  <2>3. request \in [Messages -> Requests]
    BY <1>0 DEF TypeOK, Requests
  <2>4. request' = [request EXCEPT ![m] = sent]
    BY <2>1
  <2> HIDE DEF sent
  <2>5. /\ request' \in [Messages -> Requests] /\ request'[m] = sent
        /\ \A n \in Messages \ {m} : request'[n] = request[n]
    BY <2>2, <2>3, <2>4
  <2>6. request[m].status \notin Unsaved
    BY DEF Unsaved
  <2>7. RequestsAreKnown' /\ FirstIdsDiffer' /\ \A c : Known(c) => Known(c)'
    <3>1. request'[m].existed => request'[m].cid # None /\ Known(request'[m].cid)
      BY <1>0, <2>2, <2>5 DEF PageIsKnown
    <3>2. ~request'[m].existed => request'[m].cid = None
      BY <2>2, <2>5
    <3>3. request'[m].status = "sent"
      BY <2>2, <2>5
    <3>. QED
      BY <1>0, <2>5, <2>6, <3>1, <3>2, <3>3, OneRequest
  <2>8. PageIsKnown'
    BY <1>0, <2>7 DEF PageIsKnown
  <2>9. StreamIsCurrent'
    BY <2>1, <2>2, <2>5 DEF StreamIsCurrent
  <2>10. TypeOK'
    <3>1. stream' \in Reading
      BY <2>1 DEF Reading
    <3>2. timers' \subseteq {n \in Messages : request'[n].status = "none"}
      BY <1>0, <2>1, <2>5 DEF TypeOK
    <3>. QED
      BY <1>0, <2>5, <3>1, <3>2 DEF TypeOK, Requests, nets
  <2>. QED
    BY <2>7, <2>8, <2>9, <2>10 DEF IInv
<1>2. CASE stream # None
  <2>1. Abort /\ timers' = timers \cup {m} /\ UNCHANGED request
    BY <1>2 DEF HandleSend
  <2>2. stream' \in Reading \cup {None} /\ (stream' = None \/ stream'.phase = "refresh")
    BY <1>0, <2>1, AbortEnds
  <2>3. StreamIsCurrent'
    BY <2>2 DEF StreamIsCurrent
  <2>4. UNCHANGED server
    BY <2>1 DEF server
  <2>5. PageIsKnown'
    BY <1>0, <2>4 DEF PageIsKnown, Known, FirstAnswers, Sidebar, server
  <2>. QED
    BY <1>0, <2>1, <2>2, <2>3, <2>4, <2>5, PageStep DEF TypeOK, nets
<1>. QED
  BY <1>1, <1>2

(* A step of the page that ends the stream or lets it fetch the list.      *)
LEMMA StopStep ==
  ASSUME IInv, UNCHANGED server, timers' = timers,
         stream' \in Reading \cup {None}, stream' = None \/ stream'.phase = "refresh",
         conversationId' \in {conversationId, None} \cup Sidebar, history' \in Cids \cup {None},
         switching' \in [Slots -> Cids \cup {None}],
         deleting' \subseteq [cid : Cids, isCurrent : BOOLEAN, answer : {"none", "ok", "missing"}]
  PROVE  IInv'
<1>1. StreamIsCurrent'
  BY DEF StreamIsCurrent
<1>2. PageIsKnown'
  BY DEF IInv, PageIsKnown, Known, FirstAnswers, Sidebar, server
<1>3. conversationId' \in Cids \cup {None} /\ timers' \subseteq {m \in Messages : request[m].status = "none"}
  BY DEF IInv, TypeOK, Sidebar
<1>. QED
  BY <1>1, <1>2, <1>3, PageStep

(* A step of the page beside which the stream goes on.                     *)
LEMMA AsideStep ==
  ASSUME IInv, UNCHANGED server, UNCHANGED <<conversationId, stream, timers>>,
         history' \in Cids \cup {None},
         switching' \in [Slots -> Cids \cup {None}],
         deleting' \subseteq [cid : Cids, isCurrent : BOOLEAN, answer : {"none", "ok", "missing"}]
  PROVE  IInv'
<1>1. StreamIsCurrent'
  BY DEF IInv, StreamIsCurrent, server
<1>2. PageIsKnown'
  BY DEF IInv, PageIsKnown, Known, FirstAnswers, Sidebar, server
<1>. QED
  BY <1>1, <1>2, PageStep DEF IInv, TypeOK

-----------------------------------------------------------------------------
(* The steps of the server.                                                *)

(* A step of the server that changes one request leaves the page alone.    *)
LEMMA ServeStep ==
  ASSUME IInv, UNCHANGED <<page, nets>>, request' \in [Messages -> Requests],
         stored' \subseteq Cids, erased' \subseteq Cids \ stored',
         NEW m \in Messages, \A n \in Messages \ {m} : request'[n] = request[n],
         request[m].status \in {"sent", "answering"}, request'[m].status # "none",
         request'[m].cid = request[m].cid \/ (request[m].cid = None /\ ~request[m].existed),
         request'[m].existed = request[m].existed,
         RequestsAreKnown', FirstIdsDiffer', \A c : Known(c) => Known(c)'
  PROVE  IInv'
<1>1. TypeOK /\ StreamIsCurrent /\ PageIsKnown /\ None \notin Messages
  BY PageAssumption DEF IInv
<1>2. timers' \subseteq {n \in Messages : request'[n].status = "none"}
  BY <1>1 DEF TypeOK, page
<1>3. TypeOK'
  BY <1>1, <1>2 DEF TypeOK, Requests, page, nets
<1>4. PageIsKnown'
  BY <1>1 DEF PageIsKnown, page
<1>5. StreamIsCurrent'
  <2> SUFFICES ASSUME stream # None, stream.phase # "refresh", conversationId # None
               PROVE  request'[stream.message].cid = conversationId
    BY DEF StreamIsCurrent, page
  <2>1. stream.message \in Messages /\ request[stream.message].cid = conversationId
    BY <1>1 DEF TypeOK, Reading, StreamIsCurrent
  <2>. QED
    BY <2>1
<1>. QED
  BY <1>3, <1>4, <1>5 DEF IInv

(* A request that changes its status keeps its conversation.               *)
LEMMA StatusBecomes ==
  ASSUME request \in [Messages -> Requests], NEW m \in Messages, NEW status \in Status,
         Becomes(m, status)
  PROVE  /\ request' \in [Messages -> Requests]
         /\ \A n \in Messages \ {m} : request'[n] = request[n]
         /\ request'[m].cid = request[m].cid /\ request'[m].existed = request[m].existed
         /\ request'[m].status = status
BY DEF Becomes, Requests

(* Loading a conversation tells the page only ids that exist.              *)
LEMMA LoadStep ==
  ASSUME IInv, NEW m \in Messages, ServerLoads(m)
  PROVE  IInv'
<1>0. /\ TypeOK /\ RequestsAreKnown /\ request[m].status = "sent"
      /\ UNCHANGED <<page, nets, stored, erased>> /\ Sidebar' = Sidebar
      /\ request \in [Messages -> Requests]
  BY DEF IInv, TypeOK, ServerLoads, Sidebar, Requests
<1>1. CASE request[m].existed
  <2>1. PICK status \in {"answering", "refused"} : Becomes(m, status)
    BY <1>1 DEF ServerLoads
  <2>2. /\ request' \in [Messages -> Requests]
        /\ \A n \in Messages \ {m} : request'[n] = request[n]
        /\ request'[m].cid = request[m].cid /\ request'[m].existed = request[m].existed
        /\ request'[m].status = status
    BY <1>0, <2>1, StatusBecomes DEF Status
  <2>3. request[m].cid # None /\ Known(request[m].cid)
    BY <1>0, <1>1 DEF RequestsAreKnown
  <2>4. RequestsAreKnown' /\ FirstIdsDiffer' /\ \A c : Known(c) => Known(c)'
    BY <1>0, <1>1, <2>2, <2>3, OneRequest
  <2>. QED
    BY <1>0, <2>2, <2>4, ServeStep DEF TypeOK
<1>2. CASE ~request[m].existed
  <2>1. PICK c \in Cids \ (stored \cup erased \cup {request[n].cid : n \in Messages}) :
          request' = [request EXCEPT ![m].cid = c, ![m].status = "answering"]
    BY <1>2 DEF ServerLoads
  <2>2. /\ request' \in [Messages -> Requests]
        /\ \A n \in Messages \ {m} : request'[n] = request[n]
        /\ request'[m].cid = c /\ request'[m].existed = request[m].existed
        /\ request'[m].status = "answering"
    BY <1>0, <2>1 DEF Requests, Status
  <2>3. request[m].cid = None /\ c # None /\ c \notin Sidebar
    BY <1>0, <1>2, <2>1, PageAssumption DEF RequestsAreKnown, Sidebar
  <2>4. RequestsAreKnown' /\ FirstIdsDiffer' /\ \A d : Known(d) => Known(d)'
    <3>1. \A n \in Messages : request[n].cid # request'[m].cid
      BY <2>1, <2>2
    <3>2. request[m].status \notin Unsaved
      BY <1>0 DEF Unsaved
    <3>. QED
      BY <1>0, <1>2, <2>2, <2>3, <3>1, <3>2, OneRequest
  <2>. QED
    BY <1>0, <1>2, <2>2, <2>3, <2>4, ServeStep DEF TypeOK
<1>. QED
  BY <1>1, <1>2

(* A saved first answer makes its own id known, and no other's.            *)
LEMMA SaveStep ==
  ASSUME IInv, NEW m \in Messages, ServerSaves(m)
  PROVE  IInv'
<1>0. /\ TypeOK /\ RequestsAreKnown /\ FirstIdsDiffer /\ request[m].status = "answering"
      /\ UNCHANGED <<page, nets, erased>> /\ request \in [Messages -> Requests]
  BY DEF IInv, TypeOK, ServerSaves, Requests
<1>1. CASE request[m].existed /\ request[m].cid \notin stored
  <2>1. Becomes(m, "failed") /\ UNCHANGED stored /\ Sidebar' = Sidebar
    BY <1>0, <1>1 DEF ServerSaves, Sidebar
  <2>2. /\ request' \in [Messages -> Requests]
        /\ \A n \in Messages \ {m} : request'[n] = request[n]
        /\ request'[m].cid = request[m].cid /\ request'[m].existed = request[m].existed
        /\ request'[m].status = "failed"
    BY <1>0, <2>1, StatusBecomes DEF Status
  <2>3. request[m].cid # None /\ Known(request[m].cid)
    BY <1>0, <1>1 DEF RequestsAreKnown
  <2>4. RequestsAreKnown' /\ FirstIdsDiffer' /\ \A c : Known(c) => Known(c)'
    BY <1>0, <1>1, <2>1, <2>2, <2>3, OneRequest
  <2>. QED
    BY <1>0, <2>1, <2>2, <2>4, ServeStep DEF TypeOK
<1>2. CASE ~request[m].existed \/ request[m].cid \in stored
  <2>1. Becomes(m, "saved") /\ stored' = stored \cup {request[m].cid}
    BY <1>2 DEF ServerSaves
  <2>2. /\ request' \in [Messages -> Requests]
        /\ \A n \in Messages \ {m} : request'[n] = request[n]
        /\ request'[m].cid = request[m].cid /\ request'[m].existed = request[m].existed
        /\ request'[m].status = "saved"
    BY <1>0, <2>1, StatusBecomes DEF Status
  <2>3. /\ request[m].cid # None /\ request[m].cid \in Cids
        /\ request[m].existed => Known(request[m].cid)
        /\ ~request[m].existed => request[m].cid \notin Sidebar
    BY <1>0 DEF RequestsAreKnown, Requests
  <2>4. /\ stored' \subseteq Cids /\ erased' \subseteq Cids \ stored'
        /\ Sidebar' = Sidebar \cup {request[m].cid}
    BY <1>0, <1>2, <2>1, <2>3 DEF TypeOK, Sidebar
  <2>5. \A n \in Messages \ {m} :
          ~request[n].existed /\ request[n].cid # None => request[n].cid \notin Sidebar' \ Sidebar
    BY <1>0, <1>2, <2>3, <2>4 DEF FirstIdsDiffer, Sidebar
  <2>6. request'[m].existed => Known(request'[m].cid)
    BY <2>2, <2>3
  <2>7. ~request'[m].existed =>
          \A n \in Messages \ {m} : ~request[n].existed => request[n].cid # request'[m].cid
    BY <1>0, <2>2, <2>3 DEF FirstIdsDiffer
  <2>8. RequestsAreKnown' /\ FirstIdsDiffer' /\ \A c : Known(c) => Known(c)'
    BY <1>0, <2>2, <2>3, <2>4, <2>5, <2>6, <2>7, OneRequest
  <2>. QED
    BY <1>0, <2>2, <2>4, <2>8, ServeStep
<1>. QED
  BY <1>1, <1>2

(* The answer fails or is given up.                                        *)
LEMMA EndStep ==
  ASSUME IInv, NEW m \in Messages, ServerFails(m) \/ ServerCancels(m)
  PROVE  IInv'
<1>0. /\ TypeOK /\ RequestsAreKnown /\ FirstIdsDiffer /\ request[m].status \in {"sent", "answering"}
      /\ UNCHANGED <<page, nets, stored, erased>> /\ Sidebar' = Sidebar
      /\ request \in [Messages -> Requests]
  BY DEF IInv, TypeOK, ServerFails, ServerCancels, Sidebar, Requests
<1>1. PICK status \in {"failed", "cancelled"} :
        Becomes(m, status) /\ (status = "failed" => request[m].status = "answering")
  BY DEF ServerFails, ServerCancels
<1>2. /\ request' \in [Messages -> Requests]
      /\ \A n \in Messages \ {m} : request'[n] = request[n]
      /\ request'[m].cid = request[m].cid /\ request'[m].existed = request[m].existed
      /\ request'[m].status = status
  BY <1>0, <1>1, StatusBecomes DEF Status
<1>3. /\ request[m].existed => request[m].cid # None /\ Known(request[m].cid)
      /\ request[m].status = "answering" => request[m].cid # None
  BY <1>0 DEF RequestsAreKnown
<1>4. ~request'[m].existed /\ request'[m].cid # None =>
        \A n \in Messages \ {m} : ~request[n].existed => request[n].cid # request'[m].cid
  BY <1>0, <1>2 DEF FirstIdsDiffer
<1>5. request'[m].status \in Unsaved
  BY <1>2 DEF Unsaved
<1>6. RequestsAreKnown' /\ FirstIdsDiffer' /\ \A c : Known(c) => Known(c)'
  BY <1>0, <1>1, <1>2, <1>3, <1>4, <1>5, OneRequest
<1>. QED
  BY <1>0, <1>2, <1>6, ServeStep DEF TypeOK

(* A deletion moves an id within what is known.                            *)
LEMMA DeleteStep ==
  ASSUME IInv, NEW d \in deleting, DeleteExecutes(d)
  PROVE  IInv'
<1>0. /\ TypeOK /\ UNCHANGED <<page, switching, request>>
      /\ d.cid \in Cids /\ d.isCurrent \in BOOLEAN
  BY DEF IInv, TypeOK, DeleteExecutes
<1>1. /\ stored' = stored \ {d.cid} /\ erased' = erased \cup ({d.cid} \cap stored)
      /\ \E answer \in {"ok", "missing"} :
           deleting' = (deleting \ {d}) \cup {[d EXCEPT !.answer = answer]}
  BY DEF DeleteExecutes
<1>2. Sidebar' = Sidebar
  BY <1>1 DEF Sidebar
<1>3. \A c : Known(c)' <=> Known(c)
  BY <1>0, <1>2 DEF Known, FirstAnswers
<1>4. deleting' \subseteq [cid : Cids, isCurrent : BOOLEAN, answer : {"none", "ok", "missing"}]
  BY <1>0, <1>1 DEF TypeOK
<1>5. stored' \subseteq Cids /\ erased' \subseteq Cids \ stored'
  BY <1>0, <1>1 DEF TypeOK
<1>6. TypeOK'
  BY <1>0, <1>4, <1>5 DEF TypeOK, page
<1>7. RequestsAreKnown' /\ FirstIdsDiffer' /\ PageIsKnown' /\ StreamIsCurrent'
  BY <1>0, <1>2, <1>3 DEF IInv, RequestsAreKnown, FirstIdsDiffer, PageIsKnown, StreamIsCurrent, page
<1>. QED
  BY <1>6, <1>7 DEF IInv

-----------------------------------------------------------------------------
(* What the open stream brings.                                            *)
LEMMA MessageStep ==
  ASSUME IInv, MessageEvent
  PROVE  /\ IInv'
         /\ conversationId' # None /\ (conversationId # None => conversationId' = conversationId)
<1> DEFINE m == stream.message
<1>0. /\ TypeOK /\ RequestsAreKnown /\ stream # None /\ stream \in Reading /\ m \in Messages
      /\ request[m].status \in {"answering", "saved", "failed"} /\ stream.phase # "refresh"
      /\ conversationId' = request[m].cid /\ stream' = [stream EXCEPT !.phase = "reading"]
      /\ UNCHANGED <<history, timers, nets, server>>
  BY DEF IInv, TypeOK, MessageEvent, Reading
<1>1. /\ stream' \in Reading /\ stream'.message = m
      /\ conversationId' \in Cids /\ conversationId' # None
  BY <1>0 DEF TypeOK, Reading, RequestsAreKnown
<1>2. conversationId # None => conversationId' = conversationId
  BY <1>0 DEF IInv, StreamIsCurrent
<1>3. Known(conversationId')
  <2>1. CASE request[m].existed
    BY <1>0, <2>1 DEF RequestsAreKnown
  <2>2. CASE ~request[m].existed /\ request[m].status = "saved"
    BY <1>0, <2>2 DEF RequestsAreKnown, Known
  <2>3. CASE ~request[m].existed /\ request[m].status \in Unsaved
    BY <1>0, <2>3 DEF Known, FirstAnswers
  <2>. QED
    BY <1>0, <2>1, <2>2, <2>3 DEF Unsaved
<1>4. PageIsKnown'
  BY <1>0, <1>3 DEF PageIsKnown, Known, FirstAnswers, Sidebar, server
<1>5. StreamIsCurrent'
  BY <1>0, <1>1 DEF StreamIsCurrent, server
<1>6. IInv'
  BY <1>0, <1>1, <1>4, <1>5, PageStep DEF TypeOK, nets
<1>. QED
  BY <1>1, <1>2, <1>6

(* Every step of the page and of the server keeps the invariant.           *)
LEMMA IInvStep == IInv /\ [Next]_vars => IInv'
<1> SUFFICES ASSUME IInv, [Next]_vars PROVE IInv'
  OBVIOUS
<1>0. TypeOK
  BY DEF IInv
<1>1. CASE Stop
  BY <1>0, <1>1, AbortEnds, StopStep DEF Stop, TypeOK, nets
<1>2. CASE ClickNew
  BY <1>0, <1>2, AbortEnds, StopStep DEF ClickNew, OpenNew, TypeOK
<1>3. ASSUME NEW m \in Messages, Submit(m) PROVE IInv'
  BY <1>3, SendStep DEF Submit
<1>4. ASSUME NEW c \in Cids, ClickDelete(c) PROVE IInv'
  <2>1. /\ [cid |-> c, isCurrent |-> c = conversationId, answer |-> "none"]
             \in [cid : Cids, isCurrent : BOOLEAN, answer : {"none", "ok", "missing"}]
        /\ deleting' = deleting \cup {[cid |-> c, isCurrent |-> c = conversationId, answer |-> "none"]}
        /\ UNCHANGED <<page, switching, server>>
    BY <1>4 DEF ClickDelete
  <2>2. deleting' \subseteq [cid : Cids, isCurrent : BOOLEAN, answer : {"none", "ok", "missing"}]
    BY <1>0, <2>1 DEF TypeOK
  <2>. QED
    BY <1>0, <2>1, <2>2, AsideStep DEF TypeOK, page
<1>5. ASSUME NEW c \in Cids, NEW s \in Slots, ClickConversation(c, s) PROVE IInv'
  <2>1. switching' \in [Slots -> Cids \cup {None}]
    BY <1>0, <1>5 DEF ClickConversation, TypeOK
  <2>. QED
    BY <1>0, <1>5, <2>1, AbortEnds, StopStep DEF ClickConversation, TypeOK
<1>6. CASE MessageEvent
  BY <1>6, MessageStep
<1>7. CASE StreamEnds
  <2>1. stream' = None \/ (stream' \in Reading /\ stream'.phase = "refresh")
    BY <1>0, <1>7 DEF StreamEnds, TypeOK, Reading
  <2>. QED
    BY <1>0, <1>7, <2>1, StopStep DEF StreamEnds, TypeOK, nets
<1>8. CASE StreamFails \/ ListArrives
  BY <1>0, <1>8, StopStep DEF StreamFails, ListArrives, TypeOK, nets
<1>9. ASSUME NEW s \in Slots, ConversationArrives(s) PROVE IInv'
  <2>1. /\ switching' \in [Slots -> Cids \cup {None}] /\ switching[s] \in Cids
        /\ UNCHANGED <<timers, deleting, server>>
    BY <1>0, <1>9 DEF ConversationArrives, TypeOK
  <2>2. CASE history' = switching[s] /\ UNCHANGED <<conversationId, stream>>
    BY <1>0, <2>1, <2>2, AsideStep DEF TypeOK
  <2>3. CASE OpenNew
    BY <1>0, <2>1, <2>3, AbortEnds, StopStep DEF OpenNew, TypeOK
  <2>. QED
    BY <1>9, <2>2, <2>3 DEF ConversationArrives
<1>10. ASSUME NEW d \in deleting, DeleteArrives(d) PROVE IInv'
  <2>1. deleting' = deleting \ {d} /\ UNCHANGED <<timers, switching, server>>
    BY <1>10 DEF DeleteArrives
  <2>2. CASE OpenNew
    BY <1>0, <2>1, <2>2, AbortEnds, StopStep DEF OpenNew, TypeOK
  <2>3. CASE UNCHANGED <<conversationId, history, stream>>
    BY <1>0, <2>1, <2>3, AsideStep DEF TypeOK
  <2>. QED
    BY <1>10, <2>2, <2>3 DEF DeleteArrives
<1>11. ASSUME NEW m \in Messages, TimerFires(m) PROVE IInv'
  <2>1. request[m].status = "none"
    BY <1>0, <1>11 DEF TimerFires, TypeOK
  <2>. QED
    BY <1>11, <2>1, SendStep DEF TimerFires
<1>12. CASE UNCHANGED vars
  BY <1>0, <1>12, AsideStep DEF vars, page, nets, TypeOK
<1>. QED
  BY <1>1, <1>2, <1>3, <1>4, <1>5, <1>6, <1>7, <1>8, <1>9, <1>10, <1>11, <1>12,
     LoadStep, SaveStep, EndStep, DeleteStep DEF Next, User, Receive, Serve

-----------------------------------------------------------------------------
(* Whatever arrives in whatever order, the page and the server agree about *)
(* the ids: no conversation that was deleted is stored again, no two first *)
(* answers share an id, and the open stream is of the active conversation. *)
THEOREM Inductive == Spec => []IInv
BY IInvInit, IInvStep, PTL DEF Spec

(* Types; among them, a message that waits has not been sent and what was  *)
(* deleted does not come back.                                             *)
THEOREM TypeCorrect == Spec => []TypeOK
<1>1. IInv => TypeOK
  BY DEF IInv
<1>. QED
  BY <1>1, Inductive, PTL

(* Only the user moves the page from one conversation to another: a late   *)
(* event of an old answer never does, for any numbers of messages and of   *)
(* conversations.                                                          *)
THEOREM NeverSwitched == Spec => StreamNeverSwitches
<1>1. IInv /\ [Next]_vars =>
        [conversationId # None /\ conversationId' \notin {conversationId, None}
           => switching' # switching]_vars
  <2> SUFFICES ASSUME IInv, [Next]_vars, conversationId # None,
                      conversationId' \notin {conversationId, None}
               PROVE  switching' # switching
    OBVIOUS
  <2>1. ~MessageEvent
    BY MessageStep
  <2>2. PICK c \in Cids, s \in Slots : ClickConversation(c, s)
    BY <2>1 DEF Next, User, Receive, Serve, Stop, ClickNew, OpenNew, Submit, ClickDelete,
      StreamEnds, StreamFails, ListArrives, ConversationArrives, DeleteArrives, TimerFires,
      ServerLoads, ServerSaves, ServerFails, ServerCancels, DeleteExecutes, vars, page
  <2>3. switching[s] = None /\ switching' = [switching EXCEPT ![s] = c] /\ c # None
    BY <2>2, PageAssumption DEF ClickConversation
  <2>. QED
    BY <2>2, <2>3 DEF IInv, TypeOK
<1>. QED
  BY <1>1, Inductive, PTL DEF Spec, StreamNeverSwitches

(* A message is refused only for a conversation that was deleted or whose  *)
(* first answer is not stored.                                             *)
THEOREM Refusals == Spec => RefusedForCause
<1>1. IInv /\ [Next]_vars =>
        [\A m \in Messages : request[m].status = "sent" /\ request'[m].status = "refused" =>
           \/ request[m].cid \in erased
           \/ \E n \in FirstAnswers(request[m].cid) :
                request[n].status \in {"answering", "failed", "cancelled"}]_vars
  <2> SUFFICES ASSUME IInv, [Next]_vars, NEW m \in Messages,
                      request[m].status = "sent", request'[m].status = "refused"
               PROVE  \/ request[m].cid \in erased
                      \/ \E n \in FirstAnswers(request[m].cid) :
                           request[n].status \in {"answering", "failed", "cancelled"}
    OBVIOUS
  <2>0. request \in [Messages -> Requests]
    BY DEF IInv, TypeOK, Requests
  <2>1. ServerLoads(m)
    <3>1. ASSUME NEW n \in Messages, HandleSend(n) PROVE FALSE
      BY <2>0, <3>1 DEF HandleSend, StartStream, Requests
    <3>2. ASSUME NEW n \in Messages, NEW status \in Status \ {"refused"}, Becomes(n, status) PROVE FALSE
      BY <2>0, <3>2, StatusBecomes
    <3>3. ASSUME NEW n \in Messages \ {m}, ServerLoads(n) PROVE FALSE
      <4>1. request'[m] = request[m]
        BY <2>0, <3>3 DEF ServerLoads, Becomes, Requests
      <4>. QED
        BY <4>1
    <3>4. ASSUME UNCHANGED request PROVE FALSE
      BY <3>4
    <3>5. ASSUME NEW n \in Messages, ServerSaves(n) \/ ServerFails(n) \/ ServerCancels(n) PROVE FALSE
      BY <3>2, <3>5 DEF ServerSaves, ServerFails, ServerCancels, Status
    <3>. QED
      BY <3>1, <3>3, <3>4, <3>5 DEF Next, User, Receive, Serve, Stop, ClickNew, ClickConversation, Submit,
        ClickDelete, MessageEvent, StreamEnds, StreamFails, ListArrives, ConversationArrives,
        DeleteArrives, TimerFires, DeleteExecutes, vars, server
  <2>2. request[m].existed /\ request[m].cid \notin stored
    <3>1. CASE ~request[m].existed
      <4>1. PICK c \in Cids : request' = [request EXCEPT ![m].cid = c, ![m].status = "answering"]
        BY <2>1, <3>1 DEF ServerLoads
      <4>. QED
        BY <2>0, <4>1 DEF Requests
    <3>2. CASE request[m].existed /\ request[m].cid \in stored
      <4>1. Becomes(m, "answering")
        BY <2>1, <3>2 DEF ServerLoads
      <4>. QED
        BY <2>0, <4>1, StatusBecomes DEF Status
    <3>. QED
      BY <3>1, <3>2
  <2>3. Known(request[m].cid)
    BY <2>2 DEF IInv, RequestsAreKnown
  <2>. QED
    BY <2>2, <2>3 DEF Known, Sidebar, Unsaved
<1>. QED
  BY <1>1, Inductive, PTL DEF Spec, RefusedForCause

=============================================================================

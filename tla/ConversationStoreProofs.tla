---------------------- MODULE ConversationStoreProofs ----------------------
(***************************************************************************)
(* Proofs about ConversationStore, for every set of users, conversations   *)
(* and requests.                                                           *)
(***************************************************************************)
EXTENDS ConversationStore, TLAPS

(* Requests that still have to save a turn they opened or continued. *)
Unsaved(p) == pc[p] \in {"loadConversation", "loadState", "agent"} \cup Saving
Opened(p)  == pc[p] # "new" /\ ~req[p].existed
Creating(p) == Opened(p) /\ Unsaved(p)

(* Locks are held by the requests whose statements took them, on the       *)
(* conversation they work on, and the memory lock only under the other.    *)
LockInv ==
  /\ \A c \in Cids, p \in Requests : convLock[c] = p =>
       /\ Cid(p) = c
       /\ pc[p] \in {"saveConversation", "saveAgentState", "saveCommit",
                     "deleteState", "deleteConversation", "deleteCommit"}
  /\ \A c \in Cids, p \in Requests : stateLock[c] = p =>
       /\ Cid(p) = c
       /\ pc[p] \in {"saveCommit", "deleteConversation", "deleteCommit"}
  /\ \A p \in Requests :
       /\ pc[p] \in {"saveAgentState", "saveCommit", "deleteState",
                     "deleteConversation", "deleteCommit"} => convLock[Cid(p)] = p
       /\ pc[p] = "saveConversation" /\ conv[Cid(p)] # NoRow => convLock[Cid(p)] = p
       /\ pc[p] = "saveCommit" => stateLock[Cid(p)] = p

(* A fresh id belongs to the one request that opened it: until that        *)
(* request commits, nothing is stored or deleted under it.                 *)
FreshInv ==
  /\ \A p \in Requests : pc[p] # "new" => Cid(p) \in issued
  /\ \A c \in Cids \ issued : conv[c] = NoRow /\ c \notin deleted
  /\ \A p, q \in Requests : Opened(p) /\ Opened(q) /\ Cid(p) = Cid(q) => p = q
  /\ \A p \in Requests : Creating(p) =>
       /\ conv[Cid(p)] = NoRow
       /\ Cid(p) \notin deleted
       /\ history[p] = << >> /\ stored[p] = NoRow
  /\ \A p \in Requests : Opened(p) => pc[p] \notin Deleting \cup {"loadState"}

(* The two tables agree. *)
PairInv ==
  \A c \in Cids :
    /\ state[c] # NoRow =>
         /\ Owns(conv[c], state[c].owner)
         /\ state[c].memory = conv[c].turns
         /\ Len(conv[c].turns) =
              state[c].version + (IF conv[c].turns[1] = Legacy THEN 1 ELSE 0)
    /\ conv[c] # NoRow /\ state[c] = NoRow => conv[c].turns = <<Legacy>>
    /\ c \in deleted => conv[c] = NoRow

(* What a request has read is what is stored, unless a later version or a  *)
(* deletion tells it otherwise.                                            *)
ReadInv ==
  \A p \in Requests :
    /\ stored[p] # NoRow =>
         \/ Cid(p) \in deleted
         \/ /\ state[Cid(p)] # NoRow
            /\ stored[p].version <= state[Cid(p)].version
            /\ stored[p].version = state[Cid(p)].version =>
                 stored[p].memory = state[Cid(p)].memory
    /\ /\ pc[p] \in {"loadState", "agent"} \cup Saving
       /\ conv[Cid(p)] # NoRow /\ state[Cid(p)] = NoRow
       => history[p] = conv[Cid(p)].turns
    /\ pc[p] \in {"new", "loadConversation"} =>
         history[p] = << >> /\ stored[p] = NoRow
    /\ pc[p] = "loadState" => stored[p] = NoRow

(* The rows a transaction will install. *)
DraftAt(p) ==
  /\ pc[p] \in {"saveConversation", "saveAgentState", "saveCommit"} =>
       /\ conv[Cid(p)] = NoRow => Opened(p)
       /\ conv[Cid(p)] # NoRow => conv[Cid(p)].owner = User(p)
       /\ draftConv[p] = [owner |-> User(p), turns |-> Append(Turns(Cid(p)), p)]
  /\ pc[p] = "saveCommit" =>
       /\ draftState[p] = [owner |-> User(p), memory |-> MemoryOf(p),
                            version |-> ExpectedVersion(p) + 1]
       /\ Known(p) = Turns(Cid(p))
       /\ ExpectedVersion(p) =
            IF state[Cid(p)] = NoRow THEN 0 ELSE state[Cid(p)].version
  /\ pc[p] \in {"deleteState", "deleteConversation", "deleteCommit"} =>
       Owns(conv[Cid(p)], User(p))
  /\ pc[p] \in {"deleteConversation", "deleteCommit"} =>
       /\ state[Cid(p)] # NoRow => stateLock[Cid(p)] = p
       /\ draftState[p] = NoRow
  /\ pc[p] \in {"new", "deleteLock", "deleteState"} => draftState[p] = NoRow
  /\ pc[p] = "deleteCommit" => draftConv[p] = NoRow

DraftInv == \A p \in Requests : DraftAt(p)

(* A stored turn is that of a request that has committed, in its place. *)
CommittedAfter(t, c, earlier) ==
  /\ Cid(t) = c
  /\ pc[t] \in {"saved", "failed"}
  /\ Known(t) = earlier
TurnInv ==
  \A c \in Cids : \A k \in Written(c) :
    CommittedAfter(Turns(c)[k], c, [i \in 1 .. k - 1 |-> Turns(c)[i]])

SavedInv ==
  \A p \in Requests : pc[p] = "saved" =>
    \/ Cid(p) \in deleted
    \/ \E k \in DOMAIN Turns(Cid(p)) : Turns(Cid(p))[k] = p

IInv == /\ TypeOK /\ LockInv /\ FreshInv /\ PairInv
        /\ ReadInv /\ DraftInv /\ TurnInv /\ SavedInv

-----------------------------------------------------------------------------
(* The statements of the model, by what they change. *)

(* Empty tables and requests that have not arrived are typed.              *)
LEMMA InitTypeOK == Init => TypeOK
<1> SUFFICES ASSUME Init PROVE TypeOK
  OBVIOUS
<1>1. \E r \in Request : TRUE
  <2>1. PICK u \in Users, c \in Cids : TRUE
    BY StoreAssumption
  <2>2. [user |-> u, cid |-> c, existed |-> TRUE] \in Request
    BY <2>1 DEF Request
  <2> QED
    BY <2>2
<1>2. (CHOOSE r \in Request : TRUE) \in Request
  BY <1>1
<1>3. req \in [Requests -> Request]
  BY <1>2 DEF Init
<1>4. conv \in [Cids -> ConvRow \cup {NoRow}]
  <2>1. <<Legacy>> \in Seq(Turn)
    BY DEF Turn
  <2>2. QED
    BY <2>1 DEF Init, ConvRow
<1>5. history \in [Requests -> Seq(Turn)]
  BY DEF Init
<1> QED
  BY <1>3, <1>4, <1>5 DEF Init, TypeOK, Running, Saving, Deleting, Outcome

(* Every statement keeps the types.                                        *)
LEMMA NextTypeOK == TypeOK /\ [Next]_vars => TypeOK'
<1> SUFFICES ASSUME TypeOK, [Next]_vars PROVE TypeOK'
  OBVIOUS
<1> USE DEF TypeOK, Running, Saving, Deleting, Outcome,
            Goto, At, Cid, User, tables, locks, inputs, loaded, drafts
<1>0. ASSUME UNCHANGED vars PROVE TypeOK'
  BY <1>0 DEF vars
<1>1. ASSUME NEW p \in Requests, OpenChat(p) \/ ContinueChat(p) \/ RequestDelete(p)
      PROVE  TypeOK'
  <2>1. PICK r \in Request, statement \in {"loadConversation", "deleteLock"} :
          Arrive(p, r, statement) /\ issued' \subseteq Cids
    BY <1>1 DEF OpenChat, ContinueChat, RequestDelete, Request
  <2> QED
    BY <2>1 DEF Arrive
<1>2. ASSUME NEW p \in Requests, Chat(p) PROVE TypeOK'
  <2>1. CASE LoadConversation(p)
    BY <2>1 DEF LoadConversation, Owns, ConvRow, Request
  <2>2. CASE LoadAgentState(p)
    BY <2>2 DEF LoadAgentState, Owns, StateRow, Request
  <2>3. CASE AgentCompletes(p) \/ AgentFails(p)
    BY <2>3 DEF AgentCompletes, AgentFails
  <2> QED
    BY <1>2, <2>1, <2>2, <2>3 DEF Chat
<1>3. ASSUME NEW p \in Requests, NEW outcome \in Outcome, Rollback(p, outcome)
      PROVE  TypeOK'
  BY <1>3 DEF Rollback, ReleaseLocks, Released
<1>4. ASSUME NEW p \in Requests, Install(p), ReleaseLocks(p)
      PROVE  /\ conv' \in [Cids -> ConvRow \cup {NoRow}]
             /\ state' \in [Cids -> StateRow \cup {NoRow}]
             /\ convLock' \in [Cids -> Requests \cup {Free}]
             /\ stateLock' \in [Cids -> Requests \cup {Free}]
  BY <1>4 DEF Install, ReleaseLocks, Released
<1>5. ASSUME NEW p \in Requests, Save(p) PROVE TypeOK'
  <2>1. ASSUME NEW turns \in Seq(Turn)
        PROVE  Merged(p, turns) \in ConvRow
    BY <2>1 DEF Merged, ConvRow, Turn, Request
  <2>2. CASE SaveLockConversation(p)
    <3>1. << >> \in Seq(Turn) /\ Merged(p, << >>) \in ConvRow
      <4>1. << >> \in Seq(Turn)
        OBVIOUS
      <4> QED
        BY <2>1, <4>1
    <3>2. conv[Cid(p)] # NoRow => conv[Cid(p)].turns \in Seq(Turn)
      BY DEF ConvRow, Request
    <3>3. conv[Cid(p)] # NoRow => Merged(p, conv[Cid(p)].turns) \in ConvRow
      BY <2>1, <3>2
    <3> QED
      BY <2>2, <1>3, <3>1, <3>3 DEF SaveLockConversation, Taken, Request
  <2>3. CASE SaveConversation(p)
    BY <2>3, <1>3 DEF SaveConversation, Taken, Request
  <2>4. CASE SaveAgentState(p)
    <3>1. ExpectedVersion(p) \in Nat /\ MemoryOf(p) \in Seq(Turn)
      BY DEF ExpectedVersion, MemoryOf, Known, StateRow, Turn
    <3>2. [owner |-> User(p), memory |-> MemoryOf(p),
           version |-> ExpectedVersion(p) + 1] \in StateRow
      BY <3>1 DEF StateRow, Request
    <3> QED
      BY <2>4, <1>3, <3>2 DEF SaveAgentState, Taken, Request
  <2>5. CASE SaveCommit(p)
    BY <2>5, <1>4 DEF SaveCommit
  <2> QED
    BY <1>5, <2>2, <2>3, <2>4, <2>5 DEF Save
<1>6. ASSUME NEW p \in Requests, Delete(p) PROVE TypeOK'
  <2>1. CASE DeleteLockConversation(p)
    BY <2>1, <1>3 DEF DeleteLockConversation, Taken, Request
  <2>2. CASE DeleteState(p)
    BY <2>2 DEF DeleteState, Taken, Request
  <2>3. CASE DeleteConversation(p)
    BY <2>3, <1>3 DEF DeleteConversation, Taken, Request
  <2>4. CASE DeleteCommit(p)
    BY <2>4, <1>4 DEF DeleteCommit, Request
  <2> QED
    BY <1>6, <2>1, <2>2, <2>3, <2>4 DEF Delete
<1>7. ASSUME NEW p \in Requests, Abort(p) PROVE TypeOK'
  BY <1>7, <1>3 DEF Abort
<1> QED
  BY <1>0, <1>1, <1>2, <1>5, <1>6, <1>7 DEF Next

(* The rows, locks and requests always have the shape the code gives them. *)
THEOREM TypeCorrect == Spec => []TypeOK
  BY InitTypeOK, NextTypeOK, PTL DEF Spec

(* A request that goes on moves no other.                                  *)
LEMMA GotoStep ==
  ASSUME TypeOK, NEW p \in Requests, NEW s, Goto(p, s)
  PROVE  pc'[p] = s /\ \A q \in Requests \ {p} : pc'[q] = pc[q]
BY DEF TypeOK, Goto

(* What does not involve the request that takes the step stays true.       *)
LEMMA DraftKept ==
  ASSUME NEW q \in Requests, DraftAt(q),
         pc'[q] = pc[q], req'[q] = req[q],
         history'[q] = history[q], stored'[q] = stored[q],
         draftConv'[q] = draftConv[q], draftState'[q] = draftState[q],
         pc[q] \in {"saveConversation", "saveAgentState", "saveCommit",
                    "deleteState", "deleteConversation", "deleteCommit"} =>
           conv'[Cid(q)] = conv[Cid(q)] /\ state'[Cid(q)] = state[Cid(q)],
         stateLock[Cid(q)] = q => stateLock'[Cid(q)] = q
  PROVE  DraftAt(q)'
<1>1. /\ Cid(q)' = Cid(q) /\ User(q)' = User(q)
      /\ Known(q)' = Known(q) /\ ExpectedVersion(q)' = ExpectedVersion(q)
      /\ MemoryOf(q)' = MemoryOf(q) /\ Opened(q)' = Opened(q)
  BY DEF Cid, User, Known, ExpectedVersion, MemoryOf, Opened
<1>2. conv'[Cid(q)] = conv[Cid(q)] => Turns(Cid(q))' = Turns(Cid(q))
  BY <1>1 DEF Turns
<1> QED
  BY <1>1, <1>2 DEF DraftAt, Owns

(* When no row and no finished request changes, stored turns stay what     *)
(* they were computed from.                                                *)
LEMMA TurnsKept ==
  ASSUME TurnInv, conv' = conv,
         \A t \in Requests : pc[t] \in {"saved", "failed"} =>
           /\ pc'[t] = pc[t] /\ req'[t] = req[t]
           /\ history'[t] = history[t] /\ stored'[t] = stored[t]
  PROVE  TurnInv'
<1>1. \A c \in Cids : Turns(c)' = Turns(c) /\ Written(c)' = Written(c)
  BY DEF Turns, Written
<1> SUFFICES ASSUME NEW c \in Cids, NEW k \in Written(c)
             PROVE  CommittedAfter(Turns(c)[k], c, [i \in 1 .. k - 1 |-> Turns(c)[i]])'
  BY <1>1 DEF TurnInv
<1> DEFINE t == Turns(c)[k]
<1>2. t \in Requests /\ CommittedAfter(t, c, [i \in 1 .. k - 1 |-> Turns(c)[i]])
  BY DEF TurnInv, Written
<1>3. CommittedAfter(t, c, [i \in 1 .. k - 1 |-> Turns(c)[i]])'
  <2>1. \A e : CommittedAfter(t, c, e) => pc'[t] \in {"saved", "failed"} /\ req'[t].cid = c
                   /\ (IF stored'[t] = NoRow THEN history'[t] ELSE stored'[t].memory) = e
    BY <1>2 DEF CommittedAfter, Known, Cid
  <2> QED
    BY <1>1, <1>2, <2>1 DEF CommittedAfter, Known, Cid
<1> QED
  BY <1>1, <1>3

(* The agent run, which holds no transaction.                              *)
LEMMA AgentInv ==
  ASSUME NEW p \in Requests, IInv, AgentCompletes(p) \/ AgentFails(p), TypeOK'
  PROVE  IInv'
<1>1. /\ pc[p] = "agent" /\ pc'[p] \in {"saveLock", "failed"}
      /\ \A q \in Requests \ {p} : pc'[q] = pc[q]
  BY GotoStep DEF IInv, AgentCompletes, AgentFails, At
<1>2. UNCHANGED <<conv, state, deleted, convLock, stateLock, issued, req, history, stored, draftConv, draftState>>
  BY DEF AgentCompletes, AgentFails, tables, locks, inputs, loaded, drafts
<1>3. LockInv'
  BY <1>1, <1>2 DEF IInv, LockInv, Cid
<1>4. FreshInv'
  BY <1>1, <1>2 DEF IInv, FreshInv, Cid, Opened, Creating, Unsaved, Saving, Deleting
<1>5. PairInv'
  BY <1>1, <1>2 DEF IInv, PairInv, Owns
<1>6. ReadInv'
  BY <1>1, <1>2 DEF IInv, ReadInv, Cid, Saving
<1>7. DraftInv'
  <2>1. ASSUME NEW q \in Requests, q # p PROVE DraftAt(q)'
    BY <1>1, <1>2, <2>1, DraftKept DEF IInv, DraftInv, Cid
  <2>2. DraftAt(p)'
    BY <1>1, <1>2 DEF IInv, DraftInv, DraftAt, Cid, User, Opened, Owns, Turns, MemoryOf, ExpectedVersion, Known
  <2> QED
    BY <2>1, <2>2 DEF DraftInv
<1>8. TurnInv'
  BY <1>1, <1>2, TurnsKept DEF IInv
<1>9. SavedInv'
  BY <1>1, <1>2 DEF IInv, SavedInv, Cid, Turns
<1> QED
  BY <1>3, <1>4, <1>5, <1>6, <1>7, <1>8, <1>9 DEF IInv

(* How a transaction ends without a commit. *)
Refusal    == {"notFound", "conflict", "failed"}
Refused(p) == \E outcome \in Refusal : Rollback(p, outcome)

(* A rollback drops the drafts and frees the locks.                        *)
LEMMA RollbackInv ==
  ASSUME NEW p \in Requests, IInv, NEW outcome \in Refusal,
         pc[p] \in Running, Rollback(p, outcome), TypeOK'
  PROVE  IInv'
<1>1. /\ pc'[p] \in {"notFound", "conflict", "failed"}
      /\ \A q \in Requests \ {p} : pc'[q] = pc[q]
  BY GotoStep DEF IInv, Rollback, Refusal
<1>2. UNCHANGED <<conv, state, deleted, issued, req, history, stored, draftConv, draftState>>
  BY DEF Rollback, tables, locks, inputs, loaded, drafts
<1>3. \A c \in Cids : /\ convLock'[c] = IF convLock[c] = p THEN Free ELSE convLock[c]
                      /\ stateLock'[c] = IF stateLock[c] = p THEN Free ELSE stateLock[c]
  BY DEF Rollback, ReleaseLocks, Released
<1>4. pc[p] \notin {"new", "saved"} \cup Outcome
  BY DEF Running, Saving, Deleting, Outcome
<1>5. /\ Free \notin Requests
      /\ \A q \in Requests : Cid(q) \in Cids
  BY StoreAssumption DEF IInv, TypeOK, Request, Cid
<1>6. LockInv'
  BY <1>1, <1>2, <1>3, <1>4, <1>5 DEF IInv, LockInv, Cid
<1>7. FreshInv'
  BY <1>1, <1>2, <1>3, <1>4, <1>5 DEF IInv, FreshInv, Cid, Opened, Creating, Unsaved, Saving, Deleting
<1>8. PairInv'
  BY <1>1, <1>2, <1>3, <1>4, <1>5 DEF IInv, PairInv, Owns
<1>9. ReadInv'
  BY <1>1, <1>2, <1>3, <1>4, <1>5 DEF IInv, ReadInv, Cid, Saving
<1>10. DraftInv'
  <2>1. ASSUME NEW q \in Requests, q # p PROVE DraftAt(q)'
    BY <1>1, <1>2, <1>3, <1>4, <1>5, <2>1, DraftKept DEF IInv, DraftInv, Cid
  <2>2. DraftAt(p)'
    BY <1>1, <1>2, <1>3, <1>4, <1>5 DEF IInv, DraftInv, DraftAt, Cid, User, Opened, Owns, Turns, MemoryOf, ExpectedVersion, Known
  <2> QED
    BY <2>1, <2>2 DEF DraftInv
<1>11. TurnInv'
  BY <1>1, <1>2, <1>4, TurnsKept DEF IInv, Outcome
<1>12. SavedInv'
  BY <1>1, <1>2, <1>3, <1>4, <1>5 DEF IInv, SavedInv, Cid, Turns
<1> QED
  BY <1>6, <1>7, <1>8, <1>9, <1>10, <1>11, <1>12 DEF IInv

(* A request arrives with an id that it or somebody before it was given.   *)
LEMMA ArrivalInv ==
  ASSUME NEW p \in Requests, IInv, OpenChat(p) \/ ContinueChat(p) \/ RequestDelete(p), TypeOK'
  PROVE  IInv'
<1>1. PICK r \in Request, statement \in {"loadConversation", "deleteLock"} :
        /\ Arrive(p, r, statement)
        /\ \/ /\ ~r.existed /\ r.cid \notin issued /\ issued' = issued \cup {r.cid}
              /\ statement = "loadConversation"
           \/ r.existed /\ r.cid \in issued /\ issued' = issued
  <2>1. CASE OpenChat(p)
    <3>1. PICK u \in Users, c \in Cids \ issued :
            /\ Arrive(p, [user |-> u, cid |-> c, existed |-> FALSE], "loadConversation")
            /\ issued' = issued \cup {c}
      BY <2>1 DEF OpenChat
    <3> DEFINE r == [user |-> u, cid |-> c, existed |-> FALSE]
    <3>2. r \in Request /\ ~r.existed /\ r.cid = c
      BY DEF Request
    <3> QED
      BY <3>1, <3>2
  <2>2. CASE ContinueChat(p) \/ RequestDelete(p)
    <3>1. PICK u \in Users, c \in issued, statement \in {"loadConversation", "deleteLock"} :
            /\ Arrive(p, [user |-> u, cid |-> c, existed |-> TRUE], statement)
            /\ issued' = issued
      BY <2>2 DEF ContinueChat, RequestDelete
    <3> DEFINE r == [user |-> u, cid |-> c, existed |-> TRUE]
    <3>2. r \in Request /\ r.existed /\ r.cid = c
      BY <3>1 DEF Request, IInv, TypeOK
    <3> QED
      BY <3>1, <3>2
  <2> QED
    BY <2>1, <2>2
<1>2. /\ pc[p] = "new" /\ pc'[p] = statement
      /\ \A q \in Requests \ {p} : pc'[q] = pc[q]
  BY <1>1, GotoStep DEF IInv, Arrive, At
<1>3. /\ req'[p] = r
      /\ \A q \in Requests \ {p} : req'[q] = req[q]
  BY <1>1 DEF IInv, TypeOK, Arrive
<1>4. UNCHANGED <<conv, state, deleted, convLock, stateLock, history, stored, draftConv, draftState>>
  BY <1>1 DEF Arrive, tables, locks, inputs, loaded, drafts
<1>5. r.cid \in Cids /\ r.existed \in BOOLEAN
  BY <1>1 DEF Request
<1>6. /\ Free \notin Requests /\ Cid(p) \in Cids
      /\ \A q \in Requests : Cid(q) \in Cids
  BY StoreAssumption DEF IInv, TypeOK, Request, Cid
<1>7. LockInv'
  BY <1>1, <1>2, <1>3, <1>4, <1>5, <1>6 DEF IInv, LockInv, Cid
<1>8. FreshInv'
  <2>1. \A q \in Requests \ {p} :
          /\ Cid(q)' = Cid(q) /\ Opened(q)' = Opened(q) /\ Creating(q)' = Creating(q)
    BY <1>2, <1>3 DEF Cid, Opened, Creating, Unsaved
  <2>2. Cid(p)' = r.cid /\ (Opened(p)' <=> ~r.existed) /\ r.cid \in issued' /\ issued \subseteq issued'
    BY <1>1, <1>2, <1>3 DEF Cid, Opened
  <2>3. \A q \in Requests \ {p} : Opened(q) /\ ~r.existed => Cid(q) # r.cid
    BY <1>1 DEF IInv, FreshInv, Opened
  <2>4. ~r.existed => conv[r.cid] = NoRow /\ r.cid \notin deleted /\ statement = "loadConversation"
    BY <1>1, <1>5 DEF IInv, FreshInv
  <2>5. history[p] = << >> /\ stored[p] = NoRow
    BY <1>2 DEF IInv, ReadInv
  <2>6. \A q \in Requests : pc'[q] # "new" => Cid(q)' \in issued'
    BY <1>2, <2>1, <2>2 DEF IInv, FreshInv
  <2>7. \A c \in Cids \ issued' : conv'[c] = NoRow /\ c \notin deleted'
    BY <1>4, <2>2 DEF IInv, FreshInv
  <2>8. \A q, q2 \in Requests : Opened(q)' /\ Opened(q2)' /\ Cid(q)' = Cid(q2)' => q = q2
    BY <2>1, <2>2, <2>3 DEF IInv, FreshInv
  <2>9. \A q \in Requests : Creating(q)' =>
          /\ conv'[Cid(q)'] = NoRow /\ Cid(q)' \notin deleted'
          /\ history'[q] = << >> /\ stored'[q] = NoRow
    BY <1>4, <2>1, <2>2, <2>4, <2>5 DEF IInv, FreshInv, Creating
  <2>10. \A q \in Requests : Opened(q)' => pc'[q] \notin Deleting \cup {"loadState"}
    BY <1>2, <2>1, <2>2, <2>4 DEF IInv, FreshInv, Deleting
  <2> QED
    BY <2>6, <2>7, <2>8, <2>9, <2>10 DEF FreshInv
<1>9. PairInv'
  BY <1>1, <1>2, <1>3, <1>4, <1>5, <1>6 DEF IInv, PairInv, Owns
<1>10. ReadInv'
  BY <1>1, <1>2, <1>3, <1>4, <1>5, <1>6 DEF IInv, ReadInv, Cid, Saving
<1>11. DraftInv'
  <2>1. ASSUME NEW q \in Requests, q # p PROVE DraftAt(q)'
    BY <1>1, <1>2, <1>3, <1>4, <1>5, <1>6, <2>1, DraftKept DEF IInv, DraftInv, Cid
  <2>2. DraftAt(p)'
    BY <1>1, <1>2, <1>3, <1>4, <1>5, <1>6 DEF IInv, DraftInv, DraftAt, Cid, User, Opened, Owns, Turns, MemoryOf, ExpectedVersion, Known
  <2> QED
    BY <2>1, <2>2 DEF DraftInv
<1>12. TurnInv'
  BY <1>1, <1>2, <1>3, <1>4, <1>5, <1>6, TurnsKept DEF IInv
<1>13. SavedInv'
  BY <1>1, <1>2, <1>3, <1>4, <1>5, <1>6 DEF IInv, SavedInv, Cid, Turns
<1> QED
  BY <1>7, <1>8, <1>9, <1>10, <1>11, <1>12, <1>13 DEF IInv

(* load_conversation reads what is stored.                                 *)
LEMMA LoadConversationInv ==
  ASSUME NEW p \in Requests, IInv, LoadConversation(p), TypeOK'
  PROVE  IInv'
<1>1. /\ pc[p] = "loadConversation"
      /\ \A q \in Requests \ {p} : pc'[q] = pc[q]
      /\ \A q \in Requests \ {p} : history'[q] = history[q]
  BY GotoStep DEF IInv, TypeOK, LoadConversation, At
<1>2. \/ /\ Owns(conv[Cid(p)], User(p)) /\ pc'[p] = "loadState"
         /\ history'[p] = conv[Cid(p)].turns
      \/ /\ history'[p] = history[p]
         /\ \/ req[p].existed /\ pc'[p] = "notFound"
            \/ ~req[p].existed /\ pc'[p] = "agent"
  BY GotoStep DEF IInv, TypeOK, LoadConversation
<1>3. UNCHANGED <<conv, state, deleted, convLock, stateLock, issued, req, stored, draftConv, draftState>>
  BY DEF LoadConversation, tables, locks, inputs, loaded, drafts
<1>4. /\ Free \notin Requests /\ Cid(p) \in Cids
      /\ \A q \in Requests : Cid(q) \in Cids
  BY StoreAssumption DEF IInv, TypeOK, Request, Cid
<1>5. LockInv'
  BY <1>1, <1>2, <1>3, <1>4 DEF IInv, LockInv, Cid
<1>6. FreshInv'
  BY <1>1, <1>2, <1>3, <1>4 DEF IInv, FreshInv, Cid, Opened, Creating, Unsaved, Saving, Deleting, Owns
<1>7. PairInv'
  BY <1>1, <1>2, <1>3, <1>4 DEF IInv, PairInv, Owns
<1>8. ReadInv'
  BY <1>1, <1>2, <1>3, <1>4 DEF IInv, ReadInv, FreshInv, Opened, Creating, Unsaved, Cid, Saving, Owns
<1>9. DraftInv'
  <2>1. ASSUME NEW q \in Requests, q # p PROVE DraftAt(q)'
    BY <1>1, <1>2, <1>3, <1>4, <2>1, DraftKept DEF IInv, DraftInv, Cid
  <2>2. DraftAt(p)'
    BY <1>1, <1>2, <1>3, <1>4 DEF IInv, DraftInv, DraftAt, Cid, User, Opened, Owns, Turns, MemoryOf, ExpectedVersion, Known
  <2> QED
    BY <2>1, <2>2 DEF DraftInv
<1>10. TurnInv'
  BY <1>1, <1>2, <1>3, <1>4, TurnsKept DEF IInv
<1>11. SavedInv'
  BY <1>1, <1>2, <1>3, <1>4 DEF IInv, SavedInv, Cid, Turns
<1> QED
  BY <1>5, <1>6, <1>7, <1>8, <1>9, <1>10, <1>11 DEF IInv

(* load_agent_state reads the memory that belongs to what was read, or a   *)
(* later one whose version tells.                                          *)
LEMMA LoadAgentStateInv ==
  ASSUME NEW p \in Requests, IInv, LoadAgentState(p), TypeOK'
  PROVE  IInv'
<1>1. /\ pc[p] = "loadState" /\ pc'[p] = "agent"
      /\ \A q \in Requests \ {p} : pc'[q] = pc[q]
      /\ \A q \in Requests \ {p} : stored'[q] = stored[q]
  BY GotoStep DEF IInv, TypeOK, LoadAgentState, At
<1>2. stored'[p] \in {NoRow, state[Cid(p)]}
  BY DEF IInv, TypeOK, LoadAgentState
<1>3. UNCHANGED <<conv, state, deleted, convLock, stateLock, issued, req, history, draftConv, draftState>>
  BY DEF LoadAgentState, tables, locks, inputs, loaded, drafts
<1>4. /\ Free \notin Requests /\ Cid(p) \in Cids
      /\ \A q \in Requests : Cid(q) \in Cids
  BY StoreAssumption DEF IInv, TypeOK, Request, Cid
<1>5. state[Cid(p)] # NoRow => state[Cid(p)].version \in Nat
  BY <1>4 DEF IInv, TypeOK, StateRow
<1>6. LockInv'
  BY <1>1, <1>2, <1>3, <1>4, <1>5 DEF IInv, LockInv, Cid
<1>7. FreshInv'
  BY <1>1, <1>2, <1>3, <1>4, <1>5 DEF IInv, FreshInv, Cid, Opened, Creating, Unsaved, Saving, Deleting
<1>8. PairInv'
  BY <1>1, <1>2, <1>3, <1>4, <1>5 DEF IInv, PairInv, Owns
<1>9. ReadInv'
  BY <1>1, <1>2, <1>3, <1>4, <1>5 DEF IInv, ReadInv, Cid, Saving
<1>10. DraftInv'
  <2>1. ASSUME NEW q \in Requests, q # p PROVE DraftAt(q)'
    BY <1>1, <1>2, <1>3, <1>4, <1>5, <2>1, DraftKept DEF IInv, DraftInv, Cid
  <2>2. DraftAt(p)'
    BY <1>1, <1>2, <1>3, <1>4, <1>5 DEF IInv, DraftInv, DraftAt, Cid, User, Opened, Owns, Turns, MemoryOf, ExpectedVersion, Known
  <2> QED
    BY <2>1, <2>2 DEF DraftInv
<1>11. TurnInv'
  BY <1>1, <1>2, <1>3, <1>4, <1>5, TurnsKept DEF IInv
<1>12. SavedInv'
  BY <1>1, <1>2, <1>3, <1>4, <1>5 DEF IInv, SavedInv, Cid, Turns
<1> QED
  BY <1>6, <1>7, <1>8, <1>9, <1>10, <1>11, <1>12 DEF IInv

(* SELECT ... FOR UPDATE of a save takes a free lock.                      *)
LEMMA SaveLockInv ==
  ASSUME NEW p \in Requests, IInv, SaveLockConversation(p), ~Refused(p), TypeOK'
  PROVE  IInv'
<1>1. /\ pc[p] = "saveLock" /\ pc'[p] = "saveConversation"
      /\ \A q \in Requests \ {p} : pc'[q] = pc[q]
      /\ \A q \in Requests \ {p} : draftConv'[q] = draftConv[q]
  BY GotoStep DEF IInv, TypeOK, SaveLockConversation, At, Refused, Refusal
<1>2. /\ draftConv'[p] = [owner |-> User(p), turns |-> Append(Turns(Cid(p)), p)]
      /\ \/ conv[Cid(p)] = NoRow /\ ~req[p].existed /\ convLock' = convLock
         \/ /\ conv[Cid(p)] # NoRow /\ conv[Cid(p)].owner = User(p)
            /\ convLock[Cid(p)] \in {Free, p}
            /\ \A c \in Cids : convLock'[c] = IF c = Cid(p) THEN p ELSE convLock[c]
  <2>1. \A row : draftConv' = [draftConv EXCEPT ![p] = row] => draftConv'[p] = row
    BY DEF IInv, TypeOK
  <2>2. CASE conv[Cid(p)] = NoRow
    BY <2>1, <2>2 DEF SaveLockConversation, Refused, Refusal, MayCreate, Merged, Turns, locks
  <2>3. CASE conv[Cid(p)] # NoRow
    <3>1. /\ conv[Cid(p)].owner = User(p) /\ Available(convLock, Cid(p), p)
          /\ convLock' = Taken(convLock, Cid(p), p)
          /\ draftConv' = [draftConv EXCEPT ![p] = Merged(p, conv[Cid(p)].turns)]
      BY <2>3 DEF SaveLockConversation, Refused, Refusal
    <3>2. \A c \in Cids : convLock'[c] = IF c = Cid(p) THEN p ELSE convLock[c]
      BY <3>1 DEF IInv, TypeOK, Taken
    <3>3. draftConv'[p] = Merged(p, Turns(Cid(p)))
      BY <2>1, <2>3, <3>1 DEF Turns
    <3> QED
      BY <2>3, <3>1, <3>2, <3>3 DEF Available, Merged
  <2> QED
    BY <2>2, <2>3
<1>3. UNCHANGED <<conv, state, deleted, stateLock, issued, req, history, stored, draftState>>
  BY DEF SaveLockConversation, Refused, Refusal, tables, locks, inputs, loaded, drafts
<1>4. /\ Free \notin Requests /\ Cid(p) \in Cids
      /\ \A q \in Requests : Cid(q) \in Cids
  BY StoreAssumption DEF IInv, TypeOK, Request, Cid
<1>5. LockInv'
  BY <1>1, <1>2, <1>3, <1>4 DEF IInv, LockInv, Cid
<1>6. FreshInv'
  BY <1>1, <1>2, <1>3, <1>4 DEF IInv, FreshInv, Cid, Opened, Creating, Unsaved, Saving, Deleting
<1>7. PairInv'
  BY <1>1, <1>2, <1>3, <1>4 DEF IInv, PairInv, Owns
<1>8. ReadInv'
  BY <1>1, <1>2, <1>3, <1>4 DEF IInv, ReadInv, Cid, Saving
<1>9. DraftInv'
  <2>1. ASSUME NEW q \in Requests, q # p PROVE DraftAt(q)'
    BY <1>1, <1>2, <1>3, <1>4, <2>1, DraftKept DEF IInv, DraftInv, Cid
  <2>2. DraftAt(p)'
    BY <1>1, <1>2, <1>3, <1>4 DEF IInv, DraftInv, DraftAt, Cid, User, Opened, Owns, Turns, MemoryOf, ExpectedVersion, Known
  <2> QED
    BY <2>1, <2>2 DEF DraftInv
<1>10. TurnInv'
  BY <1>1, <1>2, <1>3, <1>4, TurnsKept DEF IInv
<1>11. SavedInv'
  BY <1>1, <1>2, <1>3, <1>4 DEF IInv, SavedInv, Cid, Turns
<1> QED
  BY <1>5, <1>6, <1>7, <1>8, <1>9, <1>10, <1>11 DEF IInv

(* The upsert drafts the transcript with one turn more.                    *)
LEMMA SaveConversationInv ==
  ASSUME NEW p \in Requests, IInv, SaveConversation(p), ~Refused(p), TypeOK'
  PROVE  IInv'
<1>1. /\ pc[p] = "saveConversation" /\ pc'[p] = "saveAgentState"
      /\ \A q \in Requests \ {p} : pc'[q] = pc[q]
  BY GotoStep DEF IInv, TypeOK, SaveConversation, At, Refused, Refusal
<1>2. /\ convLock[Cid(p)] \in {Free, p}
      /\ \A c \in Cids : convLock'[c] = IF c = Cid(p) THEN p ELSE convLock[c]
  BY DEF IInv, TypeOK, SaveConversation, Refused, Refusal, Available, Taken
<1>3. UNCHANGED <<conv, state, deleted, stateLock, issued, req, history, stored, draftConv, draftState>>
  BY DEF SaveConversation, Refused, Refusal, tables, locks, inputs, loaded, drafts
<1>4. /\ Free \notin Requests /\ Cid(p) \in Cids
      /\ \A q \in Requests : Cid(q) \in Cids
  BY StoreAssumption DEF IInv, TypeOK, Request, Cid
<1>5. LockInv'
  BY <1>1, <1>2, <1>3, <1>4 DEF IInv, LockInv, Cid
<1>6. FreshInv'
  BY <1>1, <1>2, <1>3, <1>4 DEF IInv, FreshInv, Cid, Opened, Creating, Unsaved, Saving, Deleting
<1>7. PairInv'
  BY <1>1, <1>2, <1>3, <1>4 DEF IInv, PairInv, Owns
<1>8. ReadInv'
  BY <1>1, <1>2, <1>3, <1>4 DEF IInv, ReadInv, Cid, Saving
<1>9. DraftInv'
  <2>1. ASSUME NEW q \in Requests, q # p PROVE DraftAt(q)'
    BY <1>1, <1>2, <1>3, <1>4, <2>1, DraftKept DEF IInv, DraftInv, Cid
  <2>2. DraftAt(p)'
    BY <1>1, <1>2, <1>3, <1>4 DEF IInv, DraftInv, DraftAt, Cid, User, Opened, Owns, Turns, MemoryOf, ExpectedVersion, Known
  <2> QED
    BY <2>1, <2>2 DEF DraftInv
<1>10. TurnInv'
  BY <1>1, <1>2, <1>3, <1>4, TurnsKept DEF IInv
<1>11. SavedInv'
  BY <1>1, <1>2, <1>3, <1>4 DEF IInv, SavedInv, Cid, Turns
<1> QED
  BY <1>5, <1>6, <1>7, <1>8, <1>9, <1>10, <1>11 DEF IInv

(* The write of the memory passes only at the version that was read.       *)
LEMMA SaveAgentStateInv ==
  ASSUME NEW p \in Requests, IInv, SaveAgentState(p), ~Refused(p), TypeOK'
  PROVE  IInv'
<1>1. /\ pc[p] = "saveAgentState" /\ pc'[p] = "saveCommit"
      /\ \A q \in Requests \ {p} : pc'[q] = pc[q]
      /\ \A q \in Requests \ {p} : draftState'[q] = draftState[q]
  BY GotoStep DEF IInv, TypeOK, SaveAgentState, At, Refused, Refusal
<1>2. /\ draftState'[p] = [owner |-> User(p), memory |-> MemoryOf(p),
                           version |-> ExpectedVersion(p) + 1]
      /\ MayReplace(p, state[Cid(p)])
      /\ stateLock[Cid(p)] \in {Free, p}
      /\ \A c \in Cids : stateLock'[c] = IF c = Cid(p) THEN p ELSE stateLock[c]
  BY DEF IInv, TypeOK, SaveAgentState, Refused, Refusal, Available, Taken
<1>3. UNCHANGED <<conv, state, deleted, convLock, issued, req, history, stored, draftConv>>
  BY DEF SaveAgentState, Refused, Refusal, tables, locks, inputs, loaded, drafts
<1>4. /\ Free \notin Requests /\ Cid(p) \in Cids
      /\ \A q \in Requests : Cid(q) \in Cids
  BY StoreAssumption DEF IInv, TypeOK, Request, Cid
<1>5. /\ stored[p] # NoRow => stored[p].version \in Nat \ {0}
      /\ state[Cid(p)] # NoRow => state[Cid(p)].version \in Nat \ {0}
  BY <1>4 DEF IInv, TypeOK, StateRow
<1>6. /\ Known(p) = Turns(Cid(p))
      /\ ExpectedVersion(p) =
           IF state[Cid(p)] = NoRow THEN 0 ELSE state[Cid(p)].version
  <2>1. CASE state[Cid(p)] # NoRow
    BY <1>1, <1>2, <1>4, <1>5, <2>1
       DEF IInv, PairInv, ReadInv, MayReplace, ExpectedVersion, Known, Turns, Owns
  <2>2. CASE state[Cid(p)] = NoRow /\ conv[Cid(p)] # NoRow
    BY <1>1, <1>4, <2>2
       DEF IInv, PairInv, ReadInv, ExpectedVersion, Known, Turns, Saving
  <2>3. CASE state[Cid(p)] = NoRow /\ conv[Cid(p)] = NoRow
    BY <1>1, <1>4, <2>3 DEF IInv, FreshInv, DraftInv, DraftAt, ExpectedVersion, Known, Turns,
       Creating, Unsaved, Saving
  <2> QED
    BY <2>1, <2>2, <2>3
<1>7. LockInv'
  BY <1>1, <1>2, <1>3, <1>4, <1>5, <1>6 DEF IInv, LockInv, Cid
<1>8. FreshInv'
  BY <1>1, <1>2, <1>3, <1>4, <1>5, <1>6 DEF IInv, FreshInv, Cid, Opened, Creating, Unsaved, Saving, Deleting
<1>9. PairInv'
  BY <1>1, <1>2, <1>3, <1>4, <1>5, <1>6 DEF IInv, PairInv, Owns
<1>10. ReadInv'
  BY <1>1, <1>2, <1>3, <1>4, <1>5, <1>6 DEF IInv, ReadInv, Cid, Saving
<1>11. DraftInv'
  <2>1. ASSUME NEW q \in Requests, q # p PROVE DraftAt(q)'
    BY <1>1, <1>2, <1>3, <1>4, <1>5, <1>6, <2>1, DraftKept DEF IInv, DraftInv, Cid
  <2>2. DraftAt(p)'
    BY <1>1, <1>2, <1>3, <1>4, <1>5, <1>6 DEF IInv, DraftInv, DraftAt, Cid, User, Opened, Owns, Turns, MemoryOf, ExpectedVersion, Known
  <2> QED
    BY <2>1, <2>2 DEF DraftInv
<1>12. TurnInv'
  BY <1>1, <1>2, <1>3, <1>4, <1>5, <1>6, TurnsKept DEF IInv
<1>13. SavedInv'
  BY <1>1, <1>2, <1>3, <1>4, <1>5, <1>6 DEF IInv, SavedInv, Cid, Turns
<1> QED
  BY <1>7, <1>8, <1>9, <1>10, <1>11, <1>12, <1>13 DEF IInv

(* SELECT ... FOR UPDATE of a deletion takes a free lock.                  *)
LEMMA DeleteLockInv ==
  ASSUME NEW p \in Requests, IInv, DeleteLockConversation(p), ~Refused(p), TypeOK'
  PROVE  IInv'
<1>1. /\ pc[p] = "deleteLock" /\ pc'[p] = "deleteState"
      /\ \A q \in Requests \ {p} : pc'[q] = pc[q]
  BY GotoStep DEF IInv, TypeOK, DeleteLockConversation, At, Refused, Refusal
<1>2. /\ Owns(conv[Cid(p)], User(p))
      /\ convLock[Cid(p)] \in {Free, p}
      /\ \A c \in Cids : convLock'[c] = IF c = Cid(p) THEN p ELSE convLock[c]
  BY DEF IInv, TypeOK, DeleteLockConversation, Refused, Refusal, Available, Taken
<1>3. UNCHANGED <<conv, state, deleted, stateLock, issued, req, history, stored, draftConv, draftState>>
  BY DEF DeleteLockConversation, Refused, Refusal, tables, locks, inputs, loaded, drafts
<1>4. /\ Free \notin Requests /\ Cid(p) \in Cids
      /\ \A q \in Requests : Cid(q) \in Cids
  BY StoreAssumption DEF IInv, TypeOK, Request, Cid
<1>5. LockInv'
  BY <1>1, <1>2, <1>3, <1>4 DEF IInv, LockInv, Cid
<1>6. FreshInv'
  BY <1>1, <1>2, <1>3, <1>4 DEF IInv, FreshInv, Cid, Opened, Creating, Unsaved, Saving, Deleting
<1>7. PairInv'
  BY <1>1, <1>2, <1>3, <1>4 DEF IInv, PairInv, Owns
<1>8. ReadInv'
  BY <1>1, <1>2, <1>3, <1>4 DEF IInv, ReadInv, Cid, Saving
<1>9. DraftInv'
  <2>1. ASSUME NEW q \in Requests, q # p PROVE DraftAt(q)'
    BY <1>1, <1>2, <1>3, <1>4, <2>1, DraftKept DEF IInv, DraftInv, Cid
  <2>2. DraftAt(p)'
    BY <1>1, <1>2, <1>3, <1>4 DEF IInv, DraftInv, DraftAt, Cid, User, Opened, Owns, Turns, MemoryOf, ExpectedVersion, Known
  <2> QED
    BY <2>1, <2>2 DEF DraftInv
<1>10. TurnInv'
  BY <1>1, <1>2, <1>3, <1>4, TurnsKept DEF IInv
<1>11. SavedInv'
  BY <1>1, <1>2, <1>3, <1>4 DEF IInv, SavedInv, Cid, Turns
<1> QED
  BY <1>5, <1>6, <1>7, <1>8, <1>9, <1>10, <1>11 DEF IInv

(* The deletion of the memory is a draft, too.                             *)
LEMMA DeleteStateInv ==
  ASSUME NEW p \in Requests, IInv, DeleteState(p), TypeOK'
  PROVE  IInv'
<1>1. /\ pc[p] = "deleteState" /\ pc'[p] = "deleteConversation"
      /\ \A q \in Requests \ {p} : pc'[q] = pc[q]
      /\ \A q \in Requests \ {p} : draftState'[q] = draftState[q]
  BY GotoStep DEF IInv, TypeOK, DeleteState, At
<1>2. \/ /\ Owns(state[Cid(p)], User(p))
         /\ stateLock[Cid(p)] \in {Free, p} /\ draftState'[p] = NoRow
         /\ \A c \in Cids : stateLock'[c] = IF c = Cid(p) THEN p ELSE stateLock[c]
      \/ /\ ~Owns(state[Cid(p)], User(p))
         /\ stateLock' = stateLock /\ draftState' = draftState
  BY DEF IInv, TypeOK, DeleteState, Available, Taken
<1>3. UNCHANGED <<conv, state, deleted, convLock, issued, req, history, stored, draftConv>>
  BY DEF DeleteState, tables, locks, inputs, loaded, drafts
<1>4. /\ Free \notin Requests /\ Cid(p) \in Cids
      /\ \A q \in Requests : Cid(q) \in Cids
  BY StoreAssumption DEF IInv, TypeOK, Request, Cid
<1>5. LockInv'
  BY <1>1, <1>2, <1>3, <1>4 DEF IInv, LockInv, Cid
<1>6. FreshInv'
  BY <1>1, <1>2, <1>3, <1>4 DEF IInv, FreshInv, Cid, Opened, Creating, Unsaved, Saving, Deleting
<1>7. PairInv'
  BY <1>1, <1>2, <1>3, <1>4 DEF IInv, PairInv, Owns
<1>8. ReadInv'
  BY <1>1, <1>2, <1>3, <1>4 DEF IInv, ReadInv, Cid, Saving
<1>9. DraftInv'
  <2>1. ASSUME NEW q \in Requests, q # p PROVE DraftAt(q)'
    BY <1>1, <1>2, <1>3, <1>4, <2>1, DraftKept DEF IInv, DraftInv, Cid
  <2>2. DraftAt(p)'
    <3>1. Owns(conv[Cid(p)], User(p)) /\ draftState[p] = NoRow
      BY <1>1 DEF IInv, DraftInv, DraftAt
    <3>2. state[Cid(p)] # NoRow => Owns(state[Cid(p)], User(p))
      BY <1>4, <3>1 DEF IInv, PairInv, Owns
    <3>3. draftState'[p] = NoRow /\ (state[Cid(p)] # NoRow => stateLock'[Cid(p)] = p)
      BY <1>2, <1>4, <3>1, <3>2
    <3> QED
      BY <1>1, <1>3, <3>1, <3>3 DEF DraftAt, Cid, User
  <2> QED
    BY <2>1, <2>2 DEF DraftInv
<1>10. TurnInv'
  BY <1>1, <1>2, <1>3, <1>4, TurnsKept DEF IInv
<1>11. SavedInv'
  BY <1>1, <1>2, <1>3, <1>4 DEF IInv, SavedInv, Cid, Turns
<1> QED
  BY <1>5, <1>6, <1>7, <1>8, <1>9, <1>10, <1>11 DEF IInv

(* So is that of the transcript.                                           *)
LEMMA DeleteConversationInv ==
  ASSUME NEW p \in Requests, IInv, DeleteConversation(p), ~Refused(p), TypeOK'
  PROVE  IInv'
<1>1. /\ pc[p] = "deleteConversation" /\ pc'[p] = "deleteCommit"
      /\ \A q \in Requests \ {p} : pc'[q] = pc[q]
      /\ \A q \in Requests \ {p} : draftConv'[q] = draftConv[q]
  BY GotoStep DEF IInv, TypeOK, DeleteConversation, At, Refused, Refusal
<1>2. /\ draftConv'[p] = NoRow
      /\ convLock[Cid(p)] \in {Free, p}
      /\ \A c \in Cids : convLock'[c] = IF c = Cid(p) THEN p ELSE convLock[c]
  BY DEF IInv, TypeOK, DeleteConversation, Refused, Refusal, Available, Taken
<1>3. UNCHANGED <<conv, state, deleted, stateLock, issued, req, history, stored, draftState>>
  BY DEF DeleteConversation, Refused, Refusal, tables, locks, inputs, loaded, drafts
<1>4. /\ Free \notin Requests /\ Cid(p) \in Cids
      /\ \A q \in Requests : Cid(q) \in Cids
  BY StoreAssumption DEF IInv, TypeOK, Request, Cid
<1>5. LockInv'
  BY <1>1, <1>2, <1>3, <1>4 DEF IInv, LockInv, Cid
<1>6. FreshInv'
  BY <1>1, <1>2, <1>3, <1>4 DEF IInv, FreshInv, Cid, Opened, Creating, Unsaved, Saving, Deleting
<1>7. PairInv'
  BY <1>1, <1>2, <1>3, <1>4 DEF IInv, PairInv, Owns
<1>8. ReadInv'
  BY <1>1, <1>2, <1>3, <1>4 DEF IInv, ReadInv, Cid, Saving
<1>9. DraftInv'
  <2>1. ASSUME NEW q \in Requests, q # p PROVE DraftAt(q)'
    BY <1>1, <1>2, <1>3, <1>4, <2>1, DraftKept DEF IInv, DraftInv, Cid
  <2>2. DraftAt(p)'
    BY <1>1, <1>2, <1>3, <1>4 DEF IInv, DraftInv, DraftAt, Cid, User, Opened, Owns, Turns, MemoryOf, ExpectedVersion, Known
  <2> QED
    BY <2>1, <2>2 DEF DraftInv
<1>10. TurnInv'
  BY <1>1, <1>2, <1>3, <1>4, TurnsKept DEF IInv
<1>11. SavedInv'
  BY <1>1, <1>2, <1>3, <1>4 DEF IInv, SavedInv, Cid, Turns
<1> QED
  BY <1>5, <1>6, <1>7, <1>8, <1>9, <1>10, <1>11 DEF IInv

(* A commit changes the rows of one conversation, in both tables at once.  *)
LEMMA SaveCommitFrame ==
  ASSUME NEW p \in Requests, IInv, SaveCommit(p), TypeOK'
  PROVE  /\ pc[p] = "saveCommit" /\ pc'[p] \in {"saved", "failed"}
         /\ \A q \in Requests \ {p} : pc'[q] = pc[q]
         /\ UNCHANGED <<deleted, issued, req, history, stored, draftConv, draftState>>
         /\ Cid(p) \in Cids /\ convLock[Cid(p)] = p /\ Turns(Cid(p)) \in Seq(Turn)
         /\ conv'[Cid(p)] = [owner |-> User(p), turns |-> Append(Turns(Cid(p)), p)]
         /\ conv'[Cid(p)] # NoRow /\ conv'[Cid(p)].owner = User(p) /\ conv'[Cid(p)].turns = Append(Turns(Cid(p)), p)
         /\ state'[Cid(p)] # NoRow /\ state'[Cid(p)].owner = User(p)
         /\ state'[Cid(p)].memory = Append(Turns(Cid(p)), p) /\ state'[Cid(p)].version = ExpectedVersion(p) + 1
         /\ \A c \in Cids \ {Cid(p)} : conv'[c] = conv[c] /\ state'[c] = state[c]
         /\ \A c \in Cids : /\ convLock'[c] = IF convLock[c] = p THEN Free ELSE convLock[c]
                            /\ stateLock'[c] = IF stateLock[c] = p THEN Free ELSE stateLock[c]
<1> DEFINE c0 == Cid(p)
           turns == Append(Turns(c0), p)
<1>1. /\ pc[p] = "saveCommit" /\ pc'[p] \in {"saved", "failed"}
      /\ \A q \in Requests \ {p} : pc'[q] = pc[q]
  BY GotoStep DEF IInv, SaveCommit, At
<1>2. UNCHANGED <<deleted, issued, req, history, stored, draftConv, draftState>>
  BY DEF SaveCommit, inputs, loaded, drafts
<1>3. c0 \in Cids
  BY DEF IInv, TypeOK, Request, Cid
<1>4. /\ convLock[c0] = p /\ stateLock[c0] = p
      /\ \A c \in Cids \ {c0} : convLock[c] # p /\ stateLock[c] # p
  BY <1>1 DEF IInv, LockInv
<1>5. /\ draftConv[p] = [owner |-> User(p), turns |-> turns]
      /\ draftState[p] = [owner |-> User(p), memory |-> MemoryOf(p),
                          version |-> ExpectedVersion(p) + 1]
      /\ MemoryOf(p) = turns
  BY <1>1 DEF IInv, DraftInv, DraftAt, MemoryOf
<1>6. Turns(c0) \in Seq(Turn)
  BY <1>3 DEF IInv, TypeOK, Turns, ConvRow
<1>7. /\ conv'[c0] = draftConv[p] /\ state'[c0] = draftState[p]
      /\ \A c \in Cids \ {c0} : conv'[c] = conv[c] /\ state'[c] = state[c]
  BY <1>3, <1>4 DEF SaveCommit, Install
<1>8. /\ [owner |-> User(p), turns |-> turns] \in ConvRow
      /\ draftState[p] \in StateRow
  <2>1. User(p) \in Users
    BY DEF IInv, TypeOK, Request, User
  <2>2. turns \in Seq(Turn)
    BY <1>6 DEF Turn
  <2>3. ExpectedVersion(p) \in Nat
    BY DEF IInv, TypeOK, StateRow, ExpectedVersion
  <2> QED
    BY <1>5, <2>1, <2>2, <2>3 DEF ConvRow, StateRow
<1>9. NoRow \notin ConvRow /\ NoRow \notin StateRow
  BY StoreAssumption DEF ConvRow, StateRow, Turn
<1>10. \A c \in Cids : /\ convLock'[c] = IF convLock[c] = p THEN Free ELSE convLock[c]
                       /\ stateLock'[c] = IF stateLock[c] = p THEN Free ELSE stateLock[c]
  BY DEF SaveCommit, ReleaseLocks, Released
<1>11. /\ conv'[c0] = [owner |-> User(p), turns |-> turns]
       /\ conv'[c0] # NoRow /\ conv'[c0].owner = User(p) /\ conv'[c0].turns = turns
       /\ state'[c0] # NoRow /\ state'[c0].owner = User(p)
       /\ state'[c0].memory = turns /\ state'[c0].version = ExpectedVersion(p) + 1
  <2>1. conv'[c0] = [owner |-> User(p), turns |-> turns]
    BY <1>5, <1>7
  <2>2. state'[c0] = [owner |-> User(p), memory |-> turns,
                      version |-> ExpectedVersion(p) + 1]
    BY <1>5, <1>7
  <2>3. conv'[c0] # NoRow /\ state'[c0] # NoRow
    BY <1>5, <1>7, <1>8, <1>9
  <2>4. conv'[c0].owner = User(p) /\ conv'[c0].turns = turns
    BY <2>1
  <2>5. /\ state'[c0].owner = User(p) /\ state'[c0].memory = turns
        /\ state'[c0].version = ExpectedVersion(p) + 1
    BY <2>2
  <2> QED
    BY <2>1, <2>3, <2>4, <2>5
<1> QED
  BY <1>1, <1>2, <1>3, <1>4, <1>6, <1>7, <1>10, <1>11

(* The commit of a save: one turn more under the lock, at the version      *)
(* that was read.                                                          *)
LEMMA SaveCommitInv ==
  ASSUME NEW p \in Requests, IInv, SaveCommit(p), TypeOK'
  PROVE  IInv'
<1> DEFINE c0 == Cid(p)
           old == Turns(c0)
<1>1. /\ pc[p] = "saveCommit" /\ pc'[p] \in {"saved", "failed"}
      /\ \A q \in Requests \ {p} : pc'[q] = pc[q]
  BY SaveCommitFrame
<1>2. UNCHANGED <<deleted, issued, req, history, stored, draftConv, draftState>>
  BY SaveCommitFrame
<1>3. c0 \in Cids /\ convLock[c0] = p /\ old \in Seq(Turn)
  BY SaveCommitFrame
<1>4. /\ conv'[c0] # NoRow /\ conv'[c0].owner = User(p) /\ conv'[c0].turns = Append(old, p)
      /\ state'[c0] # NoRow /\ state'[c0].owner = User(p)
      /\ state'[c0].memory = Append(old, p) /\ state'[c0].version = ExpectedVersion(p) + 1
  BY SaveCommitFrame
<1>5. \A c \in Cids \ {c0} : conv'[c] = conv[c] /\ state'[c] = state[c]
  BY SaveCommitFrame
<1>6. \A c \in Cids : /\ convLock'[c] = IF convLock[c] = p THEN Free ELSE convLock[c]
                      /\ stateLock'[c] = IF stateLock[c] = p THEN Free ELSE stateLock[c]
  BY SaveCommitFrame
<1>7. /\ conv[c0] = NoRow => Opened(p)
      /\ Known(p) = old
      /\ ExpectedVersion(p) = IF state[c0] = NoRow THEN 0 ELSE state[c0].version
  BY <1>1 DEF IInv, DraftInv, DraftAt
<1>8. /\ Free \notin Requests /\ Legacy \notin Requests
      /\ \A q \in Requests : Cid(q) \in Cids /\ Cid(q)' = Cid(q)
  BY <1>2, StoreAssumption DEF IInv, TypeOK, Request, Cid
<1>9. \A q \in Requests \ {p} : (Creating(q) \/ (Unsaved(q) /\ Opened(q))) => Cid(q) # c0 \/ conv[c0] # NoRow
  BY <1>1, <1>7 DEF IInv, FreshInv, Opened, Creating
<1>10. \A q \in Requests \ {p} :
         pc[q] \in {"saveConversation", "saveAgentState", "saveCommit",
                    "deleteState", "deleteConversation", "deleteCommit"} => Cid(q) # c0
  <2>1. ASSUME NEW q \in Requests \ {p}, pc[q] = "saveConversation", Cid(q) = c0 PROVE FALSE
    <3>1. CASE conv[c0] = NoRow
      BY <1>7, <2>1, <3>1 DEF IInv, FreshInv, DraftInv, DraftAt
    <3>2. CASE conv[c0] # NoRow
      BY <1>3, <2>1, <3>2 DEF IInv, LockInv
    <3> QED
      BY <3>1, <3>2
  <2> QED
    BY <1>3, <2>1 DEF IInv, LockInv
<1>11. c0 \notin deleted /\ c0 \in issued
  <2>1. conv[c0] = NoRow => Creating(p)
    BY <1>1, <1>7 DEF Creating, Unsaved, Saving
  <2> QED
    BY <1>1, <1>3, <2>1 DEF IInv, FreshInv, PairInv
<1>12. LockInv'
  BY <1>1, <1>3, <1>5, <1>6, <1>8, <1>10 DEF IInv, LockInv
<1>13. FreshInv'
  <2>1. \A q \in Requests : (Opened(q)' <=> Opened(q)) /\ (Creating(q)' => q # p /\ Creating(q))
    BY <1>1, <1>2 DEF Opened, Creating, Unsaved, Saving
  <2>2. \A q \in Requests : Creating(q)' => Cid(q) # c0
    BY <1>1, <1>7, <2>1 DEF IInv, FreshInv, Creating
  <2> QED
    BY <1>1, <1>2, <1>5, <1>8, <1>11, <2>1, <2>2 DEF IInv, FreshInv, Deleting
<1>14. PairInv'
  <2>1. Len(Append(old, p)) = Len(old) + 1
    BY <1>3
  <2>2. Len(Append(old, p)) =
          ExpectedVersion(p) + 1 + (IF Append(old, p)[1] = Legacy THEN 1 ELSE 0)
    <3>1. CASE conv[c0] = NoRow
      <4>1. old = << >> /\ state[c0] = NoRow
        BY <1>3, <3>1 DEF IInv, PairInv, Owns, Turns
      <4>2. Append(old, p)[1] = p /\ Len(old) = 0
        BY <4>1
      <4> QED
        BY <1>7, <1>8, <2>1, <4>1, <4>2
    <3>2. CASE conv[c0] # NoRow /\ state[c0] = NoRow
      <4>1. old = <<Legacy>>
        BY <1>3, <3>2 DEF IInv, PairInv, Turns
      <4>2. Append(old, p)[1] = Legacy /\ Len(old) = 1
        BY <4>1
      <4> QED
        BY <1>7, <2>1, <3>2, <4>2
    <3>3. CASE state[c0] # NoRow
      <4>1. Len(old) = state[c0].version + (IF old[1] = Legacy THEN 1 ELSE 0)
        BY <1>3, <3>3 DEF IInv, PairInv, Turns, Owns
      <4>2. state[c0].version \in Nat \ {0}
        BY <1>3, <3>3 DEF IInv, TypeOK, StateRow
      <4>3. Append(old, p)[1] = old[1]
        BY <1>3, <4>1, <4>2
      <4> QED
        BY <1>7, <2>1, <3>3, <4>1, <4>2, <4>3
    <3> QED
      BY <3>1, <3>2, <3>3
  <2>3. /\ Owns(conv[c0], state[c0].owner)'
        /\ state'[c0].memory = conv'[c0].turns
    BY <1>2, <1>4, <1>8 DEF Owns
  <2> QED
    BY <1>2, <1>4, <1>5, <1>8, <1>11, <2>2, <2>3 DEF IInv, PairInv, Owns
<1>15. ReadInv'
  <2>1. state[c0] # NoRow => state[c0].version \in Nat \ {0} /\ state'[c0].version = state[c0].version + 1
    BY <1>3, <1>4, <1>7 DEF IInv, TypeOK, StateRow
  <2>2. \A q \in Requests : stored[q] # NoRow => stored[q].version \in Nat \ {0}
    BY DEF IInv, TypeOK, StateRow
  <2> QED
    BY <1>1, <1>2, <1>4, <1>5, <1>8, <2>1, <2>2 DEF IInv, ReadInv, Saving
<1>16. DraftInv'
  <2>1. ASSUME NEW q \in Requests, q # p PROVE DraftAt(q)'
    BY <1>1, <1>2, <1>5, <1>6, <1>8, <1>10, <2>1, DraftKept DEF IInv, DraftInv
  <2>2. DraftAt(p)'
    BY <1>1 DEF DraftAt
  <2> QED
    BY <2>1, <2>2 DEF DraftInv
<1>17. \A c \in Cids : Turns(c)' = IF c = c0 THEN Append(old, p) ELSE Turns(c)
  BY <1>4, <1>5, <1>8 DEF Turns
<1>18. TurnInv'
  <2> SUFFICES ASSUME NEW c \in Cids, NEW k \in Written(c)'
               PROVE  CommittedAfter(Turns(c)[k], c, [i \in 1 .. k - 1 |-> Turns(c)[i]])'
    BY DEF TurnInv
  <2>1. \A t, e : t \in Requests /\ CommittedAfter(t, c, e) => CommittedAfter(t, c, e)'
    BY <1>1, <1>2 DEF CommittedAfter, Cid, Known
  <2>2. CASE c # c0
    <3>1. Turns(c)' = Turns(c) /\ k \in Written(c)
      BY <1>17, <2>2 DEF Written
    <3>2. CommittedAfter(Turns(c)[k], c, [i \in 1 .. k - 1 |-> Turns(c)[i]])
      BY <3>1 DEF IInv, TurnInv
    <3> QED
      BY <2>1, <3>1, <3>2 DEF Written
  <2>3. CASE c = c0 /\ k \in DOMAIN old
    <3>1. k \in 1 .. Len(old)
      BY <1>3, <2>3
    <3>2. Turns(c)' = Append(old, p)
      BY <1>17, <2>3
    <3>3. \A i \in 1 .. k : Turns(c)'[i] = Turns(c)[i]
      BY <1>3, <2>3, <3>1, <3>2
    <3>4. k \in Written(c) /\ Turns(c)[k] \in Requests
      BY <2>3, <3>1, <3>3 DEF Written
    <3>5. CommittedAfter(Turns(c)[k], c, [i \in 1 .. k - 1 |-> Turns(c)[i]])
      BY <3>4 DEF IInv, TurnInv
    <3>6. /\ Turns(c)'[k] = Turns(c)[k]
          /\ [i \in 1 .. k - 1 |-> Turns(c)'[i]] = [i \in 1 .. k - 1 |-> Turns(c)[i]]
      BY <3>1, <3>3
    <3>7. PICK t \in {Turns(c)[k]}, e \in {[i \in 1 .. k - 1 |-> Turns(c)[i]]} :
            CommittedAfter(t, c, e)
      BY <3>5
    <3>8. CommittedAfter(t, c, e)'
      BY <2>1, <3>4, <3>7
    <3>9. t = Turns(c)'[k] /\ e = [i \in 1 .. k - 1 |-> Turns(c)'[i]]
      BY <3>6, <3>7
    <3> QED
      BY <3>8, <3>9 DEF CommittedAfter, Cid, Known
  <2>4. CASE c = c0 /\ k \notin DOMAIN old
    <3>1. Turns(c)' = Append(old, p)
      BY <1>17, <2>4
    <3>2. k = Len(old) + 1 /\ Turns(c)'[k] = p
      BY <1>3, <2>4, <3>1 DEF Written
    <3>3. [i \in 1 .. k - 1 |-> Turns(c)'[i]] = old
      BY <1>3, <3>1, <3>2
    <3>4. Known(p)' = old /\ Cid(p)' = c
      BY <1>2, <1>7, <1>8, <2>4 DEF Known
    <3> QED
      BY <1>1, <3>2, <3>3, <3>4 DEF CommittedAfter
  <2> QED
    BY <2>2, <2>3, <2>4
<1>19. SavedInv'
  <2>1. Append(old, p)[Len(old) + 1] = p /\ Len(old) + 1 \in DOMAIN Append(old, p)
    BY <1>3
  <2>2. \A k \in DOMAIN old : k \in DOMAIN Append(old, p) /\ Append(old, p)[k] = old[k]
    BY <1>3
  <2> QED
    BY <1>1, <1>2, <1>8, <1>17, <2>1, <2>2 DEF IInv, SavedInv
<1> QED
  BY <1>12, <1>13, <1>14, <1>15, <1>16, <1>18, <1>19 DEF IInv

(* What the commit of a deletion leaves alone.                             *)
LEMMA DeleteCommitFrame ==
  ASSUME NEW p \in Requests, IInv, DeleteCommit(p), TypeOK'
  PROVE  /\ pc[p] = "deleteCommit" /\ pc'[p] \in {"deleted", "failed"}
         /\ \A q \in Requests \ {p} : pc'[q] = pc[q]
         /\ UNCHANGED <<issued, req, history, stored, draftConv, draftState>>
         /\ deleted' = deleted \cup {Cid(p)}
         /\ Owns(conv[Cid(p)], User(p)) /\ convLock[Cid(p)] = p
         /\ conv'[Cid(p)] = NoRow /\ state'[Cid(p)] = NoRow
         /\ \A c \in Cids \ {Cid(p)} : conv'[c] = conv[c] /\ state'[c] = state[c]
<1> DEFINE c0 == Cid(p)
<1>1. /\ pc[p] = "deleteCommit" /\ pc'[p] \in {"deleted", "failed"}
      /\ \A q \in Requests \ {p} : pc'[q] = pc[q]
  BY GotoStep DEF IInv, DeleteCommit, At
<1>2. /\ UNCHANGED <<issued, req, history, stored, draftConv, draftState>>
      /\ deleted' = deleted \cup {c0}
  BY DEF DeleteCommit, inputs, loaded, drafts
<1>3. /\ Free \notin Requests
      /\ \A q \in Requests : Cid(q) \in Cids /\ Cid(q)' = Cid(q)
  BY <1>2, StoreAssumption DEF IInv, TypeOK, Request, Cid
<1>4. /\ convLock[c0] = p
      /\ \A c \in Cids \ {c0} : convLock[c] # p /\ stateLock[c] # p
  BY <1>1 DEF IInv, LockInv
<1>5. /\ Owns(conv[c0], User(p)) /\ draftConv[p] = NoRow /\ draftState[p] = NoRow
      /\ state[c0] # NoRow => stateLock[c0] = p
  BY <1>1 DEF IInv, DraftInv, DraftAt
<1>6. /\ conv'[c0] = NoRow /\ state'[c0] = NoRow
      /\ \A c \in Cids \ {c0} : conv'[c] = conv[c] /\ state'[c] = state[c]
  BY <1>3, <1>4, <1>5 DEF DeleteCommit, Install
<1> QED
  BY <1>1, <1>2, <1>4, <1>5, <1>6

(* The commit of a deletion removes both rows for good.                    *)
LEMMA DeleteCommitInv ==
  ASSUME NEW p \in Requests, IInv, DeleteCommit(p), TypeOK'
  PROVE  IInv'
<1> DEFINE c0 == Cid(p)
<1>1. /\ pc[p] = "deleteCommit" /\ pc'[p] \in {"deleted", "failed"}
      /\ \A q \in Requests \ {p} : pc'[q] = pc[q]
  BY DeleteCommitFrame
<1>2. /\ UNCHANGED <<issued, req, history, stored, draftConv, draftState>>
      /\ deleted' = deleted \cup {c0}
  BY DeleteCommitFrame
<1>3. /\ Free \notin Requests
      /\ \A q \in Requests : Cid(q) \in Cids /\ Cid(q)' = Cid(q)
  BY <1>2, StoreAssumption DEF IInv, TypeOK, Request, Cid
<1>4. convLock[c0] = p
  BY DeleteCommitFrame
<1>5. Owns(conv[c0], User(p))
  BY DeleteCommitFrame
<1>6. /\ conv'[c0] = NoRow /\ state'[c0] = NoRow
      /\ \A c \in Cids \ {c0} : conv'[c] = conv[c] /\ state'[c] = state[c]
  BY DeleteCommitFrame
<1>7. \A c \in Cids : /\ convLock'[c] = IF convLock[c] = p THEN Free ELSE convLock[c]
                      /\ stateLock'[c] = IF stateLock[c] = p THEN Free ELSE stateLock[c]
  BY DEF DeleteCommit, ReleaseLocks, Released
<1>8. conv[c0] # NoRow
  BY <1>5 DEF Owns
<1>9. \A q \in Requests \ {p} :
        pc[q] \in {"saveConversation", "saveAgentState", "saveCommit",
                   "deleteState", "deleteConversation", "deleteCommit"} => Cid(q) # c0
  BY <1>4, <1>8 DEF IInv, LockInv
<1>10. c0 \in issued
  BY <1>1 DEF IInv, FreshInv
<1>11. LockInv'
  BY <1>1, <1>3, <1>4, <1>6, <1>7, <1>9 DEF IInv, LockInv
<1>12. FreshInv'
  <2>1. \A q \in Requests : (Opened(q)' <=> Opened(q)) /\ (Creating(q)' => q # p /\ Creating(q))
    BY <1>1, <1>2 DEF Opened, Creating, Unsaved, Saving
  <2>2. \A q \in Requests : Creating(q)' => Cid(q) # c0
    BY <1>8, <2>1 DEF IInv, FreshInv
  <2> QED
    BY <1>1, <1>2, <1>3, <1>6, <1>10, <2>1, <2>2 DEF IInv, FreshInv, Deleting
<1>13. PairInv'
  BY <1>2, <1>3, <1>6 DEF IInv, PairInv, Owns
<1>14. ReadInv'
  BY <1>1, <1>2, <1>3, <1>6 DEF IInv, ReadInv, Saving
<1>15. DraftInv'
  <2>1. ASSUME NEW q \in Requests, q # p PROVE DraftAt(q)'
    BY <1>1, <1>2, <1>3, <1>6, <1>7, <1>9, <2>1, DraftKept DEF IInv, DraftInv
  <2>2. DraftAt(p)'
    BY <1>1 DEF DraftAt
  <2> QED
    BY <2>1, <2>2 DEF DraftInv
<1>16. \A c \in Cids : Turns(c)' = IF c = c0 THEN << >> ELSE Turns(c)
  BY <1>6 DEF Turns
<1>17. TurnInv'
  <2> SUFFICES ASSUME NEW c \in Cids, NEW k \in Written(c)'
               PROVE  CommittedAfter(Turns(c)[k], c, [i \in 1 .. k - 1 |-> Turns(c)[i]])'
    BY DEF TurnInv
  <2>1. \A t, e : t \in Requests /\ CommittedAfter(t, c, e) => CommittedAfter(t, c, e)'
    BY <1>1, <1>2 DEF CommittedAfter, Cid, Known
  <2>2. c # c0
    BY <1>16 DEF Written
  <2>3. Turns(c)' = Turns(c) /\ k \in Written(c)
    BY <1>16, <2>2 DEF Written
  <2>4. CommittedAfter(Turns(c)[k], c, [i \in 1 .. k - 1 |-> Turns(c)[i]])
    BY <2>3 DEF IInv, TurnInv
  <2> QED
    BY <2>1, <2>3, <2>4 DEF Written
<1>18. SavedInv'
  BY <1>1, <1>2, <1>3, <1>16 DEF IInv, SavedInv
<1> QED
  BY <1>11, <1>12, <1>13, <1>14, <1>15, <1>17, <1>18 DEF IInv

-----------------------------------------------------------------------------
(* The invariant holds before any request.                                 *)
LEMMA InitInv == Init => IInv
<1> SUFFICES ASSUME Init PROVE IInv
  OBVIOUS
<1>1. TypeOK
  BY InitTypeOK
<1>2. \A c \in Cids : conv[c] # NoRow => conv[c].turns = <<Legacy>>
  BY DEF Init
<1>3. LockInv /\ FreshInv
  BY StoreAssumption DEF Init, LockInv, FreshInv, Opened, Creating
<1>4. PairInv /\ ReadInv /\ DraftInv
  BY <1>2 DEF Init, PairInv, ReadInv, DraftInv, DraftAt, Saving
<1>5. \A c \in Cids : Written(c) = {}
  <2>1. <<Legacy>>[1] = Legacy /\ DOMAIN <<Legacy>> = {1} /\ DOMAIN << >> = {}
    OBVIOUS
  <2> SUFFICES ASSUME NEW c \in Cids, NEW k \in Written(c) PROVE FALSE
    OBVIOUS
  <2>2. CASE conv[c] = NoRow
    BY <2>1, <2>2 DEF Written, Turns
  <2>3. CASE conv[c] # NoRow
    <3>1. Turns(c) = <<Legacy>>
      BY <1>2, <2>3 DEF Turns
    <3> QED
      BY <2>1, <3>1, StoreAssumption DEF Written
  <2> QED
    BY <2>2, <2>3
<1>6. TurnInv /\ SavedInv
  BY <1>5 DEF Init, TurnInv, SavedInv
<1> QED
  BY <1>1, <1>3, <1>4, <1>6 DEF IInv

(* Every statement of every request keeps the invariant.                   *)
LEMMA NextInv == IInv /\ [Next]_vars => IInv'
<1> SUFFICES ASSUME IInv, [Next]_vars PROVE IInv'
  OBVIOUS
<1>1. TypeOK'
  BY NextTypeOK DEF IInv
<1>2. CASE UNCHANGED vars
  <2>1. UNCHANGED <<conv, state, deleted, convLock, stateLock, issued, req,
                    history, stored, pc, draftConv, draftState>>
    BY <1>2 DEF vars, tables, locks, inputs, loaded, drafts
  <2>2. LockInv' /\ FreshInv' /\ PairInv' /\ ReadInv'
    BY <2>1 DEF IInv, LockInv, FreshInv, PairInv, ReadInv, Opened, Creating, Unsaved,
       Saving, Deleting, Cid, Owns
  <2>3. DraftInv'
    BY <2>1, DraftKept DEF IInv, DraftInv
  <2>4. TurnInv'
    BY <2>1, TurnsKept DEF IInv
  <2>5. SavedInv'
    BY <2>1 DEF IInv, SavedInv, Cid, Turns
  <2> QED
    BY <1>1, <2>2, <2>3, <2>4, <2>5 DEF IInv
<1>3. ASSUME NEW p \in Requests, Refused(p), pc[p] \in Running PROVE IInv'
  BY <1>1, <1>3, RollbackInv DEF Refused
<1>4. ASSUME NEW p \in Requests, OpenChat(p) \/ ContinueChat(p) \/ RequestDelete(p)
      PROVE  IInv'
  BY <1>1, <1>4, ArrivalInv
<1>5. ASSUME NEW p \in Requests, Chat(p) PROVE IInv'
  BY <1>1, <1>5, LoadConversationInv, LoadAgentStateInv, AgentInv DEF Chat
<1>6. ASSUME NEW p \in Requests, Save(p) PROVE IInv'
  <2>1. CASE Refused(p)
    <3>1. pc[p] \in Running
      BY <1>6 DEF Save, SaveLockConversation, SaveConversation, SaveAgentState,
         SaveCommit, At, Running, Saving
    <3> QED
      BY <1>3, <2>1, <3>1
  <2>2. CASE ~Refused(p)
    BY <1>1, <1>6, <2>2, SaveLockInv, SaveConversationInv, SaveAgentStateInv,
       SaveCommitInv DEF Save
  <2> QED
    BY <2>1, <2>2
<1>7. ASSUME NEW p \in Requests, Delete(p) PROVE IInv'
  <2>1. CASE Refused(p)
    <3>1. pc[p] \in Running
      BY <1>7 DEF Delete, DeleteLockConversation, DeleteState, DeleteConversation,
         DeleteCommit, At, Running, Deleting
    <3> QED
      BY <1>3, <2>1, <3>1
  <2>2. CASE ~Refused(p)
    BY <1>1, <1>7, <2>2, DeleteLockInv, DeleteStateInv, DeleteConversationInv,
       DeleteCommitInv DEF Delete
  <2> QED
    BY <2>1, <2>2
<1>8. ASSUME NEW p \in Requests, Abort(p) PROVE IInv'
  BY <1>3, <1>8 DEF Abort, Refused, Refusal
<1> QED
  BY <1>2, <1>4, <1>5, <1>6, <1>7, <1>8 DEF Next

(* The inductive invariant: what locks, fresh ids, versions and drafts say *)
(* about the two tables at every statement.                                *)
THEOREM Inductive == Spec => []IInv
  BY InitInv, NextInv, PTL DEF Spec

(* save_conversation's version check makes the turns of a conversation     *)
(* serial, however many requests are in flight.                            *)
THEOREM Serial == Spec => []TurnsAreSerial
<1>1. IInv => TurnsAreSerial
  <2> SUFFICES ASSUME IInv, NEW c \in Cids, NEW k \in Written(c)
               PROVE  MemoryOf(Turns(c)[k]) = SubSeq(Turns(c), 1, k)
    BY DEF TurnsAreSerial
  <2>1. Known(Turns(c)[k]) = [i \in 1 .. k - 1 |-> Turns(c)[i]]
    BY DEF IInv, TurnInv, CommittedAfter
  <2>2. Turns(c) \in Seq(Turn) /\ k \in 1 .. Len(Turns(c))
    <3>1. Turns(c) \in Seq(Turn)
      BY DEF IInv, TypeOK, Turns, ConvRow
    <3> QED
      BY <3>1 DEF Written
  <2>3. \A s \in Seq(Turn) : \A n \in 1 .. Len(s) :
          Append([i \in 1 .. n - 1 |-> s[i]], s[n]) = SubSeq(s, 1, n)
    OBVIOUS
  <2> QED
    BY <2>1, <2>2, <2>3 DEF MemoryOf
<1> QED
  BY <1>1, Inductive, PTL

(* The memory the agent will start from is that of the stored transcript,  *)
(* and its version counts the turns saved.                                 *)
THEOREM TablesAgree == Spec => [](MemoryMatchesTranscript /\ VersionCountsTurns)
<1>1. IInv => MemoryMatchesTranscript
  BY DEF IInv, PairInv, MemoryMatchesTranscript
<1>2. IInv => VersionCountsTurns
  BY StoreAssumption DEF IInv, PairInv, VersionCountsTurns, Written, Turns, Owns
<1> QED
  BY <1>1, <1>2, Inductive, PTL

(* A saved answer stays in the transcript until its conversation is        *)
(* deleted, a refused one is in neither table, and a deleted conversation  *)
(* never comes back.                                                       *)
THEOREM OutcomesAreTrue == Spec => []OutcomesHold
<1>1. IInv => AcceptedTurnKept
  BY DEF IInv, SavedInv, AcceptedTurnKept, Stored, At
<1>2. IInv => RefusedTurnLeavesNoTrace
  <2> SUFFICES ASSUME IInv, NEW p \in Requests, pc[p] \in {"notFound", "conflict"},
                      NEW c \in Cids
               PROVE  /\ ~Stored(p, Turns(c))
                      /\ state[c] # NoRow => ~Stored(p, state[c].memory)
    BY DEF RefusedTurnLeavesNoTrace
  <2>1. ~Stored(p, Turns(c))
    BY DEF IInv, TurnInv, CommittedAfter, Stored, Written
  <2>2. state[c] # NoRow => state[c].memory = Turns(c)
    BY DEF IInv, PairInv, Owns, Turns
  <2> QED
    BY <2>1, <2>2
<1>3. IInv => DeletedStaysDeleted
  BY DEF IInv, TypeOK, PairInv, DeletedStaysDeleted, Owns
<1>4. IInv => OutcomesHold
  BY <1>1, <1>2, <1>3 DEF OutcomesHold
<1> QED
  BY <1>4, Inductive, PTL

(* Save and delete take the two row locks in the same order.               *)
THEOREM NoDeadlock == Spec => []NoLockCycle
<1>1. ASSUME IInv, NEW p \in Requests, NEW q \in Requests, WaitsFor(p, q), WaitsFor(q, p)
      PROVE  FALSE
  <2>1. Cid(p) = Cid(q) /\ Cid(p) \in Cids
    BY <1>1 DEF IInv, TypeOK, Request, Cid, LockInv, WaitsFor
  <2>2. convLock[Cid(p)] \in {p, q}
    BY <1>1, <2>1 DEF IInv, LockInv, WaitsFor
  <2>3. CASE convLock[Cid(p)] = p
    BY <1>1, <2>1, <2>3 DEF IInv, LockInv, WaitsFor
  <2>4. CASE convLock[Cid(p)] = q
    BY <1>1, <2>1, <2>4 DEF IInv, LockInv, WaitsFor
  <2> QED
    BY <2>2, <2>3, <2>4
<1>2. IInv => NoLockCycle
  BY <1>1 DEF NoLockCycle
<1> QED
  BY <1>2, Inductive, PTL

-----------------------------------------------------------------------------
(* Commits are the only steps that touch the transcripts.                  *)

(* Only the two commits change what others can read.                       *)
LEMMA QuietStep ==
  ASSUME IInv, TypeOK', NEW p \in Requests,
         \/ OpenChat(p) \/ ContinueChat(p) \/ RequestDelete(p) \/ Chat(p) \/ Abort(p)
         \/ SaveLockConversation(p) \/ SaveConversation(p) \/ SaveAgentState(p)
         \/ DeleteLockConversation(p) \/ DeleteState(p) \/ DeleteConversation(p)
  PROVE  /\ conv' = conv /\ deleted' = deleted
         /\ pc[p] \notin {"saved", "failed"}
         /\ \A t \in Requests \ {p} :
              /\ pc'[t] = pc[t] /\ req'[t] = req[t]
              /\ history'[t] = history[t] /\ stored'[t] = stored[t]
<1> USE DEF tables, locks, inputs, loaded, drafts, At
<1>1. \A next : Goto(p, next) => \A t \in Requests \ {p} : pc'[t] = pc[t]
  BY GotoStep DEF IInv
<1>2. \A next : Rollback(p, next) => \A t \in Requests \ {p} : pc'[t] = pc[t]
  BY <1>1 DEF Rollback
<1>3. CASE OpenChat(p) \/ ContinueChat(p) \/ RequestDelete(p)
  <2>1. PICK r, statement : Arrive(p, r, statement)
    BY <1>3 DEF OpenChat, ContinueChat, RequestDelete
  <2> QED
    BY <1>1, <2>1 DEF Arrive, IInv, TypeOK
<1>4. CASE LoadConversation(p) \/ LoadAgentState(p)
  BY <1>1, <1>4 DEF LoadConversation, LoadAgentState, IInv, TypeOK
<1>5. CASE AgentCompletes(p) \/ AgentFails(p)
  BY <1>1, <1>5 DEF AgentCompletes, AgentFails
<1>6. CASE Abort(p)
  BY <1>2, <1>6 DEF Abort, Rollback, Running, Saving, Deleting
<1>7. CASE SaveLockConversation(p)
  BY <1>1, <1>2, <1>7 DEF SaveLockConversation, Rollback
<1>8. CASE SaveConversation(p) \/ SaveAgentState(p)
  BY <1>1, <1>2, <1>8 DEF SaveConversation, SaveAgentState, Rollback
<1>9. CASE DeleteLockConversation(p) \/ DeleteState(p) \/ DeleteConversation(p)
  BY <1>1, <1>2, <1>9 DEF DeleteLockConversation, DeleteState, DeleteConversation, Rollback
<1> QED
  BY <1>3, <1>4, <1>5, <1>6, <1>7, <1>8, <1>9 DEF Chat

(* A transcript keeps its owner and only grows, one turn at a time, until  *)
(* its owner deletes it.                                                   *)
THEOREM OnlyGrows == Spec => TranscriptOnlyGrows
<1> DEFINE Grows(c) == conv[c] # NoRow /\ conv'[c] # conv[c] =>
       \E p \in Requests :
         /\ Cid(p) = c /\ User(p) = conv[c].owner
         /\ \/ conv'[c] = NoRow
            \/ conv'[c] = [owner |-> conv[c].owner, turns |-> Append(conv[c].turns, p)]
<1>1. ASSUME IInv, IInv', [Next]_vars PROVE [\A c \in Cids : Grows(c)]_vars
  <2> SUFFICES ASSUME ~UNCHANGED vars, NEW c \in Cids, conv[c] # NoRow, conv'[c] # conv[c]
               PROVE  Grows(c)
    OBVIOUS
  <2>1. TypeOK'
    BY <1>1 DEF IInv
  <2>2. PICK p \in Requests :
          \/ OpenChat(p) \/ ContinueChat(p) \/ RequestDelete(p)
          \/ Chat(p) \/ Save(p) \/ Delete(p) \/ Abort(p)
    BY <1>1 DEF Next
  <2>3. CASE SaveCommit(p)
    <3>1. /\ conv'[Cid(p)] = [owner |-> User(p), turns |-> Append(Turns(Cid(p)), p)]
          /\ c = Cid(p) /\ pc[p] = "saveCommit"
      BY <1>1, <2>1, <2>3, SaveCommitFrame
    <3>2. conv[c].owner = User(p)
      BY <1>1, <3>1 DEF IInv, DraftInv, DraftAt
    <3> QED
      BY <3>1, <3>2 DEF Turns
  <2>4. CASE DeleteCommit(p)
    BY <1>1, <2>1, <2>4, DeleteCommitFrame DEF Owns
  <2>5. CASE ~SaveCommit(p) /\ ~DeleteCommit(p)
    BY <1>1, <2>1, <2>2, <2>5, QuietStep DEF Save, Delete
  <2> QED
    BY <2>3, <2>4, <2>5
<1> QED
  BY <1>1, Inductive, PTL DEF Spec, TranscriptOnlyGrows

-----------------------------------------------------------------------------
(* Whose turns a request has seen.                                         *)
OwnInv ==
  /\ \A c \in Cids : \A k \in Written(c) : User(Turns(c)[k]) = conv[c].owner
  /\ \A p, t \in Requests : Stored(t, Known(p)) =>
       User(t) = User(p) /\ pc[t] \in {"saved", "failed"}

(* What is read or stored under a user stays that user's.                  *)
LEMMA OwnStep == IInv /\ IInv' /\ OwnInv /\ [Next]_vars => OwnInv'
<1> SUFFICES ASSUME IInv, IInv', OwnInv, [Next]_vars PROVE OwnInv'
  OBVIOUS
<1>0. TypeOK /\ TypeOK'
  BY DEF IInv
<1>1. ASSUME NEW p \in Requests,
             /\ pc[p] \notin {"saved", "failed"}
             /\ \A t \in Requests \ {p} :
                  /\ pc'[t] = pc[t] /\ req'[t] = req[t]
                  /\ history'[t] = history[t] /\ stored'[t] = stored[t],
             \A t \in Requests : Stored(t, Known(p)') =>
                t # p /\ User(t) = User(p)' /\ pc[t] \in {"saved", "failed"}
      PROVE  \A q, t \in Requests : Stored(t, Known(q)') =>
                User(t)' = User(q)' /\ pc'[t] \in {"saved", "failed"}
  <2> SUFFICES ASSUME NEW q \in Requests, NEW t \in Requests, Stored(t, Known(q)')
               PROVE  User(t)' = User(q)' /\ pc'[t] \in {"saved", "failed"}
    OBVIOUS
  <2>1. CASE q = p
    BY <1>1, <2>1 DEF User
  <2>2. CASE q # p
    <3>1. Known(q)' = Known(q) /\ User(q)' = User(q)
      BY <1>1, <2>2 DEF Known, User
    <3>2. User(t) = User(q) /\ pc[t] \in {"saved", "failed"}
      BY <3>1 DEF OwnInv
    <3> QED
      BY <1>1, <3>1, <3>2 DEF User
  <2> QED
    BY <2>1, <2>2
<1>2. ASSUME NEW p \in Requests,
             conv' = conv, pc[p] \notin {"saved", "failed"},
             \A t \in Requests \ {p} : req'[t] = req[t]
      PROVE  \A c \in Cids : \A k \in Written(c)' : User(Turns(c)[k])' = conv'[c].owner
  <2> SUFFICES ASSUME NEW c \in Cids, NEW k \in Written(c)'
               PROVE  User(Turns(c)[k])' = conv'[c].owner
    OBVIOUS
  <2>1. Turns(c)' = Turns(c) /\ k \in Written(c)
    BY <1>2 DEF Turns, Written
  <2>2. /\ Turns(c)[k] \in Requests \ {p}
        /\ User(Turns(c)[k]) = conv[c].owner
    BY <1>2, <2>1 DEF IInv, TurnInv, CommittedAfter, OwnInv, Written
  <2> QED
    BY <1>2, <2>1, <2>2 DEF User
<1>3. CASE UNCHANGED vars
  BY <1>3 DEF vars, tables, locks, inputs, loaded, drafts, OwnInv, Written, Turns, User,
     Known, Stored
<1>4. ASSUME NEW p \in Requests, OpenChat(p) \/ ContinueChat(p) \/ RequestDelete(p)
      PROVE  OwnInv'
  <2>1. pc[p] = "new" /\ history'[p] = history[p] /\ stored'[p] = stored[p]
    BY <1>4 DEF OpenChat, ContinueChat, RequestDelete, Arrive, At, loaded
  <2>2. Known(p)' = << >>
    BY <2>1 DEF IInv, ReadInv, Known
  <2>3. \A t \in Requests : ~Stored(t, Known(p)')
    BY <2>2 DEF Stored
  <2> QED
    BY <1>0, <1>1, <1>2, <1>4, <2>3, QuietStep DEF OwnInv
<1>5. ASSUME NEW p \in Requests, LoadConversation(p) \/ LoadAgentState(p) PROVE OwnInv'
  <2>1. /\ conv' = conv /\ req' = req /\ pc[p] \in {"loadConversation", "loadState"}
        /\ stored[p] = NoRow /\ Cid(p) \in Cids
    BY <1>0, <1>5 DEF LoadConversation, LoadAgentState, At, tables, inputs, IInv, ReadInv,
       TypeOK, Request, Cid
  <2>2. \/ Known(p)' = Known(p)
        \/ Owns(conv[Cid(p)], User(p)) /\ Known(p)' = Turns(Cid(p))
    <3>1. CASE LoadConversation(p)
      BY <1>0, <2>1, <3>1 DEF LoadConversation, loaded, TypeOK, Known, Owns, Turns
    <3>2. CASE LoadAgentState(p) /\ Owns(state[Cid(p)], User(p))
      <4>1. stored'[p] = state[Cid(p)] /\ state[Cid(p)] # NoRow
        BY <1>0, <3>2 DEF LoadAgentState, TypeOK, Owns
      <4>2. Owns(conv[Cid(p)], User(p)) /\ state[Cid(p)].memory = conv[Cid(p)].turns
        BY <2>1, <3>2, <4>1 DEF IInv, PairInv, Owns
      <4> QED
        BY <4>1, <4>2 DEF Known, Turns, Owns
    <3>3. CASE LoadAgentState(p) /\ ~Owns(state[Cid(p)], User(p))
      <4>1. stored'[p] = NoRow /\ history' = history
        BY <1>0, <3>3 DEF LoadAgentState, TypeOK
      <4> QED
        BY <2>1, <4>1 DEF Known
    <3> QED
      BY <1>5, <3>1, <3>2, <3>3
  <2>3. ASSUME NEW t \in Requests, Stored(t, Known(p)')
        PROVE  t # p /\ User(t) = User(p)' /\ pc[t] \in {"saved", "failed"}
    <3>1. User(p)' = User(p)
      BY <2>1 DEF User
    <3>2. CASE Known(p)' = Known(p)
      BY <2>1, <2>3, <3>1, <3>2 DEF OwnInv
    <3>3. CASE Owns(conv[Cid(p)], User(p)) /\ Known(p)' = Turns(Cid(p))
      <4>1. PICK k \in Written(Cid(p)) : Turns(Cid(p))[k] = t
        BY <2>3, <3>3 DEF Stored, Written
      <4>2. User(t) = conv[Cid(p)].owner /\ pc[t] \in {"saved", "failed"}
        BY <2>1, <4>1 DEF OwnInv, IInv, TurnInv, CommittedAfter
      <4> QED
        BY <2>1, <3>1, <3>3, <4>2 DEF Owns
    <3> QED
      BY <2>2, <3>2, <3>3
  <2> QED
    BY <1>0, <1>1, <1>2, <1>5, <2>3, QuietStep DEF OwnInv, Chat
<1>6. ASSUME NEW p \in Requests, history'[p] = history[p], stored'[p] = stored[p], req' = req,
             pc[p] \notin {"saved", "failed"}
      PROVE  \A t \in Requests : Stored(t, Known(p)') =>
                t # p /\ User(t) = User(p)' /\ pc[t] \in {"saved", "failed"}
  <2>1. Known(p)' = Known(p) /\ User(p)' = User(p)
    BY <1>6 DEF Known, User
  <2> QED
    BY <1>6, <2>1 DEF OwnInv
<1>7. ASSUME NEW p \in Requests,
             \/ AgentCompletes(p) \/ AgentFails(p) \/ Abort(p)
             \/ SaveLockConversation(p) \/ SaveConversation(p) \/ SaveAgentState(p)
             \/ DeleteLockConversation(p) \/ DeleteState(p) \/ DeleteConversation(p)
      PROVE  OwnInv'
  <2>1. UNCHANGED <<req, history, stored>>
    BY <1>7 DEF AgentCompletes, AgentFails, Abort, SaveLockConversation, SaveConversation,
       SaveAgentState, DeleteLockConversation, DeleteState, DeleteConversation, Rollback,
       inputs, loaded
  <2> QED
    BY <1>0, <1>1, <1>2, <1>6, <1>7, <2>1, QuietStep DEF OwnInv, Chat
<1>8. ASSUME NEW p \in Requests, SaveCommit(p) \/ DeleteCommit(p) PROVE OwnInv'
  <2>1. /\ UNCHANGED <<req, history, stored>> /\ pc[p] \in {"saveCommit", "deleteCommit"}
        /\ \A q \in Requests \ {p} : pc'[q] = pc[q]
        /\ \A c \in Cids \ {Cid(p)} : conv'[c] = conv[c]
        /\ \/ /\ conv'[Cid(p)].owner = User(p) /\ conv'[Cid(p)] # NoRow
              /\ conv'[Cid(p)].turns = Append(Turns(Cid(p)), p)
              /\ Turns(Cid(p)) \in Seq(Turn)
              /\ conv[Cid(p)] # NoRow => conv[Cid(p)].owner = User(p)
           \/ conv'[Cid(p)] = NoRow
    <3>1. CASE SaveCommit(p)
      <4>1. conv[Cid(p)] # NoRow => conv[Cid(p)].owner = User(p)
        BY <3>1 DEF IInv, DraftInv, DraftAt, SaveCommit, At
      <4> QED
        BY <1>0, <3>1, <4>1, SaveCommitFrame
    <3>2. CASE DeleteCommit(p)
      BY <1>0, <3>2, DeleteCommitFrame
    <3> QED
      BY <1>8, <3>1, <3>2
  <2>2. ASSUME NEW c \in Cids, NEW k \in Written(c)'
        PROVE  User(Turns(c)[k])' = conv'[c].owner
    <3>1. CASE c # Cid(p)
      <4>1. Turns(c)' = Turns(c) /\ k \in Written(c)
        BY <2>1, <2>2, <3>1 DEF Turns, Written
      <4> QED
        BY <2>1, <3>1, <4>1 DEF OwnInv, User
    <3>2. CASE c = Cid(p)
      <4>1. /\ conv'[c].owner = User(p) /\ Turns(c)' = Append(Turns(c), p)
            /\ Turns(c) \in Seq(Turn)
            /\ conv[c] # NoRow => conv[c].owner = User(p)
        BY <2>1, <2>2, <3>2 DEF Turns, Written
      <4>2. CASE k \in DOMAIN Turns(c)
        <5>1. Turns(c)'[k] = Turns(c)[k] /\ k \in Written(c)
          BY <2>2, <4>1, <4>2 DEF Written
        <5>2. conv[c] # NoRow
          BY <4>2 DEF Turns
        <5> QED
          BY <2>1, <4>1, <5>1, <5>2 DEF OwnInv, User
      <4>3. CASE k \notin DOMAIN Turns(c)
        <5>1. Turns(c)'[k] = p
          BY <2>2, <4>1, <4>3 DEF Written
        <5> QED
          BY <2>1, <4>1, <5>1 DEF User
      <4> QED
        BY <4>2, <4>3
    <3> QED
      BY <3>1, <3>2
  <2> QED
    BY <1>1, <1>6, <2>1, <2>2 DEF OwnInv
<1> QED
  BY <1>3, <1>4, <1>5, <1>7, <1>8 DEF Next, Chat, Save, Delete

(* No request is ever answered from another user's conversation.           *)
THEOREM Private == Spec => []AnsweredFromOwnTurns
<1>1. Init => OwnInv
  <2> SUFFICES ASSUME Init PROVE OwnInv
    OBVIOUS
  <2>1. \A p \in Requests : Known(p) = << >>
    BY DEF Init, Known
  <2>2. \A t, p \in Requests : ~Stored(t, Known(p))
    BY <2>1 DEF Stored
  <2>3. \A c \in Cids : Written(c) = {}
    BY InitInv DEF Init, IInv, TurnInv, CommittedAfter, Written
  <2> QED
    BY <2>2, <2>3 DEF OwnInv
<1>2. IInv /\ OwnInv => AnsweredFromOwnTurns
  <2> SUFFICES ASSUME IInv, OwnInv, NEW p \in Requests, NEW t \in Requests,
                      Stored(t, MemoryOf(p))
               PROVE  User(t) = User(p)
    BY DEF AnsweredFromOwnTurns
  <2>1. Known(p) \in Seq(Turn)
    BY DEF IInv, TypeOK, Known, StateRow
  <2>2. t = p \/ Stored(t, Known(p))
    BY <2>1 DEF MemoryOf, Stored
  <2> QED
    BY <2>2 DEF OwnInv
<1> QED
  BY <1>1, <1>2, OwnStep, Inductive, PTL DEF Spec

-----------------------------------------------------------------------------
(* The ledger's view of the tables.                                        *)
Entries == [turn : Turn, knew : Seq(Turn)]
Entry(t) == [turn |-> t, knew |-> IF t \in Requests THEN Known(t) ELSE << >>]

(* The ledger that the tables stand for: its owners, its entries and       *)
(* their names.                                                            *)
LEMMA LedgerShape ==
  ASSUME IInv, NEW c \in Cids
  PROVE  /\ LedgerOwner[c] = IF conv[c] = NoRow THEN NoRow ELSE conv[c].owner
         /\ LedgerTurns[c] = [k \in DOMAIN Turns(c) |-> Entry(Turns(c)[k])]
         /\ LedgerTurns[c] \in Seq(Entries)
         /\ Ledger!Names(LedgerTurns[c]) = Turns(c)
<1>1. Turns(c) \in Seq(Turn)
  BY DEF IInv, TypeOK, Turns, ConvRow
<1>2. \A t \in Turn : Entry(t) \in Entries
  BY DEF IInv, TypeOK, Turn, Entry, Entries, Known, StateRow
<1>3. LedgerTurns[c] = [k \in DOMAIN Turns(c) |-> Entry(Turns(c)[k])]
  BY DEF LedgerTurns, Entry
<1>4. LedgerTurns[c] \in Seq(Entries)
  <2>1. LedgerTurns[c] = [k \in 1 .. Len(Turns(c)) |-> Entry(Turns(c)[k])]
    BY <1>1, <1>3
  <2> QED
    BY <1>1, <1>2, <2>1
<1>5. Ledger!Names(LedgerTurns[c]) = Turns(c)
  <2>1. \A k \in DOMAIN Turns(c) : LedgerTurns[c][k].turn = Turns(c)[k]
    BY <1>3 DEF Entry
  <2>2. Ledger!Names(LedgerTurns[c]) = [k \in DOMAIN Turns(c) |-> Turns(c)[k]]
    BY <1>3, <2>1 DEF Ledger!Names
  <2> QED
    BY <1>1, <2>2
<1> QED
  BY <1>3, <1>4, <1>5 DEF LedgerOwner

(* Empty tables are an empty ledger.                                       *)
LEMMA LedgerInit == Init => Ledger!Init
<1> SUFFICES ASSUME Init PROVE Ledger!Init
  OBVIOUS
<1>1. IInv
  BY InitInv
<1>2. \A c \in Cids : conv[c] # NoRow => conv[c].owner \in Users /\ conv[c].turns = <<Legacy>>
  BY DEF Init
<1>3. LedgerOwner \in [Cids -> Users \cup {NoRow}]
  BY <1>2 DEF LedgerOwner
<1>4. ASSUME NEW c \in Cids
      PROVE  LedgerTurns[c] = IF LedgerOwner[c] = NoRow
                                THEN << >> ELSE <<Ledger!Entry(Legacy, << >>)>>
  <2>1. LedgerTurns[c] = [k \in DOMAIN Turns(c) |-> Entry(Turns(c)[k])]
    BY <1>1, LedgerShape
  <2>2. CASE conv[c] = NoRow
    <3>1. Turns(c) = << >> /\ LedgerOwner[c] = NoRow
      BY <2>2 DEF Turns, LedgerOwner
    <3>2. LedgerTurns[c] = << >>
      BY <2>1, <3>1
    <3> QED
      BY <3>1, <3>2
  <2>3. CASE conv[c] # NoRow
    <3>1. Turns(c) = <<Legacy>> /\ LedgerOwner[c] # NoRow
      BY <1>2, <2>3, StoreAssumption DEF Turns, LedgerOwner
    <3>2. LedgerTurns[c] = <<Entry(Legacy)>>
      BY <2>1, <3>1
    <3>3. Entry(Legacy) = Ledger!Entry(Legacy, << >>)
      BY StoreAssumption DEF Entry, Ledger!Entry
    <3> QED
      BY <3>1, <3>2, <3>3
  <2> QED
    BY <2>2, <2>3
<1>5. LedgerTurns = [c \in Cids |-> IF LedgerOwner[c] = NoRow
                                      THEN << >> ELSE <<Ledger!Entry(Legacy, << >>)>>]
  BY <1>4 DEF LedgerTurns
<1> QED
  BY <1>3, <1>5 DEF Init, Ledger!Init

(* A commit is a step of the ledger, and everything else is none.          *)
LEMMA LedgerStep == IInv /\ IInv' /\ [Next]_vars => [Ledger!Next]_(Ledger!vars)
<1> SUFFICES ASSUME IInv, IInv', [Next]_vars PROVE [Ledger!Next]_(Ledger!vars)
  OBVIOUS
<1>0. TypeOK /\ TypeOK'
  BY DEF IInv
<1>1. ASSUME NEW c \in Cids, conv'[c] = conv[c],
             \A t \in Requests : pc[t] \in {"saved", "failed"} =>
               history'[t] = history[t] /\ stored'[t] = stored[t]
      PROVE  LedgerOwner'[c] = LedgerOwner[c] /\ LedgerTurns'[c] = LedgerTurns[c]
  <2>1. Turns(c)' = Turns(c)
    BY <1>1 DEF Turns
  <2>2. \A k \in DOMAIN Turns(c) : Entry(Turns(c)[k])' = Entry(Turns(c)[k])
    <3> SUFFICES ASSUME NEW k \in DOMAIN Turns(c) PROVE Entry(Turns(c)[k])' = Entry(Turns(c)[k])
      OBVIOUS
    <3>1. CASE Turns(c)[k] \in Requests
      <4>1. pc[Turns(c)[k]] \in {"saved", "failed"}
        BY <3>1 DEF IInv, TurnInv, CommittedAfter, Written
      <4> QED
        BY <1>1, <2>1, <3>1, <4>1 DEF Entry, Known
    <3>2. CASE Turns(c)[k] \notin Requests
      BY <2>1, <3>2 DEF Entry
    <3> QED
      BY <3>1, <3>2
  <2>3. LedgerTurns'[c] = [k \in DOMAIN Turns(c)' |-> Entry(Turns(c)[k])']
    BY DEF LedgerTurns, Entry
  <2>4. LedgerTurns[c] = [k \in DOMAIN Turns(c) |-> Entry(Turns(c)[k])]
    BY DEF LedgerTurns, Entry
  <2>5. LedgerTurns'[c] = LedgerTurns[c]
    BY <2>1, <2>2, <2>3, <2>4
  <2> QED
    BY <1>1, <2>5 DEF LedgerOwner
<1>2. ASSUME \A c \in Cids : LedgerOwner'[c] = LedgerOwner[c] /\ LedgerTurns'[c] = LedgerTurns[c],
             deleted' = deleted
      PROVE  UNCHANGED Ledger!vars
  BY <1>2 DEF Ledger!vars, LedgerOwner, LedgerTurns
<1>3. CASE UNCHANGED vars
  BY <1>1, <1>2, <1>3 DEF vars, tables, loaded
<1>4. ASSUME NEW p \in Requests,
             \/ OpenChat(p) \/ ContinueChat(p) \/ RequestDelete(p) \/ Chat(p) \/ Abort(p)
             \/ SaveLockConversation(p) \/ SaveConversation(p) \/ SaveAgentState(p)
             \/ DeleteLockConversation(p) \/ DeleteState(p) \/ DeleteConversation(p)
      PROVE  UNCHANGED Ledger!vars
  BY <1>0, <1>1, <1>2, <1>4, QuietStep
<1>5. ASSUME NEW p \in Requests, SaveCommit(p) PROVE Ledger!Next
  <2> DEFINE c0 == Cid(p)
  <2>1. /\ UNCHANGED <<deleted, history, stored>> /\ c0 \in Cids /\ pc[p] = "saveCommit"
        /\ \A c \in Cids \ {c0} : conv'[c] = conv[c]
        /\ conv'[c0] # NoRow /\ conv'[c0].owner = User(p)
        /\ conv'[c0].turns = Append(Turns(c0), p)
        /\ Turns(c0) \in Seq(Turn)
    BY <1>0, <1>5, SaveCommitFrame
  <2>2. User(p) \in Users
    BY <1>0 DEF TypeOK, Request, User
  <2>3. c0 \notin deleted
    BY <2>1 DEF IInv, PairInv
  <2>4. LedgerOwner[c0] \in {User(p), NoRow} /\ Known(p) = Turns(c0)
    BY <2>1 DEF IInv, DraftInv, DraftAt, LedgerOwner
  <2>5. LedgerOwner' = [LedgerOwner EXCEPT ![c0] = User(p)]
    <3>1. \A c \in Cids : LedgerOwner'[c] = IF c = c0 THEN User(p) ELSE LedgerOwner[c]
      BY <2>1 DEF LedgerOwner
    <3> QED
      BY <2>1, <3>1 DEF LedgerOwner
  <2>6. \A c \in Cids \ {c0} : LedgerTurns'[c] = LedgerTurns[c]
    BY <1>1, <2>1
  <2>7. LedgerTurns'[c0] = Append(LedgerTurns[c0], Ledger!Entry(p, Ledger!Names(LedgerTurns[c0])))
    <3>1. /\ LedgerTurns[c0] = [k \in DOMAIN Turns(c0) |-> Entry(Turns(c0)[k])]
          /\ LedgerTurns[c0] \in Seq(Entries)
          /\ Ledger!Names(LedgerTurns[c0]) = Turns(c0)
      BY <2>1, LedgerShape
    <3>2. Ledger!Entry(p, Ledger!Names(LedgerTurns[c0])) = Entry(p)
      BY <2>4, <3>1 DEF Ledger!Entry, Entry
    <3>3. Turns(c0)' = Append(Turns(c0), p)
      <4>1. c0' = c0
        BY <1>0, <1>5, SaveCommitFrame DEF Cid
      <4> QED
        BY <2>1, <4>1 DEF Turns
    <3>4. \A t : Entry(t)' = Entry(t)
      BY <2>1 DEF Entry, Known
    <3>5. LedgerTurns'[c0] = [k \in DOMAIN Append(Turns(c0), p) |-> Entry(Append(Turns(c0), p)[k])]
      <4>1. c0' = c0
        BY <1>0, <1>5, SaveCommitFrame DEF Cid
      <4>2. LedgerTurns'[c0] = [k \in DOMAIN Turns(c0)' |-> Entry(Turns(c0)'[k])]
        BY <2>1, <3>4, <4>1 DEF LedgerTurns, Entry
      <4> QED
        BY <3>3, <4>2
    <3>6. Entry(p) \in Entries
      BY <1>0 DEF TypeOK, Entry, Entries, Turn, Known, StateRow
    <3>7. /\ DOMAIN Append(Turns(c0), p) = 1 .. Len(Turns(c0)) + 1
          /\ Len(LedgerTurns[c0]) = Len(Turns(c0))
          /\ Append(Turns(c0), p)[Len(Turns(c0)) + 1] = p
          /\ \A k \in 1 .. Len(Turns(c0)) : Append(Turns(c0), p)[k] = Turns(c0)[k]
      BY <2>1, <3>1
    <3>8. /\ DOMAIN Append(LedgerTurns[c0], Entry(p)) = 1 .. Len(Turns(c0)) + 1
          /\ Append(LedgerTurns[c0], Entry(p))[Len(Turns(c0)) + 1] = Entry(p)
          /\ \A k \in 1 .. Len(Turns(c0)) :
               Append(LedgerTurns[c0], Entry(p))[k] = LedgerTurns[c0][k]
          /\ Append(LedgerTurns[c0], Entry(p)) \in Seq(Entries)
      BY <3>1, <3>6, <3>7
    <3>9. \A k \in 1 .. Len(Turns(c0)) + 1 :
            LedgerTurns'[c0][k] = Append(LedgerTurns[c0], Entry(p))[k]
      BY <2>1, <3>1, <3>5, <3>7, <3>8
    <3>10. LedgerTurns'[c0] = Append(LedgerTurns[c0], Entry(p))
      BY <3>5, <3>7, <3>8, <3>9
    <3> QED
      BY <3>2, <3>10
  <2>8. LedgerTurns' = [LedgerTurns EXCEPT ![c0] =
          Append(LedgerTurns[c0], Ledger!Entry(p, Ledger!Names(LedgerTurns[c0])))]
    BY <2>1, <2>6, <2>7 DEF LedgerTurns
  <2>9. Ledger!AddTurn(c0, User(p), p)
    BY <2>1, <2>3, <2>4, <2>5, <2>8 DEF Ledger!AddTurn
  <2> QED
    BY <2>1, <2>2, <2>9 DEF Ledger!Next
<1>6. ASSUME NEW p \in Requests, DeleteCommit(p) PROVE Ledger!Next
  <2> DEFINE c0 == Cid(p)
  <2>1. /\ UNCHANGED <<history, stored>> /\ c0 \in Cids /\ deleted' = deleted \cup {c0}
        /\ \A c \in Cids \ {c0} : conv'[c] = conv[c]
        /\ conv'[c0] = NoRow /\ Owns(conv[c0], User(p))
    BY <1>0, <1>6, DeleteCommitFrame DEF TypeOK, Request, Cid
  <2>2. LedgerOwner[c0] # NoRow
    BY <2>1, StoreAssumption DEF IInv, TypeOK, ConvRow, LedgerOwner, Owns
  <2>3. \A c \in Cids \ {c0} : LedgerTurns'[c] = LedgerTurns[c] /\ LedgerOwner'[c] = LedgerOwner[c]
    BY <1>1, <2>1
  <2>4. \A c \in Cids : c = c0 => LedgerTurns'[c] = << >> /\ LedgerOwner'[c] = NoRow
    <3> SUFFICES ASSUME NEW c \in Cids, c = c0 PROVE LedgerTurns'[c] = << >> /\ LedgerOwner'[c] = NoRow
      OBVIOUS
    <3>1. Turns(c)' = << >> /\ LedgerOwner'[c] = NoRow
      BY <2>1 DEF Turns, LedgerOwner
    <3>2. LedgerTurns'[c] = [k \in DOMAIN Turns(c)' |-> Entry(Turns(c)[k])']
      BY DEF LedgerTurns, Entry
    <3>3. LedgerTurns'[c] = << >>
      BY <3>1, <3>2
    <3> QED
      BY <3>1, <3>3
  <2>5. /\ LedgerOwner' = [LedgerOwner EXCEPT ![c0] = NoRow]
        /\ LedgerTurns' = [LedgerTurns EXCEPT ![c0] = << >>]
    BY <2>1, <2>3, <2>4 DEF LedgerOwner, LedgerTurns
  <2>6. Ledger!Delete(c0)
    BY <2>1, <2>2, <2>5 DEF Ledger!Delete
  <2> QED
    BY <2>1, <2>6 DEF Ledger!Next
<1> QED
  BY <1>3, <1>4, <1>5, <1>6 DEF Next, Save, Delete

(* Statement by statement, with locks, versions, lost replies and aborts,  *)
(* the store does what SessionLedger promises.                             *)
THEOREM Implements == Spec => ImplementsLedger
  BY LedgerInit, LedgerStep, Inductive, PTL DEF Spec, Ledger!Spec, ImplementsLedger
=============================================================================

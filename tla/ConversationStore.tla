------------------------- MODULE ConversationStore -------------------------
(***************************************************************************)
(* Session persistence of the energy agent: the two tables                 *)
(* jd_agent.agent_conversations (the transcript the user sees) and         *)
(* jd_agent.agent_session_states (the agent's working memory, with a       *)
(* version), as used by chat and delete requests that run concurrently.    *)
(*                                                                         *)
(* One action is one SQL statement, or the agent run between the load and  *)
(* the save.  The database is PostgreSQL at READ COMMITTED: a statement    *)
(* sees committed rows only, a statement that writes or selects FOR UPDATE *)
(* takes the row's lock and waits while another transaction holds it, and  *)
(* commit or rollback releases every lock of the transaction.              *)
(***************************************************************************)
EXTENDS Integers, Sequences

CONSTANTS
  Cids,      \* conversation ids
  Users,     \* values of the trusted `user` field
  Requests,  \* HTTP requests; a chat request is also the name of its turn
  Legacy,    \* the turns a conversation had before the state table existed
  NoRow,     \* the query returned no row
  Free       \* nobody holds the row lock

ASSUME StoreAssumption ==
  /\ Users # {} /\ Cids # {}
  /\ Legacy \notin Requests
  /\ Free \notin Requests
  /\ NoRow \notin Users
  /\ NoRow \notin [owner : Users, turns : Seq(Requests \cup {Legacy})]
  /\ NoRow \notin [owner : Users, version : Nat \ {0},
                   memory : Seq(Requests \cup {Legacy})]

VARIABLES
  conv,      \* committed transcripts, one row or NoRow per id
  state,     \* committed working memory with its version, or NoRow
  convLock,  \* holder of the row lock on the transcript
  stateLock, \* holder of the row lock on the working memory
  issued,    \* ids uuid4() has generated, the legacy ones included
  deleted,   \* history: ids whose deletion has committed
  pc,        \* the next statement of each request, or its outcome
  req,       \* user, conversation id and session_existed of each request
  history,   \* what load_conversation returned
  stored,    \* what load_agent_state returned
  draftConv,  \* the transcript a transaction will write, until it commits
  draftState  \* the memory it will write

tables  == <<conv, state, deleted>>
locks   == <<convLock, stateLock>>
inputs  == <<issued, req>>
loaded  == <<history, stored>>
drafts  == <<draftConv, draftState>>
vars    == <<tables, locks, inputs, loaded, pc, drafts>>

Request == [user : Users, cid : Cids, existed : BOOLEAN]
Turn    == Requests \cup {Legacy}
ConvRow == [owner : Users, turns : Seq(Turn)]
StateRow == [owner : Users, version : Nat \ {0}, memory : Seq(Turn)]

Outcome  == {"saved", "deleted", "notFound", "conflict", "failed"}
Saving   == {"saveLock", "saveConversation", "saveAgentState", "saveCommit"}
Deleting == {"deleteLock", "deleteState", "deleteConversation", "deleteCommit"}
Running  == {"loadConversation", "loadState", "agent"} \cup Saving \cup Deleting

TypeOK ==
  /\ conv \in [Cids -> ConvRow \cup {NoRow}]
  /\ state \in [Cids -> StateRow \cup {NoRow}]
  /\ convLock \in [Cids -> Requests \cup {Free}]
  /\ stateLock \in [Cids -> Requests \cup {Free}]
  /\ issued \subseteq Cids
  /\ deleted \subseteq Cids
  /\ pc \in [Requests -> {"new"} \cup Running \cup Outcome]
  /\ req \in [Requests -> Request]
  /\ history \in [Requests -> Seq(Turn)]
  /\ stored \in [Requests -> StateRow \cup {NoRow}]
  /\ draftConv \in [Requests -> ConvRow \cup {NoRow}]
  /\ draftState \in [Requests -> StateRow \cup {NoRow}]

(***************************************************************************)
(* At the start some conversations may already exist without a state row:  *)
(* the table was added to a database that held transcripts.                *)
(***************************************************************************)
Init ==
  /\ conv \in [Cids -> {NoRow} \cup [owner : Users, turns : {<<Legacy>>}]]
  /\ state = [c \in Cids |-> NoRow]
  /\ convLock = [c \in Cids |-> Free]
  /\ stateLock = [c \in Cids |-> Free]
  /\ issued = {c \in Cids : conv[c] # NoRow}
  /\ deleted = {}
  /\ pc = [p \in Requests |-> "new"]
  /\ req = [p \in Requests |-> CHOOSE r \in Request : TRUE]
  /\ history = [p \in Requests |-> << >>]
  /\ stored = [p \in Requests |-> NoRow]
  /\ draftConv = [p \in Requests |-> NoRow]
  /\ draftState = [p \in Requests |-> NoRow]

-----------------------------------------------------------------------------
Cid(p)            == req[p].cid
User(p)           == req[p].user
At(p, statement)  == pc[p] = statement
Goto(p, next)     == pc' = [pc EXCEPT ![p] = next]

(* A row lock is granted when it is free or already held by p. *)
Available(lock, c, p) == lock[c] \in {Free, p}
Taken(lock, c, p)     == [lock EXCEPT ![c] = p]
Released(lock, p)     == [c \in Cids |-> IF lock[c] = p THEN Free ELSE lock[c]]

ReleaseLocks(p) == /\ convLock' = Released(convLock, p)
                   /\ stateLock' = Released(stateLock, p)

Found(row, u) == row # NoRow        \* mutant: the user is not compared
Owns(row, u)  == row # NoRow /\ row.owner = u

(* The rows p has locked take the values p gave them. *)
NothingInstalled(p) == UNCHANGED <<conv, state>>  \* mutant: commit forgotten
Install(p) ==
  /\ conv' = [c \in Cids |-> IF convLock[c] = p THEN draftConv[p] ELSE conv[c]]
  /\ state' = [c \in Cids |-> IF stateLock[c] = p THEN draftState[p] ELSE state[c]]

(* The session closes without a commit: its writes vanish, its locks go. *)
WritesKept(p, outcome) ==           \* mutant: statements commit one by one
  /\ Goto(p, outcome)
  /\ Install(p)
  /\ ReleaseLocks(p)
  /\ UNCHANGED <<deleted, inputs, loaded, drafts>>
Rollback(p, outcome) ==
  /\ Goto(p, outcome)
  /\ ReleaseLocks(p)
  /\ UNCHANGED <<tables, inputs, loaded, drafts>>

-----------------------------------------------------------------------------
(* Arrival.  A request without conversation_id opens a conversation under  *)
(* a fresh uuid4; one that names a conversation can name any id ever given *)
(* out, its own or not, stored, not yet stored or deleted.                 *)

Arrive(p, r, statement) ==
  /\ At(p, "new")
  /\ req' = [req EXCEPT ![p] = r]
  /\ Goto(p, statement)
  /\ UNCHANGED <<tables, locks, loaded, drafts>>

OpenChat(p) ==
  \E u \in Users, c \in Cids \ issued :
    /\ Arrive(p, [user |-> u, cid |-> c, existed |-> FALSE], "loadConversation")
    /\ issued' = issued \cup {c}

ContinueChat(p) ==
  \E u \in Users, c \in issued :
    /\ Arrive(p, [user |-> u, cid |-> c, existed |-> TRUE], "loadConversation")
    /\ UNCHANGED issued

RequestDelete(p) ==
  \E u \in Users, c \in issued :
    /\ Arrive(p, [user |-> u, cid |-> c, existed |-> TRUE], "deleteLock")
    /\ UNCHANGED issued

-----------------------------------------------------------------------------
(* Loading: two statements, between which other requests may commit.       *)

LoadConversation(p) ==
  /\ At(p, "loadConversation")
  /\ IF Owns(conv[Cid(p)], User(p))
       THEN /\ history' = [history EXCEPT ![p] = conv[Cid(p)].turns]
            /\ Goto(p, "loadState")
       ELSE /\ UNCHANGED history
            /\ Goto(p, IF req[p].existed THEN "notFound" ELSE "agent")
  /\ UNCHANGED <<tables, locks, inputs, stored, drafts>>

LoadAgentState(p) ==
  /\ At(p, "loadState")
  /\ stored' = [stored EXCEPT ![p] = IF Owns(state[Cid(p)], User(p))
                                        THEN state[Cid(p)] ELSE NoRow]
  /\ Goto(p, "agent")
  /\ UNCHANGED <<tables, locks, inputs, history, drafts>>

(* What the agent starts from: the restored memory if there is one, else   *)
(* the transcript; and what it remembers once it has answered.             *)
Known(p)           == IF stored[p] = NoRow THEN history[p] ELSE stored[p].memory
VersionBelow(p)    == IF stored[p] = NoRow THEN -1 ELSE stored[p].version \* mutant
ExpectedVersion(p) == IF stored[p] = NoRow THEN 0 ELSE stored[p].version
MemoryOf(p)        == Append(Known(p), p)

(* The agent runs with no database session open.  It answers, or not. *)
AgentCompletes(p) ==
  /\ At(p, "agent")
  /\ Goto(p, "saveLock")
  /\ UNCHANGED <<tables, locks, inputs, loaded, drafts>>

AgentFails(p) ==
  /\ At(p, "agent")
  /\ Goto(p, "failed")
  /\ UNCHANGED <<tables, locks, inputs, loaded, drafts>>

-----------------------------------------------------------------------------
(* save_conversation: one transaction of three statements and a commit.    *)

(* Only a request that opened its conversation may create the row. *)
UnversionedCreates(p) == ExpectedVersion(p) = 0   \* mutant: allow_create ignored
MayCreate(p) == ~req[p].existed /\ ExpectedVersion(p) = 0

(* The transcript p writes: the stored one with its own turn at the end. *)
OnlyThisTurn(p, turns) == [owner |-> User(p), turns |-> <<p>>]  \* mutant: replace
Merged(p, turns) == [owner |-> User(p), turns |-> Append(turns, p)]

(* SELECT ... FOR UPDATE on the transcript, whoever owns it. *)
SaveLockConversation(p) ==
  LET c == Cid(p) IN
  /\ At(p, "saveLock")
  /\ IF conv[c] = NoRow
       THEN IF ~MayCreate(p)
              THEN Rollback(p, "notFound")
              ELSE /\ draftConv' = [draftConv EXCEPT ![p] = Merged(p, << >>)]
                   /\ Goto(p, "saveConversation")
                   /\ UNCHANGED <<tables, locks, inputs, loaded, draftState>>
       ELSE /\ Available(convLock, c, p)
            /\ IF conv[c].owner # User(p)
                 THEN Rollback(p, "notFound")
                 ELSE /\ convLock' = Taken(convLock, c, p)
                      /\ draftConv' = [draftConv EXCEPT ![p] = Merged(p, conv[c].turns)]
                      /\ Goto(p, "saveConversation")
                      /\ UNCHANGED <<tables, stateLock, inputs, loaded, draftState>>

(* INSERT ... ON CONFLICT DO UPDATE WHERE user_id = user, RETURNING. *)
SaveConversation(p) ==
  LET c == Cid(p) IN
  /\ At(p, "saveConversation")
  /\ Available(convLock, c, p)
  /\ IF conv[c] # NoRow /\ conv[c].owner # User(p)
       THEN Rollback(p, "notFound")
       ELSE /\ convLock' = Taken(convLock, c, p)
            /\ Goto(p, "saveAgentState")
            /\ UNCHANGED <<tables, stateLock, inputs, loaded, drafts>>

(* The stored memory may be replaced only by the turn that started from it. *)
OwnerMayReplace(p, row) == row = NoRow \/ row.owner = User(p) \* mutant: no version
MayReplace(p, row) ==
  row = NoRow \/ (row.owner = User(p) /\ row.version = ExpectedVersion(p))

(* INSERT ... ON CONFLICT DO UPDATE WHERE the version is the expected one. *)
SaveAgentState(p) ==
  LET c == Cid(p) IN
  /\ At(p, "saveAgentState")
  /\ Available(stateLock, c, p)
  /\ IF MayReplace(p, state[c])
       THEN /\ stateLock' = Taken(stateLock, c, p)
            /\ draftState' = [draftState EXCEPT ![p] =
                           [owner |-> User(p), memory |-> MemoryOf(p),
                            version |-> ExpectedVersion(p) + 1]]
            /\ Goto(p, "saveCommit")
            /\ UNCHANGED <<tables, convLock, inputs, loaded, draftConv>>
       ELSE Rollback(p, "conflict")

(* The server commits; the reply may be lost, and then the request fails. *)
SaveCommit(p) ==
  /\ At(p, "saveCommit")
  /\ Install(p)
  /\ ReleaseLocks(p)
  /\ \/ Goto(p, "saved")
     \/ Goto(p, "failed")
  /\ UNCHANGED <<deleted, inputs, loaded, drafts>>

-----------------------------------------------------------------------------
(* delete_owned_conversation: the same lock order, transcript then memory. *)

DeleteReadsConversation(p) ==       \* mutant: SELECT without FOR UPDATE
  /\ At(p, "deleteLock")
  /\ IF Owns(conv[Cid(p)], User(p))
       THEN Goto(p, "deleteState") /\ UNCHANGED <<tables, locks, inputs, loaded, drafts>>
       ELSE Rollback(p, "notFound")
DeleteLockConversation(p) ==
  LET c == Cid(p) IN
  /\ At(p, "deleteLock")
  /\ IF Owns(conv[c], User(p))
       THEN /\ Available(convLock, c, p)
            /\ convLock' = Taken(convLock, c, p)
            /\ Goto(p, "deleteState")
            /\ UNCHANGED <<tables, stateLock, inputs, loaded, drafts>>
       ELSE Rollback(p, "notFound")

DeleteState(p) ==
  LET c == Cid(p) IN
  /\ At(p, "deleteState")
  /\ Goto(p, "deleteConversation")
  /\ IF Owns(state[c], User(p))
       THEN /\ Available(stateLock, c, p)
            /\ stateLock' = Taken(stateLock, c, p)
            /\ draftState' = [draftState EXCEPT ![p] = NoRow]
       ELSE UNCHANGED <<stateLock, draftState>>
  /\ UNCHANGED <<tables, convLock, inputs, loaded, draftConv>>

DeleteConversation(p) ==
  LET c == Cid(p) IN
  /\ At(p, "deleteConversation")
  /\ IF Owns(conv[c], User(p))
       THEN /\ Available(convLock, c, p)
            /\ convLock' = Taken(convLock, c, p)
            /\ draftConv' = [draftConv EXCEPT ![p] = NoRow]
            /\ Goto(p, "deleteCommit")
            /\ UNCHANGED <<tables, stateLock, inputs, loaded, draftState>>
       ELSE Rollback(p, "notFound")

DeleteCommit(p) ==
  /\ At(p, "deleteCommit")
  /\ Install(p)
  /\ ReleaseLocks(p)
  /\ deleted' = deleted \cup {Cid(p)}
  /\ \/ Goto(p, "deleted")
     \/ Goto(p, "failed")
  /\ UNCHANGED <<inputs, loaded, drafts>>

(* The client goes away, the process crashes or a statement fails: whatever *)
(* the transaction wrote is gone.                                           *)
Abort(p) ==
  /\ pc[p] \in Running
  /\ Rollback(p, "failed")

-----------------------------------------------------------------------------
Save(p)   == \/ SaveLockConversation(p) \/ SaveConversation(p)
             \/ SaveAgentState(p) \/ SaveCommit(p)
Delete(p) == \/ DeleteLockConversation(p) \/ DeleteState(p)
             \/ DeleteConversation(p) \/ DeleteCommit(p)
Chat(p)   == \/ LoadConversation(p) \/ LoadAgentState(p)
             \/ AgentCompletes(p) \/ AgentFails(p)

Next == \E p \in Requests :
  \/ OpenChat(p) \/ ContinueChat(p) \/ RequestDelete(p)
  \/ Chat(p) \/ Save(p) \/ Delete(p) \/ Abort(p)

(* The database executes every statement that is not waiting for a lock. *)
Fairness == \A p \in Requests : WF_vars(Save(p) \/ Delete(p))

Spec     == Init /\ [][Next]_vars
FairSpec == Spec /\ Fairness

-----------------------------------------------------------------------------
Turns(c)      == IF conv[c] = NoRow THEN << >> ELSE conv[c].turns
Stored(p, s)  == \E k \in DOMAIN s : s[k] = p
Written(c)    == {k \in DOMAIN Turns(c) : Turns(c)[k] \in Requests}

(* Every stored answer was computed from exactly the turns that precede it *)
(* in the transcript, whatever else was in flight: save_conversation's     *)
(* version check makes concurrent turns of one conversation serial.        *)
TurnsAreSerial ==
  \A c \in Cids : \A k \in Written(c) :
    MemoryOf(Turns(c)[k]) = SubSeq(Turns(c), 1, k)

(* The agent's committed memory is the memory of the transcript beside it: *)
(* same owner, same turns, and never a memory whose transcript is gone.    *)
MemoryMatchesTranscript ==
  \A c \in Cids : state[c] # NoRow =>
    /\ Owns(conv[c], state[c].owner)
    /\ state[c].memory = conv[c].turns

(* A version is never skipped or reused: it counts the turns saved since   *)
(* the state table exists, so equal versions mean equal transcripts.       *)
VersionCountsTurns ==
  \A c \in Cids : Written(c) # {} =>
    /\ state[c] # NoRow
    /\ Len(Turns(c)) = state[c].version + (IF Turns(c)[1] = Legacy THEN 1 ELSE 0)

(* An answer whose save succeeded is in the transcript until its           *)
(* conversation is deleted: no later or concurrent save overwrites it.     *)
AcceptedTurnKept ==
  \A p \in Requests : At(p, "saved") =>
    Cid(p) \in deleted \/ Stored(p, Turns(Cid(p)))

(* A refused save leaves nothing behind in either table: the transcript is *)
(* rolled back with the memory.                                            *)
RefusedTurnLeavesNoTrace ==
  \A p \in Requests : pc[p] \in {"notFound", "conflict"} =>
    \A c \in Cids :
      /\ ~Stored(p, Turns(c))
      /\ state[c] # NoRow => ~Stored(p, state[c].memory)

(* A request that was in flight when its conversation was deleted cannot   *)
(* bring back the transcript or the memory.                                *)
DeletedStaysDeleted ==
  \A c \in deleted : conv[c] = NoRow /\ state[c] = NoRow

(* Every outcome that a request was told holds of the tables for good. *)
OutcomesHold == AcceptedTurnKept /\ RefusedTurnLeavesNoTrace /\ DeletedStaysDeleted

(* No request is ever answered from another user's conversation. *)
AnsweredFromOwnTurns ==
  \A p \in Requests : \A t \in Requests :
    Stored(t, MemoryOf(p)) => User(t) = User(p)

(* Save and delete never wait for each other: both lock the transcript row *)
(* before the memory row.                                                  *)
WaitsFor(p, q) ==
  /\ p # q
  /\ \/ /\ pc[p] \in {"saveLock", "saveConversation", "deleteLock", "deleteConversation"}
        /\ convLock[Cid(p)] = q
     \/ /\ pc[p] \in {"saveAgentState", "deleteState"}
        /\ stateLock[Cid(p)] = q

NoLockCycle == \A p, q \in Requests : ~(WaitsFor(p, q) /\ WaitsFor(q, p))

(* A transcript keeps its owner and only grows, one turn at a time, until  *)
(* its owner deletes it.                                                   *)
TranscriptOnlyGrows ==
  [][\A c \in Cids : conv[c] # NoRow /\ conv'[c] # conv[c] =>
       \E p \in Requests :
         /\ Cid(p) = c /\ User(p) = conv[c].owner
         /\ \/ conv'[c] = NoRow
            \/ conv'[c] = [owner |-> conv[c].owner, turns |-> Append(conv[c].turns, p)]
    ]_vars

(* A save or a delete that has started always ends: no row lock is kept by *)
(* a request that is over.                                                 *)
StoreAnswers ==
  \A p \in Requests : pc[p] \in Saving \cup Deleting ~> pc[p] \in Outcome

(* The two tables, seen as the ledger of SessionLedger. *)
LedgerOwner == [c \in Cids |-> IF conv[c] = NoRow THEN NoRow ELSE conv[c].owner]
LedgerTurns ==
  [c \in Cids |-> [k \in DOMAIN Turns(c) |->
     [turn |-> Turns(c)[k],
      knew |-> IF Turns(c)[k] \in Requests THEN Known(Turns(c)[k]) ELSE << >>]]]

Ledger == INSTANCE SessionLedger
            WITH Nobody <- NoRow, owner <- LedgerOwner,
                 turns <- LedgerTurns, gone <- deleted

(* Statement by statement, with locks, versions, lost replies and aborts,  *)
(* the store does what SessionLedger promises: whole turns, one at a time, *)
(* each computed from all the earlier ones, and final deletion.            *)
ImplementsLedger == Ledger!Spec
=============================================================================

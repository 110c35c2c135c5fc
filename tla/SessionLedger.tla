--------------------------- MODULE SessionLedger ---------------------------
(***************************************************************************)
(* What session persistence promises, without tables, locks or versions:   *)
(* a conversation is a sequence of turns with one owner.  A turn is added   *)
(* in one step by the owner, and its answer knew exactly the turns already *)
(* there.  Deleting a conversation is one step, and it is final.           *)
(***************************************************************************)
EXTENDS Sequences

CONSTANTS Cids, Users, Requests, Legacy, Nobody

VARIABLES
  owner,  \* who owns each conversation, or Nobody
  turns,  \* its turns, each with the turns its answer was computed from
  gone    \* the conversations that have been deleted

vars == <<owner, turns, gone>>

Entry(turn, knew) == [turn |-> turn, knew |-> knew]
Names(entries)    == [k \in DOMAIN entries |-> entries[k].turn]

Init ==
  /\ owner \in [Cids -> Users \cup {Nobody}]
  /\ turns = [c \in Cids |-> IF owner[c] = Nobody
                               THEN << >> ELSE <<Entry(Legacy, << >>)>>]
  /\ gone = {}

(* Request p of user u adds its turn; the first turn creates the record. *)
AddTurn(c, u, p) ==
  /\ c \notin gone
  /\ owner[c] \in {u, Nobody}
  /\ owner' = [owner EXCEPT ![c] = u]
  /\ turns' = [turns EXCEPT ![c] = Append(@, Entry(p, Names(@)))]
  /\ UNCHANGED gone

Delete(c) ==
  /\ owner[c] # Nobody
  /\ owner' = [owner EXCEPT ![c] = Nobody]
  /\ turns' = [turns EXCEPT ![c] = << >>]
  /\ gone' = gone \cup {c}

Next == \E c \in Cids :
  \/ \E u \in Users, p \in Requests : AddTurn(c, u, p)
  \/ Delete(c)

Spec == Init /\ [][Next]_vars
=============================================================================

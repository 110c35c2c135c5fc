----------------------- MODULE MCConversationStore -----------------------
(***************************************************************************)
(* A small instance of ConversationStore: three requests of two users on   *)
(* one conversation id, which two of them may find in any state.           *)
(***************************************************************************)
EXTENDS ConversationStore
=============================================================================

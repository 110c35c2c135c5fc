--------------------------- MODULE MCChatDelivery ---------------------------
(***************************************************************************)
(* One request of up to three text deltas and two concurrent tool calls.   *)
(***************************************************************************)
EXTENDS ChatDelivery

=============================================================================

----------------------------- MODULE MCChatPage -----------------------------
(***************************************************************************)
(* A page with two messages, two conversations and one or two conversation  *)
(* fetches in flight.                                                      *)
(***************************************************************************)
EXTENDS ChatPage, TLC

PageSymmetry == Permutations(Cids) \cup Permutations(Messages) \cup Permutations(Slots)
=============================================================================

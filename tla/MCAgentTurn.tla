----------------------------- MODULE MCAgentTurn -----------------------------
(***************************************************************************)
(* An instance of AgentTurn and ChatHistory for TLC: a turn that may call  *)
(* four tools at a time, another one of the same user, which it may follow *)
(* or precede in a conversation, and one of somebody else.                 *)
(***************************************************************************)
EXTENDS ChatHistory, TLC

CONSTANTS t1, t2, t3

Users == (t1 :> 1) @@ (t2 :> 1) @@ (t3 :> 2)

CallsOfATurn == (t1 :> 4) @@ (t2 :> 0) @@ (t3 :> 0)
===============================================================================

------------------------------- MODULE OnceOnly -------------------------------
(***************************************************************************)
(* What an idempotency key promises: the handler's result is fixed at most *)
(* once, and every call that is answered with a result gets that one, if   *)
(* its payload is the one the result was computed for.  Other calls may be *)
(* turned away.                                                            *)
(***************************************************************************)
CONSTANTS Callers, Payload, Nobody

VARIABLES
    result,   \* whose handler produced the result, Nobody while there is none
    answer    \* per caller, whose result it was given

vars == <<result, answer>>

Init == result = Nobody /\ answer = [c \in Callers |-> Nobody]

\* The result is fixed.
Fix(c) == result = Nobody /\ result' = c /\ UNCHANGED answer

\* A call is answered with the result there is.
Answer(c) ==
    /\ answer[c] = Nobody
    /\ result # Nobody /\ Payload[c] = Payload[result]
    /\ answer' = [answer EXCEPT ![c] = result]
    /\ UNCHANGED result

Next == \E c \in Callers : Fix(c) \/ Answer(c)

Spec == Init /\ [][Next]_vars
===============================================================================

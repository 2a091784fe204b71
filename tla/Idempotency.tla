----------------------------- MODULE Idempotency -----------------------------
(***************************************************************************)
(* run_idempotent (idempotency_service): concurrent calls that carry the   *)
(* same key to the same endpoint.  The row of idempotency_keys is the only *)
(* thing they share; each statement on it is committed at once, so each is *)
(* a step.  A call is a client's request or one of its retries; the result *)
(* of a handler is named after the call that ran it.                       *)
(***************************************************************************)
EXTENDS Integers, FiniteSets

CONSTANTS
    Callers,    \* calls with the key
    Payload,    \* Payload[c]: the request body of call c
    MaxPolls,   \* how often _wait_for_result polls before it gives up
    MayCrash,   \* can the process of a call die?
    Nobody      \* no call

ASSUME PollsAssumption == MaxPolls \in Nat
ASSUME CrashAssumption == MayCrash \in BOOLEAN
ASSUME NobodyAssumption == Nobody \notin Callers

VARIABLES
    row,       \* "none", "claimed" (in_progress) or "done"
    claimant,  \* whose INSERT made the row (its request_hash is Payload of it)
    body,      \* response_body: whose result is stored
    pc,        \* where each call is
    polls,     \* how often it has polled
    answer,    \* whose result it was given
    returned   \* history: calls whose handler returned a result

vars == <<row, claimant, body, pc, polls, answer, returned>>

Running == {"handler", "save", "undo"}
Ends == {"answered", "failed", "in_progress", "key_reused", "crashed"}

TypeOK ==
    /\ row \in {"none", "claimed", "done"}
    /\ claimant \in Callers \cup {Nobody}
    /\ body \in Callers \cup {Nobody}
    /\ pc \in [Callers -> {"claim", "poll", "reclaim", "return"} \cup Running \cup Ends]
    /\ polls \in [Callers -> 0 .. MaxPolls]
    /\ answer \in [Callers -> Callers \cup {Nobody}]
    /\ returned \subseteq Callers

Init ==
    /\ row = "none" /\ claimant = Nobody /\ body = Nobody
    /\ pc = [c \in Callers |-> "claim"]
    /\ polls = [c \in Callers |-> 0]
    /\ answer = [c \in Callers |-> Nobody]
    /\ returned = {}

Goto(c, l) == pc' = [pc EXCEPT ![c] = l]

\* Mutant: a SELECT before the INSERT, and no unique key to catch the race.
TryClaimAlways(c, won, lost) ==
    /\ row' = "claimed" /\ claimant' = c /\ Goto(c, won)

\* INSERT ... ON CONFLICT DO NOTHING, one of two continuations.
TryClaim(c, won, lost) ==
    IF row = "none"
    THEN row' = "claimed" /\ claimant' = c /\ Goto(c, won)
    ELSE UNCHANGED <<row, claimant>> /\ Goto(c, lost)

Claim(c) ==
    /\ pc[c] = "claim"
    /\ TryClaim(c, "handler", "poll")
    /\ UNCHANGED <<body, polls, answer, returned>>

\* The handler runs to its end, or raises: before or after its own commit.
Handle(c) ==
    /\ pc[c] = "handler"
    /\ \/ Goto(c, "save") /\ returned' = returned \cup {c}
       \/ Goto(c, "undo") /\ UNCHANGED returned
    /\ UNCHANGED <<row, claimant, body, polls, answer>>

\* Mutant: the row is dropped as after an exception.
SaveForgets(c) ==
    /\ pc[c] = "save"
    /\ row' = "none" /\ claimant' = Nobody
    /\ Goto(c, "return")
    /\ UNCHANGED <<body, polls, answer, returned>>

\* The UPDATE that stores the result, whatever row is there.
Save(c) ==
    /\ pc[c] = "save"
    /\ IF row = "none" THEN UNCHANGED <<row, body>> ELSE row' = "done" /\ body' = c
    /\ Goto(c, "return")
    /\ UNCHANGED <<claimant, polls, answer, returned>>

Return(c) ==
    /\ pc[c] = "return"
    /\ answer' = [answer EXCEPT ![c] = c]
    /\ Goto(c, "answered")
    /\ UNCHANGED <<row, claimant, body, polls, returned>>

\* The DELETE of an in_progress row, and the exception goes on.
Undo(c) ==
    /\ pc[c] = "undo"
    /\ IF row = "claimed" THEN row' = "none" /\ claimant' = Nobody
                          ELSE UNCHANGED <<row, claimant>>
    /\ Goto(c, "failed")
    /\ UNCHANGED <<body, polls, answer, returned>>

\* Mutant: the stored result is returned without a look at request_hash.
LookAtAnyBody(c) ==
    \/ row = "none" /\ Goto(c, "reclaim") /\ UNCHANGED answer
    \/ row = "done" /\ answer' = [answer EXCEPT ![c] = body] /\ Goto(c, "answered")

\* What a poll does that does not wait: the row has vanished, or is of another
\* request_hash, or has a result.
Look(c) ==
    \/ row = "none" /\ Goto(c, "reclaim") /\ UNCHANGED answer
    \/ row # "none" /\ Payload[c] # Payload[claimant] /\ Goto(c, "key_reused") /\ UNCHANGED answer
    \/ /\ row = "done" /\ Payload[c] = Payload[claimant]
       /\ answer' = [answer EXCEPT ![c] = body] /\ Goto(c, "answered")

Waits(c) == row = "claimed" /\ Payload[c] = Payload[claimant]

\* Mutant: the time spent waiting is not counted.
PollForever(c) ==
    /\ pc[c] = "poll" /\ polls[c] < MaxPolls
    /\ \/ Look(c)
       \/ Waits(c) /\ UNCHANGED <<pc, answer>>
    /\ UNCHANGED <<row, claimant, body, polls, returned>>

\* One round of _wait_for_result.
Poll(c) ==
    /\ pc[c] = "poll" /\ polls[c] < MaxPolls
    /\ \/ Look(c) /\ UNCHANGED polls
       \/ Waits(c) /\ polls' = [polls EXCEPT ![c] = @ + 1] /\ UNCHANGED <<pc, answer>>
    /\ UNCHANGED <<row, claimant, body, returned>>

\* The row has vanished: claim it again.  The winner does not run the handler, it
\* raises IdempotencyInProgress("retry"), which the endpoints answer with 409.
Reclaim(c) ==
    /\ pc[c] = "reclaim"
    /\ TryClaim(c, "in_progress", "poll")
    /\ polls' = IF row = "none" THEN polls ELSE [polls EXCEPT ![c] = @ + 1]
    /\ UNCHANGED <<body, answer, returned>>

GiveUp(c) ==
    /\ pc[c] = "poll" /\ polls[c] >= MaxPolls
    /\ Goto(c, "in_progress")
    /\ UNCHANGED <<row, claimant, body, polls, answer, returned>>

\* The process dies, its request is cancelled or it loses the database; the row stays
\* as it is.  The handler may have committed.
Crash(c) ==
    /\ MayCrash
    /\ pc[c] \notin Ends
    /\ Goto(c, "crashed")
    /\ UNCHANGED <<row, claimant, body, polls, answer, returned>>

Step(c) ==
    \/ Claim(c)
    \/ Handle(c)
    \/ Save(c)
    \/ Return(c)
    \/ Undo(c)
    \/ Poll(c)
    \/ Reclaim(c)
    \/ GiveUp(c)

Next == \E c \in Callers : Step(c) \/ Crash(c)

Spec == Init /\ [][Next]_vars

\* A call that is not killed goes on: the handler and each statement end.
GoesOn(c) == WF_vars(Step(c))
FairSpec == Spec /\ \A c \in Callers : GoesOn(c)

-----------------------------------------------------------------------------

\* While a call runs the handler or records its outcome, the row is its claim, so
\* no two calls run the handler at once and none loses its row to another.
OneRunner ==
    \A c \in Callers : pc[c] \in Running => row = "claimed" /\ claimant = c

\* However calls, retries, exceptions and crashes interleave, run_idempotent lets at
\* most one handler return a result.  (A handler that raises after its commit is not
\* counted: its row is deleted, and a retry runs a handler again.)
AtMostOnce == \A c, d \in returned : c = d

\* Every call that is given a result is given the same one, computed by a handler
\* that returned it, for the payload the call carries.
SameAnswer ==
    \A c \in Callers : answer[c] # Nobody =>
        /\ answer[c] \in returned
        /\ Payload[answer[c]] = Payload[c]

\* A key is stuck in progress, with nobody who will finish it, only if its claimant
\* died, or if a handler raised and a waiting retry then claimed the row that had
\* vanished, which it does not serve (idempotency_service.py:127).
StuckKeyHasFailure ==
    row = "claimed" =>
        \/ pc[claimant] \in Running \cup {"crashed"}
        \/ pc[claimant] = "in_progress" /\ \E c \in Callers : pc[c] = "failed"

\* A call that has not ended can take a step: one of its guards holds.  The hypothesis of
\* CallsGoOn and RunnersEnd, because ENABLED is not within the prover's reach.
CallNeverStuck == \A c \in Callers : pc[c] \notin Ends => ENABLED <<Step(c)>>_vars

\* Every call that is not killed ends, with an answer or with an error.
CallsEnd == \A c \in Callers : pc[c] \in {"poll", "handler"} ~> pc[c] \in Ends

\* The row fixes one result and hands it to every call that is answered.
Once == INSTANCE OnceOnly WITH result <- IF row = "done" THEN body ELSE Nobody
ImplementsOnceOnly == Once!Spec

=============================================================================

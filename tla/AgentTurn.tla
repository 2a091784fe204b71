------------------------------ MODULE AgentTurn ------------------------------
(***************************************************************************)
(* The turns of the AI assistant (agent_service, tools, ai router).  A     *)
(* turn is one POST /api/ai/chat: it asks the model, runs the tools the    *)
(* model calls and hands the results back, until the model calls none.     *)
(* Messages, audit rows and the services behind the tools share one        *)
(* database session, which those services commit and roll back.            *)
(*                                                                         *)
(* What a tool reads and answers is left out: a call is known by its       *)
(* number, and by what it does to the session.                             *)
(***************************************************************************)
EXTENDS Integers

CONSTANTS
    Turns,      \* requests; a conversation has the name of the turn that starts it
    User,       \* who sends a request
    Rounds,     \* ai_max_tool_iterations
    MaxCalls,   \* bound: tool calls of a turn
    None        \* no conversation

ASSUME RoundsAssumption == Rounds \in Nat \ {0} /\ MaxCalls \in [Turns -> Nat]
ASSUME NoneAssumption == None \notin Turns

VARIABLES
    pc,         \* where a turn is
    chat,       \* its conversation
    session,    \* what its database session can still do, see Sessions
    rounds,     \* how often it has asked the model
    todo,       \* tool calls of the model's last answer that have not run
    called,     \* how many have run
    written,    \* how many messages the turn has added
    tx,         \* rows added and not committed
    db,         \* committed rows, by the turn that added them
    effects,    \* calls that have held, paid or cancelled, which is committed
    owed        \* history: calls that are irreversible or failed

loopVars == <<pc, rounds, todo, called, written>>
vars == <<loopVars, chat, session, tx, db, effects, owed>>

Row(kind, n) == [kind |-> kind, n |-> n]
Conversation == Row("conversation", 0)
Message(n) == Row("message", n)
Audit(n) == Row("audit", n)
Rows == [kind : {"conversation", "message", "audit"}, n : Nat]

\* new:    the conversation is inserted by the open transaction
\* kept:   the conversation is committed
\* lost:   its insertion was rolled back: no message can be inserted, audit rows can
\* broken: the session has to be rolled back before it takes another statement
Sessions == {"new", "kept", "lost", "broken"}
Healthy == {"new", "kept"}

Running == {"asking", "calling", "closing"}

TypeOK ==
    /\ pc \in [Turns -> Running \cup {"idle", "answered", "failed"}]
    /\ chat \in [Turns -> Turns \cup {None}]
    /\ session \in [Turns -> Sessions]
    /\ rounds \in [Turns -> 0 .. Rounds]
    /\ todo \in [Turns -> Int] /\ \A t \in Turns : todo[t] \in 0 .. MaxCalls[t]
    /\ called \in [Turns -> Nat]
    /\ written \in [Turns -> Nat]
    /\ tx \in [Turns -> SUBSET Rows]
    /\ db \in [Turns -> SUBSET Rows]
    /\ effects \in [Turns -> SUBSET Nat]
    /\ owed \in [Turns -> SUBSET Nat]

Init ==
    /\ pc = [t \in Turns |-> "idle"]
    /\ chat = [t \in Turns |-> None]
    /\ session = [t \in Turns |-> "new"]
    /\ rounds = [t \in Turns |-> 0]
    /\ todo = [t \in Turns |-> 0]
    /\ called = [t \in Turns |-> 0]
    /\ written = [t \in Turns |-> 0]
    /\ tx = [t \in Turns |-> {}]
    /\ db = [t \in Turns |-> {}]
    /\ effects = [t \in Turns |-> {}]
    /\ owed = [t \in Turns |-> {}]

-----------------------------------------------------------------------------
(***************************************************************************)
(* Asking the model                                                        *)
(***************************************************************************)

\* The conversation of the request, if it exists and is the user's.
OwnChats(t) == {c \in Turns : Conversation \in db[c] /\ User[c] = User[t]}

\* The request comes in, with the id of a conversation or without one, and adds the
\* user's message.  An id that is unknown or somebody else's starts a new conversation.
Start(t) ==
    /\ pc[t] = "idle"
    /\ \E c \in OwnChats(t) \cup {t} :
        /\ chat' = [chat EXCEPT ![t] = c]
        /\ session' = [session EXCEPT ![t] = IF c = t THEN "new" ELSE "kept"]
        /\ tx' = [tx EXCEPT ![t] = {Message(1)} \cup IF c = t THEN {Conversation} ELSE {}]
    /\ written' = [written EXCEPT ![t] = 1]
    /\ pc' = [pc EXCEPT ![t] = "asking"]
    /\ UNCHANGED <<rounds, todo, called, db, effects, owed>>

\* The model answers with text, or with calls.
Ask(t) ==
    /\ pc[t] = "asking" /\ rounds[t] < Rounds
    /\ \E k \in 0 .. MaxCalls[t] - called[t] :
        /\ todo' = [todo EXCEPT ![t] = k]
        /\ pc' = [pc EXCEPT ![t] = IF k = 0 THEN "closing" ELSE "calling"]
    /\ rounds' = [rounds EXCEPT ![t] = @ + 1]
    /\ written' = [written EXCEPT ![t] = @ + 1]
    /\ tx' = [tx EXCEPT ![t] = @ \cup {Message(written[t] + 1)}]
    /\ UNCHANGED <<called, chat, session, db, effects, owed>>

\* The request ends with an exception, and what is not committed is gone: the model
\* cannot be reached or refuses, the arguments of a failed call are JSON but no object
\* (the audit row lists their items), or the process dies.
Raise(t) ==
    /\ pc[t] \in Running
    /\ pc' = [pc EXCEPT ![t] = "failed"]
    /\ tx' = [tx EXCEPT ![t] = {}]
    /\ UNCHANGED <<rounds, todo, called, written, chat, session, db, effects, owed>>

-----------------------------------------------------------------------------
(***************************************************************************)
(* Tool calls                                                              *)
(***************************************************************************)

\* Mutant: the loop over the model's answers does not end.
AskAgain(t) == IF todo[t] > 1 THEN "calling" ELSE "asking"

\* Where a turn goes after a call: the model is asked again as long as it may be.
AfterCall(t) ==
    IF todo[t] > 1 THEN "calling" ELSE IF rounds[t] < Rounds THEN "asking" ELSE "closing"

\* A call has run and left the rows `open' uncommitted; its audit row is added if it
\* needs one, and the message with the results after the last call.
EndCall(t, open, audited) ==
    LET n == called[t] + 1
        last == todo[t] = 1
    IN  /\ called' = [called EXCEPT ![t] = n]
        /\ todo' = [todo EXCEPT ![t] = @ - 1]
        /\ pc' = [pc EXCEPT ![t] = AfterCall(t)]
        /\ written' = [written EXCEPT ![t] = IF last THEN @ + 1 ELSE @]
        /\ tx' = [tx EXCEPT ![t] = open \cup (IF audited THEN {Audit(n)} ELSE {})
                                        \cup (IF last THEN {Message(written[t] + 1)} ELSE {})]
        /\ owed' = [owed EXCEPT ![t] = IF audited THEN @ \cup {n} ELSE @]
        /\ UNCHANGED <<rounds, chat>>

\* A tool that only reads succeeds.  search_policies does in any session.
Lookup(t) ==
    /\ pc[t] = "calling"
    /\ EndCall(t, tx[t], FALSE)
    /\ UNCHANGED <<session, db, effects>>

\* A call fails and leaves the session as it is: malformed arguments, an unknown tool
\* or id, a booking that is not the user's or not in the right status, a session that
\* takes no statement.
Refuse(t) ==
    /\ pc[t] = "calling"
    /\ EndCall(t, tx[t], TRUE)
    /\ UNCHANGED <<session, db, effects>>

\* The session takes statements.  Each flushes what was added before it, which fails for
\* a message of a conversation that is gone; for audit rows, which refer to none, it works.
Usable(t) ==
    \/ session[t] \in Healthy
    \/ session[t] = "lost" /\ \A row \in tx[t] : row.kind # "message"

\* The service commits, with everything that was added before.
CommitCall(t) ==
    /\ pc[t] = "calling" /\ Usable(t)
    /\ db' = [db EXCEPT ![t] = @ \cup tx[t]]
    /\ session' = [session EXCEPT ![t] = IF @ = "lost" THEN "lost" ELSE "kept"]

\* After a rollback the audit row asks an expired conversation for its id, which raises
\* outside of the session's greenlet, and out of the turn.
RaiseAtAudit(t) ==
    /\ pc' = [pc EXCEPT ![t] = "failed"]
    /\ tx' = [tx EXCEPT ![t] = {}]
    /\ called' = [called EXCEPT ![t] = @ + 1]
    /\ owed' = [owed EXCEPT ![t] = @ \cup {called[t] + 1}]
    /\ UNCHANGED <<rounds, todo, written, chat>>

\* Mutant: only failures are audited.
ActUnaudited(t) ==
    /\ CommitCall(t)
    /\ effects' = [effects EXCEPT ![t] = @ \cup {called[t] + 1}]
    /\ EndCall(t, {}, FALSE)

\* A hold, payment or cancellation; its audit row comes after the commit.
Act(t) ==
    /\ CommitCall(t)
    /\ effects' = [effects EXCEPT ![t] = @ \cup {called[t] + 1}]
    /\ EndCall(t, {}, TRUE)

\* A payment is committed and charged, and the second commit, of its payments row, fails:
\* in the flush, which rolls back, or as a commit, which leaves the session prepared.
PayUnrecorded(t) ==
    /\ pc[t] = "calling" /\ Usable(t)
    /\ db' = [db EXCEPT ![t] = @ \cup tx[t]]
    /\ effects' = [effects EXCEPT ![t] = @ \cup {called[t] + 1}]
    /\ \/ /\ session[t] = "lost" /\ UNCHANGED session
          /\ EndCall(t, {}, TRUE)
       \/ /\ session[t] \in Healthy /\ session' = [session EXCEPT ![t] = "kept"]
          /\ RaiseAtAudit(t)
       \/ /\ session' = [session EXCEPT ![t] = "broken"]
          /\ EndCall(t, {}, TRUE)

\* A payment finds that its booking has expired: that is committed, and the call fails.
ExpireAtPay(t) ==
    /\ CommitCall(t)
    /\ EndCall(t, {}, TRUE)
    /\ UNCHANGED effects

\* Mutant: the turn goes on in a new transaction as if nothing had been rolled back.
RollbackUnnoticed(t) ==
    /\ pc[t] = "calling" /\ Usable(t)
    /\ EndCall(t, {}, TRUE)
    /\ UNCHANGED <<session, db, effects>>

\* The service rolls the session back, as create_hold does when a seat is taken, and
\* so does a commit whose flush fails.  A conversation that was committed expires; one
\* that was new, or has been lost before, keeps its id and is not inserted again.
Rollback(t) ==
    /\ pc[t] = "calling" /\ Usable(t)
    /\ \/ /\ session[t] # "kept"
          /\ session' = [session EXCEPT ![t] = "lost"]
          /\ EndCall(t, {}, TRUE)
       \/ /\ session[t] = "kept" /\ UNCHANGED session
          /\ RaiseAtAudit(t)
    /\ UNCHANGED <<db, effects>>

\* A statement fails: in the database, or, after Rollback, because the session first
\* flushes messages of a conversation that does not exist.
Break(t) ==
    /\ pc[t] = "calling" /\ session[t] # "broken"
    /\ session' = [session EXCEPT ![t] = "broken"]
    /\ EndCall(t, {}, TRUE)
    /\ UNCHANGED <<db, effects>>

\* The final commit, and the reply; it fails in a session that is lost or broken.
Close(t) ==
    /\ pc[t] = "closing"
    /\ \/ /\ session[t] \in Healthy
          /\ db' = [db EXCEPT ![t] = @ \cup tx[t]]
          /\ session' = [session EXCEPT ![t] = "kept"]
          /\ pc' = [pc EXCEPT ![t] = "answered"]
       \/ /\ session[t] \notin Healthy
          /\ pc' = [pc EXCEPT ![t] = "failed"]
          /\ UNCHANGED <<session, db>>
    /\ tx' = [tx EXCEPT ![t] = {}]
    /\ UNCHANGED <<rounds, todo, called, written, chat, effects, owed>>

-----------------------------------------------------------------------------

Call(t) ==
    \/ Lookup(t) \/ Refuse(t)
    \/ Act(t) \/ PayUnrecorded(t) \/ ExpireAtPay(t)
    \/ Rollback(t) \/ Break(t)

Next == \E t \in Turns : Start(t) \/ Ask(t) \/ Raise(t) \/ Call(t) \/ Close(t)

Spec == Init /\ [][Next]_vars

\* The model's client answers or times out, and a tool returns: a turn that is not
\* killed goes on.
GoesOn(t) == WF_vars(Ask(t) \/ Call(t) \/ Close(t))
FairSpec == Spec /\ \A t \in Turns : GoesOn(t)

-----------------------------------------------------------------------------

\* A turn that replies has committed an audit row for every irreversible and every
\* failed call it made, also for those before a rollback of the shared session.
AnsweredIsAudited ==
    \A t \in Turns : pc[t] = "answered" => \A n \in owed[t] : Audit(n) \in db[t]

\* Whatever ends a turn, of a stored conversation at most the last hold, payment or
\* cancellation has no audit row.  Of a conversation that is not stored more may have
\* none: the turn has lost it to a rollback, and its later calls commit and roll back
\* all the same.
OlderEffectsAreAudited ==
    \A t \in Turns : chat[t] # None /\ Conversation \in db[chat[t]] =>
        \A n, m \in effects[t] : n < m => Audit(n) \in db[t]

\* What is stored of a turn has no hole: with a message all messages before it are
\* there, the question included, and the conversation, which is the user's.
ConversationIsWhole ==
    \A t \in Turns : \A n \in 1 .. written[t] : Message(n) \in db[t] =>
        /\ \A m \in 1 .. n : Message(m) \in db[t]
        /\ Conversation \in db[chat[t]] /\ User[chat[t]] = User[t]

\* A turn that runs can take a step: one of its guards holds.  The hypothesis of TurnsGoOn,
\* because ENABLED is not within the prover's reach.
TurnNeverStuck ==
    \A t \in Turns : pc[t] \in Running => ENABLED <<Ask(t) \/ Call(t) \/ Close(t)>>_vars

\* Every turn ends, however often the model calls tools and whatever they do.
EveryTurnEnds ==
    \A t \in Turns : pc[t] = "asking" ~> pc[t] \in {"answered", "failed"}
==============================================================================

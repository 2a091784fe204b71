--------------------------- MODULE AgentTurnProofs ---------------------------
(***************************************************************************)
(* Theorems of AgentTurn and ChatHistory, for every set of requests and    *)
(* users, every number of rounds, of calls in an answer and of texts in a  *)
(* history.                                                                *)
(***************************************************************************)
EXTENDS ChatHistory, FiniteSetTheorems, SequenceTheorems, TLAPS

USE RoundsAssumption, NoneAssumption

(***************************************************************************)
(* The inductive invariant: what is owed is in the database or in the open *)
(* transaction as long as the session is healthy, and no other session     *)
(* answers.                                                                *)
(***************************************************************************)

\* Calls are numbered from 1; those that are owed a row, or had an effect, have run.
CallsInv ==
    \A t \in Turns :
        /\ \A n \in owed[t] : n <= called[t]
        /\ effects[t] \subseteq owed[t]
        /\ pc[t] = "calling" => todo[t] > 0
        /\ pc[t] = "idle" => owed[t] = {}

\* No audit row that is owed gets lost in a healthy session.
AuditInv ==
    \A t \in Turns :
        pc[t] \in Running /\ session[t] \in Healthy =>
            \A n \in owed[t] : Audit(n) \in db[t] \cup tx[t]

\* An effect commits everything before it; a turn that replies has a conversation.
EffectInv ==
    \A t \in Turns :
        /\ effects[t] # {} => session[t] # "new"
        /\ pc[t] = "answered" => session[t] = "kept" /\ tx[t] = {}

\* A conversation that was rolled back, or not committed yet, is not stored.
LostInv ==
    \A t \in Turns :
        /\ pc[t] = "idle" => session[t] = "new"
        /\ session[t] = "new" => Conversation \notin db[t] /\ (pc[t] # "idle" => chat[t] = t)
        /\ session[t] = "lost" => Conversation \notin db[t] \cup tx[t] /\ chat[t] = t

\* Only a turn that has lost its conversation has two effects without an audit row.
OrderInv ==
    \A t \in Turns :
        \/ \A n, m \in effects[t] : n < m => Audit(n) \in db[t]
        \/ session[t] \in {"lost", "broken"} /\ Conversation \notin db[t] /\ chat[t] = t

Inv ==
    /\ TypeOK
    /\ CallsInv
    /\ AuditInv
    /\ EffectInv
    /\ LostInv
    /\ OrderInv
    /\ AnsweredIsAudited

\* The turns other than t are as they were.
OthersStay(t) ==
    \A u \in Turns \ {t} :
        /\ pc'[u] = pc[u] /\ session'[u] = session[u] /\ tx'[u] = tx[u] /\ db'[u] = db[u]
        /\ effects'[u] = effects[u] /\ owed'[u] = owed[u] /\ called'[u] = called[u]
        /\ todo'[u] = todo[u] /\ chat'[u] = chat[u]

\* The invariant but its types, of one turn.
TurnInv(t) ==
    /\ \A n \in owed[t] : n <= called[t]
    /\ effects[t] \subseteq owed[t]
    /\ pc[t] = "calling" => todo[t] > 0
    /\ pc[t] = "idle" => owed[t] = {}
    /\ pc[t] \in Running /\ session[t] \in Healthy =>
           \A n \in owed[t] : Audit(n) \in db[t] \cup tx[t]
    /\ effects[t] # {} => session[t] # "new"
    /\ pc[t] = "answered" => session[t] = "kept" /\ tx[t] = {}
    /\ pc[t] = "idle" => session[t] = "new"
    /\ session[t] = "new" => Conversation \notin db[t] /\ (pc[t] # "idle" => chat[t] = t)
    /\ session[t] = "lost" => Conversation \notin db[t] \cup tx[t] /\ chat[t] = t
    /\ \/ \A n, m \in effects[t] : n < m => Audit(n) \in db[t]
       \/ session[t] \in {"lost", "broken"} /\ Conversation \notin db[t] /\ chat[t] = t
    /\ pc[t] = "answered" => \A n \in owed[t] : Audit(n) \in db[t]

LEMMA InvByTurn == Inv <=> TypeOK /\ \A t \in Turns : TurnInv(t)
  BY DEF Inv, CallsInv, AuditInv, EffectInv, LostInv, OrderInv, AnsweredIsAudited, TurnInv

\* A step of one turn has to keep its own part of the invariant.
LEMMA StepOfTurn ==
    ASSUME Inv, NEW t \in Turns, OthersStay(t), TypeOK', TurnInv(t)'
    PROVE  Inv'
  <1>1. \A u \in Turns : TurnInv(u)
    BY InvByTurn
  <1>2. ASSUME NEW u \in Turns, u # t PROVE TurnInv(u)'
    BY <1>1, <1>2 DEF OthersStay, TurnInv, Audit, Conversation, Row
  <1>3. \A u \in Turns : TurnInv(u)'
    BY <1>2
  <1> QED BY <1>3, InvByTurn DEF Inv, CallsInv, AuditInv, EffectInv, LostInv, OrderInv, AnsweredIsAudited, TurnInv

LEMMA RowsAreRows ==
    ASSUME NEW n \in Nat
    PROVE  Message(n) \in Rows /\ Audit(n) \in Rows /\ Conversation \in Rows
  BY DEF Message, Audit, Conversation, Row, Rows

LEMMA RowsDiffer ==
    ASSUME NEW n, NEW m
    PROVE  /\ Message(n) = Message(m) => n = m
           /\ Message(n) # Audit(m) /\ Message(n) # Conversation /\ Audit(m) # Conversation
  <1>1. Message(n).n = n /\ Message(m).n = m /\ Message(n).kind = "message"
    BY DEF Message, Row
  <1>2. Audit(m).kind = "audit" /\ Conversation.kind = "conversation"
    BY DEF Audit, Conversation, Row
  <1> QED BY <1>1, <1>2

(***************************************************************************)
(* Asking the model                                                        *)
(***************************************************************************)

LEMMA StartInv == ASSUME Inv, NEW t \in Turns, Start(t) PROVE Inv'
  <1>1. OthersStay(t)
    BY DEF Start, OthersStay, Inv, TypeOK
  <1>2. TypeOK'
    <2>1. \A u \in OwnChats(t) : u \in Turns
      BY DEF OwnChats
    <2> QED BY <2>1, RowsAreRows DEF Start, Inv, TypeOK, Sessions, Running
  <1>3. TurnInv(t)'
    <2>1. TurnInv(t)
      BY InvByTurn
    <2> QED BY <2>1, RowsDiffer DEF Start, Inv, TypeOK, TurnInv, Running, Healthy, Sessions
  <1> QED BY <1>1, <1>2, <1>3, StepOfTurn

LEMMA AskInv == ASSUME Inv, NEW t \in Turns, Ask(t) PROVE Inv'
  <1>1. OthersStay(t)
    BY DEF Ask, OthersStay, Inv, TypeOK
  <1>2. TypeOK'
    <2>1. PICK k \in 0 .. MaxCalls[t] - called[t] :
              /\ todo' = [todo EXCEPT ![t] = k]
              /\ pc' = [pc EXCEPT ![t] = IF k = 0 THEN "closing" ELSE "calling"]
      BY DEF Ask
    <2>2. written[t] + 1 \in Nat /\ Message(written[t] + 1) \in Rows
      BY RowsAreRows DEF Inv, TypeOK
    <2>3. rounds' = [rounds EXCEPT ![t] = rounds[t] + 1] /\ rounds[t] + 1 \in 0 .. Rounds
      BY DEF Ask, Inv, TypeOK
    <2> QED BY <2>1, <2>2, <2>3 DEF Ask, Inv, TypeOK, Running
  <1>3. TurnInv(t)'
    <2>1. TurnInv(t)
      BY InvByTurn
    <2>2. PICK k \in 0 .. MaxCalls[t] - called[t] :
              /\ todo' = [todo EXCEPT ![t] = k]
              /\ pc' = [pc EXCEPT ![t] = IF k = 0 THEN "closing" ELSE "calling"]
      BY DEF Ask
    <2>3. tx[t] \subseteq tx'[t] /\ (Conversation \in tx'[t] => Conversation \in tx[t])
      BY RowsDiffer DEF Ask, Inv, TypeOK
    <2> QED BY <2>1, <2>2, <2>3 DEF Ask, Inv, TypeOK, TurnInv, Running, Audit, Conversation, Row
  <1> QED BY <1>1, <1>2, <1>3, StepOfTurn

LEMMA RaiseInv == ASSUME Inv, NEW t \in Turns, Raise(t) PROVE Inv'
  <1>1. OthersStay(t)
    BY DEF Raise, OthersStay, Inv, TypeOK
  <1>2. TypeOK'
    BY DEF Raise, Inv, TypeOK
  <1>3. TurnInv(t)'
    <2>1. TurnInv(t)
      BY InvByTurn
    <2> QED BY <2>1 DEF Raise, Inv, TypeOK, TurnInv, Running, Audit, Conversation, Row
  <1> QED BY <1>1, <1>2, <1>3, StepOfTurn

(***************************************************************************)
(* Tool calls                                                              *)
(***************************************************************************)

\* What a call does to its turn, whichever tool it was.
CallEnds(t, open, audited) ==
    /\ UNCHANGED <<rounds, chat>>
    /\ called' = [called EXCEPT ![t] = called[t] + 1] /\ called' \in [Turns -> Nat]
    /\ todo' = [todo EXCEPT ![t] = todo[t] - 1]
    /\ todo' \in [Turns -> Int] /\ \A u \in Turns : todo'[u] \in 0 .. MaxCalls[u]
    /\ pc' \in [Turns -> Running \cup {"idle", "answered", "failed"}]
    /\ pc' = [pc EXCEPT ![t] = AfterCall(t)] /\ pc'[t] \in Running
    /\ pc'[t] = "calling" => todo'[t] > 0
    /\ written' \in [Turns -> Nat]
    /\ tx' \in [Turns -> SUBSET Rows] /\ open \subseteq tx'[t]
    /\ \A u \in Turns \ {t} : tx'[u] = tx[u]
    /\ owed' = [owed EXCEPT ![t] = IF audited THEN owed[t] \cup {called[t] + 1} ELSE owed[t]]
    /\ owed' \in [Turns -> SUBSET Nat]
    /\ audited => Audit(called[t] + 1) \in tx'[t]
    /\ Conversation \in tx'[t] => Conversation \in open

LEMMA EndCallEnds ==
    ASSUME Inv, NEW t \in Turns, pc[t] = "calling", NEW open \in SUBSET Rows,
           NEW audited \in BOOLEAN, EndCall(t, open, audited)
    PROVE  CallEnds(t, open, audited)
  <1> DEFINE n == called[t] + 1
  <1>1. n \in Nat /\ written[t] + 1 \in Nat
    BY DEF Inv, TypeOK
  <1>2. Audit(n) \in Rows /\ Message(written[t] + 1) \in Rows
    BY <1>1, RowsAreRows
  <1>3. called' = [called EXCEPT ![t] = n] /\ called' \in [Turns -> Nat]
    BY <1>1 DEF EndCall, Inv, TypeOK
  <1>4. /\ todo[t] \in 0 .. MaxCalls[t] /\ MaxCalls[t] \in Nat /\ todo[t] > 0
        /\ todo' = [todo EXCEPT ![t] = todo[t] - 1]
    BY DEF EndCall, Inv, TypeOK, CallsInv
  <1>5. todo' \in [Turns -> Int] /\ \A u \in Turns : todo'[u] \in 0 .. MaxCalls[u]
    BY <1>4 DEF Inv, TypeOK
  <1>6. AfterCall(t) \in Running /\ (AfterCall(t) = "calling" => todo[t] > 1)
    BY DEF AfterCall, Running
  <1>7. pc' = [pc EXCEPT ![t] = AfterCall(t)] /\ pc'[t] = AfterCall(t)
    BY DEF EndCall, Inv, TypeOK
  <1>8. pc' \in [Turns -> Running \cup {"idle", "answered", "failed"}]
    BY <1>6, <1>7 DEF Inv, TypeOK
  <1>9. pc'[t] = "calling" => todo'[t] > 0
    BY <1>4, <1>6, <1>7 DEF Inv, TypeOK
  <1>10. written' \in [Turns -> Nat]
    BY <1>1 DEF EndCall, Inv, TypeOK
  <1>11. tx' = [tx EXCEPT ![t] = open \cup (IF audited THEN {Audit(n)} ELSE {})
                    \cup (IF todo[t] = 1 THEN {Message(written[t] + 1)} ELSE {})]
    BY DEF EndCall
  <1>12. tx' \in [Turns -> SUBSET Rows] /\ open \subseteq tx'[t]
         /\ (audited => Audit(n) \in tx'[t]) /\ \A u \in Turns \ {t} : tx'[u] = tx[u]
    BY <1>2, <1>11 DEF Inv, TypeOK
  <1>16. Conversation \in tx'[t] => Conversation \in open
    BY <1>11, RowsDiffer DEF Inv, TypeOK
  <1>13. owed' = [owed EXCEPT ![t] = IF audited THEN owed[t] \cup {n} ELSE owed[t]]
    BY DEF EndCall
  <1>14. owed' \in [Turns -> SUBSET Nat]
    BY <1>1, <1>13 DEF Inv, TypeOK
  <1>15. UNCHANGED <<rounds, chat>>
    BY DEF EndCall
  <1> HIDE DEF n
  <1> QED BY <1>3, <1>4, <1>5, <1>6, <1>7, <1>8, <1>9, <1>10, <1>12, <1>13, <1>14, <1>15, <1>16 DEF n, CallEnds

\* A call that leaves session, database and effects alone.
LEMMA QuietCallInv ==
    ASSUME Inv, NEW t \in Turns, Lookup(t) \/ Refuse(t)
    PROVE  Inv'
  <1>1. pc[t] = "calling" /\ UNCHANGED <<session, db, effects>> /\ tx[t] \in SUBSET Rows
    BY DEF Lookup, Refuse, Inv, TypeOK
  <1>2. PICK audited \in BOOLEAN : CallEnds(t, tx[t], audited)
    BY <1>1, EndCallEnds DEF Lookup, Refuse
  <1>3. OthersStay(t)
    BY <1>1, <1>2 DEF CallEnds, OthersStay, Inv, TypeOK
  <1>4. TypeOK'
    BY <1>1, <1>2 DEF CallEnds, Inv, TypeOK
  <1>5. TurnInv(t)'
    <2>1. TurnInv(t)
      BY InvByTurn
    <2>2. /\ called'[t] = called[t] + 1 /\ called[t] \in Nat /\ owed[t] \subseteq Nat
          /\ owed'[t] = IF audited THEN owed[t] \cup {called[t] + 1} ELSE owed[t]
          /\ tx[t] \subseteq tx'[t] /\ (audited => Audit(called[t] + 1) \in tx'[t])
          /\ pc'[t] \in Running /\ (pc'[t] = "calling" => todo'[t] > 0)
          /\ chat'[t] = chat[t] /\ (Conversation \in tx'[t] => Conversation \in tx[t])
      BY <1>1, <1>2 DEF CallEnds, Inv, TypeOK
    <2> QED BY <1>1, <2>1, <2>2 DEF TurnInv, Running, Audit, Conversation, Row
  <1> QED BY <1>3, <1>4, <1>5, StepOfTurn

\* What is committed with a call: an audit row for all that was owed, unless the
\* conversation is lost.
LEMMA CommitKeepsOrder ==
    ASSUME Inv, NEW t \in Turns, pc[t] = "calling", Usable(t),
           db' = [db EXCEPT ![t] = db[t] \cup tx[t]],
           effects' = effects \/ effects' = [effects EXCEPT ![t] = effects[t] \cup {called[t] + 1}]
    PROVE  /\ db' \in [Turns -> SUBSET Rows] /\ db'[t] = db[t] \cup tx[t]
           /\ effects' \in [Turns -> SUBSET Nat] /\ effects'[t] \subseteq effects[t] \cup {called[t] + 1}
           /\ \A u \in Turns \ {t} : db'[u] = db[u] /\ effects'[u] = effects[u]
           /\ session[t] \in {"new", "kept", "lost"}
           /\ session[t] = "lost" => Conversation \notin db'[t] /\ chat[t] = t
           /\ session[t] # "lost" =>
                  /\ \A n \in owed[t] : Audit(n) \in db'[t]
                  /\ \A n, m \in effects'[t] : n < m => Audit(n) \in db'[t]
  <1>1. TurnInv(t)
    BY InvByTurn
  <1>2. db' \in [Turns -> SUBSET Rows] /\ db'[t] = db[t] \cup tx[t]
    BY DEF Inv, TypeOK
  <1>3. /\ effects' \in [Turns -> SUBSET Nat] /\ effects'[t] \subseteq effects[t] \cup {called[t] + 1}
        /\ called[t] \in Nat
    BY DEF Inv, TypeOK
  <1>4. \A u \in Turns \ {t} : db'[u] = db[u] /\ effects'[u] = effects[u]
    BY DEF Inv, TypeOK
  <1>5. session[t] \in {"new", "kept", "lost"}
    BY DEF Usable, Healthy
  <1>6. session[t] = "lost" => Conversation \notin db'[t] /\ chat[t] = t
    BY <1>1, <1>2 DEF TurnInv
  <1>7. ASSUME session[t] # "lost" PROVE \A n \in owed[t] : Audit(n) \in db'[t]
    BY <1>1, <1>2, <1>5, <1>7 DEF TurnInv, Running, Healthy
  <1>8. ASSUME session[t] # "lost", NEW n \in effects'[t], NEW m \in effects'[t], n < m
        PROVE  Audit(n) \in db'[t]
    <2>1. /\ n \in Nat /\ m \in Nat /\ m <= called[t] + 1
          /\ effects[t] \subseteq owed[t] /\ \A k \in owed[t] : k <= called[t]
      BY <1>1, <1>3 DEF TurnInv
    <2>2. n \in owed[t]
      BY <1>3, <1>8, <2>1
    <2> QED BY <1>7, <1>8, <2>2
  <1> QED BY <1>2, <1>3, <1>4, <1>5, <1>6, <1>7, <1>8

\* A call that commits what was added before it, may be an effect, and leaves the turn
\* with a session s.
LEMMA CommittingCallInv ==
    ASSUME Inv, NEW t \in Turns, pc[t] = "calling", Usable(t),
           db' = [db EXCEPT ![t] = db[t] \cup tx[t]],
           effects' = effects \/ effects' = [effects EXCEPT ![t] = effects[t] \cup {called[t] + 1}],
           EndCall(t, {}, TRUE), NEW s \in {"kept", "lost", "broken"},
           session' = [session EXCEPT ![t] = s],
           s = "kept" => session[t] # "lost", s = "lost" => session[t] = "lost"
    PROVE  Inv'
  <1>1. CallEnds(t, {}, TRUE)
    BY EndCallEnds
  <1>2. /\ db' \in [Turns -> SUBSET Rows] /\ db'[t] = db[t] \cup tx[t]
        /\ effects' \in [Turns -> SUBSET Nat] /\ effects'[t] \subseteq effects[t] \cup {called[t] + 1}
        /\ \A u \in Turns \ {t} : db'[u] = db[u] /\ effects'[u] = effects[u]
        /\ session[t] \in {"new", "kept", "lost"}
        /\ session[t] = "lost" => Conversation \notin db'[t] /\ chat[t] = t
        /\ session[t] # "lost" =>
               /\ \A n \in owed[t] : Audit(n) \in db'[t]
               /\ \A n, m \in effects'[t] : n < m => Audit(n) \in db'[t]
    BY CommitKeepsOrder
  <1>3. session' \in [Turns -> Sessions] /\ session'[t] = s
        /\ \A u \in Turns \ {t} : session'[u] = session[u]
    BY DEF Inv, TypeOK, Sessions
  <1>4. OthersStay(t)
    BY <1>1, <1>2, <1>3 DEF CallEnds, OthersStay, Inv, TypeOK
  <1>5. TypeOK'
    BY <1>1, <1>2, <1>3 DEF CallEnds, Inv, TypeOK
  <1>6. TurnInv(t)'
    <2>1. TurnInv(t)
      BY InvByTurn
    <2>2. /\ called'[t] = called[t] + 1 /\ called[t] \in Nat /\ owed[t] \subseteq Nat
          /\ owed'[t] = owed[t] \cup {called[t] + 1}
          /\ Audit(called[t] + 1) \in tx'[t]
          /\ pc'[t] \in Running /\ (pc'[t] = "calling" => todo'[t] > 0)
          /\ chat'[t] = chat[t] /\ Conversation \notin tx'[t]
      BY <1>1 DEF CallEnds, Inv, TypeOK
    <2>3. \A n \in owed'[t] : n <= called'[t]
      BY <2>1, <2>2 DEF TurnInv
    <2>4. s = "kept" => \A n \in owed'[t] : Audit(n) \in db'[t] \cup tx'[t]
      BY <1>2, <2>2
    <2>5. effects'[t] \subseteq owed'[t]
      BY <1>2, <2>1, <2>2 DEF TurnInv
    <2>6. \/ \A n, m \in effects'[t] : n < m => Audit(n) \in db'[t]
          \/ s \in {"lost", "broken"} /\ Conversation \notin db'[t] /\ chat'[t] = t
      BY <1>2, <2>2
    <2> QED BY <1>2, <1>3, <2>2, <2>3, <2>4, <2>5, <2>6
            DEF TurnInv, Running, Healthy, Audit, Conversation, Row
  <1> QED BY <1>4, <1>5, <1>6, StepOfTurn

\* A call that the turn does not survive, whatever was committed before.
LEMMA RaisingCallInv ==
    ASSUME Inv, NEW t \in Turns, pc[t] = "calling", Usable(t), session[t] \in Healthy,
           session' = [session EXCEPT ![t] = "kept"], RaiseAtAudit(t),
           \/ /\ db' = [db EXCEPT ![t] = db[t] \cup tx[t]]
              /\ effects' = [effects EXCEPT ![t] = effects[t] \cup {called[t] + 1}]
           \/ UNCHANGED <<db, effects>>
    PROVE  Inv'
  <1>1. TurnInv(t) /\ called[t] \in Nat /\ effects[t] \subseteq Nat
    BY InvByTurn DEF Inv, TypeOK
  <1>2. /\ called' = [called EXCEPT ![t] = called[t] + 1]
        /\ owed' = [owed EXCEPT ![t] = owed[t] \cup {called[t] + 1}]
        /\ pc' = [pc EXCEPT ![t] = "failed"] /\ tx' = [tx EXCEPT ![t] = {}]
        /\ UNCHANGED <<rounds, todo, written, chat>>
    BY DEF RaiseAtAudit
  <1>3. /\ db' \in [Turns -> SUBSET Rows] /\ effects' \in [Turns -> SUBSET Nat]
        /\ effects'[t] \subseteq effects[t] \cup {called[t] + 1}
        /\ \A u \in Turns \ {t} : db'[u] = db[u] /\ effects'[u] = effects[u]
        /\ \A n, m \in effects'[t] : n < m => Audit(n) \in db'[t]
    <2>1. CASE UNCHANGED <<db, effects>>
      BY <1>1, <2>1 DEF TurnInv, Inv, TypeOK, Healthy, Audit, Row
    <2>2. CASE /\ db' = [db EXCEPT ![t] = db[t] \cup tx[t]]
               /\ effects' = [effects EXCEPT ![t] = effects[t] \cup {called[t] + 1}]
      BY <2>2, CommitKeepsOrder DEF Healthy
    <2> QED BY <2>1, <2>2
  <1>4. session' \in [Turns -> Sessions]
    BY DEF Inv, TypeOK, Sessions
  <1>5. OthersStay(t)
    BY <1>2, <1>3 DEF OthersStay, Inv, TypeOK
  <1>6. TypeOK'
    BY <1>1, <1>2, <1>3, <1>4 DEF Inv, TypeOK
  <1>7. TurnInv(t)'
    <2>1. /\ called'[t] = called[t] + 1 /\ owed'[t] = owed[t] \cup {called[t] + 1}
          /\ pc'[t] = "failed" /\ session'[t] = "kept" /\ owed[t] \subseteq Nat
      BY <1>2 DEF Inv, TypeOK
    <2>2. effects'[t] \subseteq owed'[t] /\ \A n \in owed'[t] : n <= called'[t]
      BY <1>1, <1>3, <2>1 DEF TurnInv
    <2> QED BY <1>3, <2>1, <2>2 DEF TurnInv, Running, Audit, Conversation, Row
  <1> QED BY <1>5, <1>6, <1>7, StepOfTurn

LEMMA ActInv == ASSUME Inv, NEW t \in Turns, Act(t) \/ ExpireAtPay(t) PROVE Inv'
  <1>1. PICK s \in {"kept", "lost"} :
            /\ session' = [session EXCEPT ![t] = s]
            /\ s = "kept" => session[t] # "lost"
            /\ s = "lost" => session[t] = "lost"
    BY DEF Act, ExpireAtPay, CommitCall
  <1>2. /\ pc[t] = "calling" /\ Usable(t) /\ EndCall(t, {}, TRUE)
        /\ db' = [db EXCEPT ![t] = db[t] \cup tx[t]]
        /\ effects' = effects \/ effects' = [effects EXCEPT ![t] = effects[t] \cup {called[t] + 1}]
    BY DEF Act, ExpireAtPay, CommitCall
  <1> QED BY <1>1, <1>2, CommittingCallInv

LEMMA PayUnrecordedInv == ASSUME Inv, NEW t \in Turns, PayUnrecorded(t) PROVE Inv'
  <1>1. /\ pc[t] = "calling" /\ Usable(t)
        /\ db' = [db EXCEPT ![t] = db[t] \cup tx[t]]
        /\ effects' = [effects EXCEPT ![t] = effects[t] \cup {called[t] + 1}]
    BY DEF PayUnrecorded
  <1>2. CASE session[t] = "lost" /\ UNCHANGED session /\ EndCall(t, {}, TRUE)
    <2>1. session' = [session EXCEPT ![t] = "lost"]
      BY <1>2 DEF Inv, TypeOK
    <2> QED BY <1>1, <1>2, <2>1, CommittingCallInv
  <1>3. CASE /\ session[t] \in Healthy /\ session' = [session EXCEPT ![t] = "kept"]
             /\ RaiseAtAudit(t)
    BY <1>1, <1>3, RaisingCallInv
  <1>4. CASE session' = [session EXCEPT ![t] = "broken"] /\ EndCall(t, {}, TRUE)
    BY <1>1, <1>4, CommittingCallInv
  <1> QED BY <1>2, <1>3, <1>4 DEF PayUnrecorded

\* A call that rolls back or breaks the session, after which no turn replies.
LEMMA DoomedCallInv ==
    ASSUME Inv, NEW t \in Turns, pc[t] = "calling", NEW s \in {"lost", "broken"},
           s = "lost" => session[t] \in {"new", "lost"},
           session' = [session EXCEPT ![t] = s], EndCall(t, {}, TRUE), UNCHANGED <<db, effects>>
    PROVE  Inv'
  <1>1. CallEnds(t, {}, TRUE)
    BY EndCallEnds
  <1>2. OthersStay(t)
    BY <1>1 DEF CallEnds, OthersStay, Inv, TypeOK
  <1>3. TypeOK'
    <2>1. session' \in [Turns -> Sessions]
      BY DEF Inv, TypeOK, Sessions
    <2> QED BY <1>1, <2>1 DEF CallEnds, Inv, TypeOK
  <1>4. TurnInv(t)'
    <2>1. TurnInv(t)
      BY InvByTurn
    <2>2. /\ called'[t] = called[t] + 1 /\ called[t] \in Nat /\ owed[t] \subseteq Nat
          /\ owed'[t] = owed[t] \cup {called[t] + 1}
          /\ pc'[t] \in Running /\ (pc'[t] = "calling" => todo'[t] > 0)
          /\ chat'[t] = chat[t] /\ Conversation \notin tx'[t]
      BY <1>1 DEF CallEnds, Inv, TypeOK
    <2>3. session'[t] = s /\ db'[t] = db[t] /\ effects'[t] = effects[t]
      BY DEF Inv, TypeOK
    <2> QED BY <2>1, <2>2, <2>3 DEF TurnInv, Running, Healthy, Audit, Conversation, Row
  <1> QED BY <1>2, <1>3, <1>4, StepOfTurn

LEMMA RollbackInv == ASSUME Inv, NEW t \in Turns, Rollback(t) PROVE Inv'
  <1>1. pc[t] = "calling" /\ Usable(t) /\ UNCHANGED <<db, effects>>
    BY DEF Rollback
  <1>2. CASE /\ session[t] # "kept"
             /\ session' = [session EXCEPT ![t] = "lost"]
             /\ EndCall(t, {}, TRUE)
    <2>1. session[t] \in {"new", "lost"}
      BY <1>1, <1>2 DEF Usable, Healthy
    <2> QED BY <1>1, <1>2, <2>1, DoomedCallInv
  <1>3. CASE session[t] = "kept" /\ UNCHANGED session /\ RaiseAtAudit(t)
    <2>1. session' = [session EXCEPT ![t] = "kept"] /\ session[t] \in Healthy
      BY <1>3 DEF Inv, TypeOK, Healthy
    <2> QED BY <1>1, <1>3, <2>1, RaisingCallInv
  <1> QED BY <1>2, <1>3 DEF Rollback

LEMMA BreakInv == ASSUME Inv, NEW t \in Turns, Break(t) PROVE Inv'
  BY DoomedCallInv DEF Break

LEMMA CloseInv == ASSUME Inv, NEW t \in Turns, Close(t) PROVE Inv'
  <1>1. OthersStay(t)
    BY DEF Close, OthersStay, Inv, TypeOK
  <1>2. TypeOK'
    BY DEF Close, Inv, TypeOK, Sessions
  <1>3. TurnInv(t)'
    <2>1. TurnInv(t)
      BY InvByTurn
    <2> QED BY <2>1 DEF Close, Inv, TypeOK, TurnInv, Running, Healthy, Sessions, Audit, Conversation, Row
  <1> QED BY <1>1, <1>2, <1>3, StepOfTurn

LEMMA InvCorrect == Spec => []Inv
  <1>1. Init => Inv
    BY DEF Init, Inv, TypeOK, CallsInv, AuditInv, EffectInv, LostInv, OrderInv,
           AnsweredIsAudited, Sessions, Running
  <1>2. ASSUME Inv, [Next]_vars
        PROVE  Inv'
    <2>1. CASE UNCHANGED vars
      BY <1>2, <2>1 DEF vars, loopVars, Inv, TypeOK, CallsInv, AuditInv, EffectInv,
                        LostInv, OrderInv, AnsweredIsAudited, Audit, Conversation, Row
    <2> QED BY <1>2, <2>1, StartInv, AskInv, RaiseInv, QuietCallInv, ActInv,
               PayUnrecordedInv, RollbackInv, BreakInv, CloseInv DEF Next, Call
  <1> QED BY <1>1, <1>2, PTL DEF Spec

(***************************************************************************)
(* Stored conversations.  A commit stores all messages of the turn so far: *)
(* in a healthy session none is missing from what is stored or added.      *)
(***************************************************************************)

\* The messages of a turn are numbered without a hole, its conversation is its user's,
\* and it is stored, or about to be with the messages.
WholeTurn(t) ==
    /\ pc[t] # "idle" => chat[t] \in Turns /\ User[chat[t]] = User[t]
    /\ \A n \in Nat : Message(n) \in db[t] \cup tx[t] => n <= written[t] /\ pc[t] # "idle"
    /\ pc[t] \in Running /\ session[t] \in Healthy =>
           \A m \in 1 .. written[t] : Message(m) \in db[t] \cup tx[t]
    /\ pc[t] \in Running /\ session[t] = "new" => chat[t] = t /\ Conversation \in tx[t]
    /\ pc[t] \in Running /\ session[t] = "kept" => Conversation \in db[chat[t]]
    /\ \A n \in Nat : Message(n) \in db[t] =>
           /\ \A m \in 1 .. n : Message(m) \in db[t]
           /\ Conversation \in db[chat[t]]

ChatInv == \A t \in Turns : WholeTurn(t)

\* The session holds the rows `open' and at most one new message.
Adds(t, open) ==
    /\ open \subseteq tx'[t]
    /\ \/ /\ written'[t] = written[t]
          /\ \A n \in Nat : Message(n) \in tx'[t] => Message(n) \in open
       \/ /\ written'[t] = written[t] + 1 /\ Message(written'[t]) \in tx'[t]
          /\ \A n \in Nat : Message(n) \in tx'[t] => Message(n) \in open \/ n = written'[t]

\* What is stored stays, and a step of t changes no other turn.
OnlyTurn(t) ==
    /\ \A u \in Turns : db[u] \subseteq db'[u]
    /\ \A u \in Turns \ {t} :
        /\ pc'[u] = pc[u] /\ session'[u] = session[u] /\ tx'[u] = tx[u] /\ db'[u] = db[u]
        /\ chat'[u] = chat[u] /\ written'[u] = written[u]

LEMMA ChatStep ==
    ASSUME ChatInv, NEW t \in Turns, OnlyTurn(t), WholeTurn(t)'
    PROVE  ChatInv'
  <1>1. ASSUME NEW u \in Turns, u # t PROVE WholeTurn(u)'
    <2>1. WholeTurn(u)
      BY DEF ChatInv
    <2>2. /\ pc'[u] = pc[u] /\ session'[u] = session[u] /\ tx'[u] = tx[u] /\ db'[u] = db[u]
          /\ chat'[u] = chat[u] /\ written'[u] = written[u]
      BY <1>1 DEF OnlyTurn
    <2>3. pc[u] # "idle" => (Conversation \in db[chat[u]] => Conversation \in db'[chat[u]])
      BY <2>1 DEF WholeTurn, OnlyTurn
    <2>4. Conversation' = Conversation /\ \A n : Message(n)' = Message(n)
      BY DEF Conversation, Message, Row
    <2> QED BY <2>1, <2>2, <2>3, <2>4 DEF WholeTurn, Running
  <1> QED BY <1>1 DEF ChatInv

\* A step that adds to an open transaction.
LEMMA AddingStep ==
    ASSUME Inv, ChatInv, NEW t \in Turns, pc[t] \in Running, pc'[t] # "idle", OnlyTurn(t),
           chat' = chat, session' = session, db' = db, Adds(t, tx[t])
    PROVE  ChatInv'
  <1>1. WholeTurn(t) /\ written[t] \in Nat
    BY DEF ChatInv, Inv, TypeOK
  <1>2. \A n \in Nat : Message(n) \in db[t] \cup tx'[t] => n <= written'[t]
    BY <1>1 DEF WholeTurn, Adds
  <1>3. session[t] \in Healthy =>
            \A m \in 1 .. written'[t] : Message(m) \in db[t] \cup tx'[t]
    BY <1>1 DEF WholeTurn, Adds
  <1>4. WholeTurn(t)'
    BY <1>1, <1>2, <1>3 DEF WholeTurn, Adds, Running, Message, Conversation, Row
  <1> QED BY <1>4, ChatStep

\* A step that commits: what is added is stored, and nothing is left out.
LEMMA CommittingStep ==
    ASSUME Inv, ChatInv, NEW t \in Turns, pc[t] \in Running, pc'[t] # "idle", OnlyTurn(t),
           session[t] \in Healthy, session'[t] \in {"kept", "broken"}, chat' = chat,
           db'[t] = db[t] \cup tx[t], Adds(t, {})
    PROVE  ChatInv'
  <1>1. WholeTurn(t) /\ written[t] \in Nat
    BY DEF ChatInv, Inv, TypeOK
  <1>2. \A n \in Nat : Message(n) \in db'[t] \cup tx'[t] => n <= written'[t]
    BY <1>1 DEF WholeTurn, Adds
  <1>3. \A m \in 1 .. written[t] : Message(m) \in db'[t]
    BY <1>1 DEF WholeTurn
  <1>4. \A n \in Nat : Message(n) \in db'[t] => \A m \in 1 .. n : Message(m) \in db'[t]
    BY <1>1, <1>3 DEF WholeTurn
  <1>5. Conversation \in db'[chat[t]]
    <2>1. CASE session[t] = "new"
      BY <1>1, <2>1 DEF WholeTurn
    <2>2. CASE session[t] = "kept"
      <3>1. chat[t] \in Turns /\ Conversation \in db[chat[t]]
        BY <1>1, <2>2 DEF WholeTurn, Running
      <3> QED BY <3>1 DEF OnlyTurn
    <2> QED BY <2>1, <2>2 DEF Healthy
  <1>6. \A m \in 1 .. written'[t] : Message(m) \in db'[t] \cup tx'[t]
    BY <1>1, <1>3 DEF Adds
  <1>7. WholeTurn(t)'
    BY <1>1, <1>2, <1>4, <1>5, <1>6 DEF WholeTurn, Running, Message, Conversation, Row
  <1> QED BY <1>7, ChatStep

\* A commit after the conversation was lost stores no message.
LEMMA LostCommitStep ==
    ASSUME Inv, ChatInv, NEW t \in Turns, pc[t] \in Running, pc'[t] # "idle", OnlyTurn(t),
           session[t] = "lost", Usable(t), session'[t] \in {"lost", "broken"}, chat' = chat,
           db'[t] = db[t] \cup tx[t], Adds(t, {})
    PROVE  ChatInv'
  <1>1. WholeTurn(t) /\ written[t] \in Nat
    BY DEF ChatInv, Inv, TypeOK
  <1>2. \A n \in Nat : Message(n) \in db'[t] => Message(n) \in db[t]
    BY DEF Usable, Healthy, Message, Row
  <1>3. \A n \in Nat : Message(n) \in db'[t] \cup tx'[t] => n <= written'[t]
    BY <1>1, <1>2 DEF WholeTurn, Adds
  <1>4. \A n \in Nat : Message(n) \in db'[t] =>
            /\ \A m \in 1 .. n : Message(m) \in db'[t]
            /\ Conversation \in db'[chat[t]]
    BY <1>1, <1>2 DEF WholeTurn, OnlyTurn, Running
  <1>5. WholeTurn(t)'
    BY <1>1, <1>3, <1>4 DEF WholeTurn, Running, Healthy, Message, Conversation, Row
  <1> QED BY <1>5, ChatStep

\* A step after which the turn cannot commit any more.
LEMMA LosingStep ==
    ASSUME Inv, ChatInv, NEW t \in Turns, pc[t] \in Running, pc'[t] # "idle", OnlyTurn(t),
           chat' = chat, db' = db, Adds(t, {}),
           pc'[t] \notin Running \/ session'[t] \notin Healthy
    PROVE  ChatInv'
  <1>1. WholeTurn(t) /\ written[t] \in Nat
    BY DEF ChatInv, Inv, TypeOK
  <1>2. \A n \in Nat : Message(n) \in db[t] \cup tx'[t] => n <= written'[t]
    BY <1>1 DEF WholeTurn, Adds
  <1>3. WholeTurn(t)'
    BY <1>1, <1>2 DEF WholeTurn, Running, Healthy, Message, Conversation, Row
  <1> QED BY <1>3, ChatStep

LEMMA EndCallAdds ==
    ASSUME Inv, NEW t \in Turns, pc[t] = "calling", NEW open \in SUBSET Rows,
           NEW audited \in BOOLEAN, EndCall(t, open, audited)
    PROVE  /\ Adds(t, open) /\ chat' = chat /\ pc'[t] # "idle"
           /\ \A u \in Turns \ {t} : pc'[u] = pc[u] /\ tx'[u] = tx[u] /\ written'[u] = written[u]
  <1>1. CallEnds(t, open, audited)
    BY EndCallEnds
  <1>2. /\ tx'[t] = open \cup (IF audited THEN {Audit(called[t] + 1)} ELSE {})
                      \cup (IF todo[t] = 1 THEN {Message(written[t] + 1)} ELSE {})
        /\ written' = [written EXCEPT ![t] = IF todo[t] = 1 THEN written[t] + 1 ELSE written[t]]
    BY DEF EndCall, Inv, TypeOK
  <1>3. \A n \in Nat : Message(n) \in tx'[t] =>
            Message(n) \in open \/ (todo[t] = 1 /\ n = written[t] + 1)
    BY <1>2, RowsDiffer
  <1>4. Adds(t, open)
    BY <1>2, <1>3 DEF Adds, Inv, TypeOK
  <1>5. pc'[t] # "idle" /\ \A u \in Turns \ {t} : pc'[u] = pc[u] /\ tx'[u] = tx[u]
    BY <1>1 DEF CallEnds, Running, Inv, TypeOK
  <1> QED BY <1>1, <1>2, <1>4, <1>5 DEF CallEnds, Inv, TypeOK

LEMMA StartChat == ASSUME Inv, ChatInv, NEW t \in Turns, Start(t) PROVE ChatInv'
  <1>1. WholeTurn(t) /\ pc[t] = "idle"
    BY DEF ChatInv, Start
  <1>2. PICK c \in OwnChats(t) \cup {t} :
            /\ chat' = [chat EXCEPT ![t] = c]
            /\ session' = [session EXCEPT ![t] = IF c = t THEN "new" ELSE "kept"]
            /\ tx' = [tx EXCEPT ![t] = {Message(1)} \cup IF c = t THEN {Conversation} ELSE {}]
    BY DEF Start
  <1>3. c \in Turns /\ User[c] = User[t] /\ (c # t => Conversation \in db[c])
    BY DEF OwnChats
  <1>4. /\ chat'[t] = c /\ session'[t] = IF c = t THEN "new" ELSE "kept"
        /\ tx'[t] = {Message(1)} \cup IF c = t THEN {Conversation} ELSE {}
        /\ written'[t] = 1 /\ pc'[t] = "asking" /\ db' = db
    BY <1>2 DEF Start, Inv, TypeOK
  <1>5. \A n \in Nat : Message(n) \in db[t] \cup tx'[t] => n = 1 /\ Message(n) \in tx'[t]
    BY <1>1, <1>4, RowsDiffer DEF WholeTurn
  <1>6. \A n \in Nat : Message(n) \notin db[t]
    BY <1>1 DEF WholeTurn
  <1>7. WholeTurn(t)'
    <2>1. Conversation' = Conversation /\ \A n : Message(n)' = Message(n)
      BY DEF Conversation, Message, Row
    <2>2. (\A m \in 1 .. 1 : Message(m) \in tx'[t]) /\ (c = t => Conversation \in tx'[t])
      <3>1. Message(1) \in tx'[t]
        BY <1>4
      <3>2. \A m \in 1 .. 1 : m = 1
        OBVIOUS
      <3> QED BY <1>4, <3>1, <3>2
    <2>3. \A n \in Nat : Message(n) \in db'[t] \cup tx'[t] => n <= written'[t]
      BY <1>4, <1>5
    <2> QED BY <1>3, <1>4, <1>6, <2>1, <2>2, <2>3 DEF WholeTurn, Running
  <1>8. OnlyTurn(t)
    BY <1>2 DEF Start, OnlyTurn, Inv, TypeOK
  <1> QED BY <1>7, <1>8, ChatStep

LEMMA AskChat == ASSUME Inv, ChatInv, NEW t \in Turns, Ask(t) PROVE ChatInv'
  <1>1. pc'[t] \in {"closing", "calling"} /\ pc[t] \in Running
    BY DEF Ask, Inv, TypeOK, Running
  <1>2. /\ written'[t] = written[t] + 1
        /\ tx'[t] = tx[t] \cup {Message(written[t] + 1)}
        /\ chat' = chat /\ session' = session /\ db' = db
    BY DEF Ask, Inv, TypeOK
  <1>3. Adds(t, tx[t])
    BY <1>2, RowsDiffer DEF Adds
  <1>4. OnlyTurn(t)
    BY DEF Ask, OnlyTurn, Inv, TypeOK
  <1> QED BY <1>1, <1>2, <1>3, <1>4, AddingStep

LEMMA RaiseChat == ASSUME Inv, ChatInv, NEW t \in Turns, Raise(t) PROVE ChatInv'
  <1>1. pc[t] \in Running /\ pc'[t] = "failed" /\ tx'[t] = {} /\ written' = written
    BY DEF Raise, Inv, TypeOK
  <1>2. Adds(t, {}) /\ pc'[t] \notin Running
    BY <1>1 DEF Adds, Running
  <1>3. OnlyTurn(t)
    BY DEF Raise, OnlyTurn, Inv, TypeOK
  <1>4. chat' = chat /\ db' = db
    BY DEF Raise
  <1> QED BY <1>1, <1>2, <1>3, <1>4, LosingStep

LEMMA CallChat == ASSUME Inv, ChatInv, NEW t \in Turns, Call(t) PROVE ChatInv'
  <1>1. pc[t] = "calling" /\ pc[t] \in Running /\ tx[t] \in SUBSET Rows
    BY DEF Call, Lookup, Refuse, Act, PayUnrecorded, ExpireAtPay, CommitCall, Rollback, Break, Running, Inv, TypeOK
  <1>2. CASE Lookup(t) \/ Refuse(t)
    <2>1. session' = session /\ db' = db
      BY <1>2 DEF Lookup, Refuse
    <2>2. /\ Adds(t, tx[t]) /\ chat' = chat /\ pc'[t] # "idle"
          /\ \A u \in Turns \ {t} : pc'[u] = pc[u] /\ tx'[u] = tx[u] /\ written'[u] = written[u]
      BY <1>1, <1>2, EndCallAdds DEF Lookup, Refuse
    <2>3. OnlyTurn(t)
      BY <2>1, <2>2 DEF OnlyTurn
    <2> QED BY <1>1, <2>1, <2>2, <2>3, AddingStep
  <1>3. CASE /\ Usable(t) /\ db' = [db EXCEPT ![t] = db[t] \cup tx[t]] /\ EndCall(t, {}, TRUE)
             /\ \E s \in {"kept", "lost", "broken"} :
                    /\ session' = [session EXCEPT ![t] = s]
                    /\ s = "kept" => session[t] # "lost"
                    /\ s = "lost" => session[t] = "lost"
    <2>1. /\ Adds(t, {}) /\ chat' = chat /\ pc'[t] # "idle"
          /\ \A u \in Turns \ {t} : pc'[u] = pc[u] /\ tx'[u] = tx[u] /\ written'[u] = written[u]
      BY <1>1, <1>3, EndCallAdds
    <2>2. OnlyTurn(t) /\ db'[t] = db[t] \cup tx[t]
      BY <1>3, <2>1 DEF OnlyTurn, Inv, TypeOK
    <2>3. \/ session[t] \in Healthy /\ session'[t] \in {"kept", "broken"}
          \/ session[t] = "lost" /\ session'[t] \in {"lost", "broken"}
      BY <1>3 DEF Usable, Healthy, Inv, TypeOK
    <2> QED BY <1>1, <1>3, <2>1, <2>2, <2>3, CommittingStep, LostCommitStep
  <1>4. CASE db' = db /\ EndCall(t, {}, TRUE)
             /\ \E s \in {"lost", "broken"} : session' = [session EXCEPT ![t] = s]
    <2>1. /\ Adds(t, {}) /\ chat' = chat /\ pc'[t] # "idle"
          /\ \A u \in Turns \ {t} : pc'[u] = pc[u] /\ tx'[u] = tx[u] /\ written'[u] = written[u]
      BY <1>1, <1>4, EndCallAdds
    <2>2. OnlyTurn(t) /\ session'[t] \notin Healthy
      BY <1>4, <2>1 DEF OnlyTurn, Healthy, Inv, TypeOK
    <2> QED BY <1>1, <1>4, <2>1, <2>2, LosingStep
  <1>5. CASE /\ session[t] \in Healthy /\ session' = [session EXCEPT ![t] = "kept"]
             /\ RaiseAtAudit(t)
             /\ db' = [db EXCEPT ![t] = db[t] \cup tx[t]] \/ db' = db
    <2>1. /\ pc' = [pc EXCEPT ![t] = "failed"] /\ tx' = [tx EXCEPT ![t] = {}]
          /\ written' = written /\ chat' = chat
      BY <1>5 DEF RaiseAtAudit
    <2>2. Adds(t, {}) /\ pc'[t] = "failed" /\ pc'[t] \notin Running
      BY <2>1 DEF Adds, Running, Inv, TypeOK
    <2>3. OnlyTurn(t) /\ session'[t] \in {"kept", "broken"}
      BY <1>5, <2>1 DEF OnlyTurn, Inv, TypeOK
    <2>4. CASE db' = [db EXCEPT ![t] = db[t] \cup tx[t]]
      <3>1. db'[t] = db[t] \cup tx[t]
        BY <2>4 DEF Inv, TypeOK
      <3> QED BY <1>1, <1>5, <2>1, <2>2, <2>3, <3>1, CommittingStep
    <2>5. CASE db' = db
      BY <1>1, <2>1, <2>2, <2>3, <2>5, LosingStep
    <2> QED BY <1>5, <2>4, <2>5
  <1>6. CASE Act(t) \/ ExpireAtPay(t)
    <2>1. /\ session' = [session EXCEPT ![t] = IF session[t] = "lost" THEN "lost" ELSE "kept"]
          /\ Usable(t) /\ db' = [db EXCEPT ![t] = db[t] \cup tx[t]] /\ EndCall(t, {}, TRUE)
      BY <1>6 DEF Act, ExpireAtPay, CommitCall
    <2> QED BY <1>3, <2>1
  <1>7. CASE PayUnrecorded(t)
    <2>1. session[t] = "lost" /\ UNCHANGED session => session' = [session EXCEPT ![t] = "lost"]
      BY DEF Inv, TypeOK
    <2> QED BY <1>3, <1>5, <1>7, <2>1 DEF PayUnrecorded
  <1>8. CASE Rollback(t)
    <2>1. session[t] = "kept" /\ UNCHANGED session =>
              session' = [session EXCEPT ![t] = "kept"] /\ session[t] \in Healthy
      BY DEF Inv, TypeOK, Healthy
    <2> QED BY <1>4, <1>5, <1>8, <2>1 DEF Rollback
  <1> QED BY <1>2, <1>4, <1>6, <1>7, <1>8 DEF Call, Break

LEMMA CloseChat == ASSUME Inv, ChatInv, NEW t \in Turns, Close(t) PROVE ChatInv'
  <1>1. /\ pc[t] \in Running /\ tx' = [tx EXCEPT ![t] = {}] /\ written' = written
        /\ chat' = chat
    BY DEF Close, Running
  <1>2. Adds(t, {})
    BY <1>1 DEF Adds, Inv, TypeOK
  <1>3. CASE /\ session[t] \in Healthy
             /\ db' = [db EXCEPT ![t] = db[t] \cup tx[t]]
             /\ session' = [session EXCEPT ![t] = "kept"]
             /\ pc' = [pc EXCEPT ![t] = "answered"]
    <2>1. /\ OnlyTurn(t) /\ session'[t] = "kept" /\ pc'[t] = "answered"
          /\ db'[t] = db[t] \cup tx[t]
      BY <1>1, <1>3 DEF OnlyTurn, Inv, TypeOK
    <2> QED BY <1>1, <1>2, <1>3, <2>1, CommittingStep
  <1>4. CASE pc' = [pc EXCEPT ![t] = "failed"] /\ UNCHANGED <<session, db>>
    <2>1. OnlyTurn(t) /\ pc'[t] = "failed" /\ pc'[t] \notin Running
      BY <1>1, <1>4 DEF OnlyTurn, Running, Inv, TypeOK
    <2> QED BY <1>1, <1>2, <1>4, <2>1, LosingStep
  <1> QED BY <1>3, <1>4 DEF Close

LEMMA ChatInvCorrect == Spec => []ChatInv
  <1>1. Init => ChatInv
    <2> SUFFICES ASSUME Init, NEW t \in Turns PROVE WholeTurn(t)
      BY DEF ChatInv
    <2>1. pc[t] = "idle" /\ db[t] = {} /\ tx[t] = {}
      BY DEF Init
    <2> QED BY <2>1 DEF WholeTurn, Running
  <1>2. ASSUME Inv, ChatInv, [Next]_vars
        PROVE  ChatInv'
    <2>1. CASE UNCHANGED vars
      BY <1>2, <2>1 DEF vars, loopVars, ChatInv, WholeTurn, Message, Conversation, Row
    <2> QED BY <1>2, <2>1, StartChat, AskChat, RaiseChat, CallChat, CloseChat DEF Next
  <1> QED BY <1>1, <1>2, InvCorrect, PTL DEF Spec

(***************************************************************************)
(* Histories.                                                              *)
(***************************************************************************)

\* A set of places has a first and a last one: the intervals that end, or begin, at
\* them are finite, so that one of them contains no other.
LEMMA MinIsFirst ==
    ASSUME NEW n \in Nat, NEW S \in SUBSET (1 .. n), S # {}
    PROVE  Min(S) \in S /\ \A y \in S : Min(S) <= y
  <1> DEFINE T == {1 .. x : x \in S}
             R == StrictSubsetOrdering(Nat)
  <1>1. \A x \in S : x \in Nat /\ 1 .. x \in FiniteSubsetsOf(Nat)
    <2> SUFFICES ASSUME NEW x \in S PROVE x \in Nat /\ 1 .. x \in FiniteSubsetsOf(Nat)
      OBVIOUS
    <2>1. x \in Nat /\ IsFiniteSet(1 .. x)
      BY FS_Interval
    <2>2. 1 .. x \in SUBSET Nat
      BY <2>1
    <2> QED BY <2>1, <2>2 DEF FiniteSubsetsOf
  <1>2. T \subseteq FiniteSubsetsOf(Nat) /\ T # {}
    BY <1>1
  <1>3. IsWellFoundedOn(R, FiniteSubsetsOf(Nat))
    BY FS_StrictSubsetOrderingWellFounded
  <1> HIDE DEF R, T
  <1>4. PICK m \in T : \A l \in T : <<l, m>> \notin R
    BY <1>2, <1>3, WFMin
  <1>5. PICK x \in S : m = 1 .. x
    BY <1>4 DEF T
  <1>6. ASSUME NEW y \in S, ~(x <= y) PROVE FALSE
    <2>1. 1 .. y \subseteq 1 .. x /\ x \in 1 .. x /\ x \notin 1 .. y
      BY <1>1, <1>6
    <2>2. 1 .. y # 1 .. x
      BY <2>1
    <2>3. 1 .. y \in SUBSET Nat /\ 1 .. x \in SUBSET Nat
      OBVIOUS
    <2>4. <<1 .. y, 1 .. x>> \in R
      BY <2>1, <2>2, <2>3 DEF R, StrictSubsetOrdering
    <2>5. 1 .. y \in T
      BY DEF T
    <2> QED BY <1>4, <1>5, <2>4, <2>5
  <1> QED BY <1>6 DEF Min

LEMMA MaxIsLast ==
    ASSUME NEW n \in Nat, NEW S \in SUBSET (1 .. n), S # {}
    PROVE  Max(S) \in S /\ \A y \in S : y <= Max(S)
  <1> DEFINE F == {n + 1 - x : x \in S}
  <1>1. F \in SUBSET (1 .. n) /\ F # {}
    <2>1. \A x \in S : n + 1 - x \in 1 .. n
      OBVIOUS
    <2> QED BY <2>1
  <1>2. Min(F) \in F /\ \A y \in F : Min(F) <= y
    BY <1>1, MinIsFirst
  <1> HIDE DEF F
  <1>3. PICK x \in S : Min(F) = n + 1 - x
    BY <1>2 DEF F
  <1>4. ASSUME NEW y \in S PROVE x >= y
    <2>1. n + 1 - y \in F
      BY DEF F
    <2>2. Min(F) <= n + 1 - y
      BY <1>2, <2>1
    <2>3. x \in Int /\ y \in Int
      BY <1>3
    <2> QED BY <1>3, <2>2, <2>3
  <1>5. Max(S) \in S /\ \A y \in S : Max(S) >= y
    BY <1>4 DEF Max
  <1> QED BY <1>5

LEMMA CutIsTurnStart ==
    ASSUME NEW h \in Seq({"user", "assistant"}), TurnStarts(h) # {}
    PROVE  /\ Cut(h) \in TurnStarts(h)
           /\ Fits(h, Cut(h)) => \A i \in TurnStarts(h) : i < Cut(h) => ~Fits(h, i)
           /\ ~Fits(h, Cut(h)) => \A i \in TurnStarts(h) : i <= Cut(h)
  <1> DEFINE fitting == {i \in TurnStarts(h) : Fits(h, i)}
  <1>1. Len(h) \in Nat /\ TurnStarts(h) \in SUBSET (1 .. Len(h)) /\ fitting \in SUBSET (1 .. Len(h))
    BY DEF TurnStarts
  <1>2. CASE fitting # {}
    <2>1. Cut(h) = Min(fitting)
      BY <1>2 DEF Cut
    <2>2. Min(fitting) \in fitting /\ \A i \in fitting : Min(fitting) <= i
      BY <1>1, <1>2, MinIsFirst
    <2>3. ASSUME NEW i \in TurnStarts(h), i < Cut(h) PROVE ~Fits(h, i)
      <3>1. i \in Int /\ Cut(h) \in Int
        BY <1>1, <2>1, <2>2
      <3> QED BY <2>1, <2>2, <2>3, <3>1
    <2> QED BY <2>1, <2>2, <2>3
  <1>3. CASE fitting = {}
    <2>1. Cut(h) = Max(TurnStarts(h))
      BY <1>3 DEF Cut
    <2>2. Max(TurnStarts(h)) \in TurnStarts(h) /\ \A i \in TurnStarts(h) : i <= Max(TurnStarts(h))
      BY <1>1, MaxIsLast
    <2> QED BY <1>3, <2>1, <2>2
  <1> QED BY <1>2, <1>3

\* What is left of a long history that has a question.
LEMMA LongIsCut ==
    ASSUME NEW h \in Seq({"user", "assistant"}), TurnStarts(h) # {}, Len(h) > MaxHistory
    PROVE  LET k == Truncated(h)
               dropped == Len(h) - Len(k)
           IN  /\ dropped \in 0 .. Len(h) - 1 /\ h[dropped + 1] = "user"
               /\ k = SubSeq(h, dropped + 1, Len(h))
               /\ Len(k) > MaxHistory => TurnStarts(k) = {1}
               /\ Len(k) <= MaxHistory => \A i \in 1 .. dropped : h[i] = "user" => ~Fits(h, i)
  <1> DEFINE n == Len(h)
             c == Cut(h)
             k == Truncated(h)
  <1>1. MaxHistory \in Nat /\ n \in Nat /\ \A i \in 1 .. n : h[i] \in {"user", "assistant"}
    BY HistoryAssumption, ElementOfSeq
  <1>2. c \in 1 .. n /\ h[c] = "user"
    BY CutIsTurnStart DEF TurnStarts
  <1>3. k = SubSeq(h, c, n)
    <2>1. ~(Len(h) <= MaxHistory)
      BY <1>1
    <2> QED BY <2>1 DEF Truncated
  <1>4. \A i \in c .. n : h[i] \in {"user", "assistant"}
    BY <1>1, <1>2
  <1>5. Len(SubSeq(h, c, n)) = IF c <= n THEN n - c + 1 ELSE 0
    BY <1>1, <1>2, <1>4, SubSeqProperties
  <1>6. \A i \in 1 .. n - c + 1 : SubSeq(h, c, n)[i] = h[c + i - 1]
    BY <1>1, <1>2, <1>4, SubSeqProperties
  <1>7. Len(k) = n - c + 1 /\ \A i \in 1 .. Len(k) : k[i] = h[c + i - 1]
    BY <1>1, <1>2, <1>3, <1>5, <1>6
  <1> HIDE DEF c, k, n
  <1>8. n - Len(k) = c - 1 /\ c - 1 \in 0 .. n - 1 /\ h[c - 1 + 1] = "user"
    BY <1>1, <1>2, <1>7
  <1>9. k = SubSeq(h, c - 1 + 1, n)
    <2>1. c - 1 + 1 = c
      BY <1>2
    <2> QED BY <1>3, <2>1
  <1>10. ASSUME Len(k) > MaxHistory PROVE TurnStarts(k) = {1}
    <2>1. ~Fits(h, c)
      BY <1>1, <1>2, <1>7, <1>10 DEF Fits, n
    <2>2. \A i \in 1 .. n : h[i] = "user" => i <= c
      BY <2>1, CutIsTurnStart DEF TurnStarts, c, n
    <2>3. ASSUME NEW i \in 1 .. Len(k) PROVE k[i] = "user" <=> i = 1
      <3>1. c + i - 1 \in 1 .. n /\ k[i] = h[c + i - 1]
        BY <1>1, <1>2, <1>7
      <3>2. CASE i = 1
        <4>1. c + i - 1 = c
          BY <1>2, <3>2
        <4> QED BY <1>2, <3>1, <3>2, <4>1
      <3>3. CASE i # 1
        <4>1. ~(c + i - 1 <= c)
          BY <1>1, <1>2, <1>7, <3>3
        <4> QED BY <2>2, <3>1, <3>3, <4>1
      <3> QED BY <3>2, <3>3
    <2>4. 1 \in 1 .. Len(k)
      BY <1>1, <1>2, <1>7
    <2> QED BY <2>3, <2>4 DEF TurnStarts
  <1>11. ASSUME Len(k) <= MaxHistory, NEW i \in 1 .. c - 1, h[i] = "user" PROVE ~Fits(h, i)
    <2>1. Fits(h, c)
      BY <1>1, <1>2, <1>7, <1>11 DEF Fits, n
    <2>2. i \in 1 .. n /\ i < c
      BY <1>1, <1>2
    <2> QED BY <1>11, <2>1, <2>2, CutIsTurnStart DEF TurnStarts, c, n
  <1> QED BY <1>8, <1>9, <1>10, <1>11 DEF c, k, n

\* A history that is read has a question, because what is stored has no hole.
LEMMA LoadedHasQuestion ==
    ASSUME Inv, ChatInv, NEW c \in Turns, NEW h \in Loaded(c), Len(h) > 0
    PROVE  h \in Seq({"user", "assistant"}) /\ TurnStarts(h) # {}
  <1>1. IsFiniteSet(Asked(c)) /\ Cardinality(Asked(c)) \in Nat
    BY TurnsAreFinite, FS_Subset, FS_CardinalityType DEF Asked
  <1>2. IsFiniteSet(Replies(c)) /\ Cardinality(Replies(c)) \in Nat
    <2>1. IsFiniteSet(1 .. Rounds)
      BY FS_Interval
    <2>2. IsFiniteSet(Turns \X (1 .. Rounds))
      BY <2>1, TurnsAreFinite, FS_Product
    <2>3. Replies(c) \in SUBSET (Turns \X (1 .. Rounds))
      BY DEF Replies
    <2> QED BY <2>2, <2>3, FS_Subset, FS_CardinalityType
  <1>3. PICK n \in 0 .. Cardinality(Asked(c)) + Cardinality(Replies(c)) :
            h \in [1 .. n -> {"user", "assistant"}]
    BY DEF Loaded
  <1>4. h \in Seq({"user", "assistant"}) /\ Len(h) = n /\ n > 0
    BY <1>1, <1>2, <1>3
  <1>5. Asked(c) # {}
    <2> SUFFICES ASSUME Asked(c) = {} PROVE FALSE
      OBVIOUS
    <2>1. Replies(c) = {}
      <3> SUFFICES ASSUME NEW r \in Replies(c) PROVE FALSE
        OBVIOUS
      <3>1. PICK t \in Turns, k \in 1 .. Rounds : chat[t] = c /\ Message(2 * k) \in db[t]
        BY DEF Replies
      <3>2. WholeTurn(t)
        BY DEF ChatInv
      <3>3. 2 * k \in Nat /\ 1 \in 1 .. 2 * k
        OBVIOUS
      <3>4. Message(1) \in db[t]
        BY <3>1, <3>2, <3>3 DEF WholeTurn
      <3> QED BY <3>1, <3>4 DEF Asked
    <2>2. n \in 0 .. 0
      BY <1>3, <2>1, FS_EmptySet
    <2> QED BY <1>4, <2>2
  <1>6. {i \in DOMAIN h : h[i] = "user"} # {}
    <2>1. Cardinality(Asked(c)) # 0
      BY <1>1, <1>5, FS_EmptySet
    <2>2. Cardinality({i \in DOMAIN h : h[i] = "user"}) = Cardinality(Asked(c))
      BY DEF Loaded
    <2> QED BY <2>1, <2>2, FS_EmptySet
  <1> QED BY <1>4, <1>6 DEF TurnStarts

-----------------------------------------------------------------------------

\* Turns, rows and calls keep their types.
THEOREM TypeCorrect == Spec => []TypeOK
  BY InvCorrect, PTL DEF Inv

\* A turn that replies has committed every audit row it owes.
THEOREM AnsweredIsAuditedCorrect == Spec => []AnsweredIsAudited
  BY InvCorrect, PTL DEF Inv

\* Of a stored conversation at most the last effect of a turn is not audited, however
\* the turn ends: a turn whose older effects are not has lost a conversation that it
\* was to insert itself.
THEOREM OlderEffectsAreAuditedCorrect == Spec => []OlderEffectsAreAudited
  <1>1. Inv => OlderEffectsAreAudited
    BY DEF Inv, OrderInv, OlderEffectsAreAudited
  <1> QED BY <1>1, InvCorrect, PTL

\* What is stored of a conversation has no hole, and belongs to a conversation of the
\* same user that is stored too, whatever was rolled back and whoever was killed.
THEOREM ConversationIsWholeCorrect == Spec => []ConversationIsWhole
  <1>1. Inv /\ ChatInv => ConversationIsWhole
    <2> SUFFICES ASSUME Inv, ChatInv, NEW t \in Turns, NEW n \in 1 .. written[t],
                        Message(n) \in db[t]
                 PROVE  /\ \A m \in 1 .. n : Message(m) \in db[t]
                        /\ Conversation \in db[chat[t]] /\ User[chat[t]] = User[t]
      BY DEF ConversationIsWhole
    <2>1. WholeTurn(t) /\ n \in Nat
      BY DEF ChatInv, Inv, TypeOK
    <2> QED BY <2>1 DEF WholeTurn
  <1> QED BY <1>1, InvCorrect, ChatInvCorrect, PTL

\* However much of a turn a rollback, a failure or a crash has lost, and in whatever
\* order its texts are read, a history that is too long is cut at a user's question.
THEOREM LongHistoryIsCutAtTurnCorrect == Spec => []LongHistoryIsCutAtTurn
  <1>1. ASSUME Inv, ChatInv PROVE LongHistoryIsCutAtTurn
    <2> SUFFICES ASSUME NEW c \in Turns, NEW h \in Loaded(c), Len(h) > MaxHistory
                 PROVE  LET k == Truncated(h)
                            dropped == Len(h) - Len(k)
                        IN  /\ dropped \in 0 .. Len(h) - 1 /\ h[dropped + 1] = "user"
                            /\ k = SubSeq(h, dropped + 1, Len(h))
                            /\ Len(k) > MaxHistory => TurnStarts(k) = {1}
                            /\ Len(k) <= MaxHistory =>
                                   \A i \in 1 .. dropped : h[i] = "user" => ~Fits(h, i)
      BY DEF LongHistoryIsCutAtTurn
    <2>1. Len(h) > 0
      <3>1. PICK n \in 0 .. Cardinality(Asked(c)) + Cardinality(Replies(c)) :
                h \in [1 .. n -> {"user", "assistant"}]
        BY DEF Loaded
      <3> QED BY <3>1, HistoryAssumption
    <2>2. h \in Seq({"user", "assistant"}) /\ TurnStarts(h) # {}
      BY <1>1, <2>1, LoadedHasQuestion
    <2> QED BY <2>2, LongIsCut
  <1> QED BY <1>1, InvCorrect, ChatInvCorrect, PTL
-----------------------------------------------------------------------------
(***************************************************************************)
(* Progress.  That every turn ends (EveryTurnEnds) needs an induction over *)
(* rounds and calls; its measure is proved here, the induction is left to  *)
(* TLC.                                                                    *)
(***************************************************************************)

\* How many steps a turn can still take: each round is one answer of the model and at
\* most MaxCalls calls.
StepsLeft(t) ==
    IF pc[t] \in {"answered", "failed"} THEN 0
    ELSE (Rounds - rounds[t]) * (MaxCalls[t] + 1) + todo[t] + (IF pc[t] = "idle" THEN 2 ELSE 1)

\* The next answer takes its round off the product.
LEMMA OneRoundLess ==
    ASSUME NEW r \in Nat, NEW k \in Nat, r < Rounds
    PROVE  /\ (Rounds - r) * (k + 1) = (Rounds - (r + 1)) * (k + 1) + (k + 1)
           /\ (Rounds - r) * (k + 1) \in Nat /\ (Rounds - (r + 1)) * (k + 1) \in Nat
  <1>1. PICK d \in Nat : d = Rounds - (r + 1)
    OBVIOUS
  <1>2. Rounds - r = d + 1
    BY <1>1
  <1>3. (d + 1) * (k + 1) = d * (k + 1) + (k + 1)
    OBVIOUS
  <1>4. d * (k + 1) \in Nat
    OBVIOUS
  <1> QED BY <1>1, <1>2, <1>3, <1>4

\* What is left to a turn that runs, in a state of the right types.
LEMMA RoundsToCome ==
    ASSUME Inv, NEW t \in Turns
    PROVE  /\ rounds[t] \in Nat /\ Rounds \in Nat /\ MaxCalls[t] \in Nat /\ todo[t] \in Nat
           /\ rounds[t] <= Rounds
           /\ (Rounds - rounds[t]) * (MaxCalls[t] + 1) \in Nat
           /\ StepsLeft(t) \in Nat
           /\ pc[t] \in Running \cup {"idle"} => StepsLeft(t) > 0
  <1>1. /\ rounds[t] \in Nat /\ Rounds \in Nat /\ MaxCalls[t] \in Nat /\ todo[t] \in Nat
        /\ rounds[t] <= Rounds
    BY DEF Inv, TypeOK
  <1>2. (Rounds - rounds[t]) * (MaxCalls[t] + 1) \in Nat
    <2>1. CASE rounds[t] < Rounds
      BY <1>1, <2>1, OneRoundLess
    <2>2. CASE rounds[t] = Rounds
      BY <1>1, <2>2
    <2> QED BY <1>1, <2>1, <2>2
  <1>3. PICK w \in Nat : w = (Rounds - rounds[t]) * (MaxCalls[t] + 1)
    BY <1>2
  <1>4. StepsLeft(t) = IF pc[t] \in {"answered", "failed"} THEN 0
                       ELSE w + todo[t] + (IF pc[t] = "idle" THEN 2 ELSE 1)
    BY <1>3 DEF StepsLeft
  <1> QED BY <1>1, <1>2, <1>3, <1>4 DEF Running

LEMMA StepTakesOne ==
    ASSUME Inv, Inv', NEW t \in Turns, Start(t) \/ Ask(t) \/ Raise(t) \/ Call(t) \/ Close(t)
    PROVE  /\ StepsLeft(t)' \in Nat /\ StepsLeft(t)' < StepsLeft(t)
           /\ \A u \in Turns \ {t} : StepsLeft(u)' = StepsLeft(u)
  <1>1. /\ rounds[t] \in Nat /\ Rounds \in Nat /\ MaxCalls[t] \in Nat /\ todo[t] \in Nat
        /\ rounds[t] <= Rounds
        /\ StepsLeft(t) \in Nat /\ (pc[t] \in Running \cup {"idle"} => StepsLeft(t) > 0)
    BY RoundsToCome
  <1>2. PICK w \in Nat : w = (Rounds - rounds[t]) * (MaxCalls[t] + 1)
    BY RoundsToCome
  <1>3. StepsLeft(t) = IF pc[t] \in {"answered", "failed"} THEN 0
                       ELSE w + todo[t] + (IF pc[t] = "idle" THEN 2 ELSE 1)
    BY <1>2 DEF StepsLeft
  <1>4. StepsLeft(t)' = IF pc'[t] \in {"answered", "failed"} THEN 0
                        ELSE (Rounds - rounds'[t]) * (MaxCalls[t] + 1) + todo'[t]
                             + (IF pc'[t] = "idle" THEN 2 ELSE 1)
    BY DEF StepsLeft
  <1>5. CASE Start(t)
    <2>1. /\ pc[t] = "idle" /\ pc'[t] = "asking" /\ rounds'[t] = rounds[t] /\ todo'[t] = todo[t]
          /\ \A u \in Turns \ {t} : pc'[u] = pc[u]
          /\ rounds' = rounds /\ todo' = todo
      BY <1>5 DEF Start, Inv, TypeOK
    <2>2. StepsLeft(t) = w + todo[t] + 2 /\ StepsLeft(t)' = w + todo[t] + 1
      BY <1>2, <1>3, <1>4, <2>1
    <2>3. \A u \in Turns \ {t} : StepsLeft(u)' = StepsLeft(u)
      BY <2>1 DEF StepsLeft
    <2> QED BY <1>1, <2>2, <2>3
  <1>6. CASE Ask(t)
    <2>1. PICK k \in 0 .. MaxCalls[t] - called[t] :
              /\ todo' = [todo EXCEPT ![t] = k]
              /\ pc' = [pc EXCEPT ![t] = IF k = 0 THEN "closing" ELSE "calling"]
      BY <1>6 DEF Ask
    <2>2. /\ pc[t] = "asking" /\ rounds[t] < Rounds /\ rounds'[t] = rounds[t] + 1
          /\ pc'[t] \in {"closing", "calling"} /\ todo'[t] = k
          /\ \A u \in Turns \ {t} : pc'[u] = pc[u] /\ rounds'[u] = rounds[u] /\ todo'[u] = todo[u]
      BY <1>6, <2>1 DEF Ask, Inv, TypeOK
    <2>3. k \in Nat /\ k <= MaxCalls[t]
      BY <1>1 DEF Inv, TypeOK
    <2>4. PICK v \in Nat : v = (Rounds - (rounds[t] + 1)) * (MaxCalls[t] + 1)
      BY <1>1, <2>2, OneRoundLess
    <2>5. w = v + (MaxCalls[t] + 1)
      BY <1>1, <1>2, <2>2, <2>4, OneRoundLess
    <2>6. StepsLeft(t) = w + todo[t] + 1
      BY <1>3, <2>2
    <2>7. StepsLeft(t)' = v + k + 1
      BY <1>4, <2>2, <2>4
    <2>8. \A u \in Turns \ {t} : StepsLeft(u)' = StepsLeft(u)
      BY <2>2 DEF StepsLeft
    <2> QED BY <1>1, <2>5, <2>6, <2>7, <2>8, <2>3
  <1>7. CASE /\ pc[t] = "calling" /\ UNCHANGED rounds
             /\ todo' = [todo EXCEPT ![t] = todo[t] - 1]
             /\ pc' = [pc EXCEPT ![t] = AfterCall(t)]
    <2>1. /\ AfterCall(t) \in Running /\ todo[t] > 0
      BY <1>7 DEF AfterCall, Running, Inv, CallsInv
    <2>2. /\ pc'[t] \in Running /\ todo'[t] = todo[t] - 1 /\ rounds' = rounds
          /\ \A u \in Turns \ {t} : pc'[u] = pc[u] /\ todo'[u] = todo[u]
      BY <1>7, <2>1 DEF Inv, TypeOK
    <2>3. StepsLeft(t) = w + todo[t] + 1
      BY <1>3, <1>7
    <2>4. StepsLeft(t)' = w + (todo[t] - 1) + 1
      BY <1>2, <1>4, <2>2 DEF Running
    <2>5. \A u \in Turns \ {t} : StepsLeft(u)' = StepsLeft(u)
      BY <2>2 DEF StepsLeft
    <2> QED BY <1>1, <2>1, <2>3, <2>4, <2>5
  <1>8. CASE /\ pc[t] \in Running /\ UNCHANGED <<rounds, todo>>
             /\ \E end \in {"answered", "failed"} : pc' = [pc EXCEPT ![t] = end]
    <2>1. /\ pc'[t] \in {"answered", "failed"} /\ rounds' = rounds /\ todo' = todo
          /\ \A u \in Turns \ {t} : pc'[u] = pc[u]
      BY <1>8 DEF Inv, TypeOK
    <2>2. StepsLeft(t)' = 0
      BY <1>4, <2>1
    <2>3. \A u \in Turns \ {t} : StepsLeft(u)' = StepsLeft(u)
      BY <2>1 DEF StepsLeft
    <2> QED BY <1>1, <1>8, <2>2, <2>3
  <1>9. Raise(t) \/ Close(t) => /\ pc[t] \in Running /\ UNCHANGED <<rounds, todo>>
                                /\ \E end \in {"answered", "failed"} : pc' = [pc EXCEPT ![t] = end]
    BY DEF Raise, Close, Running
  <1>10. Call(t) =>
            \/ /\ pc[t] = "calling" /\ UNCHANGED rounds
               /\ todo' = [todo EXCEPT ![t] = todo[t] - 1]
               /\ pc' = [pc EXCEPT ![t] = AfterCall(t)]
            \/ /\ pc[t] \in Running /\ UNCHANGED <<rounds, todo>>
               /\ \E end \in {"answered", "failed"} : pc' = [pc EXCEPT ![t] = end]
    BY DEF Call, Lookup, Refuse, Act, PayUnrecorded, ExpireAtPay, CommitCall, Rollback, Break,
           RaiseAtAudit, EndCall, Running
  <1> QED BY <1>5, <1>6, <1>7, <1>8, <1>9, <1>10

\* However many tools the model calls and however they end: each step of a turn takes
\* one of the finitely many steps it has left, and gives none to another turn.
THEOREM TurnsRunDown ==
    Spec => [][\E t \in Turns :
                /\ StepsLeft(t)' \in Nat /\ StepsLeft(t)' < StepsLeft(t)
                /\ \A u \in Turns \ {t} : StepsLeft(u)' = StepsLeft(u)]_vars
  <1>1. Inv /\ Inv' /\ [Next]_vars =>
            [\E t \in Turns :
                /\ StepsLeft(t)' \in Nat /\ StepsLeft(t)' < StepsLeft(t)
                /\ \A u \in Turns \ {t} : StepsLeft(u)' = StepsLeft(u)]_vars
    BY StepTakesOne DEF Next
  <1> QED BY <1>1, InvCorrect, PTL DEF Spec

\* Whatever the tools do and the other turns: a turn that has not ended takes a step,
\* which leaves it fewer than it had; so it ends.
THEOREM TurnsGoOn ==
    FairSpec /\ []TurnNeverStuck =>
        \A t \in Turns, n \in Nat :
            (pc[t] \in Running /\ StepsLeft(t) = n) ~> StepsLeft(t) < n
  <1> SUFFICES ASSUME NEW t \in Turns, NEW n \in Nat
               PROVE  FairSpec /\ []TurnNeverStuck =>
                        ((pc[t] \in Running /\ StepsLeft(t) = n) ~> StepsLeft(t) < n)
    OBVIOUS
  <1> DEFINE Has == pc[t] \in Running /\ StepsLeft(t) = n
             Fewer == StepsLeft(t) < n
  <1>1. FairSpec => Spec /\ GoesOn(t)
    BY DEF FairSpec
  <1>2. Inv /\ Inv' /\ [Next]_vars => (Has => Has' \/ Fewer')
    <2> SUFFICES ASSUME Inv, Inv', [Next]_vars, Has, ~Fewer' PROVE Has'
      OBVIOUS
    <2>1. CASE UNCHANGED vars
      BY <2>1 DEF vars, loopVars, StepsLeft
    <2>2. ASSUME NEW u \in Turns, Start(u) \/ Ask(u) \/ Raise(u) \/ Call(u) \/ Close(u)
          PROVE  Has'
      <3>1. u # t
        BY <2>2, StepTakesOne
      <3>2. StepsLeft(t)' = StepsLeft(t)
        BY <2>2, <3>1, StepTakesOne
      <3>3. pc'[t] = pc[t]
        BY <2>2, <3>1 DEF Inv, TypeOK, Start, Ask, Raise, Call, Lookup, Refuse, Act,
                          PayUnrecorded, ExpireAtPay, CommitCall, Rollback, Break,
                          RaiseAtAudit, EndCall, Close
      <3> QED BY <3>2, <3>3
    <2> QED BY <2>1, <2>2 DEF Next
  <1>3. Inv /\ Inv' /\ <<Ask(t) \/ Call(t) \/ Close(t)>>_vars => (Has => Fewer')
    BY StepTakesOne
  <1>4. TurnNeverStuck => (Has => ENABLED <<Ask(t) \/ Call(t) \/ Close(t)>>_vars)
    BY DEF TurnNeverStuck
  <1> HIDE DEF Has, Fewer
  <1>5. FairSpec /\ []TurnNeverStuck => (Has ~> Fewer)
    BY <1>1, <1>2, <1>3, <1>4, InvCorrect, PTL DEF Spec, GoesOn
  <1> QED BY <1>5 DEF Has, Fewer
==============================================================================

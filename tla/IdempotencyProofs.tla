-------------------------- MODULE IdempotencyProofs --------------------------
(***************************************************************************)
(* Theorems of Idempotency, for every set of callers, every assignment of  *)
(* payloads and every limit on the polls, crashes included.                *)
(***************************************************************************)
EXTENDS Idempotency, TLAPS

USE PollsAssumption, NobodyAssumption

(***************************************************************************)
(* The strengthening: who claimed the row, and what became of a result.    *)
(***************************************************************************)

\* There is a claimant exactly while there is a row.
RowIsSomebodys == row # "none" <=> claimant # Nobody

\* A handler that returned is the claimant's; its call goes on to store the result,
\* return it, or is killed, and the row stays.
ReturnedIsKept ==
    \A c \in returned :
        /\ row # "none" /\ claimant = c
        /\ pc[c] \in {"save", "return", "answered", "crashed"}

\* The result that is stored is the claimant's.
DoneIsReturned == row = "done" => body = claimant /\ body \in returned

\* A call stores its own result, and hands out what is stored.
SavesOwn == \A c \in Callers : pc[c] = "save" => c \in returned
ReturnsOwn == \A c \in Callers : pc[c] = "return" => row = "done" /\ body = c

\* A call claims again only within its time.
ReclaimsInTime == \A c \in Callers : pc[c] = "reclaim" => polls[c] < MaxPolls

\* An answer is the stored result.
AnswerIsStored ==
    \A c \in Callers : answer[c] # Nobody =>
        /\ row = "done" /\ answer[c] = body
        /\ Payload[answer[c]] = Payload[c]
        /\ pc[c] = "answered"

Inv ==
    /\ TypeOK
    /\ RowIsSomebodys
    /\ OneRunner
    /\ ReturnedIsKept
    /\ DoneIsReturned
    /\ SavesOwn
    /\ ReturnsOwn
    /\ AnswerIsStored
    /\ ReclaimsInTime

USE DEF Inv, Running, Ends, Goto

LEMMA InitInv == Init => Inv
  BY DEF Init, TypeOK, RowIsSomebodys, OneRunner, ReturnedIsKept, DoneIsReturned,
         SavesOwn, ReturnsOwn, AnswerIsStored, ReclaimsInTime

(***************************************************************************)
(* One lemma per action.                                                   *)
(***************************************************************************)

LEMMA ClaimInv == ASSUME Inv, NEW c \in Callers, Claim(c) PROVE Inv'
  <1>1. TypeOK'
    BY DEF Claim, TryClaim, TypeOK
  <1>2. RowIsSomebodys' /\ OneRunner'
    BY DEF Claim, TryClaim, TypeOK, RowIsSomebodys, OneRunner
  <1>3. ReturnedIsKept' /\ DoneIsReturned'
    BY DEF Claim, TryClaim, TypeOK, ReturnedIsKept, DoneIsReturned
  <1>4. SavesOwn' /\ ReturnsOwn' /\ AnswerIsStored' /\ ReclaimsInTime'
    BY DEF Claim, TryClaim, TypeOK, SavesOwn, ReturnsOwn, AnswerIsStored,
         ReclaimsInTime
  <1> QED BY <1>1, <1>2, <1>3, <1>4

LEMMA HandleInv == ASSUME Inv, NEW c \in Callers, Handle(c) PROVE Inv'
  <1>1. TypeOK'
    BY DEF Handle, TypeOK
  <1>2. RowIsSomebodys' /\ OneRunner'
    BY DEF Handle, TypeOK, RowIsSomebodys, OneRunner
  <1>3. row = "claimed" /\ claimant = c
    BY DEF Handle, OneRunner
  <1>4. ReturnedIsKept' /\ DoneIsReturned'
    BY <1>3 DEF Handle, TypeOK, ReturnedIsKept, DoneIsReturned
  <1>5. SavesOwn' /\ ReturnsOwn' /\ AnswerIsStored' /\ ReclaimsInTime'
    BY DEF Handle, TypeOK, SavesOwn, ReturnsOwn, AnswerIsStored,
         ReclaimsInTime
  <1> QED BY <1>1, <1>2, <1>4, <1>5

LEMMA SaveInv == ASSUME Inv, NEW c \in Callers, Save(c) PROVE Inv'
  <1>1. row = "claimed" /\ claimant = c /\ c \in returned
    BY DEF Save, OneRunner, SavesOwn
  <1>2. row' = "done" /\ body' = c
    BY <1>1 DEF Save
  <1>3. TypeOK'
    BY <1>2 DEF Save, TypeOK
  <1>4. RowIsSomebodys' /\ OneRunner'
    BY <1>1, <1>2 DEF Save, TypeOK, RowIsSomebodys, OneRunner
  <1>5. ReturnedIsKept' /\ DoneIsReturned'
    BY <1>1, <1>2 DEF Save, TypeOK, ReturnedIsKept, DoneIsReturned
  <1>6. SavesOwn' /\ ReturnsOwn' /\ AnswerIsStored' /\ ReclaimsInTime'
    BY <1>1, <1>2 DEF Save, TypeOK, SavesOwn, ReturnsOwn, AnswerIsStored,
         ReclaimsInTime
  <1> QED BY <1>3, <1>4, <1>5, <1>6

LEMMA ReturnInv == ASSUME Inv, NEW c \in Callers, Return(c) PROVE Inv'
  <1>1. row = "done" /\ body = c
    BY DEF Return, ReturnsOwn
  <1>2. TypeOK'
    BY DEF Return, TypeOK
  <1>3. RowIsSomebodys' /\ OneRunner'
    BY DEF Return, TypeOK, RowIsSomebodys, OneRunner
  <1>4. ReturnedIsKept' /\ DoneIsReturned'
    BY DEF Return, TypeOK, ReturnedIsKept, DoneIsReturned
  <1>5. SavesOwn' /\ ReturnsOwn' /\ AnswerIsStored' /\ ReclaimsInTime'
    BY <1>1 DEF Return, TypeOK, SavesOwn, ReturnsOwn, AnswerIsStored,
         ReclaimsInTime
  <1> QED BY <1>2, <1>3, <1>4, <1>5

LEMMA UndoInv == ASSUME Inv, NEW c \in Callers, Undo(c) PROVE Inv'
  <1>1. row = "claimed" /\ claimant = c
    BY DEF Undo, OneRunner
  <1>2. returned = {}
    BY <1>1 DEF Undo, ReturnedIsKept, TypeOK
  <1>3. TypeOK'
    BY DEF Undo, TypeOK
  <1>4. RowIsSomebodys' /\ OneRunner'
    BY <1>1 DEF Undo, TypeOK, RowIsSomebodys, OneRunner
  <1>5. ReturnedIsKept' /\ DoneIsReturned'
    BY <1>1, <1>2 DEF Undo, TypeOK, ReturnedIsKept, DoneIsReturned
  <1>6. SavesOwn' /\ ReturnsOwn' /\ AnswerIsStored' /\ ReclaimsInTime'
    BY <1>1 DEF Undo, TypeOK, SavesOwn, ReturnsOwn, AnswerIsStored,
         ReclaimsInTime
  <1> QED BY <1>3, <1>4, <1>5, <1>6

LEMMA PollInv == ASSUME Inv, NEW c \in Callers, Poll(c) PROVE Inv'
  <1>1. TypeOK'
    BY DEF Poll, Look, Waits, TypeOK
  <1>2. RowIsSomebodys' /\ OneRunner'
    BY DEF Poll, Look, Waits, TypeOK, RowIsSomebodys, OneRunner
  <1>3. ReturnedIsKept' /\ DoneIsReturned'
    BY DEF Poll, Look, Waits, TypeOK, ReturnedIsKept, DoneIsReturned
  <1>4. SavesOwn' /\ ReturnsOwn'
    BY DEF Poll, Look, Waits, TypeOK, SavesOwn, ReturnsOwn
  <1>5. AnswerIsStored' /\ ReclaimsInTime'
    BY DEF Poll, Look, Waits, TypeOK, AnswerIsStored, DoneIsReturned,
           ReclaimsInTime
  <1> QED BY <1>1, <1>2, <1>3, <1>4, <1>5

LEMMA ReclaimInv == ASSUME Inv, NEW c \in Callers, Reclaim(c) PROVE Inv'
  <1>1. TypeOK'
    BY DEF Reclaim, TryClaim, TypeOK, ReclaimsInTime
  <1>2. RowIsSomebodys' /\ OneRunner'
    BY DEF Reclaim, TryClaim, TypeOK, RowIsSomebodys, OneRunner
  <1>3. ReturnedIsKept' /\ DoneIsReturned'
    BY DEF Reclaim, TryClaim, TypeOK, ReturnedIsKept, DoneIsReturned
  <1>4. SavesOwn' /\ ReturnsOwn' /\ AnswerIsStored' /\ ReclaimsInTime'
    BY DEF Reclaim, TryClaim, TypeOK, SavesOwn, ReturnsOwn, AnswerIsStored,
         ReclaimsInTime
  <1> QED BY <1>1, <1>2, <1>3, <1>4

LEMMA StopInv ==
    ASSUME Inv, NEW c \in Callers, GiveUp(c) \/ Crash(c)
    PROVE  Inv'
  <1>1. TypeOK'
    BY DEF GiveUp, Crash, TypeOK
  <1>2. RowIsSomebodys' /\ OneRunner'
    BY DEF GiveUp, Crash, TypeOK, RowIsSomebodys, OneRunner
  <1>3. ReturnedIsKept' /\ DoneIsReturned'
    BY DEF GiveUp, Crash, TypeOK, ReturnedIsKept, DoneIsReturned
  <1>4. SavesOwn' /\ ReturnsOwn' /\ AnswerIsStored' /\ ReclaimsInTime'
    BY DEF GiveUp, Crash, TypeOK, SavesOwn, ReturnsOwn, AnswerIsStored,
         ReclaimsInTime
  <1> QED BY <1>1, <1>2, <1>3, <1>4

\* Inv is an invariant.
LEMMA InvCorrect == Spec => []Inv
  <1>1. ASSUME Inv, [Next]_vars
        PROVE  Inv'
    <2>1. CASE UNCHANGED vars
      BY <1>1, <2>1 DEF vars, TypeOK, RowIsSomebodys, OneRunner, ReturnedIsKept, DoneIsReturned,
                  SavesOwn, ReturnsOwn, AnswerIsStored, ReclaimsInTime
    <2>2. ASSUME NEW c \in Callers, Step(c) \/ Crash(c)
          PROVE  Inv'
      BY <1>1, <2>2, ClaimInv, HandleInv, SaveInv, ReturnInv, UndoInv, PollInv, ReclaimInv,
         StopInv DEF Step
    <2> QED BY <1>1, <2>1, <2>2 DEF Next
  <1> QED BY InitInv, <1>1, PTL DEF Spec

(***************************************************************************)
(* The theorems.                                                           *)
(***************************************************************************)

\* The row and the program counters keep their types; no call polls beyond its time.
THEOREM TypeCorrect == Spec => []TypeOK
  BY InvCorrect, PTL

\* No two calls of one key run their handlers at the same time.
THEOREM OneRunnerCorrect == Spec => []OneRunner
  BY InvCorrect, PTL

\* At most one handler of a key returns a result.
THEOREM AtMostOnceCorrect == Spec => []AtMostOnce
  <1>1. Inv => AtMostOnce
    BY DEF ReturnedIsKept, AtMostOnce
  <1> QED BY <1>1, InvCorrect, PTL

\* Whoever is given a result is given one that was computed for its payload.
THEOREM SameAnswerCorrect == Spec => []SameAnswer
  <1>1. Inv => SameAnswer
    BY DEF AnswerIsStored, DoneIsReturned, SameAnswer
  <1> QED BY <1>1, InvCorrect, PTL

(***************************************************************************)
(* Stuck keys: a row vanishes only under a call that fails.                *)
(***************************************************************************)

SomeFailed == \E c \in Callers : pc[c] = "failed"

\* A call polls only once there was a row; if it finds none, a handler has raised.
VanishedByFailure ==
    \A c \in Callers :
        /\ pc[c] = "poll" /\ row = "none" => SomeFailed
        /\ pc[c] = "reclaim" => SomeFailed

StuckInv == Inv /\ VanishedByFailure /\ StuckKeyHasFailure

LEMMA StuckInit == Init => StuckInv
  <1>1. Init => VanishedByFailure /\ StuckKeyHasFailure
    BY DEF Init, VanishedByFailure, StuckKeyHasFailure
  <1> QED BY <1>1, InitInv DEF StuckInv

\* No step undoes a failure.
LEMMA FailuresStay ==
    ASSUME Inv, SomeFailed, NEW c \in Callers, Step(c) \/ Crash(c)
    PROVE  SomeFailed'
  <1>1. PICK f \in Callers : pc[f] = "failed"
    BY DEF SomeFailed
  <1>2. pc'[f] = "failed"
    BY <1>1 DEF TypeOK, Step, Claim, TryClaim, Handle, Save, Return, Undo, Poll, Look,
                Reclaim, GiveUp, Crash
  <1> QED BY <1>2 DEF SomeFailed

LEMMA StuckStep ==
    ASSUME StuckInv, NEW c \in Callers, Step(c) \/ Crash(c)
    PROVE  VanishedByFailure' /\ StuckKeyHasFailure'
  <1>1. Inv /\ VanishedByFailure /\ StuckKeyHasFailure
    BY DEF StuckInv
  <1>2. SomeFailed => SomeFailed'
    BY <1>1, FailuresStay
  <1> HIDE DEF SomeFailed
  <1> DEFINE P == VanishedByFailure' /\ StuckKeyHasFailure'
  <1>3. StuckKeyHasFailure <=>
            (row = "claimed" => \/ pc[claimant] \in Running \cup {"crashed"}
                                \/ pc[claimant] = "in_progress" /\ SomeFailed)
    BY DEF StuckKeyHasFailure, SomeFailed
  <1>4. StuckKeyHasFailure' <=>
            (row' = "claimed" => \/ pc'[claimant'] \in Running \cup {"crashed"}
                                 \/ pc'[claimant'] = "in_progress" /\ SomeFailed')
    BY DEF StuckKeyHasFailure, SomeFailed
  <1>5. row = "claimed" => claimant \in Callers
    BY <1>1 DEF RowIsSomebodys, TypeOK
  <1>6. CASE Claim(c)
    BY <1>1, <1>2, <1>3, <1>4, <1>5, <1>6
       DEF Claim, TryClaim, TypeOK, VanishedByFailure
  <1>7. CASE Handle(c)
    BY <1>1, <1>2, <1>3, <1>4, <1>5, <1>7 DEF Handle, TypeOK, VanishedByFailure
  <1>8. CASE Save(c)
    <2>1. row = "claimed"
      BY <1>1, <1>8 DEF Save, OneRunner
    <2> QED BY <1>1, <1>2, <1>4, <1>8, <2>1 DEF Save, TypeOK, VanishedByFailure
  <1>9. CASE Return(c)
    <2>1. row = "done"
      BY <1>1, <1>9 DEF Return, ReturnsOwn
    <2> QED BY <1>1, <1>2, <1>4, <1>9, <2>1 DEF Return, TypeOK, VanishedByFailure
  <1>10. CASE Undo(c)
    <2>1. row = "claimed" /\ row' = "none"
      BY <1>1, <1>10 DEF Undo, OneRunner
    <2>2. SomeFailed'
      BY <1>1, <1>10 DEF Undo, TypeOK, SomeFailed
    <2> QED BY <1>4, <2>1, <2>2 DEF VanishedByFailure
  <1>11. CASE Poll(c) \/ GiveUp(c)
    <2>1. row = "claimed" => claimant # c
      BY <1>1, <1>3, <1>11 DEF Poll, GiveUp, StuckKeyHasFailure
    <2> QED BY <1>1, <1>2, <1>3, <1>4, <1>5, <1>11, <2>1
            DEF Poll, Look, GiveUp, TypeOK, VanishedByFailure
  <1>12. CASE Reclaim(c)
    <2>1. SomeFailed /\ (row = "claimed" => claimant # c)
      BY <1>1, <1>3, <1>12 DEF Reclaim, VanishedByFailure, StuckKeyHasFailure
    <2> QED BY <1>1, <1>2, <1>3, <1>4, <1>5, <1>12, <2>1
            DEF Reclaim, TryClaim, TypeOK, VanishedByFailure
  <1>13. CASE Crash(c)
    BY <1>1, <1>2, <1>3, <1>4, <1>5, <1>13 DEF Crash, TypeOK, VanishedByFailure
  <1> QED BY <1>6, <1>7, <1>8, <1>9, <1>10, <1>11, <1>12, <1>13 DEF Step

\* A key that nobody will finish has seen a death or a handler that raised, and in the
\* second case a retry that claimed the vanished row and does not serve it.
THEOREM StuckKeyHasFailureCorrect == Spec => []StuckKeyHasFailure
  <1>1. ASSUME StuckInv, [Next]_vars, Inv'
        PROVE  StuckInv'
    <2>1. CASE UNCHANGED vars
      BY <1>1, <2>1 DEF vars, StuckInv, VanishedByFailure, StuckKeyHasFailure, SomeFailed
    <2>2. CASE \E c \in Callers : Step(c) \/ Crash(c)
      BY <1>1, <2>2, StuckStep DEF StuckInv
    <2> QED BY <1>1, <2>1, <2>2 DEF Next
  <1>2. StuckInv => StuckKeyHasFailure
    BY DEF StuckInv
  <1> QED BY StuckInit, <1>1, <1>2, InvCorrect, PTL DEF Spec

(***************************************************************************)
(* Progress.  CallsEnd follows by induction over the steps a call has      *)
(* left; the measure and the step of that induction are proved here, the   *)
(* induction is left to TLC.                                               *)
(***************************************************************************)

\* How many steps a call can still take.
StepsLeft(c) ==
    IF pc[c] \in Ends THEN 0
    ELSE IF pc[c] \in {"return", "undo"} THEN 1
    ELSE IF pc[c] = "save" THEN 2
    ELSE IF pc[c] = "handler" THEN 3
    ELSE IF pc[c] = "reclaim" THEN 2 * (MaxPolls - polls[c]) + 1
    ELSE IF pc[c] = "poll" THEN 2 * (MaxPolls - polls[c]) + 2
    ELSE 2 * MaxPolls + 5

LEMMA StepTakesOne ==
    ASSUME Inv, Inv', NEW c \in Callers, Step(c) \/ Crash(c)
    PROVE  /\ StepsLeft(c)' \in Nat /\ StepsLeft(c)' < StepsLeft(c)
           /\ StepsLeft(c) <= 2 * MaxPolls + 5
           /\ \A d \in Callers \ {c} : StepsLeft(d)' = StepsLeft(d)
  <1>1. polls[c] \in 0 .. MaxPolls /\ polls'[c] \in 0 .. MaxPolls
    BY DEF TypeOK
  <1>2. StepsLeft(c)' \in Nat
    BY <1>1 DEF StepsLeft
  <1>3. \A d \in Callers \ {c} : pc'[d] = pc[d] /\ polls'[d] = polls[d]
    BY DEF TypeOK, Step, Claim, TryClaim, Handle, Save, Return, Undo, Poll, Look,
                Reclaim, GiveUp, Crash
  <1>4. \A d \in Callers \ {c} : StepsLeft(d)' = StepsLeft(d)
    BY <1>3 DEF StepsLeft
  <1>5. StepsLeft(c) <= 2 * MaxPolls + 5
    BY <1>1 DEF TypeOK, StepsLeft
  <1>6. CASE Claim(c)
    BY <1>1, <1>6 DEF Claim, TryClaim, TypeOK, StepsLeft
  <1>7. CASE Handle(c) \/ Save(c) \/ Return(c) \/ Undo(c)
    BY <1>1, <1>7 DEF Handle, Save, Return, Undo, TypeOK, StepsLeft
  <1>8. CASE Poll(c)
    BY <1>1, <1>8 DEF Poll, Look, TypeOK, StepsLeft
  <1>9. CASE Reclaim(c)
    BY <1>1, <1>9 DEF Reclaim, TryClaim, TypeOK, StepsLeft
  <1>10. CASE GiveUp(c) \/ Crash(c)
    BY <1>1, <1>10 DEF GiveUp, Crash, TypeOK, StepsLeft
  <1> QED BY <1>2, <1>4, <1>5, <1>6, <1>7, <1>8, <1>9, <1>10 DEF Step

\* However calls wait for each other, find a row or find it vanished: each step takes
\* one of the finitely many steps of its call, and gives none to another.  A poll may
\* go to reclaim and come back only at the cost of a poll.
THEOREM CallsRunDown ==
    Spec => [][\E c \in Callers :
                /\ StepsLeft(c)' \in Nat /\ StepsLeft(c)' < StepsLeft(c)
                /\ StepsLeft(c) <= 2 * MaxPolls + 5
                /\ \A d \in Callers \ {c} : StepsLeft(d)' = StepsLeft(d)]_vars
  <1>1. Inv /\ Inv' /\ [Next]_vars =>
            [\E c \in Callers :
                /\ StepsLeft(c)' \in Nat /\ StepsLeft(c)' < StepsLeft(c)
                /\ StepsLeft(c) <= 2 * MaxPolls + 5
                /\ \A d \in Callers \ {c} : StepsLeft(d)' = StepsLeft(d)]_vars
    BY StepTakesOne DEF Next
  <1> QED BY <1>1, InvCorrect, PTL DEF Spec

\* Whatever the others do, a call that has not ended takes its next step, which leaves it
\* fewer than it had: so it ends.  (For a call that polls this takes as many steps as it
\* has polls left, an induction that is not made here.)
THEOREM CallsGoOn ==
    FairSpec /\ []CallNeverStuck =>
        \A c \in Callers, n \in Nat :
            (pc[c] \notin Ends /\ StepsLeft(c) = n) ~> StepsLeft(c) < n
  <1> SUFFICES ASSUME NEW c \in Callers, NEW n \in Nat
               PROVE  FairSpec /\ []CallNeverStuck =>
                        ((pc[c] \notin Ends /\ StepsLeft(c) = n) ~> StepsLeft(c) < n)
    OBVIOUS
  <1> DEFINE Has == pc[c] \notin Ends /\ StepsLeft(c) = n
             Fewer == StepsLeft(c) < n
  <1>1. FairSpec => Spec /\ GoesOn(c)
    BY DEF FairSpec
  <1>2. Inv /\ Inv' /\ [Next]_vars => (Has => Has' \/ Fewer')
    <2> SUFFICES ASSUME Inv, Inv', [Next]_vars, Has, ~Fewer' PROVE Has'
      OBVIOUS
    <2>1. CASE UNCHANGED vars
      BY <2>1 DEF vars, StepsLeft
    <2>2. ASSUME NEW d \in Callers, Step(d) \/ Crash(d) PROVE Has'
      <3>1. d # c
        BY <2>2, StepTakesOne
      <3>2. StepsLeft(c)' = StepsLeft(c)
        BY <2>2, <3>1, StepTakesOne
      <3>3. pc'[c] = pc[c]
        BY <2>2, <3>1 DEF TypeOK, Step, Claim, TryClaim, Handle, Save, Return, Undo,
                          Poll, Look, Reclaim, GiveUp, Crash
      <3> QED BY <3>2, <3>3
    <2> QED BY <2>1, <2>2 DEF Next
  <1>3. Inv /\ Inv' /\ <<Step(c)>>_vars => (Has => Fewer')
    BY StepTakesOne
  <1>4. CallNeverStuck => (Has => ENABLED <<Step(c)>>_vars)
    BY DEF CallNeverStuck
  <1> HIDE DEF Has, Fewer
  <1>5. FairSpec /\ []CallNeverStuck => (Has ~> Fewer)
    BY <1>1, <1>2, <1>3, <1>4, InvCorrect, PTL DEF Spec, GoesOn
  <1> QED BY <1>5 DEF Has, Fewer

\* A call that runs its handler or records the outcome ends: it is answered, fails or is
\* killed, and depends on no other call.
THEOREM RunnersEnd ==
    FairSpec /\ []CallNeverStuck =>
        \A c \in Callers : pc[c] \in Running ~> pc[c] \in Ends
  <1> SUFFICES ASSUME NEW c \in Callers
               PROVE  FairSpec /\ []CallNeverStuck => (pc[c] \in Running ~> pc[c] \in Ends)
    OBVIOUS
  <1> DEFINE Runs == pc[c] = "handler"
             Saves == pc[c] = "save"
             Last == pc[c] \in {"return", "undo"}
             Ended == pc[c] \in Ends
  <1>1. FairSpec => Spec /\ GoesOn(c)
    BY DEF FairSpec
  <1>2. Inv /\ [Next]_vars =>
            /\ Runs => Runs' \/ Saves' \/ Last' \/ Ended'
            /\ Saves => Saves' \/ Last' \/ Ended'
            /\ Last => Last' \/ Ended'
    <2> SUFFICES ASSUME Inv, [Next]_vars
                 PROVE  \/ pc'[c] = pc[c]
                        \/ pc'[c] \in Ends
                        \/ Runs /\ (Saves' \/ Last')
                        \/ Saves /\ Last'
                        \/ ~(Runs \/ Saves \/ Last)
      BY DEF TypeOK
    <2>1. CASE UNCHANGED vars
      BY <2>1 DEF vars
    <2>2. ASSUME NEW d \in Callers \ {c}, Step(d) \/ Crash(d) PROVE pc'[c] = pc[c]
      BY <2>2 DEF TypeOK, Step, Claim, TryClaim, Handle, Save, Return, Undo, Poll, Look,
                  Reclaim, GiveUp, Crash
    <2>3. CASE Crash(c)
      BY <2>3 DEF Crash, TypeOK
    <2>4. CASE Handle(c) \/ Save(c) \/ Return(c) \/ Undo(c)
      BY <2>4 DEF Handle, Save, Return, Undo, TypeOK
    <2>5. CASE Claim(c) \/ Poll(c) \/ Reclaim(c) \/ GiveUp(c)
      BY <2>5 DEF Claim, Poll, Reclaim, GiveUp
    <2> QED BY <2>1, <2>2, <2>3, <2>4, <2>5 DEF Next, Step
  <1>3. Inv /\ <<Step(c)>>_vars =>
            (Runs => ~Runs') /\ (Saves => ~Saves') /\ (Last => ~Last')
    BY DEF Step, Claim, Handle, Save, Return, Undo, Poll, Reclaim, GiveUp, TypeOK
  <1>4. CallNeverStuck => (Runs \/ Saves \/ Last => ENABLED <<Step(c)>>_vars)
    BY DEF CallNeverStuck
  <1>5. pc[c] \in Running => Runs \/ Saves \/ Last
    OBVIOUS
  <1> HIDE DEF Runs, Saves, Last, Ended
  <1>6. FairSpec /\ []CallNeverStuck => (pc[c] \in Running ~> Ended)
    BY <1>1, <1>2, <1>3, <1>4, <1>5, InvCorrect, PTL DEF Spec, GoesOn
  <1> QED BY <1>6 DEF Ended

(***************************************************************************)
(* Refinement: result is the stored body, and only Save and the two ways   *)
(* of answering are steps of the abstract specification.                   *)
(***************************************************************************)

\* run_idempotent fixes one result per key and hands out no other.
THEOREM Refinement == Spec => ImplementsOnceOnly
  <1>1. Init => Once!Init
    BY DEF Init, Once!Init
  <1>2. ASSUME Inv, [Next]_vars
        PROVE  [Once!Next]_(Once!vars)
    <2>1. CASE UNCHANGED vars
      BY <2>1 DEF vars, Once!vars
    <2>2. ASSUME NEW c \in Callers, Save(c)
          PROVE  Once!Fix(c)
      <3>1. row = "claimed" /\ claimant = c
        BY <2>2, <1>2 DEF Save, OneRunner
      <3> QED BY <2>2, <3>1 DEF Save, Once!Fix
    <2>3. ASSUME NEW c \in Callers, Return(c)
          PROVE  Once!Answer(c)
      <3>1. row = "done" /\ body = c /\ answer[c] = Nobody
        BY <2>3, <1>2 DEF Return, ReturnsOwn, AnswerIsStored
      <3> QED BY <2>3, <3>1 DEF Return, Once!Answer
    <2>4. ASSUME NEW c \in Callers, Poll(c), answer' # answer
          PROVE  Once!Answer(c)
      <3>1. row = "done" /\ Payload[c] = Payload[claimant]
            /\ answer' = [answer EXCEPT ![c] = body]
        BY <2>4 DEF Poll, Look
      <3>2. body = claimant /\ body # Nobody /\ answer[c] = Nobody
        BY <2>4, <1>2, <3>1 DEF Poll, DoneIsReturned, AnswerIsStored, TypeOK
      <3> QED BY <2>4, <3>1, <3>2 DEF Poll, Once!Answer
    <2>5. ASSUME NEW c \in Callers, Poll(c), answer' = answer
          PROVE  UNCHANGED Once!vars
      BY <2>5 DEF Poll, Once!vars
    <2>6. ASSUME NEW c \in Callers,
                 Claim(c) \/ Handle(c) \/ Undo(c) \/ Reclaim(c) \/ GiveUp(c) \/ Crash(c)
          PROVE  UNCHANGED Once!vars
      BY <2>6 DEF Claim, TryClaim, Handle, Undo, Reclaim, GiveUp, Crash, Once!vars
    <2>7. ASSUME NEW c \in Callers, Step(c) \/ Crash(c)
          PROVE  [Once!Next]_(Once!vars)
      BY <2>2, <2>3, <2>4, <2>5, <2>6, <2>7 DEF Step, Once!Next
    <2> QED BY <1>2, <2>1, <2>7 DEF Next
  <1> QED BY <1>1, <1>2, InvCorrect, PTL DEF Spec, ImplementsOnceOnly, Once!Spec
=============================================================================

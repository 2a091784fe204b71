-------------------------- MODULE WaitingRoomProofs --------------------------
(***************************************************************************)
(* Theorems of WaitingRoom, for every finite set of calls, every set of    *)
(* workers and every batch size.                                           *)
(***************************************************************************)
EXTENDS WaitingRoom, FiniteSetTheorems, TLAPS

USE CallsAreFinite

LEMMA CallsCount == Cardinality(Calls) \in Nat
  BY FS_CardinalityType

\* A batch consists of candidates, and who is left out has no smaller position.
LEMMA BatchIsFirst ==
    ASSUME NEW S, NEW B \in FirstBatches(S)
    PROVE  B \subseteq S /\ \A c \in B, d \in S \ B : position[c] <= position[d]
  BY DEF FirstBatches

(***************************************************************************)
(* The inductive invariant.                                                *)
(***************************************************************************)

\* A ticket is written at the end of its call, and its call has counted.
RowsInv ==
    /\ \A c \in Calls : status[c] # "NONE" => pc[c] = "done"
    /\ \A c \in Calls : pc[c] \in {"idle", "looked"} => ahead[c] = {}

\* Who was waiting when b counted has a smaller position: the maximum is taken over
\* all tickets, also those that were admitted.
NumbersInv ==
    \A b \in Hot : \A a \in ahead[b] : status[a] # "NONE" /\ position[a] < position[b]

\* A worker has selected everybody who was waiting when somebody of its batch counted,
\* or they were locked by another worker.
BatchInv ==
    \A w \in Workers : \A b \in batch[w] : \A a \in ahead[b] :
        status[a] = "ADMITTED" \/ a \in passed[b] \/ a \in batch[w]

Inv == TypeOK /\ RowsInv /\ NumbersInv /\ AdmittedOnce /\ BatchInv /\ AdmittedInOrder

\* A call moves; tickets and batches stay.
LEMMA LookInv == ASSUME Inv, NEW c \in Calls, Look(c) PROVE Inv'
  <1> USE DEF Inv
  <1>1. UNCHANGED <<rowVars, ahead, batch, passed>>
    BY DEF Look
  <1>2. TypeOK'
    BY <1>1 DEF Look, TypeOK, rowVars
  <1>3. RowsInv'
    BY <1>1 DEF Look, RowsInv, TypeOK, rowVars
  <1>4. NumbersInv' /\ AdmittedOnce' /\ BatchInv' /\ AdmittedInOrder'
    BY <1>1 DEF NumbersInv, AdmittedOnce, BatchInv, AdmittedInOrder, Waiting, rowVars
  <1> QED BY <1>2, <1>3, <1>4

LEMMA CountInv == ASSUME Inv, NEW c \in Calls, Count(c) PROVE Inv'
  <1> USE DEF Inv
  <1>1. PICK n \in 0 .. Cardinality(Calls) :
            IsMaxPosition(n) /\ position' = [position EXCEPT ![c] = n + 1]
    BY DEF Count
  <1>2. n \in Nat
    BY CallsCount
  <1>3. UNCHANGED <<status, batch, passed>> /\ ahead' = [ahead EXCEPT ![c] = Waiting]
        /\ pc[c] = "looked" /\ pc' = [pc EXCEPT ![c] = "counted"]
    BY DEF Count
  <1>4. status[c] = "NONE" /\ Hot \subseteq Calls
    BY <1>3 DEF RowsInv
  <1>5. TypeOK'
    BY <1>1, <1>2, <1>3 DEF TypeOK, Waiting
  <1>6. RowsInv'
    BY <1>3, <1>4 DEF RowsInv, TypeOK
  <1>7. NumbersInv'
    <2>1. \A a \in Waiting : status[a] # "NONE" /\ position[a] < n + 1 /\ a # c
      BY <1>1, <1>2, <1>4 DEF Waiting, IsMaxPosition, TypeOK
    <2>2. \A b \in Hot : \A a \in ahead[b] : a # c
      BY <1>4 DEF NumbersInv
    <2>3. \A b \in Hot : \A a \in ahead[b] : a \in Calls
      BY DEF TypeOK
    <2>4. \A a \in Waiting : a \in Calls
      BY DEF Waiting
    <2> QED BY <1>1, <1>3, <1>4, <2>1, <2>2, <2>3, <2>4 DEF NumbersInv, TypeOK
  <1>8. AdmittedOnce'
    BY <1>3 DEF AdmittedOnce, Waiting
  <1>9. c \notin UNION {batch[w] : w \in Workers}
    BY <1>4 DEF AdmittedOnce, Waiting
  <1>10. BatchInv' /\ AdmittedInOrder'
    <2>1. \A w \in Workers : \A b \in batch[w] : b # c /\ b \in Calls
      BY <1>9 DEF TypeOK
    <2>2. BatchInv'
      BY <1>3, <2>1 DEF BatchInv, TypeOK
    <2>3. AdmittedInOrder'
      BY <1>3, <1>4 DEF AdmittedInOrder, TypeOK
    <2> QED BY <2>2, <2>3
  <1> QED BY <1>5, <1>6, <1>7, <1>8, <1>10

\* A new ticket waits, and is in nobody's way.
LEMMA InsertInv == ASSUME Inv, NEW c \in Calls, Insert(c) \/ JoinCold(c) PROVE Inv'
  <1> USE DEF Inv
  <1>1. UNCHANGED <<position, ahead, batch, passed>> /\ pc' = [pc EXCEPT ![c] = "done"]
    BY DEF Insert, JoinCold
  <1>2. status[c] = "NONE" /\ Hot \subseteq Calls
    BY DEF Insert, JoinCold, RowsInv
  <1>3. /\ \A d \in Calls : d # c => status'[d] = status[d]
        /\ status'[c] \in {"WAITING", "ADMITTED"}
        /\ status'[c] = "ADMITTED" => c \notin Hot
    BY DEF Insert, JoinCold, TypeOK
  <1>4. TypeOK'
    BY <1>1 DEF Insert, JoinCold, TypeOK
  <1>5. RowsInv'
    BY <1>1, <1>3 DEF RowsInv, TypeOK
  <1>6. NumbersInv'
    BY <1>1, <1>2, <1>3 DEF NumbersInv, TypeOK
  <1>7. Waiting \subseteq Waiting'
    BY <1>2, <1>3 DEF Waiting
  <1>8. AdmittedOnce'
    BY <1>1, <1>7 DEF AdmittedOnce
  <1>9. BatchInv'
    <2>1. \A a \in Calls : status[a] = "ADMITTED" => status'[a] = "ADMITTED"
      BY <1>2, <1>3
    <2>2. \A w \in Workers : \A b \in batch[w] : b \in Calls /\ ahead[b] \subseteq Calls
      BY <1>2 DEF TypeOK
    <2> QED BY <1>1, <2>1, <2>2 DEF BatchInv
  <1>10. AdmittedInOrder'
    <2>1. \A b \in Hot : status'[b] = "ADMITTED" => status[b] = "ADMITTED"
      BY <1>2, <1>3
    <2>2. \A b \in Hot : \A a \in ahead[b] : status[a] = "ADMITTED" => status'[a] = "ADMITTED"
      BY <1>2, <1>3 DEF TypeOK
    <2> QED BY <1>1, <2>1, <2>2 DEF AdmittedInOrder
  <1> QED BY <1>4, <1>5, <1>6, <1>8, <1>9, <1>10

LEMMA SelectInv == ASSUME Inv, NEW w \in Workers, Select(w) PROVE Inv'
  <1> USE DEF Inv
  <1>1. PICK B \in FirstBatches(Candidates(w)) :
            /\ batch' = [batch EXCEPT ![w] = B]
            /\ passed' = [c \in Calls |-> IF c \in B THEN LockedByOthers(w) ELSE passed[c]]
    BY DEF Select
  <1>2. B \subseteq Candidates(w)
        /\ \A c \in B, d \in Candidates(w) \ B : position[c] <= position[d]
    BY BatchIsFirst
  <1>3. UNCHANGED <<callVars, rowVars>> /\ Hot \subseteq Calls
        /\ passed' = [c \in Calls |-> IF c \in B THEN LockedByOthers(w) ELSE passed[c]]
    BY <1>1 DEF Select, callVars, rowVars
  <1>4. Waiting' = Waiting /\ Candidates(w) \subseteq Waiting /\ Waiting \subseteq Hot
    BY <1>3 DEF Waiting, rowVars, Candidates
  <1>5. TypeOK'
    <2>1. LockedByOthers(w) \subseteq Hot
      BY DEF LockedByOthers, TypeOK
    <2> QED BY <1>1, <1>2, <1>3, <1>4, <2>1 DEF TypeOK, callVars, rowVars
  <1>6. RowsInv' /\ NumbersInv'
    BY <1>3 DEF RowsInv, NumbersInv, callVars, rowVars
  <1>7. AdmittedOnce'
    <2>1. \A v \in Workers \ {w} : B \cap batch[v] = {}
      BY <1>2 DEF Candidates, LockedByOthers
    <2> QED BY <1>1, <1>2, <1>4, <2>1 DEF AdmittedOnce, TypeOK
  <1>8. ASSUME NEW b \in B, NEW a \in ahead[b]
        PROVE  status[a] = "ADMITTED" \/ a \in passed'[b] \/ a \in B
    <2>1. b \in Hot /\ a \in Hot
      BY <1>2, <1>4 DEF TypeOK
    <2>2. status[a] # "NONE" /\ position[a] < position[b]
      BY <2>1, <1>8 DEF NumbersInv
    <2>3. a \in Waiting => a \in Candidates(w) \/ a \in passed'[b]
      BY <1>3, <2>1 DEF Candidates
    <2>4. a \notin Candidates(w) \ B
      BY <1>2, <2>1, <2>2 DEF TypeOK
    <2> QED BY <2>1, <2>2, <2>3, <2>4 DEF Waiting, TypeOK
  <1>9. BatchInv'
    <2>1. ASSUME NEW v \in Workers, v # w, NEW b \in batch[v]
          PROVE  b \in Calls \ B
      BY <1>2, <1>3, <2>1 DEF Candidates, LockedByOthers, TypeOK
    <2> QED BY <1>1, <1>3, <1>8, <2>1 DEF BatchInv, TypeOK, callVars, rowVars
  <1>10. AdmittedInOrder'
    <2>1. \A b \in Hot : status[b] = "ADMITTED" => b \in Calls \ B
      BY <1>2, <1>3, <1>4 DEF Waiting
    <2> QED BY <1>3, <2>1 DEF AdmittedInOrder, callVars, rowVars
  <1> QED BY <1>5, <1>6, <1>7, <1>9, <1>10

LEMMA AdmitInv == ASSUME Inv, NEW w \in Workers, Admit(w) PROVE Inv'
  <1> USE DEF Inv
  <1>1. UNCHANGED <<callVars, position, passed>> /\ batch' = [batch EXCEPT ![w] = {}]
    BY DEF Admit
  <1>2. \A c \in Calls : status'[c] = IF c \in batch[w] THEN "ADMITTED" ELSE status[c]
    BY DEF Admit
  <1>3. batch[w] \subseteq Waiting /\ Waiting \subseteq Hot /\ Hot \subseteq Calls
    BY DEF AdmittedOnce, Waiting
  <1>4. TypeOK'
    BY <1>1 DEF Admit, TypeOK, callVars
  <1>5. RowsInv' /\ NumbersInv'
    BY <1>1, <1>2, <1>3 DEF RowsInv, NumbersInv, Waiting, TypeOK, callVars
  <1>6. Waiting' = Waiting \ batch[w]
    BY <1>2, <1>3 DEF Waiting
  <1>7. AdmittedOnce'
    BY <1>1, <1>6 DEF AdmittedOnce, TypeOK
  <1>8. \A a \in Calls : status[a] = "ADMITTED" \/ a \in batch[w] => status'[a] = "ADMITTED"
    BY <1>2
  <1>9. BatchInv'
    <2>1. \A v \in Workers : \A b \in batch[v] : b \in Hot /\ ahead[b] \subseteq Calls
      BY <1>3 DEF TypeOK
    <2> QED BY <1>1, <1>8, <2>1 DEF BatchInv, TypeOK, callVars
  <1>10. AdmittedInOrder'
    <2>1. ASSUME NEW b \in Hot, status'[b] = "ADMITTED", NEW a \in ahead[b]
          PROVE  status'[a] = "ADMITTED" \/ a \in passed[b]
      <3>1. a \in Calls /\ b \in Calls
        BY <1>3 DEF TypeOK
      <3>2. b \in batch[w] \/ status[b] = "ADMITTED"
        BY <1>2, <2>1, <3>1
      <3> QED BY <1>8, <3>1, <3>2, <2>1 DEF BatchInv, AdmittedInOrder
    <2> QED BY <1>1, <2>1 DEF AdmittedInOrder, callVars
  <1> QED BY <1>4, <1>5, <1>7, <1>9, <1>10

LEMMA DieInv == ASSUME Inv, NEW w \in Workers, Die(w) PROVE Inv'
  <1> USE DEF Inv
  <1>1. UNCHANGED <<callVars, rowVars, passed>> /\ batch' = [batch EXCEPT ![w] = {}]
    BY DEF Die
  <1>2. TypeOK' /\ RowsInv' /\ NumbersInv'
    BY <1>1 DEF TypeOK, RowsInv, NumbersInv, callVars, rowVars
  <1>3. AdmittedOnce' /\ BatchInv' /\ AdmittedInOrder'
    BY <1>1 DEF AdmittedOnce, BatchInv, AdmittedInOrder, Waiting, TypeOK, callVars, rowVars
  <1> QED BY <1>2, <1>3

LEMMA InvCorrect == Spec => []Inv
  <1>1. Init => Inv
    BY DEF Init, Inv, TypeOK, RowsInv, NumbersInv, AdmittedOnce, BatchInv, AdmittedInOrder
  <1>2. ASSUME Inv, [Next]_vars
        PROVE  Inv'
    <2>1. CASE UNCHANGED vars
      BY <1>2, <2>1 DEF vars, callVars, rowVars, Inv, TypeOK, RowsInv, NumbersInv,
                        AdmittedOnce, Waiting, BatchInv, AdmittedInOrder
    <2> QED BY <1>2, <2>1, LookInv, CountInv, InsertInv, SelectInv, AdmitInv, DieInv DEF Next
  <1> QED BY <1>1, <1>2, PTL DEF Spec

-----------------------------------------------------------------------------

\* Calls, tickets and batches keep their types.
THEOREM TypeCorrect == Spec => []TypeOK
  BY InvCorrect, PTL DEF Inv

\* However many workers run, no ticket is admitted twice.
THEOREM AdmittedOnceCorrect == Spec => []AdmittedOnce
  BY InvCorrect, PTL DEF Inv

\* Who was waiting when a ticket counted is admitted before it, unless another worker had
\* locked his ticket when this one was selected.
THEOREM AdmittedInOrderCorrect == Spec => []AdmittedInOrder
  BY InvCorrect, PTL DEF Inv

-----------------------------------------------------------------------------
(***************************************************************************)
(* Steps                                                                   *)
(***************************************************************************)

\* Who stands before c: tickets that wait, and calls that have counted and will insert
\* theirs.
Before(c) ==
    {d \in Hot \ {c} : (status[d] = "WAITING" \/ pc[d] = "counted") /\ position[d] <= position[c]}

\* The line before a ticket that waits never grows, and a worker that finds the ticket
\* unlocked and does not take it takes only tickets before it.  (Of the positions of the
\* waitlist, which are counts, neither holds.)
THEOREM NobodyGetsAhead ==
    Spec => [][\A c \in Hot : status[c] = "WAITING" /\ status'[c] = "WAITING" =>
                /\ Before(c)' \subseteq Before(c)
                /\ \A w \in Workers :
                    Select(w) /\ c \notin LockedByOthers(w) \cup batch'[w] =>
                        batch'[w] \subseteq Before(c)]_vars
  <1> DEFINE Shrinks(c) == Before(c)' \subseteq Before(c)
             TakesFirst(c) == \A w \in Workers :
                 Select(w) /\ c \notin LockedByOthers(w) \cup batch'[w] =>
                     batch'[w] \subseteq Before(c)
  <1>1. ASSUME Inv, Next, NEW c \in Hot, status[c] = "WAITING" PROVE Shrinks(c)
    <2>0. TypeOK /\ RowsInv /\ AdmittedOnce /\ Hot \subseteq Calls
      BY <1>1 DEF Inv
    <2>1. ASSUME NEW d \in Calls, Look(d) PROVE Shrinks(c)
      BY <2>0, <2>1 DEF Look, TypeOK, Before, rowVars
    <2>2. ASSUME NEW d \in Calls, Count(d) PROVE Shrinks(c)
      <3>1. PICK n \in 0 .. Cardinality(Calls) :
                IsMaxPosition(n) /\ position' = [position EXCEPT ![d] = n + 1]
        BY <2>2 DEF Count
      <3>2. n \in Nat /\ position[c] \in Nat /\ position[c] <= n
        BY <1>1, <2>0, <3>1, CallsCount DEF IsMaxPosition, TypeOK
      <3>3. d # c /\ status' = status /\ pc' = [pc EXCEPT ![d] = "counted"]
        BY <1>1, <2>0, <2>2 DEF Count, RowsInv
      <3>4. position'[d] = n + 1 /\ position'[c] = position[c] /\ d \notin Before(c)'
        BY <2>0, <3>1, <3>2, <3>3 DEF TypeOK, Before
      <3>5. \A e \in Hot \ {d} : position'[e] = position[e] /\ pc'[e] = pc[e]
        BY <2>0, <3>1, <3>3 DEF TypeOK
      <3> QED BY <3>3, <3>4, <3>5 DEF Before
    <2>3. ASSUME NEW d \in Calls, Insert(d) \/ JoinCold(d) PROVE Shrinks(c)
      <3>1. /\ position' = position /\ pc' = [pc EXCEPT ![d] = "done"]
            /\ \A e \in Calls \ {d} : status'[e] = status[e]
            /\ d \in Hot => pc[d] = "counted"
        BY <2>0, <2>3 DEF Insert, JoinCold, TypeOK
      <3> QED BY <2>0, <3>1 DEF Before, TypeOK
    <2>4. ASSUME NEW w \in Workers, Select(w) \/ Die(w) PROVE Shrinks(c)
      BY <2>4 DEF Select, Die, Before, callVars, rowVars
    <2>5. ASSUME NEW w \in Workers, Admit(w) PROVE Shrinks(c)
      <3>1. /\ pc' = pc /\ position' = position
            /\ \A d \in Hot : status'[d] = "WAITING" => status[d] = "WAITING"
        BY <2>0, <2>5 DEF Admit, callVars
      <3> QED BY <3>1 DEF Before
    <2> QED BY <1>1, <2>1, <2>2, <2>3, <2>4, <2>5 DEF Next
  <1>2. ASSUME Inv, NEW c \in Hot, status[c] = "WAITING" PROVE TakesFirst(c)
    <2> SUFFICES ASSUME NEW w \in Workers, Select(w), c \notin LockedByOthers(w), c \notin batch'[w]
                 PROVE  batch'[w] \subseteq Before(c)
      OBVIOUS
    <2>1. PICK B \in FirstBatches(Candidates(w)) : batch' = [batch EXCEPT ![w] = B]
      BY DEF Select
    <2>2. batch'[w] = B
      BY <1>2, <2>1 DEF Inv, TypeOK
    <2>3. B \subseteq Waiting /\ c \in Candidates(w) \ B
      BY <1>2, <2>2, BatchIsFirst DEF Candidates, Waiting
    <2>4. \A d \in B : position[d] <= position[c]
      BY <2>3, BatchIsFirst
    <2> QED BY <2>2, <2>3, <2>4 DEF Before, Waiting
  <1>3. Inv /\ [Next]_vars =>
            [\A c \in Hot : status[c] = "WAITING" /\ status'[c] = "WAITING" =>
                /\ Before(c)' \subseteq Before(c)
                /\ \A w \in Workers :
                    Select(w) /\ c \notin LockedByOthers(w) \cup batch'[w] =>
                        batch'[w] \subseteq Before(c)]_vars
    BY <1>1, <1>2
  <1> QED BY <1>3, InvCorrect, PTL DEF Spec

(***************************************************************************)
(* Progress.  EveryoneIsAdmitted follows by induction over the finite set  *)
(* of tickets that have not been admitted; the step of that induction is   *)
(* proved here, the induction is left to TLC.                              *)
(***************************************************************************)

\* Calls for the hot show whose ticket has not been admitted.
Unserved == {c \in Hot : status[c] # "ADMITTED"}

LEMMA UnservedStep ==
    ASSUME Inv, [Next]_vars
    PROVE  /\ Unserved' \subseteq Unserved
           /\ \A c \in Hot : status[c] = "WAITING" /\ status'[c] # "WAITING" => c \notin Unserved'
           /\ (\E w \in Workers : Admit(w)) => Unserved' # Unserved
  <1>0. TypeOK /\ RowsInv /\ AdmittedOnce /\ Hot \subseteq Calls
    BY DEF Inv
  <1>1. ASSUME NEW c \in Calls, Look(c) \/ Count(c)
        PROVE  status' = status
    BY <1>1 DEF Look, Count, rowVars
  <1>2. ASSUME NEW c \in Calls, Insert(c) \/ JoinCold(c)
        PROVE  \A d \in Hot : status'[d] = status[d] \/ (status[d] = "NONE" /\ status'[d] = "WAITING")
    BY <1>0, <1>2 DEF Insert, JoinCold, RowsInv, TypeOK
  <1>3. ASSUME NEW w \in Workers, Select(w) \/ Die(w)
        PROVE  status' = status
    BY <1>3 DEF Select, Die, rowVars
  <1>4. ASSUME NEW w \in Workers, Admit(w)
        PROVE  /\ \A d \in Hot : status'[d] = status[d] \/ status'[d] = "ADMITTED"
               /\ \E d \in Hot : status[d] = "WAITING" /\ status'[d] = "ADMITTED"
    BY <1>0, <1>4 DEF Admit, AdmittedOnce, Waiting
  <1>5. \A d \in Hot : \/ status'[d] = status[d]
                       \/ status[d] = "NONE" /\ status'[d] = "WAITING"
                       \/ status'[d] = "ADMITTED"
    <2>1. CASE UNCHANGED vars
      BY <2>1 DEF vars, rowVars
    <2> QED BY <1>1, <1>2, <1>3, <1>4, <2>1 DEF Next
  <1>6. (\E w \in Workers : Admit(w)) => Unserved' # Unserved
    BY <1>4 DEF Unserved
  <1> QED BY <1>5, <1>6 DEF Unserved

\* Somebody waits: then, however calls overlap and workers die, the tickets that have
\* not been admitted become fewer, until nobody waits.
THEOREM AdmissionGoesOn ==
    FairSpec /\ []AdmissionNeverStuck =>
        \A c \in Hot, S \in SUBSET Hot :
            (status[c] = "WAITING" /\ Unserved = S) ~> (Unserved \subseteq S /\ Unserved # S)
  <1> SUFFICES ASSUME NEW c \in Hot, NEW S \in SUBSET Hot
               PROVE  FairSpec /\ []AdmissionNeverStuck =>
                        ((status[c] = "WAITING" /\ Unserved = S)
                            ~> (Unserved \subseteq S /\ Unserved # S))
    OBVIOUS
  <1> DEFINE Waits == status[c] = "WAITING"
             Same == Unserved = S
             Fewer == Unserved \subseteq S /\ Unserved # S
             Idle == \A w \in Workers : batch[w] = {}
             SelectSome == \E w \in Workers : Select(w)
             AdmitSome == \E w \in Workers : Admit(w)
  <1>1. Inv /\ [Next]_vars => (Waits /\ Same => (Waits' /\ Same') \/ Fewer')
    <2> SUFFICES ASSUME Inv, [Next]_vars, Waits, Same PROVE (Waits' /\ Same') \/ Fewer'
      OBVIOUS
    <2>1. c \in Unserved
      BY DEF Unserved
    <2> QED BY <2>1, UnservedStep
  <1>2. Inv /\ <<AdmitSome>>_vars => (Same => Fewer')
    <2>1. Inv /\ <<AdmitSome>>_vars => [Next]_vars
      BY DEF Next
    <2> QED BY <2>1, UnservedStep
  <1>3. Inv /\ <<SelectSome>>_vars => ~Idle'
    BY DEF Select, Inv, TypeOK
  <1>4. AdmissionNeverStuck => (Waits /\ Idle => ENABLED <<SelectSome>>_vars)
    BY DEF AdmissionNeverStuck, Waiting
  <1>5. AdmissionNeverStuck => (Waits /\ ~Idle => ENABLED <<AdmitSome>>_vars)
    BY DEF AdmissionNeverStuck, Waiting
  <1> HIDE DEF Waits, Same, Fewer, Idle
  <1>6. FairSpec /\ []AdmissionNeverStuck => ((Waits /\ Same) ~> Fewer)
    BY <1>1, <1>2, <1>3, <1>4, <1>5, InvCorrect, PTL DEF Spec, FairSpec
  <1> QED BY <1>6 DEF Waits, Same, Fewer
===============================================================================

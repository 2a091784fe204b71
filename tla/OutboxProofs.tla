----------------------------- MODULE OutboxProofs -----------------------------
(***************************************************************************)
(* Theorems of Outbox, for every finite set of transactions of any kind,   *)
(* every batch size, and whatever pages do.                                *)
(***************************************************************************)
EXTENDS Outbox, FiniteSetTheorems, TLAPS

USE TxsAreFinite, NoneAssumption

\* A transaction's time stamp is a number.
LEMMA StampType ==
    ASSUME NEW P \in SUBSET Txs
    PROVE  1 + Cardinality(P) \in Nat
  BY FS_Subset, FS_CardinalityType

\* None is no status: it is no value of the program.
LEMMA NoneIsNoStatus == None \notin SeatStatus
  BY DEF SeatStatus

\* What a transaction writes is a status, unless it leaves the seat alone.
LEMMA ToType == \A o, s : To(o, s) \in SeatStatus \cup {None}
  BY DEF To, SeatStatus

LEMMA ShowsType == \A o : Shows(o) \in {"FREE", None}
  BY DEF Shows

\* A transaction that makes a seat FREE tells so.
LEMMA FreeingIsShown == \A o, s : To(o, s) = "FREE" => Shows(o) = "FREE"
  BY NoneIsNoStatus DEF To, Shows

(***************************************************************************)
(* The inductive invariant.  A row is pending from its commit until a      *)
(* batch that has been published as a whole is marked; the batch is part   *)
(* of what is pending, and what of it is not left to do has been sent.     *)
(***************************************************************************)

\* A transaction that has written is one that changes the seat it has locked.
Writers ==
    \A t \in Txs : pc[t] = "wrote" => lock = t /\ To(op[t], seat) # None

RowsInv ==
    /\ sent \subseteq Committed
    /\ pending \subseteq Committed
    /\ todo \subseteq batch /\ batch \subseteq pending
    /\ batch \ todo \subseteq sent
    /\ NoEventIsLost

Inv == TypeOK /\ Writers /\ RowsInv

\* Steps that leave the rows, the batch and what was sent alone, and end no
\* committed transaction.
LEMMA RowsStable ==
    ASSUME RowsInv, Committed' = Committed, UNCHANGED <<pending, workerVars, sent>>
    PROVE  RowsInv'
  BY DEF RowsInv, NoEventIsLost, workerVars

LEMMA TxInv ==
    ASSUME Inv, NEW t \in Txs, Begin(t) \/ Write(t) \/ Abort(t)
    PROVE  Inv'
  <1> USE DEF Inv
  <1>1. Committed' = Committed
    BY DEF Begin, Write, Abort, Open, Committed, TypeOK
  <1>2. UNCHANGED <<pending, workerVars, sent>>
    BY DEF Begin, Write, Abort
  <1>3. RowsInv'
    BY <1>1, <1>2, RowsStable
  <1>4. CASE Begin(t)
    <2>1. created' \in [Txs -> Nat]
      BY <1>4, StampType DEF Begin, TypeOK
    <2>2. TypeOK'
      BY <1>4, <2>1 DEF Begin, TypeOK, workerVars, pageVars
    <2>3. Writers'
      BY <1>4 DEF Begin, Writers, TypeOK
    <2> QED BY <1>3, <2>2, <2>3
  <1>5. CASE Write(t)
    <2>1. TypeOK'
      BY <1>5 DEF Write, TypeOK, workerVars, pageVars
    <2>2. PICK o \in Ops : To(o, seat) # None /\ op' = [op EXCEPT ![t] = o]
      BY <1>5 DEF Write
    <2>3. Writers'
      BY <1>5, <2>2 DEF Write, Writers, TypeOK
    <2> QED BY <1>3, <2>1, <2>3
  <1>6. CASE Abort(t)
    <2>1. TypeOK'
      BY <1>6 DEF Abort, TypeOK, workerVars, pageVars
    <2>2. Writers'
      BY <1>6 DEF Abort, Open, Writers, TypeOK
    <2> QED BY <1>3, <2>1, <2>2
  <1> QED BY <1>4, <1>5, <1>6

LEMMA CommitInv == ASSUME Inv, NEW t \in Txs, Commit(t) PROVE Inv'
  <1> USE DEF Inv
  <1>1. To(op[t], seat) \in SeatStatus
    BY ToType DEF Commit, Writers
  <1>2. TypeOK'
    BY <1>1 DEF Commit, TypeOK, workerVars, pageVars
  <1>3. Writers'
    BY DEF Commit, Writers, TypeOK
  <1>4. Committed' = Committed \cup {t}
    BY DEF Commit, Committed, TypeOK
  <1>5. RowsInv'
    BY <1>4 DEF Commit, RowsInv, NoEventIsLost, workerVars
  <1> QED BY <1>2, <1>3, <1>5

LEMMA WorkerInv == ASSUME Inv, Worker PROVE Inv'
  <1> USE DEF Inv
  <1>1. UNCHANGED dbVars
    BY DEF Worker, Select, Publish, Mark, Crash
  <1>2. Writers' /\ Committed' = Committed
    BY <1>1 DEF dbVars, Writers, Committed
  <1>3. CASE Select
    <2>1. batch' \subseteq pending /\ todo' = batch' /\ UNCHANGED <<pending, pageVars, sent>>
      BY <1>3 DEF Select, Oldest, Unpublished
    <2>2. TypeOK'
      BY <1>1, <2>1 DEF TypeOK, dbVars, pageVars
    <2>3. RowsInv'
      BY <1>2, <2>1 DEF RowsInv, NoEventIsLost
    <2> QED BY <1>2, <2>2, <2>3
  <1>4. ASSUME NEW t \in Txs, Publish(t)
        PROVE  Inv'
    <2>1. t \in todo /\ todo' = todo \ {t} /\ sent' = sent \cup {t} /\ missed' \in BOOLEAN
          /\ UNCHANGED <<pending, batch, fetched>>
      BY <1>4 DEF Publish, NextUp, TypeOK
    <2>2. override' \in {"FREE", None}
      BY <1>4, ShowsType DEF Publish, TypeOK
    <2>3. TypeOK'
      BY <1>1, <2>1, <2>2 DEF TypeOK, dbVars
    <2>4. RowsInv'
      BY <1>2, <2>1 DEF RowsInv, NoEventIsLost
    <2> QED BY <1>2, <2>3, <2>4
  <1>5. CASE Mark
    <2>1. TypeOK'
      BY <1>1, <1>5 DEF Mark, TypeOK, dbVars, pageVars
    <2>2. batch \subseteq sent
      BY <1>5 DEF Mark, RowsInv
    <2>3. RowsInv'
      BY <1>2, <1>5, <2>2 DEF Mark, RowsInv, NoEventIsLost
    <2> QED BY <1>2, <2>1, <2>3
  <1>6. CASE Crash
    <2>1. TypeOK'
      BY <1>1, <1>6 DEF Crash, TypeOK, dbVars, pageVars
    <2>2. RowsInv'
      BY <1>2, <1>6 DEF Crash, RowsInv, NoEventIsLost
    <2> QED BY <1>2, <2>1, <2>2
  <1> QED BY <1>3, <1>4, <1>5, <1>6 DEF Worker

LEMMA PageInv == ASSUME Inv, Load \/ Refetch PROVE Inv'
  <1> USE DEF Inv
  <1>1. UNCHANGED <<dbVars, pending, workerVars, sent>>
    BY DEF Load, Refetch
  <1>2. TypeOK'
    BY <1>1 DEF Load, Refetch, TypeOK, dbVars, workerVars
  <1>3. Writers' /\ Committed' = Committed
    BY <1>1 DEF dbVars, Writers, Committed
  <1>4. RowsInv'
    BY <1>1, <1>3, RowsStable
  <1> QED BY <1>2, <1>3, <1>4

LEMMA InvCorrect == Spec => []Inv
  <1>1. Init => Inv
    <2>1. Init => TypeOK
      <3> SUFFICES ASSUME Init PROVE TypeOK
        OBVIOUS
      <3>1. missed \in BOOLEAN
        BY DEF Init
      <3> QED BY <3>1 DEF Init, TypeOK, SeatStatus
    <2>2. Init => Writers /\ RowsInv
      BY DEF Init, Writers, RowsInv, NoEventIsLost, Committed
    <2> QED BY <2>1, <2>2 DEF Inv
  <1>2. ASSUME Inv, [Next]_vars
        PROVE  Inv'
    <2>1. CASE UNCHANGED vars
      BY <1>2, <2>1 DEF vars, dbVars, workerVars, pageVars, Inv, TypeOK, Writers, RowsInv,
                        NoEventIsLost, Committed
    <2> QED BY <1>2, <2>1, TxInv, CommitInv, WorkerInv, PageInv DEF Next
  <1> QED BY <1>1, <1>2, PTL DEF Spec

-----------------------------------------------------------------------------

\* Transactions, rows and the page keep their types; the worker publishes only rows of
\* its batch.
THEOREM TypeCorrect == Spec => []TypeOK
  BY InvCorrect, PTL DEF Inv

\* A row is marked as published only after it has been.
THEOREM NoEventIsLostCorrect == Spec => []NoEventIsLost
  BY InvCorrect, PTL DEF Inv, RowsInv

(***************************************************************************)
(* The page.  While a free seat is not shown as FREE, an event that says   *)
(* so is on its way: its row is pending and was not sent with this batch.  *)
(***************************************************************************)

Coming == pending \ (batch \ todo)
FreeIsTold ==
    ~missed /\ seat = "FREE" => Shown = "FREE" \/ \E t \in Coming : Shows(op[t]) = "FREE"

LEMMA FreeIsToldStep ==
    ASSUME Inv, FreeIsTold, [Next]_vars
    PROVE  FreeIsTold'
  <1> USE DEF Inv
  <1>1. ASSUME NEW t \in Txs, Begin(t) \/ Write(t) \/ Abort(t)
        PROVE  FreeIsTold'
    <2>1. UNCHANGED <<seat, pending, workerVars, pageVars>>
      BY <1>1 DEF Begin, Write, Abort
    <2>2. \A u \in pending : op'[u] = op[u]
      BY <1>1 DEF Begin, Write, Abort, Open, RowsInv, Committed, TypeOK
    <2>3. Coming' = Coming /\ Shown' = Shown /\ missed' = missed
      BY <2>1 DEF Coming, Shown, workerVars, pageVars
    <2>4. Coming \subseteq pending
      BY DEF Coming
    <2> QED BY <2>1, <2>2, <2>3, <2>4 DEF FreeIsTold
  <1>2. ASSUME NEW t \in Txs, Commit(t)
        PROVE  FreeIsTold'
    <2>1. t \notin batch /\ t \in Coming'
      BY <1>2 DEF Commit, RowsInv, Committed, Coming, workerVars
    <2>2. seat' = "FREE" => Shows(op'[t]) = "FREE"
      BY <1>2, FreeingIsShown DEF Commit
    <2> QED BY <2>1, <2>2 DEF FreeIsTold
  <1>3. CASE Select \/ Mark \/ Crash
    <2>1. UNCHANGED <<dbVars, pageVars>> /\ Coming \subseteq Coming'
      BY <1>3 DEF Select, Mark, Crash, Coming, RowsInv, Oldest, Unpublished
    <2> QED BY <2>1 DEF FreeIsTold, Shown, dbVars, pageVars
  <1>4. ASSUME NEW t \in Txs, Publish(t)
        PROVE  FreeIsTold'
    <2>1. t \in todo /\ UNCHANGED <<dbVars, fetched>> /\ Coming' = Coming \ {t}
      BY <1>4 DEF Publish, NextUp, Coming, RowsInv
    <2>2. CASE missed' /\ ~missed
      BY <2>2 DEF FreeIsTold
    <2>3. CASE missed' = missed /\ Shows(op[t]) = "FREE" /\ override' = "FREE"
      <3>1. Shown' = "FREE"
        BY <2>3, NoneIsNoStatus DEF Shown, SeatStatus
      <3> QED BY <3>1 DEF FreeIsTold
    <2>4. CASE missed' = missed /\ override' = override
               /\ (Shows(op[t]) # "FREE" \/ missed)
      BY <2>1, <2>4 DEF FreeIsTold, Shown, dbVars
    <2> QED BY <1>4, <2>2, <2>3, <2>4, ShowsType, NoneIsNoStatus DEF Publish, TypeOK, SeatStatus
  <1>5. CASE Load \/ Refetch
    <2>1. seat' = seat /\ (seat = "FREE" => Shown' = "FREE")
      BY <1>5 DEF Load, Refetch, dbVars, Shown, TypeOK
    <2> QED BY <2>1 DEF FreeIsTold
  <1>6. CASE UNCHANGED vars
    BY <1>6 DEF vars, dbVars, workerVars, pageVars, FreeIsTold, Coming, Shown
  <1> QED BY <1>1, <1>2, <1>3, <1>4, <1>5, <1>6 DEF Next, Worker

\* A page that misses no event ends up showing a free seat as FREE, however transactions
\* overlap, wherever the worker dies and whenever the page was loaded.
THEOREM FreeSeatIsShownCorrect == Spec => []FreeSeatIsShown
  <1>1. Init => FreeIsTold
    BY DEF Init, FreeIsTold, Shown
  <1>2. Inv /\ FreeIsTold /\ [Next]_vars => FreeIsTold'
    BY FreeIsToldStep
  <1>3. FreeIsTold => FreeSeatIsShown
    BY DEF FreeIsTold, FreeSeatIsShown, Settled, Coming
  <1> QED BY <1>1, <1>2, <1>3, InvCorrect, PTL DEF Spec

\* The outbox delivers only what is committed, and takes back neither: it implements
\* the safety part of Delivery.
THEOREM SafeRefinement == Spec => DeliversOnlyCommitted
  <1>1. Init => D!Init
    BY DEF Init, D!Init, Committed
  <1>2. ASSUME Inv, [Next]_vars
        PROVE  [D!Next]_(D!vars)
    <2> USE DEF Inv
    <2>1. ASSUME NEW t \in Txs, Begin(t) \/ Write(t) \/ Abort(t)
          PROVE  UNCHANGED D!vars
      BY <1>2, <2>1 DEF Begin, Write, Abort, Open, Committed, TypeOK, D!vars
    <2>2. ASSUME NEW t \in Txs, Commit(t)
          PROVE  D!Commit(t)
      BY <1>2, <2>2 DEF Commit, Committed, TypeOK, D!Commit
    <2>3. ASSUME NEW t \in Txs, Publish(t)
          PROVE  D!Deliver(t) \/ UNCHANGED D!vars
      <3>1. t \in Committed /\ sent' = sent \cup {t} /\ Committed' = Committed
        BY <1>2, <2>3 DEF Publish, NextUp, RowsInv, Committed, dbVars
      <3> QED BY <3>1 DEF D!Deliver, D!vars
    <2>4. CASE Select \/ Mark \/ Crash \/ Load \/ Refetch \/ UNCHANGED vars
      BY <2>4 DEF Select, Mark, Crash, Load, Refetch, vars, dbVars, Committed, D!vars
    <2> QED BY <1>2, <2>1, <2>2, <2>3, <2>4 DEF Next, Worker, D!Next
  <1> QED BY <1>1, <1>2, InvCorrect, PTL DEF Spec, DeliversOnlyCommitted, D!Safe

(***************************************************************************)
(* Progress.  That every committed event is published takes an induction   *)
(* along the batches and, within a batch, along its rows; their measure is *)
(* proved here, the induction is left to TLC.                              *)
(***************************************************************************)

\* Transactions whose row is not marked as published: most of them have none yet.
Unmarked == Txs \ (Committed \ pending)

LEMMA UnmarkedType ==
    ASSUME Inv
    PROVE  /\ IsFiniteSet(Unmarked) /\ Cardinality(Unmarked) \in Nat
           /\ IsFiniteSet(todo) /\ Cardinality(todo) \in Nat
           /\ Cardinality(todo) <= Cardinality(Txs) /\ Cardinality(Txs) \in Nat
  <1>1. Unmarked \subseteq Txs /\ todo \subseteq Txs
    BY DEF Unmarked, Inv, TypeOK
  <1> QED BY <1>1, FS_Subset, FS_CardinalityType

\* The steps the worker can still take before it has marked the rows of Txs: for a batch
\* its selection, one publication for each row and its commit.
WorkLeft ==
    Cardinality(Unmarked) * (Cardinality(Txs) + 2)
        + (IF batch = {} THEN Cardinality(Txs) + 1 ELSE Cardinality(todo))

\* A batch that is marked is worth more than the selection of the next one.
LEMMA MarkedIsLess ==
    ASSUME NEW u \in Nat, NEW v \in Nat, NEW n \in Nat, v < u
    PROVE  /\ v * (n + 2) \in Nat /\ u * (n + 2) \in Nat
           /\ v * (n + 2) + (n + 1) < u * (n + 2)
  <1>1. PICK d \in Nat : u = v + 1 + d
    <2>1. u - v - 1 \in Nat
      OBVIOUS
    <2>2. u = v + 1 + (u - v - 1)
      OBVIOUS
    <2> QED BY <2>1, <2>2
  <1>2. u * (n + 2) = v * (n + 2) + (n + 2) + d * (n + 2)
    BY <1>1
  <1>3. v * (n + 2) \in Nat /\ d * (n + 2) \in Nat
    OBVIOUS
  <1> QED BY <1>2, <1>3

\* Each step of the worker but its death takes one of finitely many; transactions and
\* pages add none, and a worker that dies loses the steps of its batch only: what has
\* been marked stays marked.
THEOREM DrainsRunDown ==
    Spec => [][/\ Select \/ Mark \/ (\E t \in Txs : Publish(t)) =>
                    WorkLeft' \in Nat /\ WorkLeft' < WorkLeft
               /\ ~Worker => WorkLeft' = WorkLeft
               /\ Crash => Unmarked' = Unmarked]_vars
  <1> DEFINE N == Cardinality(Txs)
             Less == WorkLeft' \in Nat /\ WorkLeft' < WorkLeft
  <1>1. ASSUME Inv, Inv', Select \/ Mark \/ (\E t \in Txs : Publish(t))
        PROVE  Less
    <2>1. /\ Cardinality(Unmarked) \in Nat /\ IsFiniteSet(Unmarked) /\ IsFiniteSet(todo)
          /\ Cardinality(todo) \in Nat /\ N \in Nat /\ Cardinality(todo) <= N
      BY <1>1, UnmarkedType
    <2>2. /\ Cardinality(Unmarked)' \in Nat /\ Cardinality(todo)' \in Nat
          /\ Cardinality(todo)' <= N
      <3>1. Unmarked' \subseteq Txs /\ todo' \subseteq Txs
        BY <1>1 DEF Unmarked, Inv, TypeOK
      <3> QED BY <3>1, FS_Subset, FS_CardinalityType
    <2>3. PICK w \in Nat : w = Cardinality(Unmarked) * (N + 2)
      BY <2>1
    <2>4. WorkLeft = w + (IF batch = {} THEN N + 1 ELSE Cardinality(todo))
      BY <2>3 DEF WorkLeft
    <2>5. CASE Select
      <3>1. Unmarked' = Unmarked /\ batch = {} /\ batch' # {}
        BY <2>5 DEF Select, Unmarked, Committed, dbVars
      <3>2. WorkLeft' = w + Cardinality(todo)'
        BY <2>3, <3>1 DEF WorkLeft
      <3> QED BY <2>1, <2>2, <2>4, <3>1, <3>2
    <2>6. ASSUME NEW t \in Txs, Publish(t) PROVE Less
      <3>1. /\ Unmarked' = Unmarked /\ batch' = batch /\ t \in todo /\ todo' = todo \ {t}
            /\ batch # {}
        BY <1>1, <2>6 DEF Publish, NextUp, Unmarked, Committed, dbVars, Inv, TypeOK
      <3>2. Cardinality(todo)' = Cardinality(todo) - 1
        BY <2>1, <3>1, FS_RemoveElement
      <3>3. WorkLeft' = w + Cardinality(todo)'
        BY <2>3, <3>1 DEF WorkLeft
      <3> QED BY <2>1, <2>2, <2>4, <3>1, <3>2, <3>3
    <2>7. CASE Mark
      <3>1. batch # {} /\ batch \subseteq Unmarked /\ Unmarked' = Unmarked \ batch /\ batch' = {}
        BY <1>1, <2>7 DEF Mark, Unmarked, Committed, dbVars, Inv, RowsInv
      <3>2. Unmarked' \subseteq Unmarked /\ Unmarked' # Unmarked
        BY <3>1
      <3>3. Cardinality(Unmarked') <= Cardinality(Unmarked)
            /\ Cardinality(Unmarked') # Cardinality(Unmarked)
        BY <2>1, <3>2, FS_Subset
      <3>4. PICK v \in Nat : v = Cardinality(Unmarked')
        BY <2>2
      <3>5. PICK u \in Nat : u = Cardinality(Unmarked)
        BY <2>1
      <3>6. PICK n \in Nat : n = N
        BY <2>1
      <3>7. v * (n + 2) \in Nat /\ v * (n + 2) + (n + 1) < u * (n + 2)
        BY <3>3, <3>4, <3>5, MarkedIsLess
      <3>8. WorkLeft' = v * (n + 2) + (n + 1)
        BY <3>1, <3>4, <3>6 DEF WorkLeft
      <3>9. WorkLeft = u * (n + 2) + Cardinality(todo)
        BY <3>1, <3>5, <3>6 DEF WorkLeft
      <3>10. PICK a \in Nat : a = v * (n + 2)
        BY <3>7
      <3>11. PICK b \in Nat : b = u * (n + 2)
        BY <2>3, <3>5, <3>6
      <3> QED BY <2>1, <3>7, <3>8, <3>9, <3>10, <3>11
    <2> QED BY <1>1, <2>5, <2>6, <2>7
  <1>2. ASSUME Inv, [Next]_vars, ~Worker PROVE WorkLeft' = WorkLeft
    <2>1. UNCHANGED <<batch, todo>>
      BY <1>2 DEF Next, Begin, Write, Commit, Abort, Load, Refetch, vars, workerVars
    <2>2. Unmarked' = Unmarked
      <3>1. ASSUME NEW t \in Txs, Begin(t) \/ Write(t) \/ Commit(t) \/ Abort(t)
            PROVE  Unmarked' = Unmarked
        BY <1>2, <3>1 DEF Begin, Write, Commit, Abort, Open, Unmarked, Committed, Inv, TypeOK
      <3>2. CASE Load \/ Refetch \/ UNCHANGED vars
        BY <3>2 DEF Load, Refetch, vars, dbVars, Unmarked, Committed
      <3> QED BY <1>2, <3>1, <3>2 DEF Next
    <2> QED BY <2>1, <2>2 DEF WorkLeft
  <1>3. Crash => Unmarked' = Unmarked
    BY DEF Crash, Unmarked, Committed, dbVars
  <1>4. Inv /\ Inv' /\ [Next]_vars =>
            [/\ Select \/ Mark \/ (\E t \in Txs : Publish(t)) =>
                    WorkLeft' \in Nat /\ WorkLeft' < WorkLeft
             /\ ~Worker => WorkLeft' = WorkLeft
             /\ Crash => Unmarked' = Unmarked]_vars
    BY <1>1, <1>2, <1>3
  <1> QED BY <1>4, InvCorrect, PTL DEF Spec
===============================================================================

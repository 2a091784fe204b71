------------------------- MODULE WaitlistLineProofs -------------------------
(***************************************************************************)
(* Theorems of WaitlistLine, for every finite set of entries and every set *)
(* of transactions.                                                        *)
(***************************************************************************)
EXTENDS WaitlistLine, FiniteSetTheorems, TLAPS

USE DEF Waiting, Left

(***************************************************************************)
(* Types.  A position is at most the number of entries, for the entry that *)
(* counts does not wait.                                                   *)
(***************************************************************************)

LEMMA CountIsBounded ==
    ASSUME NEW w \in Entries, w \notin Waiting
    PROVE  Cardinality(Waiting) + 1 \in 0 .. Cardinality(Entries)
  <1>1. Waiting \subseteq Entries /\ Waiting # Entries
    OBVIOUS
  <1>2. IsFiniteSet(Waiting) /\ Cardinality(Waiting) <= Cardinality(Entries)
        /\ (Cardinality(Entries) = Cardinality(Waiting) => Entries = Waiting)
    BY <1>1, EntriesAreFinite, FS_Subset, Zenon
  <1>3. Cardinality(Waiting) \in Nat /\ Cardinality(Entries) \in Nat
    BY <1>2, EntriesAreFinite, FS_CardinalityType
  <1>4. Cardinality(Waiting) # Cardinality(Entries)
    BY <1>1, <1>2
  <1> HIDE DEF Waiting
  <1> QED BY <1>2, <1>3, <1>4

\* Statuses, positions and the rows of the transactions keep their types.
THEOREM TypeCorrect == Spec => []TypeOK
  <1>1. Init => TypeOK
    <2>1. Cardinality(Entries) \in Nat
      BY EntriesAreFinite, FS_CardinalityType
    <2> QED BY <2>1, SomeSeats DEF Init, TypeOK
  <1>2. ASSUME TypeOK, [Next]_vars
        PROVE  TypeOK'
    <2>1. ASSUME NEW w \in Entries, Count(w)
          PROVE  TypeOK'
      <3>1. Cardinality(Waiting) + 1 \in 0 .. Cardinality(Entries)
        BY <2>1, CountIsBounded DEF Count
      <3>2. position' \in [Entries -> 0 .. Cardinality(Entries)]
        BY <1>2, <2>1, <3>1 DEF Count, TypeOK
      <3> QED BY <1>2, <2>1, <3>2 DEF Count, TypeOK, txVars
    <2>2. ASSUME NEW w \in Entries, Insert(w)
          PROVE  TypeOK'
      BY <1>2, <2>2 DEF Insert, TypeOK, txVars
    <2>3. ASSUME NEW r \in Releases, Offer(r)
          PROVE  TypeOK'
      BY <1>2, <2>3, SomeSeats DEF Offer, First, Candidates, LockedByOthers, TypeOK, lineVars
    <2>4. ASSUME NEW r \in Releases, OfferNobody(r)
          PROVE  TypeOK'
      BY <1>2, <2>4, SomeSeats DEF OfferNobody, TypeOK, lineVars
    <2>5. ASSUME NEW r \in Releases, Commit(r)
          PROVE  TypeOK'
      BY <1>2, <2>5 DEF Commit, TypeOK
    <2>6. ASSUME NEW r \in Releases, Abort(r)
          PROVE  TypeOK'
      BY <1>2, <2>6 DEF Abort, TypeOK, lineVars
    <2>7. CASE UNCHANGED vars
      BY <1>2, <2>7 DEF TypeOK, vars, lineVars, txVars
    <2> QED BY <1>2, <2>1, <2>2, <2>3, <2>4, <2>5, <2>6, <2>7 DEF Next
  <1> QED BY <1>1, <1>2, PTL DEF Spec

-----------------------------------------------------------------------------
(***************************************************************************)
(* Exactly once: what a transaction has claimed                            *)
(***************************************************************************)

\* An open transaction claims waiting entries whose rows it has locked, a committed
\* one has claimed entries that have left, and no row is locked twice.
ClaimsInv ==
    /\ \A r \in Releases : tx[r] = "open" => claimed[r] \subseteq locks[r] \cap Waiting
    /\ \A r \in Releases : tx[r] = "committed" => claimed[r] \subseteq Left
    /\ \A r \in Releases : tx[r] = "aborted" => claimed[r] = {}
    /\ \A r \in Releases : tx[r] # "open" => locks[r] = {}
    /\ \A r, q \in Releases : r # q => locks[r] \cap locks[q] = {}

OnceInv == TypeOK /\ ClaimsInv /\ ClaimedOnce

\* Neither an entry that joins nor a seat that finds nobody disturbs the claims.
LEMMA ClaimsStable ==
    ASSUME OnceInv, UNCHANGED <<tx, locks, claimed>>,
           Waiting \subseteq Waiting', Left \subseteq Left'
    PROVE  ClaimsInv' /\ ClaimedOnce'
  BY DEF OnceInv, ClaimsInv, ClaimedOnce

LEMMA OnceCorrect == Spec => []OnceInv
  <1>1. Init => OnceInv
    <2>1. Init => ClaimsInv /\ ClaimedOnce
      BY DEF Init, ClaimsInv, ClaimedOnce
    <2>2. Cardinality(Entries) \in Nat
      BY EntriesAreFinite, FS_CardinalityType
    <2>3. Init => TypeOK
      BY <2>2, SomeSeats DEF Init, TypeOK
    <2> QED BY <2>1, <2>3 DEF OnceInv
  <1>2. ASSUME OnceInv, TypeOK', [Next]_vars
        PROVE  OnceInv'
    <2> USE DEF OnceInv
    <2>1. ASSUME NEW w \in Entries, Count(w) \/ Insert(w)
          PROVE  OnceInv'
      <3>1. Waiting \subseteq Waiting' /\ Left \subseteq Left'
        BY <1>2, <2>1 DEF Count, Insert, TypeOK
      <3>2. UNCHANGED <<tx, locks, claimed>>
        BY <2>1 DEF Count, Insert, txVars
      <3> QED BY <1>2, <3>1, <3>2, ClaimsStable
    <2>2. ASSUME NEW r \in Releases, Offer(r)
          PROVE  OnceInv'
      <3>1. PICK w \in First(Candidates(r)) :
              /\ locks' = [locks EXCEPT ![r] = @ \cup {w}]
              /\ claimed' = [claimed EXCEPT ![r] = @ \cup {w}] \/ UNCHANGED claimed
        BY <2>2 DEF Offer
      <3>2. w \in Waiting /\ \A q \in Releases : q # r => w \notin locks[q]
        BY <3>1 DEF First, Candidates, LockedByOthers
      <3>3. \A q \in Releases : q # r => w \notin claimed[q]
        BY <1>2, <3>2 DEF ClaimsInv, TypeOK
      <3>4. ClaimsInv'
        BY <1>2, <2>2, <3>1, <3>2 DEF ClaimsInv, Offer, TypeOK, lineVars
      <3>5. ClaimedOnce'
        BY <1>2, <3>1, <3>3 DEF ClaimedOnce, TypeOK
      <3> QED BY <1>2, <3>4, <3>5
    <2>3. ASSUME NEW r \in Releases, OfferNobody(r)
          PROVE  OnceInv'
      BY <1>2, <2>3, ClaimsStable DEF OfferNobody, lineVars
    <2>4. ASSUME NEW r \in Releases, Commit(r)
          PROVE  OnceInv'
      <3>1. claimed[r] \subseteq Waiting /\ claimed' = claimed
        BY <1>2, <2>4 DEF Commit, ClaimsInv
      <3>2. Left' = Left \cup claimed[r] /\ Waiting' = Waiting \ claimed[r]
        BY <1>2, <2>4, <3>1 DEF Commit, TypeOK
      <3>3. \A q \in Releases : q # r => claimed[q] \cap claimed[r] = {}
        BY <1>2 DEF ClaimedOnce
      <3> HIDE DEF Waiting, Left
      <3>4. ClaimsInv'
        BY <1>2, <2>4, <3>1, <3>2, <3>3 DEF Commit, ClaimsInv, TypeOK
      <3> QED BY <1>2, <3>1, <3>4 DEF ClaimedOnce
    <2>5. ASSUME NEW r \in Releases, Abort(r)
          PROVE  OnceInv'
      <3>1. ClaimsInv'
        BY <1>2, <2>5 DEF Abort, ClaimsInv, TypeOK, lineVars
      <3>2. ClaimedOnce'
        BY <1>2, <2>5 DEF Abort, ClaimedOnce, TypeOK
      <3> QED BY <1>2, <3>1, <3>2
    <2>6. CASE UNCHANGED vars
      BY <1>2, <2>6, ClaimsStable DEF vars, lineVars, txVars
    <2> QED BY <1>2, <2>1, <2>2, <2>3, <2>4, <2>5, <2>6 DEF Next
  <1> QED BY <1>1, <1>2, TypeCorrect, PTL DEF Spec

\* No entry is claimed by two transactions, whichever of them are open, committed or
\* rolled back: FOR UPDATE SKIP LOCKED gives each seat another entry.
THEOREM ClaimedOnceCorrect == Spec => []ClaimedOnce
  BY OnceCorrect, PTL DEF OnceInv

-----------------------------------------------------------------------------
(***************************************************************************)
(* FIFO while nobody leaves                                                *)
(***************************************************************************)

\* What an entry saw when it joined: those waiting, the ones that had left, and a
\* position that counts the former.
SawTheLine ==
    \A w \in Entries :
        /\ status[w] # "NONE" => position[w] = Cardinality(ahead[w]) + 1
        /\ status[w] = "NONE" => ahead[w] = {}
        /\ ahead[w] \subseteq Waiting \cup Left
        /\ w \notin ahead[w]
        /\ gone[w] \subseteq Left
        /\ ahead[w] \cap gone[w] = {}

\* If nobody left between the joins of a and b, whoever was ahead of a is ahead of b.
Nested ==
    \A a, b \in Entries :
        a \in ahead[b] /\ gone[a] = gone[b] => ahead[a] \subseteq ahead[b]

LineInv == SawTheLine /\ Nested

\* Then a has the smaller position.
LEMMA PositionsFollow ==
    ASSUME TypeOK, LineInv,
           NEW a \in Entries, NEW b \in Entries,
           a \in ahead[b], gone[a] = gone[b]
    PROVE  position[a] < position[b]
  <1>1. ahead[a] \subseteq ahead[b] /\ ahead[a] # ahead[b]
    BY DEF LineInv, Nested, SawTheLine
  <1>2. IsFiniteSet(ahead[b])
    <2>1. ahead[b] \subseteq Entries
      BY DEF TypeOK
    <2> QED BY <2>1, EntriesAreFinite, FS_Subset
  <1>3. /\ IsFiniteSet(ahead[a])
        /\ Cardinality(ahead[a]) <= Cardinality(ahead[b])
        /\ Cardinality(ahead[a]) # Cardinality(ahead[b])
    BY <1>1, <1>2, FS_Subset
  <1>4. Cardinality(ahead[a]) \in Nat /\ Cardinality(ahead[b]) \in Nat
    BY <1>2, <1>3, FS_CardinalityType
  <1>5. status[a] # "NONE" /\ status[b] # "NONE"
    BY DEF LineInv, SawTheLine
  <1>6. position[a] = Cardinality(ahead[a]) + 1 /\ position[b] = Cardinality(ahead[b]) + 1
    BY <1>5 DEF LineInv, SawTheLine
  <1> QED BY <1>3, <1>4, <1>6

\* Whoever was ahead of an entry that is claimed has left, is claimed by the same
\* transaction, was passed over, or joined before somebody left.
Explained ==
    \A r \in Releases : \A b \in claimed[r] : \A a \in ahead[b] :
        gone[a] = gone[b] => a \in claimed[r] \cup skipped \cup Left

\* Whoever has left was claimed by a committed transaction.
LeftAreClaimed ==
    \A w \in Left : \E r \in Releases : tx[r] = "committed" /\ w \in claimed[r]

FifoInv == OnceInv /\ LineInv /\ Explained /\ LeftAreClaimed

LEMMA FifoInvImplies == FifoInv => FifoWhileNobodyLeaves
  <1> SUFFICES ASSUME FifoInv, NEW b \in Left, NEW a \in ahead[b] \cap Waiting,
                      gone[a] = gone[b]
               PROVE  a \in skipped
    BY DEF FifoWhileNobodyLeaves
  <1>1. PICK r \in Releases : tx[r] = "committed" /\ b \in claimed[r]
    BY DEF FifoInv, LeftAreClaimed
  <1>2. a \in claimed[r] \cup skipped \cup Left
    BY <1>1 DEF FifoInv, Explained
  <1>3. claimed[r] \subseteq Left
    BY <1>1 DEF FifoInv, OnceInv, ClaimsInv
  <1> QED BY <1>2, <1>3

\* The line, as seen by those who joined, changes only when somebody joins or leaves.
LEMMA LineStable ==
    ASSUME LineInv, UNCHANGED <<position, ahead, gone>>,
           \A w \in Entries : status'[w] = "NONE" <=> status[w] = "NONE",
           Waiting \cup Left \subseteq Waiting' \cup Left', Left \subseteq Left'
    PROVE  LineInv'
  <1>1. SawTheLine'
    BY DEF LineInv, SawTheLine
  <1>2. Nested'
    BY DEF LineInv, Nested
  <1> QED BY <1>1, <1>2 DEF LineInv

LEMMA CountLine ==
    ASSUME TypeOK, LineInv, NEW w \in Entries, Count(w)
    PROVE  LineInv'
  <1>1. /\ ahead' = [ahead EXCEPT ![w] = Waiting]
        /\ gone' = [gone EXCEPT ![w] = Left]
        /\ position' = [position EXCEPT ![w] = Cardinality(Waiting) + 1]
        /\ status' = [status EXCEPT ![w] = "JOINING"]
        /\ status[w] = "NONE"
    BY DEF Count
  <1>2. Waiting' = Waiting /\ Left' = Left /\ w \notin Waiting \cup Left
    BY <1>1 DEF TypeOK
  <1>3. Waiting \cap Left = {}
    OBVIOUS
  <1>4. SawTheLine'
    <2> HIDE DEF Waiting, Left
    <2> QED BY <1>1, <1>2, <1>3 DEF LineInv, SawTheLine, TypeOK
  <1>5. Nested'
    <2> SUFFICES ASSUME NEW a \in Entries, NEW b \in Entries,
                        a \in ahead'[b], gone'[a] = gone'[b]
                 PROVE  ahead'[a] \subseteq ahead'[b]
      BY DEF Nested
    <2> HIDE DEF Waiting, Left
    <2>1. CASE a = w
      BY <1>1, <1>2, <2>1 DEF LineInv, SawTheLine, TypeOK
    <2>2. CASE a # w /\ b = w
      \* a waits, and nobody has left since a joined: all that were ahead of a wait.
      <3>1. gone[a] = Left /\ ahead[a] \subseteq Waiting
        BY <1>1, <2>2 DEF LineInv, SawTheLine, TypeOK
      <3> QED BY <1>1, <2>2, <3>1 DEF TypeOK
    <2>3. CASE a # w /\ b # w
      BY <1>1, <2>3 DEF LineInv, Nested, TypeOK
    <2> QED BY <2>1, <2>2, <2>3
  <1> QED BY <1>4, <1>5 DEF LineInv

LEMMA FifoInvCorrect == Spec => []FifoInv
  <1>1. Init => LineInv /\ Explained /\ LeftAreClaimed
    BY DEF Init, LineInv, SawTheLine, Nested, Explained, LeftAreClaimed
  <1>2. ASSUME FifoInv, OnceInv', [Next]_vars
        PROVE  FifoInv'
    <2> USE DEF FifoInv, OnceInv
    <2>1. ASSUME NEW w \in Entries, Count(w)
          PROVE  FifoInv'
      <3>1. LineInv'
        BY <1>2, <2>1, CountLine
      <3>2. Waiting' = Waiting /\ Left' = Left /\ w \notin Waiting \cup Left
        BY <1>2, <2>1 DEF Count, TypeOK
      <3>3. \A r \in Releases : w \notin claimed[r]
        BY <1>2, <3>2 DEF ClaimsInv, TypeOK
      <3>4. \A b \in Entries : w \notin ahead[b]
        BY <1>2, <3>2 DEF LineInv, SawTheLine
      <3> HIDE DEF Waiting, Left
      <3>5. Explained'
        BY <1>2, <2>1, <3>2, <3>3, <3>4 DEF Explained, Count, txVars, TypeOK
      <3>6. LeftAreClaimed'
        BY <1>2, <2>1, <3>2 DEF LeftAreClaimed, Count, txVars
      <3> QED BY <1>2, <3>1, <3>5, <3>6
    <2>2. ASSUME NEW w \in Entries, Insert(w)
          PROVE  FifoInv'
      <3>1. Waiting' = Waiting \cup {w} /\ Left' = Left
        BY <1>2, <2>2 DEF Insert, TypeOK
      <3>2. LineInv'
        <4>1. \A v \in Entries : status'[v] = "NONE" <=> status[v] = "NONE"
          BY <1>2, <2>2 DEF Insert, TypeOK
        <4> HIDE DEF Waiting, Left
        <4> QED BY <1>2, <2>2, <3>1, <4>1, LineStable DEF Insert
      <3> HIDE DEF Waiting, Left
      <3>3. Explained' /\ LeftAreClaimed'
        BY <1>2, <2>2, <3>1 DEF Explained, LeftAreClaimed, Insert, txVars
      <3> QED BY <1>2, <3>2, <3>3
    <2>3. ASSUME NEW r \in Releases, Offer(r)
          PROVE  FifoInv'
      <3>1. PICK w \in First(Candidates(r)) :
              \/ /\ claimed' = [claimed EXCEPT ![r] = @ \cup {w}]
                 /\ skipped' = skipped \cup (Waiting \cap LockedByOthers(r))
              \/ UNCHANGED <<claimed, skipped>>
        BY <2>3 DEF Offer
      <3>2. UNCHANGED <<lineVars, tx>> /\ UNCHANGED <<Waiting, Left>>
        BY <2>3 DEF Offer, lineVars
      <3>3. w \in Entries /\ w \in Candidates(r) /\ \A v \in Candidates(r) : position[w] <= position[v]
        BY <3>1 DEF First, Candidates
      <3> HIDE DEF Waiting, Left
      <3>4. LineInv'
        BY <1>2, <3>2, LineStable DEF lineVars
      <3>5. ASSUME NEW a \in ahead[w], gone[a] = gone[w]
            PROVE  a \in claimed[r] \cup (Waiting \cap LockedByOthers(r)) \cup Left
        <4>1. a \in Entries /\ a \in Waiting \cup Left
          BY <1>2, <3>3, <3>5 DEF LineInv, SawTheLine, TypeOK
        <4>2. position[a] < position[w]
          BY <1>2, <3>3, <3>5, <4>1, PositionsFollow
        <4>3. a \notin Candidates(r)
          BY <1>2, <3>3, <4>1, <4>2 DEF TypeOK
        <4> QED BY <4>1, <4>3 DEF Candidates
      <3>6. Explained'
        BY <1>2, <3>1, <3>2, <3>3, <3>5 DEF Explained, lineVars, TypeOK
      <3>7. LeftAreClaimed'
        BY <1>2, <3>1, <3>2 DEF LeftAreClaimed, TypeOK
      <3> QED BY <1>2, <3>4, <3>6, <3>7
    <2>4. ASSUME NEW r \in Releases, OfferNobody(r)
          PROVE  FifoInv'
      <3>1. UNCHANGED <<lineVars, tx, claimed, skipped>> /\ UNCHANGED <<Waiting, Left>>
        BY <2>4 DEF OfferNobody, lineVars
      <3> HIDE DEF Waiting, Left
      <3>2. LineInv'
        BY <1>2, <3>1, LineStable DEF lineVars
      <3> QED BY <1>2, <3>1, <3>2 DEF Explained, LeftAreClaimed, lineVars
    <2>5. ASSUME NEW r \in Releases, Commit(r)
          PROVE  FifoInv'
      <3>1. claimed[r] \subseteq Waiting /\ claimed' = claimed
        BY <1>2, <2>5 DEF Commit, ClaimsInv
      <3>2. Left' = Left \cup claimed[r] /\ Waiting' = Waiting \ claimed[r]
        BY <1>2, <2>5, <3>1 DEF Commit, TypeOK
      <3>3. \A v \in Entries : status'[v] = "NONE" <=> status[v] = "NONE"
        BY <1>2, <2>5, <3>1 DEF Commit, TypeOK
      <3> HIDE DEF Waiting, Left
      <3>4. LineInv'
        BY <1>2, <2>5, <3>2, <3>3, LineStable DEF Commit
      <3>5. Explained'
        BY <1>2, <2>5, <3>1, <3>2 DEF Commit, Explained
      <3>6. LeftAreClaimed'
        BY <1>2, <2>5, <3>1, <3>2 DEF Commit, LeftAreClaimed, TypeOK
      <3> QED BY <1>2, <3>4, <3>5, <3>6
    <2>6. ASSUME NEW r \in Releases, Abort(r)
          PROVE  FifoInv'
      <3>1. UNCHANGED <<lineVars, skipped>> /\ UNCHANGED <<Waiting, Left>>
        BY <2>6 DEF Abort, lineVars
      <3> HIDE DEF Waiting, Left
      <3>2. LineInv'
        BY <1>2, <3>1, LineStable DEF lineVars
      <3>3. Explained'
        BY <1>2, <2>6, <3>1 DEF Abort, Explained, lineVars, TypeOK
      <3>4. LeftAreClaimed'
        BY <1>2, <2>6, <3>1 DEF Abort, LeftAreClaimed, TypeOK
      <3> QED BY <1>2, <3>2, <3>3, <3>4
    <2>7. CASE UNCHANGED vars
      BY <1>2, <2>7 DEF vars, lineVars, txVars, LineInv, SawTheLine, Nested, Explained,
                        LeftAreClaimed
    <2> QED BY <1>2, <2>1, <2>2, <2>3, <2>4, <2>5, <2>6, <2>7 DEF Next
  <1>3. Init /\ OnceInv => FifoInv
    BY <1>1 DEF FifoInv
  <1> QED BY <1>2, <1>3, OnceCorrect, PTL DEF Spec

\* Among entries between whose joins nobody left the line, a later one is served
\* before an earlier one only if that one's row was locked at the time.
THEOREM FifoCorrect == Spec => []FifoWhileNobodyLeaves
  BY FifoInvCorrect, FifoInvImplies, PTL
=============================================================================

----------------------------- MODULE WaitingRoom -----------------------------
(***************************************************************************)
(* The waiting room of one hot show (queue_service, queue router), and the *)
(* admission step of the expiry worker, of which several instances may     *)
(* run.  join_queue looks for the user's ticket, counts and inserts in     *)
(* three statements that see what is committed when each of them starts.   *)
(*                                                                         *)
(* A call of join_queue inserts at most one ticket, which has its name.    *)
(* Calls outside Hot are for a show that needs no waiting.                 *)
(***************************************************************************)
EXTENDS Integers, FiniteSets

CONSTANTS
    Calls,      \* calls of join_queue
    Hot,        \* those for the hot show
    UserOf,     \* who calls
    Workers,    \* instances of the expiry worker
    Batch       \* queue_admission_rate_per_batch

ASSUME CallsAreFinite == IsFiniteSet(Calls) /\ Hot \subseteq Calls
ASSUME BatchAssumption == Batch \in Nat \ {0}

VARIABLES
    pc,         \* where a call is in join_queue
    status,     \* queue_tickets.status, "NONE" without a row
    position,   \* queue_tickets.position
    batch,      \* tickets a worker has selected and locked
    ahead,      \* history: who was waiting when a call counted
    passed      \* history: what other workers had locked when a ticket was selected

callVars == <<pc, ahead>>
rowVars == <<status, position>>
vars == <<callVars, rowVars, batch, passed>>

TypeOK ==
    /\ pc \in [Calls -> {"idle", "looked", "counted", "done", "failed"}]
    /\ status \in [Calls -> {"NONE", "WAITING", "ADMITTED"}]
    /\ position \in [Calls -> Nat]
    /\ batch \in [Workers -> SUBSET Hot]
    /\ ahead \in [Calls -> SUBSET Hot]
    /\ passed \in [Calls -> SUBSET Hot]

Init ==
    /\ pc = [c \in Calls |-> "idle"]
    /\ status = [c \in Calls |-> "NONE"]
    /\ position = [c \in Calls |-> 0]
    /\ batch = [w \in Workers |-> {}]
    /\ ahead = [c \in Calls |-> {}]
    /\ passed = [c \in Calls |-> {}]

Waiting == {c \in Hot : status[c] = "WAITING"}

-----------------------------------------------------------------------------
(***************************************************************************)
(* Joining                                                                 *)
(***************************************************************************)

\* The WAITING tickets of a user.
OpenTickets(u) == {c \in Waiting : UserOf[c] = u}

\* scalar_one_or_none: the ticket found is returned, two of them raise.
Look(c) ==
    /\ pc[c] = "idle" /\ c \in Hot
    /\ pc' = [pc EXCEPT ![c] =
           IF OpenTickets(UserOf[c]) = {} THEN "looked"
           ELSE IF \E d \in Calls : OpenTickets(UserOf[c]) = {d} THEN "done" ELSE "failed"]
    /\ UNCHANGED <<rowVars, ahead, batch, passed>>

\* Mutant: the tickets that wait are counted, as in the waitlist.
IsNumberOfWaiting(n) == n = Cardinality(Waiting)

\* COALESCE(MAX(position), 0) over the tickets of the show, admitted or not.
IsMaxPosition(n) ==
    /\ \A c \in Hot : status[c] # "NONE" => position[c] <= n
    /\ n = 0 \/ \E c \in Hot : status[c] # "NONE" /\ position[c] = n

Count(c) ==
    /\ pc[c] = "looked"
    /\ \E n \in 0 .. Cardinality(Calls) :
        IsMaxPosition(n) /\ position' = [position EXCEPT ![c] = n + 1]
    /\ ahead' = [ahead EXCEPT ![c] = Waiting]
    /\ pc' = [pc EXCEPT ![c] = "counted"]
    /\ UNCHANGED <<status, batch, passed>>

Insert(c) ==
    /\ pc[c] = "counted"
    /\ status' = [status EXCEPT ![c] = "WAITING"]
    /\ pc' = [pc EXCEPT ![c] = "done"]
    /\ UNCHANGED <<position, ahead, batch, passed>>

\* A show that is not hot: admitted at once.
JoinCold(c) ==
    /\ pc[c] = "idle" /\ c \notin Hot
    /\ status' = [status EXCEPT ![c] = "ADMITTED"]
    /\ pc' = [pc EXCEPT ![c] = "done"]
    /\ UNCHANGED <<position, ahead, batch, passed>>

-----------------------------------------------------------------------------
(***************************************************************************)
(* Admission                                                               *)
(***************************************************************************)

LockedByOthers(w) == UNION {batch[v] : v \in Workers \ {w}}

\* Mutant: without SKIP LOCKED or a lock.
CandidatesUnlocked(w) == Waiting

\* Mutant: the tickets of the show, whatever their status.
CandidatesOfShow(w) == {c \in Hot : status[c] # "NONE"} \ LockedByOthers(w)

\* WHERE status = 'WAITING' ... FOR UPDATE SKIP LOCKED.
Candidates(w) == Waiting \ LockedByOthers(w)

\* ORDER BY position LIMIT n; equal positions come in any order.
FirstBatches(S) ==
    {B \in SUBSET S :
        /\ Cardinality(B) <= Batch
        /\ B = S \/ Cardinality(B) = Batch
        /\ \A c \in B, d \in S \ B : position[c] <= position[d]}

\* admit_next_batch selects, and locks what it selects until it commits.
Select(w) ==
    /\ batch[w] = {}
    /\ \E B \in FirstBatches(Candidates(w)) :
        /\ B # {}
        /\ batch' = [batch EXCEPT ![w] = B]
        /\ passed' = [c \in Calls |-> IF c \in B THEN LockedByOthers(w) ELSE passed[c]]
    /\ UNCHANGED <<callVars, rowVars>>

\* Its commit: the tickets are ADMITTED, each with a token for create_hold.
Admit(w) ==
    /\ batch[w] # {}
    /\ status' = [c \in Calls |-> IF c \in batch[w] THEN "ADMITTED" ELSE status[c]]
    /\ batch' = [batch EXCEPT ![w] = {}]
    /\ UNCHANGED <<callVars, position, passed>>

\* The worker dies, or the database takes its transaction back.
Die(w) ==
    /\ batch[w] # {}
    /\ batch' = [batch EXCEPT ![w] = {}]
    /\ UNCHANGED <<callVars, rowVars, passed>>

-----------------------------------------------------------------------------

Next ==
    \/ \E c \in Calls : Look(c) \/ Count(c) \/ Insert(c) \/ JoinCold(c)
    \/ \E w \in Workers : Select(w) \/ Admit(w) \/ Die(w)

Spec == Init /\ [][Next]_vars

\* Some worker goes on sweeping, and they do not, all of them, die between each of their
\* selections and its commit for ever.
FairSpec ==
    /\ Spec
    /\ WF_vars(\E w \in Workers : Select(w))
    /\ SF_vars(\E w \in Workers : Admit(w))

-----------------------------------------------------------------------------

\* Two workers never admit the same ticket, nor one that was admitted before (it would
\* get a second token).
AdmittedOnce ==
    \A w \in Workers :
        /\ batch[w] \subseteq Waiting
        /\ \A v \in Workers \ {w} : batch[w] \cap batch[v] = {}

\* Who was waiting when b counted is admitted before b, whatever calls and workers
\* overlap, but for a ticket that another worker had locked at the moment b was selected:
\* that worker may commit after b's does, or die and leave the ticket for later.  Each
\* ticket answers for its own selection, so that one that was passed over once, or was
\* left by a worker that died, comes before all that are selected afterwards.
AdmittedInOrder ==
    \A b \in Hot : status[b] = "ADMITTED" =>
        \A a \in ahead[b] : status[a] = "ADMITTED" \/ a \in passed[b]

\* While somebody waits the workers can select, or commit what is selected: one of their
\* guards holds.  The hypothesis of AdmissionGoesOn, because ENABLED is not within the
\* prover's reach.
AdmissionNeverStuck ==
    Waiting # {} =>
        IF \A w \in Workers : batch[w] = {}
        THEN ENABLED <<\E w \in Workers : Select(w)>>_vars
        ELSE ENABLED <<\E w \in Workers : Admit(w)>>_vars

\* Everybody who waits is admitted, also those with two tickets and those whose batch
\* was selected by a worker that died.
EveryoneIsAdmitted ==
    \A c \in Hot : status[c] = "WAITING" ~> status[c] = "ADMITTED"
===============================================================================

----------------------------- MODULE ChatHistory -----------------------------
(***************************************************************************)
(* What the assistant remembers: the texts of a conversation that a turn   *)
(* sends to the model before its own question (_load_history and           *)
(* _truncate_history), read from what the turns of AgentTurn have stored.  *)
(*                                                                         *)
(* A text is known by who wrote it.  Texts are read ORDER BY created_at,   *)
(* the time at which their transaction began: those of one transaction,    *)
(* and of turns that overlap, come in any order, and so do all texts here. *)
(***************************************************************************)
EXTENDS AgentTurn, FiniteSetsExt, Sequences

CONSTANT MaxHistory   \* ai_history_max_messages

ASSUME HistoryAssumption == MaxHistory \in Nat \ {0}
ASSUME TurnsAreFinite == IsFiniteSet(Turns)

\* The turns of a conversation whose question is stored; a turn adds it first.
Asked(c) == {t \in Turns : chat[t] = c /\ Message(1) \in db[t]}

\* The stored answers of the model, two messages apart: between two of them are the
\* results of its calls, which are not read again.
Replies(c) ==
    {r \in Turns \X (1 .. Rounds) : chat[r[1]] = c /\ Message(2 * r[2]) \in db[r[1]]}

\* The histories that may be read: every question, and those answers that have a text.
Loaded(c) ==
    {h \in UNION {[1 .. n -> {"user", "assistant"}] :
                      n \in 0 .. Cardinality(Asked(c)) + Cardinality(Replies(c))} :
        Cardinality({i \in DOMAIN h : h[i] = "user"}) = Cardinality(Asked(c))}

\* turn_starts
TurnStarts(h) == {i \in 1 .. Len(h) : h[i] = "user"}

\* The texts from the i-th on are not too many.
Fits(h, i) == Len(h) - i < MaxHistory

\* Mutant: a cutoff at a number of texts, wherever that is in a turn.
TruncatedAnywhere(h) ==
    IF Len(h) <= MaxHistory THEN h ELSE SubSeq(h, Len(h) - MaxHistory + 1, Len(h))

\* The first turn from which on the texts are not too many, or else the last turn.
Cut(h) ==
    LET fitting == {i \in TurnStarts(h) : Fits(h, i)}
    IN  IF fitting # {} THEN Min(fitting) ELSE Max(TurnStarts(h))

Truncated(h) ==
    IF Len(h) <= MaxHistory THEN h
    ELSE IF TurnStarts(h) = {} THEN SubSeq(h, Len(h) - MaxHistory + 1, Len(h))
    ELSE SubSeq(h, Cut(h), Len(h))

\* A history that is too long is cut where a user asks something, whatever its order
\* and whichever turns have failed half way: the case of a history without a question
\* never occurs.  What is left is not too long unless it is one turn, and with one turn
\* more it would be.
LongHistoryIsCutAtTurn ==
    \A c \in Turns : \A h \in Loaded(c) : Len(h) > MaxHistory =>
        LET k == Truncated(h)
            dropped == Len(h) - Len(k)
        IN  /\ dropped \in 0 .. Len(h) - 1 /\ h[dropped + 1] = "user"
            /\ k = SubSeq(h, dropped + 1, Len(h))
            /\ Len(k) > MaxHistory => TurnStarts(k) = {1}
            /\ Len(k) <= MaxHistory => \A i \in 1 .. dropped : h[i] = "user" => ~Fits(h, i)
==============================================================================

---------------------------- MODULE ResultWriter ----------------------------
(***************************************************************************)
(* ResultWriter and ResultStore of server/internal/persistence: a bounded  *)
(* queue of results, one goroutine that writes them to the database, and   *)
(* a dead-letter file for those it could not write.  An envelope is its    *)
(* match and the outcome.  Time limits are events that may come at any     *)
(* moment: a call of the database or of the file that runs out of time is  *)
(* one that fails.                                                         *)
(***************************************************************************)
EXTENDS Integers, Sequences, FiniteSets

CONSTANTS Matches,       \* match IDs
          Outcomes,      \* what a result says
          QueueCapacity, \* ResultWriterOptions.QueueCapacity
          MaxAttempts,   \* ResultWriterOptions.MaxAttempts
          NoEnvelope     \* run holds no envelope

ResultEnvelope == [match : Matches, outcome : Outcomes]

ASSUME WriterAssumption ==
    /\ QueueCapacity \in Nat \ {0} /\ MaxAttempts \in Nat \ {0}
    /\ NoEnvelope \notin ResultEnvelope

VARIABLES closed,     \* ResultWriter.closed
          cancelled,  \* ResultWriter.ctx is done, and cleanupContext is set
          queue,      \* ResultWriter.queue
          worker,     \* where run is
          hand,       \* the envelope it works on
          attempt,    \* the attempts made for it
          table,      \* match_results
          deadLetters,\* envelopes with a line in the dead-letter file
          failures,   \* envelopes counted in deadLetterFailures
          submitted   \* history: envelopes Submit has taken

switchVars == <<closed, cancelled>>
workVars   == <<worker, hand, attempt>>
storeVars  == <<table, deadLetters, failures>>
vars == <<switchVars, queue, workVars, storeVars, submitted>>

Init ==
    /\ closed = FALSE /\ cancelled = FALSE
    /\ queue = <<>> /\ worker = "idle" /\ hand = NoEnvelope /\ attempt = 0
    /\ table = {} /\ deadLetters = {} /\ failures = {} /\ submitted = {}

-----------------------------------------------------------------------------
(* The callers of the writer *)

\* Mutant: a bounded queue that takes everything.
HasRoom_Always == TRUE

HasRoom == Len(queue) < QueueCapacity

\* Submit takes a result.  A closed writer and a full queue refuse it, which
\* changes nothing here.  Each result is submitted once: see ResultCapture.
Submit(e) ==
    /\ ~closed /\ HasRoom /\ e \notin submitted
    /\ queue' = Append(queue, e)
    /\ submitted' = submitted \cup {e}
    /\ UNCHANGED <<switchVars, workVars, storeVars>>

\* Shutdown closes the queue ...
Shutdown ==
    /\ ~closed
    /\ closed' = TRUE
    /\ UNCHANGED <<cancelled, queue, workVars, storeVars, submitted>>

\* ... and when its time is over sets the cleanup budget and cancels the writer.
Deadline ==
    /\ closed /\ ~cancelled /\ worker # "ended"
    /\ cancelled' = TRUE
    /\ UNCHANGED <<closed, queue, workVars, storeVars, submitted>>

-----------------------------------------------------------------------------
(* run *)

Take ==
    /\ worker = "idle" /\ queue # <<>>
    /\ hand' = Head(queue) /\ queue' = Tail(queue)
    /\ worker' = "attempt"
    /\ UNCHANGED <<switchVars, attempt, storeVars, submitted>>

\* Mutant: a cancelled writer ends at once.
Drained_OrCancelled == queue = <<>> \/ cancelled

Drained == queue = <<>>

\* The queue is closed and empty.
End ==
    /\ worker = "idle" /\ closed /\ Drained
    /\ worker' = "ended"
    /\ UNCHANGED <<switchVars, queue, hand, attempt, storeVars, submitted>>

NextEnvelope == worker' = "idle" /\ hand' = NoEnvelope /\ attempt' = 0

\* The table has the match with another result: ErrResultConflict.
Conflict == \E e \in table : e.match = hand.match /\ e # hand

\* The primary key: a row that is there already stays as it is.
Stored == IF \E e \in table : e.match = hand.match THEN table ELSE table \cup {hand}

\* Inserted, or found there already.
Persist ==
    /\ worker = "attempt" /\ ~cancelled /\ ~Conflict
    /\ table' = Stored
    /\ NextEnvelope
    /\ UNCHANGED <<switchVars, queue, deadLetters, failures, submitted>>

\* The database fails, before or after it has committed; neither a conflict nor
\* the last attempt is repeated.
PersistFails ==
    /\ worker = "attempt" /\ ~cancelled
    /\ table' \in {table, Stored}
    /\ attempt' = attempt + 1
    /\ worker' = IF attempt + 1 = MaxAttempts THEN "store" ELSE "backoff"
    /\ UNCHANGED <<switchVars, queue, hand, deadLetters, failures, submitted>>

PersistConflicts ==
    /\ worker = "attempt" /\ ~cancelled /\ Conflict
    /\ attempt' = attempt + 1
    /\ worker' = "store"
    /\ UNCHANGED <<switchVars, queue, hand, storeVars, submitted>>

\* A cancelled writer makes no further attempt.
PersistStops ==
    /\ worker = "attempt" /\ cancelled
    /\ worker' = "store"
    /\ UNCHANGED <<switchVars, queue, hand, attempt, storeVars, submitted>>

Backoff ==
    /\ worker = "backoff"
    /\ worker' = "attempt"
    /\ UNCHANGED <<switchVars, queue, hand, attempt, storeVars, submitted>>

\* storeFailure writes a line: its first try needs a writer that is not
\* cancelled, the second one has the cleanup budget.
StoreFailure ==
    /\ worker = "cleanup" \/ (worker = "store" /\ ~cancelled)
    /\ deadLetters' = deadLetters \cup {hand}
    /\ NextEnvelope
    /\ UNCHANGED <<switchVars, queue, table, failures, submitted>>

\* The try fails, with or without a line in the file, or is not made.
StoreFails ==
    /\ worker \in {"store", "cleanup"}
    /\ \/ UNCHANGED deadLetters
       \/ /\ worker = "cleanup" \/ ~cancelled
          /\ deadLetters' = deadLetters \cup {hand}
    /\ worker' = IF worker = "store" THEN "failed" ELSE "lost"
    /\ UNCHANGED <<switchVars, queue, hand, attempt, table, failures, submitted>>

\* A shutdown may have interrupted the first try.
TryAgain ==
    /\ worker = "failed" /\ cancelled
    /\ worker' = "cleanup"
    /\ UNCHANGED <<switchVars, queue, hand, attempt, storeVars, submitted>>

CountFailure ==
    /\ worker = "lost" \/ (worker = "failed" /\ ~cancelled)
    /\ failures' = failures \cup {hand}
    /\ NextEnvelope
    /\ UNCHANGED <<switchVars, queue, table, deadLetters, submitted>>

Run == \/ Take \/ End \/ Persist \/ PersistFails \/ PersistConflicts \/ PersistStops
       \/ Backoff \/ StoreFailure \/ StoreFails \/ TryAgain \/ CountFailure

Next == Shutdown \/ Deadline \/ Run \/ \E e \in ResultEnvelope : Submit(e)

Spec == Init /\ [][Next]_vars

\* run goes on: what it calls returns when its time is over (ResultSink and
\* FailureSink ask that of their implementations).
FairSpec == Spec /\ WF_vars(Run)

-----------------------------------------------------------------------------
(* Properties *)

\* Types; the queue keeps its capacity, and run makes no more attempts than
\* allowed, each while it holds an envelope.
WriterTypeOK ==
    /\ closed \in BOOLEAN /\ cancelled \in BOOLEAN
    /\ queue \in Seq(ResultEnvelope) /\ Len(queue) <= QueueCapacity
    /\ worker \in {"idle", "attempt", "backoff", "store", "failed", "cleanup", "lost", "ended"}
    /\ IF worker \in {"idle", "ended"} THEN hand = NoEnvelope /\ attempt = 0
       ELSE hand \in ResultEnvelope /\ attempt \in 0..MaxAttempts
    /\ worker \in {"attempt", "backoff"} => attempt < MaxAttempts
    /\ table \in SUBSET ResultEnvelope
    /\ deadLetters \in SUBSET ResultEnvelope /\ failures \in SUBSET ResultEnvelope
    /\ submitted \in SUBSET ResultEnvelope

\* What the writer promises: a result it took is saved or reported, and when
\* Shutdown returns none is missing.
Saved    == table \cup deadLetters
Reported == failures \ Saved
Promise  == INSTANCE Ledger WITH
    Results <- ResultEnvelope, open <- ~closed, pending <- submitted \ (Saved \cup Reported),
    saved <- Saved, reported <- Reported, finished <- worker = "ended"

LedgerImplemented == Promise!LedgerSpec
=============================================================================

------------------------- MODULE ResultWriterProofs -------------------------
(***************************************************************************)
(* Proofs about ResultWriter for every number of matches, every capacity   *)
(* of the queue and every number of attempts: types, and that it keeps the *)
(* safety part of what Ledger promises.                                    *)
(***************************************************************************)
EXTENDS ResultWriter, SequenceTheorems, TLAPS

\* The envelopes in the queue.
Waiting == {queue[i] : i \in 1..Len(queue)}

\* No envelope is taken twice: those in the queue differ from each other and
\* from the one in hand, and none of them was given up before.
OnceInv ==
    /\ \A i, j \in 1..Len(queue) : queue[i] = queue[j] => i = j
    /\ hand \notin Waiting
    /\ hand \notin failures /\ Waiting \cap failures = {}

\* What was taken is in the queue, in hand, saved or given up; nothing else is.
AccountInv ==
    /\ submitted \subseteq Waiting \cup {hand} \cup table \cup deadLetters \cup failures
    /\ Waiting \cup table \cup deadLetters \cup failures \subseteq submitted
    /\ hand # NoEnvelope => hand \in submitted

\* run ends with an empty queue, and nothing is put into a closed one.
EndInv == worker = "ended" => closed /\ queue = <<>>

WriterInv == WriterTypeOK /\ OnceInv /\ AccountInv /\ EndInv

\* Steps of run that neither take an envelope nor end the work on one.
Within == PersistFails \/ PersistConflicts \/ PersistStops \/ Backoff \/ StoreFails \/ TryAgain

\* Steps of run that end the work on an envelope.
Done == Persist \/ StoreFailure \/ CountFailure

-----------------------------------------------------------------------------
(* The queue *)

\* An envelope that is appended joins those that wait.
LEMMA AppendWaiting ==
    ASSUME WriterTypeOK, NEW e \in ResultEnvelope, queue' = Append(queue, e)
    PROVE  /\ Waiting' = Waiting \cup {e}
           /\ Len(queue') = Len(queue) + 1
           /\ \A i \in 1..Len(queue) : queue'[i] = queue[i]
           /\ queue'[Len(queue) + 1] = e
<1>1. queue \in Seq(ResultEnvelope) /\ Len(queue) \in Nat
  BY DEF WriterTypeOK
<1>2. /\ Len(queue') = Len(queue) + 1
      /\ \A i \in 1..Len(queue) : queue'[i] = queue[i]
      /\ queue'[Len(queue) + 1] = e
  BY <1>1, AppendProperties
<1>3. 1..Len(queue') = 1..Len(queue) \cup {Len(queue) + 1}
  BY <1>1, <1>2
<1> QED
  BY <1>1, <1>2, <1>3 DEF Waiting

\* An envelope that is taken was the first of those that wait.
LEMMA TakeWaiting ==
    ASSUME WriterTypeOK, queue # <<>>, queue' = Tail(queue)
    PROVE  /\ Head(queue) = queue[1] /\ Head(queue) \in ResultEnvelope
           /\ queue' \in Seq(ResultEnvelope) /\ Len(queue') = Len(queue) - 1
           /\ \A i \in 1..Len(queue') : queue'[i] = queue[i + 1]
           /\ Waiting = Waiting' \cup {queue[1]}
<1>1. queue \in Seq(ResultEnvelope) /\ Len(queue) \in Nat
  BY DEF WriterTypeOK
<1>2. /\ Head(queue) = queue[1] /\ Head(queue) \in ResultEnvelope
      /\ queue' \in Seq(ResultEnvelope) /\ Len(queue') = Len(queue) - 1
      /\ \A i \in 1..Len(queue') : queue'[i] = queue[i + 1]
  BY <1>1, HeadTailProperties
<1>3. Len(queue) >= 1
  BY <1>1, EmptySeq
<1>4. Waiting \subseteq Waiting' \cup {queue[1]}
  <2> SUFFICES ASSUME NEW i \in 1..Len(queue)
               PROVE  queue[i] \in Waiting' \cup {queue[1]}
    BY DEF Waiting
  <2>1. CASE i = 1
    BY <2>1
  <2>2. CASE i # 1
    <3>1. i - 1 \in 1..Len(queue') /\ (i - 1) + 1 = i
      BY <1>1, <1>2, <2>2
    <3>2. queue'[i - 1] = queue[i]
      BY <1>2, <3>1
    <3> QED
      BY <3>1, <3>2 DEF Waiting
  <2> QED
    BY <2>1, <2>2
<1>5. Waiting' \cup {queue[1]} \subseteq Waiting
  <2>1. \A i \in 1..Len(queue') : i + 1 \in 1..Len(queue)
    BY <1>1, <1>2
  <2>2. 1 \in 1..Len(queue)
    BY <1>1, <1>3
  <2> QED
    BY <1>2, <2>1, <2>2 DEF Waiting
<1> QED
  BY <1>2, <1>4, <1>5

-----------------------------------------------------------------------------
(* Types *)

\* The initial state is typed.
LEMMA InitType == Init => WriterTypeOK
<1> SUFFICES ASSUME Init
             PROVE  WriterTypeOK
  OBVIOUS
<1>1. QueueCapacity \in Nat /\ MaxAttempts \in Nat
  BY WriterAssumption
<1>2. queue \in Seq(ResultEnvelope) /\ Len(queue) <= QueueCapacity
  <2>1. <<>> \in Seq(ResultEnvelope) /\ Len(<<>>) = 0
    OBVIOUS
  <2> QED
    BY <1>1, <2>1 DEF Init
<1>3. closed \in BOOLEAN /\ cancelled \in BOOLEAN
  BY DEF Init
<1> QED
  BY <1>2, <1>3 DEF Init, WriterTypeOK

\* Every step keeps the types.
LEMMA NextType == WriterTypeOK /\ [Next]_vars => WriterTypeOK'
<1> SUFFICES ASSUME WriterTypeOK, [Next]_vars
             PROVE  WriterTypeOK'
  OBVIOUS
<1> USE DEF WriterTypeOK, switchVars, workVars, storeVars
<1>0. /\ QueueCapacity \in Nat /\ MaxAttempts \in Nat \ {0}
      /\ Len(queue) \in Nat
      /\ NoEnvelope \notin ResultEnvelope
  BY WriterAssumption
<1>1. ASSUME NEW e \in ResultEnvelope, Submit(e)
      PROVE  WriterTypeOK'
  <2>1. queue' \in Seq(ResultEnvelope) /\ Len(queue') <= QueueCapacity
    BY <1>0, <1>1, AppendProperties DEF Submit, HasRoom
  <2> QED
    BY <1>1, <2>1 DEF Submit
<1>2. CASE Shutdown \/ Deadline
  BY <1>2 DEF Shutdown, Deadline
<1>3. CASE Take
  <2>1. /\ Head(queue) \in ResultEnvelope
        /\ queue' \in Seq(ResultEnvelope) /\ Len(queue') <= QueueCapacity
    BY <1>0, <1>3, TakeWaiting DEF Take
  <2> QED
    BY <1>0, <1>3, <2>1 DEF Take
<1>4. CASE End
  BY <1>4 DEF End
<1>5. CASE Within
  <2>1. table' \in SUBSET ResultEnvelope
    BY <1>5 DEF Within, PersistFails, PersistConflicts, PersistStops, Backoff, StoreFails,
                TryAgain, Stored
  <2>2. deadLetters' \in SUBSET ResultEnvelope
    BY <1>5 DEF Within, PersistFails, PersistConflicts, PersistStops, Backoff, StoreFails,
                TryAgain
  <2>3. /\ worker' \in {"attempt", "backoff", "store", "failed", "cleanup", "lost"}
        /\ attempt' \in 0..MaxAttempts
        /\ worker' \in {"attempt", "backoff"} => attempt' < MaxAttempts
    BY <1>0, <1>5 DEF Within, PersistFails, PersistConflicts, PersistStops, Backoff,
                      StoreFails, TryAgain
  <2>4. /\ worker \notin {"idle", "ended"}
        /\ UNCHANGED <<switchVars, queue, hand, failures, submitted>>
    BY <1>5 DEF Within, PersistFails, PersistConflicts, PersistStops, Backoff, StoreFails,
                TryAgain
  <2> QED
    BY <2>1, <2>2, <2>3, <2>4
<1>6. CASE Done
  <2>1. /\ worker \notin {"idle", "ended"} /\ hand \in ResultEnvelope
        /\ UNCHANGED <<switchVars, queue, submitted>> /\ NextEnvelope
    BY <1>6 DEF Done, Persist, StoreFailure, CountFailure
  <2>2. /\ table' \in SUBSET ResultEnvelope /\ deadLetters' \in SUBSET ResultEnvelope
        /\ failures' \in SUBSET ResultEnvelope
    BY <1>6, <2>1 DEF Done, Persist, StoreFailure, CountFailure, Stored
  <2> QED
    BY <2>1, <2>2 DEF NextEnvelope
<1>7. CASE UNCHANGED vars
  BY <1>7 DEF vars
<1> QED
  BY <1>1, <1>2, <1>3, <1>4, <1>5, <1>6, <1>7 DEF Next, Run, Within, Done
-----------------------------------------------------------------------------
(* The account of the envelopes *)

\* What the steps of run that work on an envelope may change.
LEMMA WorkStep ==
    ASSUME WriterTypeOK, Within \/ Done
    PROVE  /\ hand \in ResultEnvelope /\ worker \notin {"idle", "ended"}
           /\ UNCHANGED <<queue, closed, submitted>>
           /\ table \subseteq table' /\ table' \subseteq table \cup {hand}
           /\ deadLetters \subseteq deadLetters' /\ deadLetters' \subseteq deadLetters \cup {hand}
           /\ worker' # "ended"
<1> USE DEF WriterTypeOK, switchVars, storeVars
<1>1. CASE Within
  BY <1>1 DEF Within, PersistFails, PersistConflicts, PersistStops, Backoff, StoreFails,
              TryAgain, Stored
<1>2. CASE Done
  BY <1>2 DEF Done, Persist, StoreFailure, CountFailure, NextEnvelope, Stored
<1> QED
  BY <1>1, <1>2

\* The work on an envelope ends with the envelope saved or given up.
LEMMA DoneStep ==
    ASSUME WriterTypeOK, Done
    PROVE  /\ hand' = NoEnvelope /\ worker' = "idle"
           /\ \/ hand \in table' \cup deadLetters' /\ failures' = failures
              \/ failures' = failures \cup {hand} /\ UNCHANGED <<table, deadLetters>>
<1>1. CASE Persist
  BY <1>1 DEF Persist, Stored, Conflict, NextEnvelope, WriterTypeOK
<1>2. CASE StoreFailure \/ CountFailure
  BY <1>2 DEF StoreFailure, CountFailure, NextEnvelope
<1> QED
  BY <1>1, <1>2 DEF Done

\* The other steps of the work keep the envelope in hand.
LEMMA WithinStep ==
    ASSUME WriterTypeOK, Within
    PROVE  UNCHANGED <<hand, failures>> /\ worker' # "idle"
BY DEF Within, PersistFails, PersistConflicts, PersistStops, Backoff, StoreFails, TryAgain,
       storeVars, WriterTypeOK

\* Every step keeps the account.
LEMMA NextAccount == WriterInv /\ [Next]_vars => OnceInv' /\ AccountInv' /\ EndInv'
<1> SUFFICES ASSUME WriterInv, [Next]_vars
             PROVE  OnceInv' /\ AccountInv' /\ EndInv'
  OBVIOUS
<1> USE DEF WriterInv
<1>0. /\ NoEnvelope \notin ResultEnvelope /\ Len(queue) \in Nat
      /\ failures \subseteq ResultEnvelope
      /\ hand = NoEnvelope <=> worker \in {"idle", "ended"}
  BY WriterAssumption DEF WriterTypeOK
<1>1. ASSUME NEW e \in ResultEnvelope, Submit(e)
      PROVE  OnceInv' /\ AccountInv' /\ EndInv'
  <2>1. /\ Waiting' = Waiting \cup {e}
        /\ Len(queue') = Len(queue) + 1
        /\ \A i \in 1..Len(queue) : queue'[i] = queue[i]
        /\ queue'[Len(queue) + 1] = e
    BY <1>1, AppendWaiting DEF Submit
  <2>2. e \notin Waiting \cup failures /\ e # hand
    BY <1>0, <1>1 DEF Submit, AccountInv
  <2>3. \A i, j \in 1..Len(queue') : queue'[i] = queue'[j] => i = j
    <3>1. \A i \in 1..Len(queue') : i \in 1..Len(queue) \/ i = Len(queue) + 1
      BY <1>0, <2>1
    <3>2. \A i \in 1..Len(queue) : queue[i] # e
      BY <2>2 DEF Waiting
    <3> QED
      BY <2>1, <3>1, <3>2 DEF OnceInv
  <2>4. /\ UNCHANGED <<closed, worker, hand, table, deadLetters, failures>>
        /\ submitted' = submitted \cup {e} /\ ~closed
    BY <1>1 DEF Submit, switchVars, workVars, storeVars
  <2> QED
    BY <2>1, <2>2, <2>3, <2>4 DEF OnceInv, AccountInv, EndInv
<1>2. CASE Shutdown \/ Deadline \/ UNCHANGED vars
  <2>1. UNCHANGED <<queue, worker, hand, table, deadLetters, failures, submitted>>
        /\ (closed => closed')
    BY <1>2 DEF Shutdown, Deadline, workVars, storeVars, switchVars, vars
  <2> QED
    BY <2>1 DEF OnceInv, AccountInv, EndInv, Waiting
<1>3. CASE Take
  <2>1. /\ hand' = queue[1] /\ hand' \in ResultEnvelope
        /\ Len(queue') = Len(queue) - 1
        /\ \A i \in 1..Len(queue') : queue'[i] = queue[i + 1]
        /\ Waiting = Waiting' \cup {queue[1]}
    BY <1>3, TakeWaiting DEF Take
  <2>2. Len(queue) >= 1 /\ \A i \in 1..Len(queue') : i + 1 \in 1..Len(queue)
    <3>1. Len(queue) >= 1
      BY <1>0, <1>3, EmptySeq DEF Take, WriterTypeOK
    <3> QED
      BY <1>0, <2>1, <3>1
  <2>3. \A i, j \in 1..Len(queue') : queue'[i] = queue'[j] => i = j
    <3> SUFFICES ASSUME NEW i \in 1..Len(queue'), NEW j \in 1..Len(queue'),
                        queue'[i] = queue'[j]
                 PROVE  i = j
      OBVIOUS
    <3>1. i + 1 = j + 1
      BY <2>1, <2>2 DEF OnceInv
    <3> QED
      BY <3>1
  <2>4. hand' \notin Waiting'
    <3>1. \A i \in 1..Len(queue') : queue[i + 1] # queue[1]
      <4> SUFFICES ASSUME NEW i \in 1..Len(queue'), queue[i + 1] = queue[1]
                   PROVE  FALSE
        OBVIOUS
      <4>1. 1 \in 1..Len(queue)
        BY <1>0, <2>2
      <4>2. i + 1 = 1
        BY <2>2, <4>1 DEF OnceInv
      <4> QED
        BY <4>2
    <3> QED
      BY <2>1, <3>1 DEF Waiting
  <2>5. /\ UNCHANGED <<closed, table, deadLetters, failures, submitted>>
        /\ hand = NoEnvelope /\ worker' = "attempt"
    BY <1>0, <1>3 DEF Take, switchVars, storeVars
  <2>6. hand' \in submitted /\ NoEnvelope \notin submitted
    BY <1>0, <2>1 DEF AccountInv, WriterTypeOK
  <2> QED
    BY <2>1, <2>3, <2>4, <2>5, <2>6 DEF OnceInv, AccountInv, EndInv
<1>4. CASE End
  BY <1>4 DEF End, Drained, OnceInv, AccountInv, EndInv, Waiting, switchVars, storeVars
<1>5. CASE Within
  <2>1. /\ UNCHANGED <<queue, closed, submitted, hand, failures>> /\ worker' # "ended"
        /\ table \subseteq table' /\ table' \subseteq table \cup {hand}
        /\ deadLetters \subseteq deadLetters' /\ deadLetters' \subseteq deadLetters \cup {hand}
        /\ hand \in submitted
    BY <1>0, <1>5, WorkStep, WithinStep DEF AccountInv
  <2> QED
    BY <2>1 DEF OnceInv, AccountInv, EndInv, Waiting
<1>6. CASE Done
  <2>1. /\ UNCHANGED <<queue, closed, submitted>> /\ worker' # "ended"
        /\ table \subseteq table' /\ table' \subseteq table \cup {hand}
        /\ deadLetters \subseteq deadLetters' /\ deadLetters' \subseteq deadLetters \cup {hand}
        /\ hand \in submitted
    BY <1>0, <1>6, WorkStep DEF AccountInv
  <2>2. /\ hand' = NoEnvelope
        /\ failures \subseteq failures' /\ failures' \subseteq failures \cup {hand}
        /\ hand \in table' \cup deadLetters' \cup failures'
    BY <1>6, DoneStep
  <2>3. NoEnvelope \notin Waiting
    BY <1>0 DEF AccountInv, WriterTypeOK
  <2>4. OnceInv'
    <3>1. Waiting' = Waiting
      BY <2>1 DEF Waiting
    <3>2. hand # NoEnvelope
      BY <1>0, <1>6, WorkStep
    <3>3. NoEnvelope \notin failures'
      BY <1>0, <2>2, <3>2
    <3>4. Waiting \cap failures' = {}
      BY <2>2 DEF OnceInv
    <3> QED
      BY <2>1, <2>2, <2>3, <3>1, <3>3, <3>4 DEF OnceInv
  <2>5. AccountInv'
    BY <2>1, <2>2 DEF AccountInv, Waiting
  <2> QED
    BY <2>1, <2>4, <2>5 DEF EndInv
<1> QED
  BY <1>1, <1>2, <1>3, <1>4, <1>5, <1>6 DEF Next, Run, Within, Done

\* The inductive invariant of the writer: types, and that each envelope taken
\* is in the queue, in hand, saved or given up, and in one place of the first two.
THEOREM WriterInvariant == Spec => []WriterInv
<1>1. Init => WriterInv
  <2> SUFFICES ASSUME Init
               PROVE  WriterInv
    OBVIOUS
  <2>1. Waiting = {}
    BY DEF Init, Waiting
  <2> QED
    BY <2>1, InitType DEF Init, WriterInv, OnceInv, AccountInv, EndInv
<1>2. WriterInv /\ [Next]_vars => WriterInv'
  BY NextType, NextAccount DEF WriterInv
<1> QED
  BY <1>1, <1>2, PTL DEF Spec

\* Type correctness of the writer, and the capacity of its queue.
THEOREM WriterIsTyped == Spec => []WriterTypeOK
<1>1. WriterInv => WriterTypeOK
  BY DEF WriterInv
<1> QED
  BY <1>1, WriterInvariant, PTL

-----------------------------------------------------------------------------
(* The writer implements the ledger *)

\* The writer starts as an empty ledger.
LEMMA InitLedger == Init => Promise!LedgerInit
BY DEF Init, Promise!LedgerInit, Saved, Reported

\* A result is accepted by Submit.
LEMMA SubmitAccepts ==
    ASSUME WriterInv, NEW e \in ResultEnvelope, Submit(e)
    PROVE  Promise!Accept(e)
<1>1. e \notin Saved \cup failures
  BY DEF WriterInv, AccountInv, Submit, Saved
<1>2. UNCHANGED <<closed, table, deadLetters, failures, worker>> /\ submitted' = submitted \cup {e}
  BY DEF Submit, switchVars, storeVars, workVars
<1>3. ~closed /\ e \notin submitted
  BY DEF Submit
<1> QED
  BY <1>1, <1>2, <1>3 DEF Promise!Accept, Saved, Reported

\* What the work on an envelope changes settles that envelope, unless it was
\* saved before.
LEMMA WorkSettles ==
    ASSUME WriterInv, Within \/ Done
    PROVE  Promise!Settle(hand) \/ UNCHANGED Promise!ledgerVars
<1>1. /\ UNCHANGED <<closed, submitted>>
      /\ table \subseteq table' /\ table' \subseteq table \cup {hand}
      /\ deadLetters \subseteq deadLetters' /\ deadLetters' \subseteq deadLetters \cup {hand}
      /\ worker # "ended" /\ worker' # "ended"
      /\ hand \in submitted /\ hand \notin failures
  BY WorkStep, WriterAssumption DEF WriterInv, AccountInv, OnceInv
<1>2. \/ failures' = failures
      \/ failures' = failures \cup {hand} /\ UNCHANGED <<table, deadLetters>>
  BY WithinStep, DoneStep DEF WriterInv
<1>3. Saved \subseteq Saved' /\ Saved' \subseteq Saved \cup {hand}
  BY <1>1 DEF Saved
<1>4. CASE failures' = failures /\ hand \in Saved' \ Saved
  <2>1. Saved' = Saved \cup {hand} /\ Reported' = Reported
    BY <1>1, <1>3, <1>4 DEF Reported
  <2> QED
    BY <1>1, <1>4, <2>1 DEF Promise!Settle, Reported
<1>5. CASE failures' = failures /\ ~(hand \in Saved' \ Saved)
  <2>1. Saved' = Saved /\ Reported' = Reported
    BY <1>3, <1>5 DEF Reported
  <2> QED
    BY <1>1, <2>1 DEF Promise!ledgerVars
<1>6. CASE failures' = failures \cup {hand} /\ UNCHANGED <<table, deadLetters>>
  <2>1. Saved' = Saved
    BY <1>6 DEF Saved
  <2>2. CASE hand \in Saved
    <3>1. Reported' = Reported
      BY <1>6, <2>1, <2>2 DEF Reported
    <3> QED
      BY <1>1, <2>1, <3>1 DEF Promise!ledgerVars
  <2>3. CASE hand \notin Saved
    <3>1. Reported' = Reported \cup {hand}
      BY <1>6, <2>1, <2>3 DEF Reported
    <3> QED
      BY <1>1, <2>1, <2>3, <3>1 DEF Promise!Settle, Reported
  <2> QED
    BY <2>2, <2>3
<1> QED
  BY <1>2, <1>4, <1>5, <1>6

\* run ends when nothing it has taken is pending.
LEMMA EndFinishes ==
    ASSUME WriterInv, End
    PROVE  Promise!Finish
<1>1. Waiting = {} /\ hand = NoEnvelope /\ NoEnvelope \notin submitted
  BY WriterAssumption DEF End, Drained, Waiting, WriterInv, WriterTypeOK
<1>2. submitted \ (Saved \cup Reported) = {}
  BY <1>1 DEF WriterInv, AccountInv, Saved, Reported
<1>3. /\ UNCHANGED <<closed, submitted, table, deadLetters, failures>>
      /\ closed /\ worker = "idle" /\ worker' = "ended"
  BY DEF End, switchVars, storeVars
<1> QED
  BY <1>2, <1>3 DEF Promise!Finish, Saved, Reported

\* A result that the writer took is saved or reported, and none is missing when
\* Shutdown returns: each step of the writer is a step of the ledger or changes
\* nothing of it.
THEOREM WriterImplementsLedger == Spec => Promise!LedgerSafe
<1>1. WriterInv /\ [Next]_vars => [Promise!LedgerNext]_(Promise!ledgerVars)
  <2> SUFFICES ASSUME WriterInv, [Next]_vars
               PROVE  Promise!LedgerNext \/ UNCHANGED Promise!ledgerVars
    OBVIOUS
  <2>1. CASE \E e \in ResultEnvelope : Submit(e)
    BY <2>1, SubmitAccepts DEF Promise!LedgerNext
  <2>2. CASE Shutdown
    <3>1. Promise!Shut
      BY <2>2, Zenon DEF Shutdown, Promise!Shut, workVars, storeVars, Saved, Reported
    <3> QED
      BY <3>1 DEF Promise!LedgerNext
  <2>3. CASE Deadline \/ Take \/ UNCHANGED vars
    <3>1. /\ UNCHANGED <<closed, table, deadLetters, failures, submitted>>
          /\ (worker = "ended") = (worker' = "ended")
      BY <2>3 DEF Deadline, Take, vars, switchVars, workVars, storeVars
    <3> QED
      BY <3>1 DEF Promise!ledgerVars, Saved, Reported
  <2>4. CASE End
    BY <2>4, EndFinishes DEF Promise!LedgerNext
  <2>5. CASE Within \/ Done
    <3>1. hand \in ResultEnvelope
      BY <2>5, WorkStep DEF WriterInv
    <3> QED
      BY <2>5, <3>1, WorkSettles DEF Promise!LedgerNext
  <2> QED
    BY <2>1, <2>2, <2>3, <2>4, <2>5 DEF Next, Run, Within, Done
<1> QED
  BY <1>1, InitLedger, WriterInvariant, PTL DEF Spec, Promise!LedgerSafe
=============================================================================

------------------------------- MODULE Ledger -------------------------------
(***************************************************************************)
(* What the result writer promises the rooms, without its queue, retries   *)
(* and timeouts: a result it accepted is saved where somebody can find it  *)
(* (the database or the dead-letter file) or reported as lost, and when    *)
(* Shutdown returns there is none left of which neither is true.           *)
(***************************************************************************)
CONSTANT Results

VARIABLES open,     \* results are accepted
          pending,  \* the results accepted and not dealt with
          saved,    \* those in the database or in the dead-letter file
          reported, \* those counted as dead-letter failures
          finished  \* Shutdown may return

ledgerVars == <<open, pending, saved, reported, finished>>

LedgerInit ==
    open = TRUE /\ pending = {} /\ saved = {} /\ reported = {} /\ finished = FALSE

Accept(r) ==
    /\ open
    /\ r \notin pending \cup saved \cup reported
    /\ pending' = pending \cup {r}
    /\ UNCHANGED <<open, saved, reported, finished>>

Settle(r) ==
    /\ r \in pending
    /\ pending' = pending \ {r}
    /\ \/ saved' = saved \cup {r} /\ UNCHANGED reported
       \/ reported' = reported \cup {r} /\ UNCHANGED saved
    /\ UNCHANGED <<open, finished>>

Shut ==
    /\ open
    /\ open' = FALSE
    /\ UNCHANGED <<pending, saved, reported, finished>>

Finish ==
    /\ ~open /\ pending = {} /\ ~finished
    /\ finished' = TRUE
    /\ UNCHANGED <<open, pending, saved, reported>>

LedgerNext == Shut \/ Finish \/ \E r \in Results : Accept(r) \/ Settle(r)

LedgerSafe == LedgerInit /\ [][LedgerNext]_ledgerVars
LedgerSpec ==
    LedgerSafe /\ WF_ledgerVars(Finish) /\ \A r \in Results : WF_ledgerVars(Settle(r))
=============================================================================

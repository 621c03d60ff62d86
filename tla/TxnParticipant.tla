--------------------------- MODULE TxnParticipant ---------------------------
(***************************************************************************)
(* The participant side of a transaction (TransactionParticipant).  Each   *)
(* request is handled by a task of its own and takes the two maps' locks   *)
(* one after the other, so handlers of the same transaction interleave.    *)
(* Requests may be duplicated and arrive in any order.                     *)
(***************************************************************************)
EXTENDS Naturals

CONSTANTS
    Request,      \* requests the participant receives
    Kind,         \* request -> "prepare", "commit" or "abort"
    Txn           \* request -> the transaction it is about

VARIABLES
    handler,      \* request -> where its handler is
    answer,       \* request -> what the handler returned
    prepared,     \* transactions with prepared operations
    outcomes,     \* completed_txns: transaction -> its recorded outcome
    executed,     \* transaction -> times its operations were executed
    overlapped    \* history: transactions with a prepare beside a commit or abort

pvars == <<handler, answer, prepared, outcomes, executed, overlapped>>

Transactions == {Txn[r] : r \in Request}

ParticipantInit ==
    /\ handler = [r \in Request |-> "sent"]
    /\ answer = [r \in Request |-> "none"]
    /\ prepared = {}
    /\ outcomes = [t \in Transactions |-> "none"]
    /\ executed = [t \in Transactions |-> 0]
    /\ overlapped = {}

Return(r, ans) ==
    /\ handler' = [handler EXCEPT ![r] = "done"]
    /\ answer' = [answer EXCEPT ![r] = ans]

Goto(r, pc) == handler' = [handler EXCEPT ![r] = pc] /\ UNCHANGED answer

Running(t, kinds) ==
    \E r \in Request : Txn[r] = t /\ Kind[r] \in kinds /\ handler[r] \notin {"sent", "done"}

\* Mutant: a prepare is stored whatever became of the transaction.
PrepareUnchecked(r) ==
    /\ Kind[r] = "prepare"
    /\ handler[r] = "sent"
    /\ Goto(r, "store")
    /\ overlapped' = IF Running(Txn[r], {"commit", "abort"})
                       THEN overlapped \cup {Txn[r]} ELSE overlapped
    /\ UNCHANGED <<prepared, outcomes, executed>>

\* handle_prepare looks for a recorded outcome, releases that lock ...
PrepareCheck(r) ==
    /\ Kind[r] = "prepare"
    /\ handler[r] = "sent"
    /\ \/ outcomes[Txn[r]] = "Committed" /\ Return(r, "yes")
       \/ outcomes[Txn[r]] = "Aborted" /\ Return(r, "no")
       \/ outcomes[Txn[r]] = "none" /\ Goto(r, "store")
    /\ overlapped' = IF Running(Txn[r], {"commit", "abort"})
                       THEN overlapped \cup {Txn[r]} ELSE overlapped
    /\ UNCHANGED <<prepared, outcomes, executed>>

\* ... and then stores the operations.
PrepareStore(r) ==
    /\ Kind[r] = "prepare"
    /\ handler[r] = "store"
    /\ prepared' = prepared \cup {Txn[r]}
    /\ Return(r, "yes")
    /\ UNCHANGED <<outcomes, executed, overlapped>>

\* Mutant: the operations are read and not removed.
CommitKeeps(r) ==
    /\ Kind[r] = "commit"
    /\ handler[r] = "sent"
    /\ \/ Txn[r] \in prepared /\ Goto(r, "execute")
       \/ Txn[r] \notin prepared /\ Return(r, "true")
    /\ overlapped' = IF Running(Txn[r], {"prepare"})
                       THEN overlapped \cup {Txn[r]} ELSE overlapped
    /\ UNCHANGED <<prepared, outcomes, executed>>

\* handle_commit takes the operations; without any it answers true.
CommitTake(r) ==
    /\ Kind[r] = "commit"
    /\ handler[r] = "sent"
    /\ \/ Txn[r] \in prepared /\ Goto(r, "execute")
       \/ Txn[r] \notin prepared /\ Return(r, "true")
    /\ prepared' = prepared \ {Txn[r]}
    /\ overlapped' = IF Running(Txn[r], {"prepare"})
                       THEN overlapped \cup {Txn[r]} ELSE overlapped
    /\ UNCHANGED <<outcomes, executed>>

\* All operations are tried, whether or not one of them fails.
CommitExecute(r) ==
    /\ handler[r] = "execute"
    /\ \E pc \in {"mark_ok", "mark_failed"} : Goto(r, pc)
    /\ executed' = [executed EXCEPT ![Txn[r]] = @ + 1]
    /\ UNCHANGED <<prepared, outcomes, overlapped>>

CommitMark(r) ==
    /\ handler[r] \in {"mark_ok", "mark_failed"}
    /\ outcomes' = [outcomes EXCEPT ![Txn[r]] = "Committed"]
    /\ Return(r, IF handler[r] = "mark_ok" THEN "true" ELSE "false")
    /\ UNCHANGED <<prepared, executed, overlapped>>

\* handle_abort discards the operations and records the outcome.
AbortDiscard(r) ==
    /\ Kind[r] = "abort"
    /\ handler[r] = "sent"
    /\ prepared' = prepared \ {Txn[r]}
    /\ Goto(r, "mark_aborted")
    /\ overlapped' = IF Running(Txn[r], {"prepare"})
                       THEN overlapped \cup {Txn[r]} ELSE overlapped
    /\ UNCHANGED <<outcomes, executed>>

AbortMark(r) ==
    /\ handler[r] = "mark_aborted"
    /\ outcomes' = [outcomes EXCEPT ![Txn[r]] = "Aborted"]
    /\ Return(r, "ok")
    /\ UNCHANGED <<prepared, executed, overlapped>>

ParticipantNext ==
    \E r \in Request :
        \/ PrepareCheck(r) \/ PrepareStore(r)
        \/ CommitTake(r) \/ CommitExecute(r) \/ CommitMark(r)
        \/ AbortDiscard(r) \/ AbortMark(r)

ParticipantSpec == ParticipantInit /\ [][ParticipantNext]_pvars

-----------------------------------------------------------------------------
\* Participants deduplicate by transaction id (transaction.rs): whatever requests
\* are duplicated or retried, the operations of a transaction execute once.
ExecutedOnce == \A t \in Transactions : executed[t] <= 1

\* It holds for transactions whose prepare never runs beside a commit or abort.
ExecutedOnceUnlessOverlapped ==
    \A t \in Transactions : executed[t] > 1 => t \in overlapped

\* After an abort a transaction is not prepared again, unless a prepare that had
\* already looked for the outcome was still to store its operations.
AbortedStaysDiscarded ==
    \A t \in Transactions :
        outcomes[t] = "Aborted" => t \notin prepared \/ t \in overlapped

\* A finished transaction is finished: its operations execute at most once and
\* none are left prepared after its abort, unless a prepare overlapped the outcome.
FinishedOnce == ExecutedOnceUnlessOverlapped /\ AbortedStaysDiscarded
=============================================================================

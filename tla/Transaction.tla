---------------------------- MODULE Transaction ----------------------------
(***************************************************************************)
(* The coordinator of cross-shard transactions (transaction.rs).  Each     *)
(* call probes its participants, collects the votes in handle order until  *)
(* a timeout, and either aborts or sends the operations, again collecting  *)
(* the answers until a timeout.  The spawned tasks are not cancelled: they *)
(* run on after the coordinator stops waiting.  Calls share the map of     *)
(* active transactions, keyed by a transaction id the caller chooses.      *)
(***************************************************************************)
EXTENDS Naturals, Sequences

CONSTANTS
    Call,         \* calls of execute_transaction
    Participant,
    TxnId,
    IdOf,         \* call -> its transaction id
    Order,        \* call -> its participants in the order of the spawned handles
    NumOps,       \* call -> participant -> number of operations
    MaxHistory    \* results kept in `completed`

ASSUME TransactionAssumption ==
    /\ IdOf \in [Call -> TxnId]
    /\ Order \in [Call -> Seq(Participant)]
    /\ NumOps \in [Call -> [Participant -> Nat]]
    /\ \A c \in Call, p \in Participant :
           NumOps[c][p] > 0 => \E i \in DOMAIN Order[c] : Order[c][i] = p
    /\ MaxHistory \in Nat \ {0}

VARIABLES
    phase,      \* call -> where execute_transaction is
    final,      \* call -> what has been decided (final_state)
    got,        \* call -> handles awaited so far in this phase
    vote,       \* call -> participant -> its prepare task
    write,      \* call -> participant -> its commit task
    accepted,   \* call -> participant -> operations that were acknowledged
    applied,    \* call -> participant -> operations the participant applied
    active,     \* transaction id -> metadata of an active transaction
    result,     \* call -> what execute_transaction returned
    completed   \* the latest results

vars == <<phase, final, got, vote, write, accepted, applied, active, result, completed>>

Parts(c) == {Order[c][i] : i \in DOMAIN Order[c]}
Collected(c) == {Order[c][i] : i \in 1 .. got[c]}
AllCollected(c) == got[c] = Len(Order[c])

NoMeta == [parts |-> {}, acks |-> {}, known |-> FALSE]
NoResult == [state |-> "none", parts |-> {}, acks |-> {}]

Init ==
    /\ phase = [c \in Call |-> "new"]
    /\ final = [c \in Call |-> "open"]
    /\ got = [c \in Call |-> 0]
    /\ vote = [c \in Call |-> [p \in Participant |-> "idle"]]
    /\ write = [c \in Call |-> [p \in Participant |-> "idle"]]
    /\ accepted = [c \in Call |-> [p \in Participant |-> 0]]
    /\ applied = [c \in Call |-> [p \in Participant |-> 0]]
    /\ active = [i \in TxnId |-> NoMeta]
    /\ result = [c \in Call |-> NoResult]
    /\ completed = << >>

\* Mutant: the updates are made on the local copy only.
SetActiveLocally(c, acks) == UNCHANGED active

\* The updates through get_mut: nothing happens when the entry is gone.
SetActive(c, acks) ==
    active' = [active EXCEPT ![IdOf[c]] = IF @.known THEN [@ EXCEPT !.acks = acks] ELSE @]

\* Mutant: the history is never trimmed.
PushedUntrimmed(history, res) == Append(history, res)

\* Push on the history, dropping the oldest result beyond the limit.
Pushed(history, res) ==
    LET all == Append(history, res)
    IN  IF Len(all) > MaxHistory THEN Tail(all) ELSE all

-----------------------------------------------------------------------------
\* execute_transaction registers the call and spawns the prepare tasks.  A call
\* with the id of another one replaces its entry.
Begin(c) ==
    /\ phase[c] = "new"
    /\ phase' = [phase EXCEPT ![c] = "prepare"]
    /\ active' = [active EXCEPT ![IdOf[c]] =
                     [parts |-> Parts(c), acks |-> {}, known |-> TRUE]]
    /\ vote' = [vote EXCEPT ![c] = [p \in Participant |->
                     IF p \in Parts(c) THEN "running" ELSE "idle"]]
    /\ UNCHANGED <<final, got, write, accepted, applied, result, completed>>

\* prepare_participant only reads; without operations it has nothing to probe.
Probe(c, p) ==
    /\ vote[c][p] = "running"
    /\ \E v \in {"yes"} \cup (IF NumOps[c][p] > 0 THEN {"no"} ELSE {}) :
           vote' = [vote EXCEPT ![c][p] = v]
    /\ UNCHANGED <<phase, final, got, write, accepted, applied, active, result, completed>>

CollectVote(c) ==
    /\ phase[c] = "prepare"
    /\ ~AllCollected(c)
    /\ vote[c][Order[c][got[c] + 1]] # "running"
    /\ got' = [got EXCEPT ![c] = @ + 1]
    /\ UNCHANGED <<phase, final, vote, write, accepted, applied, active, result, completed>>

AllYes(c) == AllCollected(c) /\ \A p \in Parts(c) : vote[c][p] = "yes"

\* Mutant: only a vote aborts; a vote that never comes is waited for.
AbortOnVote(c) ==
    /\ phase[c] = "prepare"
    /\ \E p \in Collected(c) : vote[c][p] = "no"
    /\ SetActive(c, Parts(c))
    /\ final' = [final EXCEPT ![c] = "aborted"]
    /\ phase' = [phase EXCEPT ![c] = "finish"]
    /\ UNCHANGED <<got, vote, write, accepted, applied, result, completed>>

\* A participant voted no, or the timeout left a vote uncollected (AnyNo); then
\* abort_phase, which sends nothing.
AbortTxn(c) ==
    /\ phase[c] = "prepare"
    /\ ~AllCollected(c) \/ \E p \in Collected(c) : vote[c][p] = "no"
    /\ SetActive(c, Parts(c))
    /\ final' = [final EXCEPT ![c] = "aborted"]
    /\ phase' = [phase EXCEPT ![c] = "finish"]
    /\ UNCHANGED <<got, vote, write, accepted, applied, result, completed>>

\* All voted yes: spawn the commit tasks.
StartCommit(c) ==
    /\ phase[c] = "prepare"
    /\ AllYes(c)
    /\ phase' = [phase EXCEPT ![c] = "commit"]
    /\ final' = [final EXCEPT ![c] = "committing"]
    /\ got' = [got EXCEPT ![c] = 0]
    /\ write' = [write EXCEPT ![c] = [p \in Participant |->
                     IF p \in Parts(c) THEN "running" ELSE "idle"]]
    /\ UNCHANGED <<vote, accepted, applied, active, result, completed>>

-----------------------------------------------------------------------------
(* A commit task executes its operations in order and stops at an error.   *)

WriteOp(c, p) ==
    /\ write[c][p] = "running"
    /\ accepted[c][p] < NumOps[c][p]
    /\ accepted' = [accepted EXCEPT ![c][p] = @ + 1]
    /\ applied' = [applied EXCEPT ![c][p] = @ + 1]
    /\ UNCHANGED <<phase, final, got, vote, write, active, result, completed>>

\* The error may be a lost answer: the operation may have been applied.
WriteFails(c, p) ==
    /\ write[c][p] = "running"
    /\ accepted[c][p] < NumOps[c][p]
    /\ write' = [write EXCEPT ![c][p] = "error"]
    /\ \E n \in {0, 1} : applied' = [applied EXCEPT ![c][p] = @ + n]
    /\ UNCHANGED <<phase, final, got, vote, accepted, active, result, completed>>

WriteEnds(c, p) ==
    /\ write[c][p] = "running"
    /\ accepted[c][p] = NumOps[c][p]
    /\ write' = [write EXCEPT ![c][p] = "ok"]
    /\ UNCHANGED <<phase, final, got, vote, accepted, applied, active, result, completed>>

-----------------------------------------------------------------------------
CollectAck(c) ==
    /\ phase[c] = "commit"
    /\ ~AllCollected(c)
    /\ write[c][Order[c][got[c] + 1]] # "running"
    /\ got' = [got EXCEPT ![c] = @ + 1]
    /\ UNCHANGED <<phase, final, vote, write, accepted, applied, active, result, completed>>

Acks(c) == {p \in Collected(c) : write[c][p] = "ok"}

\* Mutant: a participant that answered with an error counts as acknowledged.
CommitAnswered(c) ==
    /\ phase[c] = "commit"
    /\ AllCollected(c)
    /\ SetActive(c, Parts(c))
    /\ final' = [final EXCEPT ![c] = "committed"]
    /\ phase' = [phase EXCEPT ![c] = "finish"]
    /\ UNCHANGED <<got, vote, write, accepted, applied, result, completed>>

CommitComplete(c) ==
    /\ phase[c] = "commit"
    /\ AllCollected(c)
    /\ \A p \in Parts(c) : write[c][p] = "ok"
    /\ SetActive(c, Parts(c))
    /\ final' = [final EXCEPT ![c] = "committed"]
    /\ phase' = [phase EXCEPT ![c] = "finish"]
    /\ UNCHANGED <<got, vote, write, accepted, applied, result, completed>>

\* Some participant failed or the timeout fired.  The call returns at once: the
\* entry stays in the map, and the result names no committed participant.
CommitIncomplete(c) ==
    /\ phase[c] = "commit"
    /\ ~AllCollected(c) \/ \E p \in Collected(c) : write[c][p] = "error"
    /\ SetActive(c, Acks(c))
    /\ final' = [final EXCEPT ![c] = "incomplete"]
    /\ phase' = [phase EXCEPT ![c] = "returned"]
    /\ LET res == [state |-> "incomplete", parts |-> Parts(c), acks |-> {}]
       IN  /\ result' = [result EXCEPT ![c] = res]
           /\ completed' = Pushed(completed, res)
    /\ UNCHANGED <<got, vote, write, accepted, applied>>

\* Mutant: the entry of a finished transaction is not removed.
FinishKeepsEntry(c) ==
    /\ phase[c] = "finish"
    /\ LET meta == active[IdOf[c]]
           res  == [state |-> final[c], parts |-> meta.parts, acks |-> meta.acks]
       IN  /\ result' = [result EXCEPT ![c] = res]
           /\ completed' = Pushed(completed, res)
    /\ phase' = [phase EXCEPT ![c] = "returned"]
    /\ UNCHANGED <<final, got, vote, write, accepted, applied, active>>

\* Build the result from the removed entry, or from an empty one if it is gone.
Finish(c) ==
    /\ phase[c] = "finish"
    /\ LET meta == active[IdOf[c]]
           res  == [state |-> final[c], parts |-> meta.parts, acks |-> meta.acks]
       IN  /\ result' = [result EXCEPT ![c] = res]
           /\ completed' = Pushed(completed, res)
    /\ active' = [active EXCEPT ![IdOf[c]] = NoMeta]
    /\ phase' = [phase EXCEPT ![c] = "returned"]
    /\ UNCHANGED <<final, got, vote, write, accepted, applied>>

-----------------------------------------------------------------------------
Coordinator(c) ==
    \/ CollectVote(c) \/ AbortTxn(c) \/ StartCommit(c)
    \/ CollectAck(c) \/ CommitComplete(c) \/ CommitIncomplete(c) \/ Finish(c)

Next ==
    \E c \in Call :
        \/ Begin(c)
        \/ Coordinator(c)
        \/ \E p \in Participant :
               Probe(c, p) \/ WriteOp(c, p) \/ WriteFails(c, p) \/ WriteEnds(c, p)

Spec == Init /\ [][Next]_vars

\* The coordinator runs and its timers fire; a participant may never answer.
FairSpec == Spec /\ \A c \in Call : WF_vars(Coordinator(c))

-----------------------------------------------------------------------------
(* Properties.                                                             *)

Outcomes == {"open", "committing", "committed", "aborted", "incomplete"}

\* Every variable has the shape the code gives it; the history is within its
\* limit and no participant applies more operations than it was sent.
TypeOK ==
    /\ phase \in [Call -> {"new", "prepare", "commit", "finish", "returned"}]
    /\ final \in [Call -> Outcomes]
    /\ \A c \in Call :
           /\ got[c] \in 0 .. Len(Order[c])
           /\ \A p \in Participant :
                  /\ vote[c][p] \in {"idle", "running", "yes", "no"}
                  /\ write[c][p] \in {"idle", "running", "ok", "error"}
                  /\ accepted[c][p] \in 0 .. NumOps[c][p]
                  /\ applied[c][p] \in accepted[c][p] .. NumOps[c][p]
    /\ Len(completed) <= MaxHistory

Outcome == INSTANCE AtomicOutcome WITH outcome <- final, effect <- applied

\* The coordinator keeps its promise: an aborted call never writes, however late
\* its tasks run, and a call is reported committed only when every participant
\* has applied all of its operations (commit_phase must NOT report success
\* otherwise).
ImplementsAtomicOutcome == Outcome!Spec

\* A result that says committed names all participants of the call, and all of
\* them as committed, unless another call used the same transaction id.
CommittedNamesAll ==
    \A c \in Call :
        (result[c].state = "committed" /\ \A d \in Call : IdOf[d] = IdOf[c] => d = c) =>
            result[c].parts = Parts(c) /\ result[c].acks = Parts(c)

\* active_transactions lists running transactions, and those whose commit was
\* left incomplete: no other entry outlives its call, even if ids are shared.
ActiveIsRunningOrIncomplete ==
    \A i \in TxnId :
        active[i].known =>
            \E c \in Call : /\ IdOf[c] = i
                            /\ \/ phase[c] \in {"prepare", "commit", "finish"}
                               \/ final[c] = "incomplete"

\* What the coordinator says of its transactions is true (types included): its
\* results name the participants that committed, and its active list the calls
\* that run or were left incomplete.
BookkeepingTrue == TypeOK /\ CommittedNamesAll /\ ActiveIsRunningOrIncomplete

\* Each phase has a timeout: calls return even if participants never answer.
Busy == \E c \in Call : phase[c] \notin {"new", "returned"}
EveryCallReturns == Busy ~> ~Busy
=============================================================================

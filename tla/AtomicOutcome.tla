--------------------------- MODULE AtomicOutcome ---------------------------
(***************************************************************************)
(* What a transaction coordinator promises its callers.  A call is open,   *)
(* then either aborted, which means that none of its operations was or     *)
(* ever will be applied, or committing, after which operations are applied *)
(* one by one; it is reported committed only when every participant has    *)
(* applied all of its operations, and incomplete otherwise.  The writes of *)
(* an incomplete call may still arrive.                                    *)
(***************************************************************************)
EXTENDS Naturals

CONSTANTS
    Call,         \* calls of execute_transaction
    Participant,
    NumOps        \* call -> participant -> how many operations it sends there

VARIABLES outcome, effect

avars == <<outcome, effect>>

Init ==
    /\ outcome = [c \in Call |-> "open"]
    /\ effect = [c \in Call |-> [p \in Participant |-> 0]]

Abort(c) ==
    /\ outcome[c] = "open"
    /\ outcome' = [outcome EXCEPT ![c] = "aborted"]
    /\ UNCHANGED effect

Decide(c) ==
    /\ outcome[c] = "open"
    /\ outcome' = [outcome EXCEPT ![c] = "committing"]
    /\ UNCHANGED effect

Apply(c, p) ==
    /\ outcome[c] \in {"committing", "incomplete"}
    /\ effect[c][p] < NumOps[c][p]
    /\ effect' = [effect EXCEPT ![c][p] = @ + 1]
    /\ UNCHANGED outcome

Commit(c) ==
    /\ outcome[c] = "committing"
    /\ \A p \in Participant : effect[c][p] = NumOps[c][p]
    /\ outcome' = [outcome EXCEPT ![c] = "committed"]
    /\ UNCHANGED effect

GiveUp(c) ==
    /\ outcome[c] = "committing"
    /\ outcome' = [outcome EXCEPT ![c] = "incomplete"]
    /\ UNCHANGED effect

Next ==
    \E c \in Call :
        \/ Abort(c) \/ Decide(c) \/ Commit(c) \/ GiveUp(c)
        \/ \E p \in Participant : Apply(c, p)

Spec == Init /\ [][Next]_avars
=============================================================================

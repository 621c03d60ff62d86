----------------------------- MODULE NodeState -----------------------------
(***************************************************************************)
(* What a node task holds and what its persistence holds for it.  A node   *)
(* has one property with its event time, one member of its label and edge  *)
(* sets (both are plain sets, so one flag stands for any member), one edge *)
(* property and a tombstone.  A write is a sequence of timed operations    *)
(* committed together; an operation with time NoTime takes the node's own  *)
(* clock.                                                                  *)
(***************************************************************************)
EXTENDS Naturals, Sequences, FiniteSets

CONSTANT NoValue     \* no value: the property or edge property is absent

NoTime == 0          \* no event time given, and no time recorded

EmptyState ==
    [val |-> NoValue, time |-> NoTime, member |-> FALSE, edgeProp |-> NoValue,
     deleted |-> FALSE]

\* Event-time last-writer-wins: at least as new as the recorded time.
Wins(st, time) == time >= st.time

\* The effect of an event on a state: the match of wake_node, which is also
\* what the commit path does for an operation that yields an event.
ApplyEvent(st, e) ==
    CASE e.kind = "set"      -> IF Wins(st, e.time)
                                  THEN [st EXCEPT !.val = e.val, !.time = e.time] ELSE st
      [] e.kind = "remove"   -> IF Wins(st, e.time)
                                  THEN [st EXCEPT !.val = NoValue, !.time = e.time] ELSE st
      [] e.kind = "add"      -> [st EXCEPT !.member = TRUE]
      [] e.kind = "drop"     -> [st EXCEPT !.member = FALSE]
      [] e.kind = "edgeprop" -> [st EXCEPT !.edgeProp = e.val]
      [] e.kind = "delete"   -> [st EXCEPT !.deleted = TRUE]

\* commit_operations drops late property writes and removals, and additions and
\* removals of members that change nothing: these emit no event.
Emits(st, e) ==
    CASE e.kind \in {"set", "remove"} -> Wins(st, e.time)
      [] e.kind = "add"               -> ~st.member
      [] e.kind = "drop"              -> st.member
      [] e.kind \in {"edgeprop", "delete"} -> TRUE

\* The time of an operation: its own, else the receipt's time for the first
\* operation without one, else a fresh tick of the node's clock.
CommitOp(acc, op, val) ==
    LET tick == IF op.time = NoTime /\ acc.receiptUsed THEN 1 ELSE 0
        time == IF op.time # NoTime THEN op.time
                ELSE IF acc.receiptUsed THEN acc.clock + 1 ELSE acc.receipt
        e    == [kind |-> op.kind, time |-> time, val |-> val]
    IN  [acc EXCEPT !.st = IF Emits(@, e) THEN ApplyEvent(@, e) ELSE @,
                    !.events = IF Emits(acc.st, e) THEN Append(@, e) ELSE @,
                    !.clock = @ + tick,
                    !.receiptUsed = @ \/ op.time = NoTime]

CommitOperations(st, clock, ops, val) ==
    LET acc[i \in 0 .. Len(ops)] ==
            IF i = 0 THEN [st |-> st, events |-> << >>, clock |-> clock + 1,
                           receipt |-> clock + 1, receiptUsed |-> FALSE]
            ELSE CommitOp(acc[i - 1], ops[i], val)
    IN  acc[Len(ops)]

-----------------------------------------------------------------------------
(* The persistence agent: journal entries keyed by event time and by their *)
(* position in the batch that wrote them, snapshots keyed by time.         *)

EmptyStore == [journal |-> {}, snapshots |-> {}]

PersistEvents(store, events) ==
    LET batch == {[time |-> events[i].time, ordinal |-> i, event |-> events[i]] :
                      i \in DOMAIN events}
        kept  == {j \in store.journal :
                      \A b \in batch : <<b.time, b.ordinal>> # <<j.time, j.ordinal>>}
    IN  [store EXCEPT !.journal = kept \cup batch]

PersistSnapshot(store, time, st) ==
    [store EXCEPT !.snapshots =
        {s \in @ : s.time # time} \cup {[time |-> time, st |-> st]}]

\* Mutant: the snapshots are read in the wrong direction.
OldestSnapshot(store) ==
    IF store.snapshots = {} THEN [time |-> NoTime, st |-> EmptyState]
    ELSE CHOOSE s \in store.snapshots : \A x \in store.snapshots : x.time >= s.time

LatestSnapshot(store) ==
    IF store.snapshots = {} THEN [time |-> NoTime, st |-> EmptyState]
    ELSE CHOOSE s \in store.snapshots : \A x \in store.snapshots : x.time <= s.time

\* get_node_change_events from just after the snapshot, in key order.
EventsAfter(store, time) ==
    LET entries == {j \in store.journal : j.time > time}
        Before(x, y) == \/ x.time < y.time
                        \/ x.time = y.time /\ x.ordinal < y.ordinal
        Nth(i)  == CHOOSE x \in entries : Cardinality({y \in entries : Before(y, x)}) = i - 1
    IN  [i \in 1 .. Cardinality(entries) |-> Nth(i).event]

\* The state wake_node rebuilds, and the largest event time it saw.
Recovered(store) ==
    LET snap   == LatestSnapshot(store)
        events == EventsAfter(store, snap.time)
        st[i \in 0 .. Len(events)] ==
            IF i = 0 THEN snap.st ELSE ApplyEvent(st[i - 1], events[i])
    IN  st[Len(events)]

RecoveredMaxTime(store) ==
    LET events == EventsAfter(store, LatestSnapshot(store).time)
    IN  IF events = << >> THEN NoTime ELSE events[Len(events)].time
=============================================================================

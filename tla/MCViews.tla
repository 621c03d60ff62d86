------------------------------- MODULE MCViews -------------------------------
(* What is derived from the graph and the event log.  Tables: the event    *)
(* log's writer under failures, and aggregates created, refreshed and      *)
(* dropped while events are appended.  Queries: standing queries and the   *)
(* materialized view they feed.  History: fragments sealed, migrated and   *)
(* read.  They share no state; a behaviour runs one of them.               *)
EXTENDS ViewRefresh

CONSTANTS
  QueryPlan,    \* the workloads of StandingQuery
  HistoryPlan,  \* the workloads of Fragments
  Nothing       \* no value

VARIABLES load, clock, stamp, chan, window, seal, tiers, registry, reader, sealed

historyVars == <<load, clock, stamp, chan, window, seal, tiers, registry, reader, sealed>>

VARIABLES part, plan, value, edge, queries, matching, task, sent, bridge, sink, mapped, view, disk, hist

queryVars == <<plan, value, edge, queries, matching, task, sent, bridge, sink, mapped, view, disk, hist>>

-----------------------------------------------------------------------------
Events == {"e1", "e2", "e3"}
Callers == {"a", "b"}

LogLoad(events, faults, drains, latencies, creates, refreshes, dropBy) ==
  [events |-> events, faults |-> faults, drains |-> drains, latencies |-> latencies,
   creates |-> creates, refreshes |-> refreshes, dropBy |-> dropBy]

Writes == LogLoad(Events, 3, 1, {"low", "high"}, {}, 0, {})
Refreshed == LogLoad({"e1", "e2"}, 0, 0, {"low"}, {"a"}, 3, {})
Dropped == LogLoad({"e1", "e2"}, 1, 0, {"low"}, {"a"}, 1, {"b"})
Recreated == LogLoad({"e1"}, 0, 0, {"low"}, {"a", "b"}, 1, {"b"})

MCEventPlan == {Writes, Refreshed, Dropped, Recreated}

-----------------------------------------------------------------------------
High == [accepts |-> {2, 3}, edge |-> FALSE]
Wired == [accepts |-> {1, 2, 3}, edge |-> TRUE]

Set(n, v) == [op |-> "set", node |-> n, value |-> v]
NodeOp(op, n) == [op |-> op, node |-> n]
QueryOp(op, q) == [op |-> op, query |-> q]
Define(op, q, p) == [op |-> op, query |-> q, pattern |-> p]
Refresh == [op |-> "refresh"]

QueryLoad(a, b, capacity, restarts) ==
  [calls |-> [c \in {"c1", "c2"} |-> IF c = "c1" THEN a ELSE b], buffer |-> capacity,
   restarts |-> restarts, sinks |-> capacity = 1]

Start == <<Define("register", "q1", High), QueryOp("link", "q1")>>

(* Two writers of one node, with a query on its value.                     *)
Writers == QueryLoad(Start \o <<Set("n1", 2), Set("n1", 1), Set("n1", 3)>>,
                     <<Set("n1", 2), NodeOp("unset", "n1"), Set("n1", 1)>>, 8, 0)

(* Edges come and go under a query that asks for one.                      *)
Edges == QueryLoad(<<Define("register", "q1", Wired), QueryOp("link", "q1"), Set("n1", 1),
                     NodeOp("add_edge", "n1")>>,
                   <<NodeOp("add_edge", "n1"), NodeOp("remove_edge", "n1"), Set("n1", 2)>>, 8, 0)

(* Definitions change while a node is written, then the process restarts.  *)
Definitions == QueryLoad(Start \o <<Set("n1", 2), Define("update", "q2", High), QueryOp("remove", "q1")>>,
                         <<Define("register", "q2", High), Define("update", "q1", Wired)>>, 8, 1)

(* Deleted nodes, a refresh of the view, and a restart.                    *)
Deletes == QueryLoad(Start \o <<Set("n1", 2), NodeOp("delete", "n1"), Set("n1", 3), Set("n2", 2)>>,
                     <<Refresh, Set("n1", 1)>>, 8, 1)

(* A burst of results through a channel of one, sinks included.            *)
Bursts == QueryLoad(Start \o <<Set("n1", 2), Set("n1", 1)>>, <<Set("n2", 3)>>, 1, 0)

MCQueryPlan == {Writers, Edges, Definitions, Deletes, Bursts}

Nodes == {"n1", "n2"}
Values == {1, 2, 3}

S == INSTANCE StandingQuery WITH
       Client <- {"c1", "c2"}, Node <- Nodes, Value <- Values, RowValue <- Values, NoRow <- 0,
       RowKey <- {<<"node", n>> : n \in Nodes} \cup {<<"row", n>> : n \in Nodes} \cup {<<"hash", x>> : x \in Values},
       Query <- {"q1", "q2"}, Linked <- "q1", Plan <- QueryPlan

-----------------------------------------------------------------------------
HistoryWrite(i, kind) == [id |-> i, node |-> "n1", kind |-> kind]
P1 == HistoryWrite(1, "property")
P2 == HistoryWrite(2, "property")
E1 == HistoryWrite(3, "edge")

HistoryLoad(writes, reads, lists, idle, faults, crashes) ==
  [writes |-> writes, reads |-> reads, lists |-> lists, idle |-> idle,
   faults |-> faults, crashes |-> crashes]

(* Writes stamped, sent, recorded and sealed in all orders.                *)
Sealings == HistoryLoad({P1, P2, E1}, {}, {}, 1, 0, 0)

(* Reads as of an instant between the stamps.                              *)
Instants == HistoryLoad({P1, E1}, {2, 3}, {}, 2, 0, 0)

(* Reads during migrations, with a failure.                                *)
Migrations == HistoryLoad({P1, P2}, {3}, {"hot", "warm", "cold"}, 0, 1, 0)

(* Failed puts and a restart.                                              *)
Restarts == HistoryLoad({P1, P2, E1}, {}, {}, 0, 1, 1)

MCHistoryPlan == {Sealings, Instants, Migrations, Restarts}

F == INSTANCE Fragments WITH
       task <- seal, hist <- sealed, Node <- Nodes, Writes <- {P1, P2, E1}, Load <- HistoryPlan,
       Value <- {[type |-> t, rank |-> r] : t \in {"number", "text"}, r \in 1 .. 2}, MaxRows <- 3

-----------------------------------------------------------------------------
Part(name) ==
  /\ part = name
  /\ name = "tables" \/ todo = CHOOSE p \in EventPlan : TRUE
  /\ name = "queries" \/ plan = CHOOSE p \in QueryPlan : TRUE
  /\ name = "history" \/ load = CHOOSE p \in HistoryPlan : TRUE

MCInit == Init /\ S!Init /\ F!HistoryInit /\ \E name \in {"tables", "queries", "history"} : Part(name)

MCNext ==
  /\ UNCHANGED part
  /\ \/ part = "tables" /\ Next /\ UNCHANGED <<queryVars, historyVars>>
     \/ part = "queries" /\ S!Next /\ UNCHANGED <<vars, historyVars>>
     \/ part = "history" /\ F!HistoryNext /\ UNCHANGED <<vars, queryVars>>

MCSpec ==
  /\ MCInit
  /\ [][MCNext]_<<vars, queryVars, historyVars, part>>
  /\ WF_logVars(part = "tables" /\ Tick)
  /\ \A f \in Flusher : WF_logVars(part = "tables" /\ FlushStep(f))
  /\ \A c \in {"c1", "c2"} : WF_queryVars(part = "queries" /\ S!Progress(c))
  /\ WF_queryVars(part = "queries" /\ S!Bridge)
  /\ WF_queryVars(part = "queries" /\ S!RouteResult)
  /\ WF_historyVars(part = "history" /\ F!Drain)
  /\ WF_historyVars(part = "history" /\ F!SealTask)

-----------------------------------------------------------------------------
(* Nothing contradicts its stored or derived copy (types included): once   *)
(* the bridge has taken every result, the view has the rows of the         *)
(* matching nodes; the view's rows agree with its index and store, the     *)
(* registered with the stored definitions, and the running refresh tasks   *)
(* with the registered view.                                               *)
CopiesAgree ==
  /\ TypeOK /\ S!TypeOK /\ S!ViewFollowsMatches /\ S!ViewCopiesAgree /\ S!DefinitionsSurvive
  /\ DroppedStopsRefreshing

(* The sealed history replays to what was observed, whole and never from   *)
(* later, through migrations; and columnar scans return what matches (see  *)
(* Fragments).                                                             *)
HistoryExact == F!HistoryExact /\ F!ScansExact

(* A write that overlapped no other leaves the right match states (see     *)
(* StandingQuery).                                                         *)
SoloWriteSettlesMatches == S!SoloWriteSettlesMatches

(* Every append is answered, the bridge gets through every result, a lag   *)
(* included, and every observed write is sealed or lost.                   *)
EverythingServed ==
  (AppendPending \/ bridge < Len(sent) \/ F!Unsealed # {})
    ~> (~AppendPending /\ bridge = Len(sent) /\ F!Unsealed = {})
=============================================================================

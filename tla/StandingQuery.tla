---------------------------- MODULE StandingQuery ----------------------------
(***************************************************************************)
(* Standing queries (crates/nexora-standing-query/src/lib.rs, persist.rs), *)
(* driven by the graph's change callbacks (nexora-core/src/graph/mod.rs,   *)
(* nexora-app/src/main.rs), and what their results drive: the bridge to a  *)
(* materialized view (nexora-app/src/sq_mv_bridge.rs) and the output       *)
(* sinks.                                                                  *)
(*                                                                         *)
(* Clients run programs of calls.  A step is what runs between two awaits; *)
(* a node has one property and one edge of the type the patterns name, and *)
(* a pattern asks for a value and, possibly, for the edge.                 *)
(***************************************************************************)
EXTENDS MaterializedView, Naturals, Sequences, FiniteSets

CONSTANTS
  Client,     \* the tasks that call the graph and the query manager
  Node,       \* the graph's nodes
  Value,      \* property values; NoRow is no value
  Query,      \* query ids
  Linked,     \* the query whose results feed the view
  Plan        \* workloads: [calls : Client -> Seq(call), buffer, restarts, sinks]

(* Rows written by the bridge are keyed by node id, those of a refresh by  *)
(* their place in the result, those of a bootstrap by a hash of the row.   *)
SqRow(n) == <<"node", n>>
RefreshRow(n) == <<"row", n>>
HashRow(x) == <<"hash", x>>

VARIABLES
  plan,      \* what is left of the workload
  value,     \* node -> its property
  edge,      \* node -> it has the edge
  queries,   \* the registered queries: [id, pattern, version]
  matching,  \* the (query, node) pairs in state is_matching
  task,      \* client -> the call it is in
  sent,      \* the results sent on the broadcast channel
  bridge,    \* how many results the bridge has taken
  sink,      \* the same for the sink router: [next, running]
  mapped,    \* queries the bridge maps to the view
  view,      \* the materialized view
  disk,      \* the persisted definitions and match states
  hist       \* history: [loose, overlapped, refreshed]

vars == <<plan, value, edge, queries, matching, task, sent, bridge, sink, mapped, view, disk, hist>>

graph == <<value, edge>>
outputs == <<bridge, sink, mapped, view>>

Idle == [pc |-> "idle"]

Busy(c) == task[c].pc # "idle"

Init ==
  /\ plan \in Plan
  /\ value = [n \in Node |-> NoRow]
  /\ edge = [n \in Node |-> FALSE]
  /\ queries = {}
  /\ matching = {}
  /\ task = [c \in Client |-> Idle]
  /\ sent = <<>>
  /\ bridge = 0
  /\ sink = [next |-> 0, running |-> plan.sinks]
  /\ mapped = {}
  /\ view = NewView
  /\ disk = [queries |-> {}, matching |-> {}]
  /\ hist = [loose |-> {}, overlapped |-> FALSE, refreshed |-> FALSE]

-----------------------------------------------------------------------------
(* matches / matches_with_edges, for a property filter and an edge pattern *)
(* combined with And.                                                      *)
Matches(pattern, v, e) == v \in pattern.accepts /\ (pattern.edge => e)

(* The client's next call starts.  Two calls on one node overlap: neither  *)
(* is alone any more.                                                      *)
Call(c) == Head(plan.calls[c])

TakeCall(c) ==
  /\ ~Busy(c)
  /\ plan.calls[c] # <<>>
  /\ plan' = [plan EXCEPT !.calls[c] = Tail(@)]

GraphOps == {"set", "unset", "add_edge", "remove_edge", "delete"}

On(c, n) == Busy(c) /\ task[c].op \in GraphOps /\ task[c].node = n

GraphCall(c, n, pc) ==
  task' = [d \in Client |->
             IF d = c
             THEN [pc |-> pc, node |-> n, op |-> Call(c).op, props |-> NoRow, edge |-> FALSE,
                   listed |-> {}, todo |-> {}, current |-> {},
                   alone |-> ~\E x \in Client \ {c} : On(x, n)]
             ELSE IF On(d, n) THEN [task[d] EXCEPT !.alone = FALSE] ELSE task[d]]

(* GraphService::set_property, its commit.  The callback comes later.      *)
SetProperty(c) ==
  /\ TakeCall(c)
  /\ Call(c).op = "set"
  /\ value' = [value EXCEPT ![Call(c).node] = Call(c).value]
  /\ GraphCall(c, Call(c).node, "props")
  /\ UNCHANGED <<edge, queries, matching, sent, outputs, disk, hist>>

(* remove_property calls nobody back.                                      *)
RemoveProperty(c) ==
  /\ TakeCall(c)
  /\ Call(c).op = "unset"
  /\ value' = [value EXCEPT ![Call(c).node] = NoRow]
  /\ GraphCall(c, Call(c).node, "finish")
  /\ UNCHANGED <<edge, queries, matching, sent, outputs, disk, hist>>

ChangeEdge(c) ==
  /\ TakeCall(c)
  /\ Call(c).op \in {"add_edge", "remove_edge"}
  /\ edge' = [edge EXCEPT ![Call(c).node] = Call(c).op = "add_edge"]
  /\ GraphCall(c, Call(c).node, "list")
  /\ UNCHANGED <<value, queries, matching, sent, outputs, disk, hist>>

DeleteNode(c) ==
  /\ TakeCall(c)
  /\ Call(c).op = "delete"
  /\ GraphCall(c, Call(c).node, "cleanup")
  /\ UNCHANGED <<graph, queries, matching, sent, outputs, disk, hist>>

-----------------------------------------------------------------------------
To(c, pc) == task' = [task EXCEPT ![c].pc = pc]

(* The callback reads all properties of the node: once per property set    *)
(* and edge removal, once per query for an edge addition.                  *)
ReadProps(c) ==
  /\ task[c].pc = "props"
  /\ task' = [task EXCEPT ![c].props = value[task[c].node],
                          ![c].pc = CASE task[c].op = "set" -> "list"
                                      [] task[c].op = "remove_edge" -> "evaluate"
                                      [] task[c].op = "add_edge" -> "edges"]
  /\ UNCHANGED <<plan, graph, queries, matching, sent, outputs, disk, hist>>

(* The registered queries are cloned; an edge event concerns the ones with *)
(* an edge pattern.                                                        *)
ListQueries(c) ==
  LET listed == {q \in queries : task[c].op = "set" \/ q.pattern.edge}
  IN  /\ task[c].pc = "list"
      /\ task' = [task EXCEPT ![c].listed = listed, ![c].todo = listed,
                              ![c].pc = IF task[c].op = "remove_edge" THEN "props" ELSE "evaluate"]
      /\ UNCHANGED <<plan, graph, queries, matching, sent, outputs, disk, hist>>

Result(q, n, kind, v) == [query |-> q.id, node |-> n, kind |-> kind, value |-> v]

(* An evaluation that reports no lost match.                               *)
DecideMatchedOnly(q, n, matches, v) ==
  LET pair == <<q.id, n>>
      new == matches /\ pair \notin matching
  IN  /\ matching' = IF new THEN matching \cup {pair} ELSE matching \ (IF matches THEN {} ELSE {pair})
      /\ sent' = IF new THEN Append(sent, Result(q, n, "matched", v)) ELSE sent

(* The end of evaluate: under the lock of the match states, a change of    *)
(* is_matching is recorded and its result broadcast.                       *)
Decide(q, n, matches, v) ==
  LET pair == <<q.id, n>>
      new == matches /\ pair \notin matching
      lost == ~matches /\ pair \in matching
  IN  /\ matching' = IF new THEN matching \cup {pair} ELSE IF lost THEN matching \ {pair} ELSE matching
      /\ sent' = IF new THEN Append(sent, Result(q, n, "matched", v))
                 ELSE IF lost THEN Append(sent, Result(q, n, "unmatched", NoRow)) ELSE sent

EvaluateProperty(c) ==
  /\ task[c].pc = "evaluate"
  /\ \E q \in task[c].todo :
       /\ ~q.pattern.edge
       /\ task' = [task EXCEPT ![c].todo = @ \ {q}]
       /\ Decide(q, task[c].node, Matches(q.pattern, task[c].props, FALSE), task[c].props)
  /\ UNCHANGED <<plan, graph, queries, outputs, disk, hist>>

(* A pattern with an edge: the node's edges are read first.                *)
EvaluateEdge(c) ==
  /\ task[c].pc = "evaluate"
  /\ \E q \in task[c].todo :
       /\ q.pattern.edge
       /\ task' = [task EXCEPT ![c].todo = @ \ {q}, ![c].current = {q},
                               ![c].pc = IF task[c].op = "add_edge" THEN "props" ELSE "edges"]
  /\ UNCHANGED <<plan, graph, queries, matching, sent, outputs, disk, hist>>

(* Edges as they look without a graph reference.                           *)
ReadNoEdges(c) ==
  /\ task[c].pc = "edges"
  /\ task' = [task EXCEPT ![c].edge = FALSE, ![c].pc = "decide"]
  /\ UNCHANGED <<plan, graph, queries, matching, sent, outputs, disk, hist>>

ReadEdges(c) ==
  /\ task[c].pc = "edges"
  /\ task' = [task EXCEPT ![c].edge = edge[task[c].node], ![c].pc = "decide"]
  /\ UNCHANGED <<plan, graph, queries, matching, sent, outputs, disk, hist>>

DecideEdge(c) ==
  /\ task[c].pc = "decide"
  /\ \E q \in task[c].current :
       Decide(q, task[c].node, Matches(q.pattern, task[c].props, task[c].edge), task[c].props)
  /\ To(c, "evaluate")
  /\ UNCHANGED <<plan, graph, queries, outputs, disk, hist>>

(* cleanup_node: the states go, no result is sent.                         *)
CleanupNode(c) ==
  LET gone == {p \in matching : p[2] = task[c].node}
  IN  /\ task[c].pc = "cleanup"
      /\ matching' = matching \ gone
      /\ hist' = [hist EXCEPT !.loose = @ \cup gone]
      /\ To(c, "finish")
      /\ UNCHANGED <<plan, graph, queries, sent, outputs, disk>>

Finish(c) ==
  /\ \/ task[c].pc = "finish"
     \/ task[c].pc = "evaluate" /\ task[c].todo = {}
  /\ task' = [task EXCEPT ![c] = Idle]
  /\ UNCHANGED <<plan, graph, queries, matching, sent, outputs, disk, hist>>

-----------------------------------------------------------------------------
(* register, update, remove, and persist_now at their end.                 *)
Defining(c) == Busy(c) /\ task[c].op \in {"register", "update", "remove"}

DefinitionCall(c, pc) ==
  /\ task' = [task EXCEPT ![c] = [pc |-> pc, op |-> Call(c).op,
                                  id |-> Call(c).query, saved |-> {}]]
  /\ hist' = [hist EXCEPT !.overlapped = \E d \in Client : Defining(d)]

Register(c) ==
  /\ TakeCall(c)
  /\ Call(c).op = "register"
  /\ queries' = queries \cup {[id |-> Call(c).query, pattern |-> Call(c).pattern, version |-> 1]}
  /\ DefinitionCall(c, "collect")
  /\ UNCHANGED <<graph, matching, sent, outputs, disk>>

(* An update that adds the new version beside the old one.                 *)
UpdateAdds(c) ==
  /\ TakeCall(c)
  /\ Call(c).op = "update"
  /\ \E q \in queries : q.id = Call(c).query
  /\ queries' = queries \cup {[q EXCEPT !.pattern = Call(c).pattern, !.version = @ + 1] :
                               q \in {r \in queries : r.id = Call(c).query}}
  /\ DefinitionCall(c, "collect")
  /\ UNCHANGED <<graph, matching, sent, outputs, disk>>

(* update changes the pattern and evaluates nothing; an unknown id returns *)
(* false.                                                                  *)
Update(c) ==
  /\ TakeCall(c)
  /\ Call(c).op = "update"
  /\ \E q \in queries : q.id = Call(c).query
  /\ queries' = {IF q.id = Call(c).query
                 THEN [q EXCEPT !.pattern = Call(c).pattern, !.version = @ + 1] ELSE q : q \in queries}
  /\ DefinitionCall(c, "collect")
  /\ UNCHANGED <<graph, matching, sent, outputs, disk>>

Remove(c) ==
  /\ TakeCall(c)
  /\ Call(c).op = "remove"
  /\ \E q \in queries : q.id = Call(c).query
  /\ queries' = {q \in queries : q.id # Call(c).query}
  /\ DefinitionCall(c, "forget")
  /\ UNCHANGED <<graph, matching, sent, outputs, disk>>

UnknownQuery(c) ==
  /\ TakeCall(c)
  /\ Call(c).op \in {"update", "remove"}
  /\ ~\E q \in queries : q.id = Call(c).query
  /\ UNCHANGED <<graph, queries, matching, task, sent, outputs, disk, hist>>

(* Its match states go, after the definition.                              *)
ForgetStates(c) ==
  LET gone == {p \in matching : p[1] = task[c].id}
  IN  /\ task[c].pc = "forget"
      /\ matching' = matching \ gone
      /\ hist' = [hist EXCEPT !.loose = @ \cup gone]
      /\ To(c, "collect")
      /\ UNCHANGED <<plan, graph, queries, sent, outputs, disk>>

(* A persist that saves what its own call changed, not the registry.       *)
CollectOwn(c) ==
  /\ task[c].pc = "collect"
  /\ task' = [task EXCEPT ![c].pc = "put", ![c].saved = {q \in queries : q.id = task[c].id}]
  /\ UNCHANGED <<plan, graph, queries, matching, sent, outputs, disk, hist>>

(* persist_now clones the definitions, ...                                 *)
CollectQueries(c) ==
  /\ task[c].pc = "collect"
  /\ task' = [task EXCEPT ![c].pc = "put", ![c].saved = queries]
  /\ UNCHANGED <<plan, graph, queries, matching, sent, outputs, disk, hist>>

(* ... then the match states, and writes both under one key.               *)
PersistState(c) ==
  /\ task[c].pc = "put"
  /\ disk' = [queries |-> task[c].saved, matching |-> matching]
  /\ To(c, "finish")
  /\ UNCHANGED <<plan, graph, queries, matching, sent, outputs, hist>>

-----------------------------------------------------------------------------
(* The broadcast channel keeps the last plan.buffer results; a receiver    *)
(* that falls behind is told so and moves on to the oldest one kept.       *)
Lagging(next) == Len(sent) - next > plan.buffer

Pairs == {<<q, n>> : q \in Query, n \in Node}

(* on_sq_result: a mapped query's match is upserted, a lost one deleted.   *)
BridgeResult ==
  LET r == sent[bridge + 1]
  IN  /\ bridge < Len(sent)
      /\ ~Lagging(bridge)
      /\ bridge' = bridge + 1
      /\ view' = IF r.query \notin mapped THEN view
                 ELSE IF r.kind = "matched" THEN UpsertRow(view, SqRow(r.node), r.value)
                 ELSE DeleteRow(view, SqRow(r.node))
      /\ hist' = IF r.query \in mapped THEN hist ELSE [hist EXCEPT !.loose = @ \cup {<<r.query, r.node>>}]
      /\ UNCHANGED <<plan, graph, queries, matching, task, sent, sink, mapped, disk>>

(* A bridge that leaves its loop on a lag.                                 *)
BridgeStops ==
  /\ Lagging(bridge)
  /\ hist' = [hist EXCEPT !.loose = Pairs]
  /\ UNCHANGED <<plan, graph, queries, matching, task, sent, bridge, sink, mapped, view, disk>>

(* The bridge logs a lag and goes on.                                      *)
BridgeLags ==
  /\ Lagging(bridge)
  /\ bridge' = Len(sent) - plan.buffer
  /\ hist' = [hist EXCEPT !.loose = Pairs]
  /\ UNCHANGED <<plan, graph, queries, matching, task, sent, sink, mapped, view, disk>>

(* The sink router's loop: while let Ok(result) = recv().                  *)
RouteResult ==
  /\ sink.running
  /\ sink.next < Len(sent)
  /\ sink' = IF Lagging(sink.next) THEN [sink EXCEPT !.running = FALSE]
             ELSE [sink EXCEPT !.next = @ + 1]
  /\ UNCHANGED <<plan, graph, queries, matching, task, sent, bridge, mapped, view, disk, hist>>

(* The view's source query returns the nodes with a value.                 *)
SourceRows == {n \in Node : value[n] # NoRow}

(* refresh_materialized_view: the source query is run, ...                 *)
QueryView(c) ==
  /\ TakeCall(c)
  /\ Call(c).op = "refresh"
  /\ task' = [task EXCEPT ![c] = [pc |-> "replace", op |-> "refresh", rows |-> value]]
  /\ UNCHANGED <<graph, queries, matching, sent, outputs, disk, hist>>

(* ... and its rows replace all rows, under keys of their own.             *)
ReplaceRows(c) ==
  /\ task[c].pc = "replace"
  /\ view' = ReplaceAll(view, [k \in RowKey |-> IF k[1] = "row" THEN task[c].rows[k[2]] ELSE NoRow])
  /\ hist' = [hist EXCEPT !.loose = Pairs, !.refreshed = TRUE]
  /\ To(c, "finish")
  /\ UNCHANGED <<plan, graph, queries, matching, sent, bridge, sink, mapped, disk>>

(* link_sq_to_mv: the bridge maps the query from now on, ...               *)
LinkQuery(c) ==
  /\ TakeCall(c)
  /\ Call(c).op = "link"
  /\ mapped' = mapped \cup {Call(c).query}
  /\ hist' = [hist EXCEPT !.loose = @ \cup matching]
  /\ task' = [task EXCEPT ![c] = [pc |-> "query", op |-> "link", rows |-> {}]]
  /\ UNCHANGED <<graph, queries, matching, sent, bridge, sink, view, disk>>

(* ... and the rows of the source query are upserted one by one.           *)
RunSourceQuery(c) ==
  /\ task[c].pc = "query"
  /\ task' = [task EXCEPT ![c].pc = "bootstrap", ![c].rows = {value[n] : n \in SourceRows}]
  /\ UNCHANGED <<plan, graph, queries, matching, sent, outputs, disk, hist>>

BootstrapRow(c) ==
  /\ task[c].pc = "bootstrap"
  /\ \/ /\ task[c].rows = {}
        /\ To(c, "finish")
        /\ UNCHANGED view
     \/ \E x \in task[c].rows :
          /\ view' = UpsertRow(view, HashRow(x), x)
          /\ task' = [task EXCEPT ![c].rows = @ \ {x}]
  /\ UNCHANGED <<plan, graph, queries, matching, sent, bridge, sink, mapped, disk, hist>>

(* The process stops and starts again: definitions and match states are    *)
(* restored, the view is loaded, the bridge's mapping is gone.             *)
Restart ==
  /\ plan.restarts > 0
  /\ plan' = [plan EXCEPT !.restarts = @ - 1]
  /\ queries' = disk.queries
  /\ matching' = disk.matching
  /\ task' = [c \in Client |-> Idle]
  /\ sent' = <<>>
  /\ bridge' = 0
  /\ sink' = [next |-> 0, running |-> plan.sinks]
  /\ mapped' = {}
  /\ view' = LoadView(view)
  /\ hist' = [loose |-> Pairs, overlapped |-> FALSE, refreshed |-> FALSE]
  /\ UNCHANGED <<graph, disk>>

-----------------------------------------------------------------------------
Progress(c) ==
  \/ ReadProps(c) \/ ListQueries(c) \/ ReadEdges(c) \/ DecideEdge(c) \/ CleanupNode(c)
  \/ Finish(c) \/ ForgetStates(c) \/ CollectQueries(c) \/ PersistState(c) \/ ReplaceRows(c)
  \/ RunSourceQuery(c) \/ BootstrapRow(c)
  \/ EvaluateProperty(c) \/ EvaluateEdge(c)

Issue(c) ==
  \/ SetProperty(c) \/ RemoveProperty(c) \/ ChangeEdge(c) \/ DeleteNode(c)
  \/ Register(c) \/ Update(c) \/ Remove(c) \/ UnknownQuery(c) \/ QueryView(c) \/ LinkQuery(c)

Bridge == BridgeResult \/ BridgeLags

Next ==
  \/ \E c \in Client : Issue(c) \/ Progress(c)
  \/ Bridge
  \/ RouteResult
  \/ Restart

Spec == Init /\ [][Next]_vars

(* Tasks and the bridge's loop are scheduled.                              *)
FairSpec ==
  /\ Spec
  /\ \A c \in Client : WF_vars(Progress(c))
  /\ WF_vars(Bridge)
  /\ WF_vars(RouteResult)

-----------------------------------------------------------------------------
Calls == GraphOps \cup {"register", "update", "remove", "refresh", "link"}

(* Types of the state; a result names a registered id and a node, the      *)
(* subscribers never run ahead of the channel, and no query is registered  *)
(* twice.                                                                  *)
TypeOK ==
  /\ value \in [Node -> Value \cup {NoRow}] /\ edge \in [Node -> BOOLEAN]
  /\ \A q, r \in queries : q.id = r.id => q = r
  /\ \A q \in queries : q.id \in Query /\ q.version \in Nat \ {0}
  /\ matching \subseteq Pairs /\ mapped \subseteq Query /\ hist.loose \subseteq Pairs
  /\ \A c \in Client : Busy(c) => task[c].op \in Calls
  /\ bridge \in 0..Len(sent) /\ sink.next \in 0..Len(sent)
  /\ view.rows \in [RowKey -> RowValue \cup {NoRow}] /\ view.stored \in [RowKey -> RowValue \cup {NoRow}]

(* The view follows the match states: once the bridge has taken every      *)
(* result, a node has its row exactly when the linked query is in state    *)
(* is_matching for it.  Exempt are pairs that changed behind the bridge's  *)
(* back: cleaned up with a deleted node or a removed query, matched while  *)
(* no mapping existed, lost to a lag, replaced by a refresh, or restored.  *)
ViewFollowsMatches ==
  Linked \in mapped /\ bridge = Len(sent)
    => \A n \in Node : <<Linked, n>> \in hist.loose
                        \/ (SqRow(n) \in Keys(view.rows) <=> <<Linked, n>> \in matching)

(* A view's copies agree: its index lists every row under its value and    *)
(* nothing else, and the store holds the same rows, except after a refresh *)
(* (replace_all stores nothing) until the next restart.                    *)
ViewCopiesAgree ==
  /\ view.index = IndexOf(view.rows)
  /\ hist.refreshed \/ view.stored = view.rows

(* Registered queries survive a restart: between definition calls the      *)
(* store holds exactly the registered definitions, unless the last calls   *)
(* overlapped (persist_now reads and writes without a common lock).        *)
DefinitionsSurvive ==
  (\A c \in Client : ~Defining(c)) /\ ~hist.overlapped => disk.queries = queries

(* A write that overlapped no other call on its node settles the match     *)
(* states: when its callback returns, every query it looked at, unless     *)
(* changed meanwhile, is in state is_matching exactly when its pattern     *)
(* holds for the node's property and edge.                                 *)
Settled(c) ==
  \A q \in task[c].listed \cap queries :
    <<q.id, task[c].node>> \in matching
      <=> Matches(q.pattern, value[task[c].node], edge[task[c].node])

SoloWriteSettlesMatches ==
  [][\A c \in Client :
       Busy(c) /\ task[c].op \in {"set", "add_edge", "remove_edge"} /\ task[c].alone
         /\ Finish(c) => Settled(c)]_vars

(* The bridge gets through the results, a lag included.                    *)
EveryResultBridged == bridge < Len(sent) ~> bridge = Len(sent)
=============================================================================

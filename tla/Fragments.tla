------------------------------ MODULE Fragments ------------------------------
(***************************************************************************)
(* Fragments: the mutation callback sends what a write changed to the      *)
(* sealer, which folds it into a time window; a task seals the window into *)
(* a fragment of the tiered store and runs the store's lifecycle, while    *)
(* readers pull ranges of fragments out of the tiers and replay them as of *)
(* a time.                                                                 *)
(*                                                                         *)
(* A write sets one property of its node or adds one edge to it, and is    *)
(* its own value.  Bodies are immutable, so a fragment is one value: its   *)
(* range and its records.                                                  *)
(***************************************************************************)
EXTENDS Naturals, Sequences, Functions, FiniteSets

CONSTANTS
  Writes,     \* records with id, node and kind ("property" or "edge")
  Node,
  Load,       \* workloads: the writes, the instants read as of, the tiers whose
              \* backend lists nested keys, and how many times the clock moves by
              \* itself, empty windows close, and operations and the process fail
  Value,      \* JSON values of the columns, but null
  MaxRows,    \* rows of a columnar body
  Nothing     \* no property, no write, no value

VARIABLES
  load,       \* what is left of the workload
  clock,      \* microseconds
  stamp,      \* ts_us of each write whose callback has read the clock
  chan,       \* the sealer's channel
  window,     \* FragmentSealer.inner
  task,       \* the seal task
  tiers,      \* TieredStore: the objects of each tier
  registry,   \* FragmentStore.fragments
  reader,     \* one read_range
  hist        \* [order, home, lost]: writes in the order they were recorded,
              \* the start of each one's window, and the ones that are gone

historyVars == <<load, clock, stamp, chan, window, task, tiers, registry, reader, hist>>

Tier == {"hot", "warm", "cold"}
After(t) == IF t = "hot" THEN "warm" ELSE "cold"

-----------------------------------------------------------------------------
(* The sealer's window: for each node written in it the property, the      *)
(* edges and the latest time stamp.                                        *)
NewAccum == [property |-> Nothing, edges |-> <<>>, last |-> 0]

NewWindow(start) == [start |-> start, nodes |-> <<>>]

IsEmpty(w) == DOMAIN w.nodes = {}

Later(a, b) == IF a > b THEN a ELSE b

(* A fault: the stamp of the last event recorded, not the latest.          *)
FoldLastStamp(acc, w, ts) ==
  IF w.kind = "property" THEN [acc EXCEPT !.property = w, !.last = ts]
                         ELSE [acc EXCEPT !.edges = Append(@, w), !.last = ts]

(* The last property stays, edges accumulate.                              *)
Fold(acc, w, ts) ==
  IF w.kind = "property" THEN [acc EXCEPT !.property = w, !.last = Later(@, ts)]
                         ELSE [acc EXCEPT !.edges = Append(@, w), !.last = Later(@, ts)]

(* FragmentSealer::record *)
Record(nodes, w, ts) ==
  LET acc == IF w.node \in DOMAIN nodes THEN nodes[w.node] ELSE NewAccum
  IN  [n \in DOMAIN nodes \cup {w.node} |-> IF n = w.node THEN Fold(acc, w, ts) ELSE nodes[n]]

Fragment(w, end) == [start |-> w.start, end |-> end, records |-> w.nodes]

(* FragmentId::overlaps *)
Overlaps(f, from, to) == f.start < to /\ f.end > from

(* FragmentStore::query_range                                              *)
QueryRange(from, to) == {f \in registry : Overlaps(f, from, to)}

(* The registry's order: that of the starts.                               *)
First(f, fragments) == \A g \in fragments : f.start <= g.start

-----------------------------------------------------------------------------
(* execute_time_travel over the bodies of a range: records stamped after   *)
(* as_of are skipped, the others applied in order.                         *)
Apply(state, rec) ==
  [property |-> IF rec.property = Nothing THEN state.property ELSE rec.property,
   edges |-> state.edges \o rec.edges]

ReplayNode(bodies, as_of, n) ==
  LET Replay[i \in 0 .. Len(bodies)] ==
        IF i = 0 THEN [property |-> Nothing, edges |-> <<>>]
        ELSE LET records == bodies[i].records
             IN  IF n \in DOMAIN records /\ records[n].last <= as_of
                   THEN Apply(Replay[i - 1], records[n]) ELSE Replay[i - 1]
  IN  Replay[Len(bodies)]

-----------------------------------------------------------------------------
(* Columnar bodies: the cells of one property column, a JSON value or      *)
(* Nothing for each row, with the least and the greatest seen.  A value is *)
(* its type and its rank among the values of the type.                     *)
Null == [type |-> "null", rank |-> 0]

(* cmp_json: values of two types are not comparable.                       *)
Compare(a, b) ==
  IF a.type # b.type THEN "none"
  ELSE IF a.rank < b.rank THEN "less" ELSE IF a.rank > b.rank THEN "greater" ELSE "equal"

(* The orders of cell and value under which each operator holds.           *)
Holds ==
  [eq |-> {"equal"}, ne |-> {"less", "greater", "none"}, lt |-> {"less"},
   le |-> {"less", "equal"}, gt |-> {"greater"}, ge |-> {"greater", "equal"}]

(* Predicate::matches *)
Matches(p, cell) == cell # Nothing /\ Compare(cell, p.value) \in Holds[p.op]

NoStats == [min |-> Nothing, max |-> Nothing]

(* ColumnStats::observe *)
Observe(stats, cell) ==
  IF cell = Nothing THEN stats
  ELSE [min |-> IF stats.min = Nothing \/ Compare(cell, stats.min) = "less" THEN cell ELSE stats.min,
        max |-> IF stats.max = Nothing \/ Compare(cell, stats.max) = "greater" THEN cell ELSE stats.max]

(* A value or a bound that is written as null comes back as none.          *)
Decoded(v) == IF v = Null THEN Nothing ELSE v

(* A fault: bounds of another type exclude the body.                       *)
CouldMatchComparable(stats, p) ==
  LET low == Compare(stats.min, p.value)
      high == Compare(stats.max, p.value)
  IN  /\ stats.min # Nothing /\ stats.max # Nothing
      /\ p.op \in {"lt", "le"} => low \in Holds[p.op]
      /\ p.op \in {"gt", "ge"} => high \in Holds[p.op]
      /\ p.op = "eq" => low # "greater" /\ high # "less"
      /\ p.op = "ne" => ~(low = "equal" /\ high = "equal")

(* ColumnStats::could_match: bounds it cannot compare exclude nothing.     *)
CouldMatch(stats, p) ==
  LET low == Compare(stats.min, p.value)
      high == Compare(stats.max, p.value)
  IN  /\ stats.min # Nothing /\ stats.max # Nothing
      /\ p.op \in {"lt", "le"} => low \in Holds[p.op] \cup {"none"}
      /\ p.op \in {"gt", "ge"} => high \in Holds[p.op] \cup {"none"}
      /\ p.op = "eq" => low # "greater" /\ high # "less"
      /\ p.op = "ne" => ~(low = "equal" /\ high = "equal")

(* put_fragment_columnar, then scan_range: the rows that come back.        *)
Scan(cells, p) ==
  LET Stats[i \in 0 .. Len(cells)] == IF i = 0 THEN NoStats ELSE Observe(Stats[i - 1], cells[i])
      stats == Stats[Len(cells)]
      stored == [min |-> Decoded(stats.min), max |-> Decoded(stats.max)]
  IN  {i \in DOMAIN cells : CouldMatch(stored, p) /\ Matches(p, Decoded(cells[i]))}

-----------------------------------------------------------------------------
Idle == [pc |-> "idle"]

(* A read_range: what it asked the registry for, the fragments still to    *)
(* fetch, the tier it is at, what it has, and whether a get has failed.    *)
Read(pc, as_of, want) ==
  [pc |-> pc, as_of |-> as_of, want |-> want, todo |-> want, tier |-> "hot",
   got |-> <<>>, faulty |-> FALSE]

HistoryInit ==
  /\ load \in Load
  /\ clock = 1
  /\ stamp = [w \in Writes |-> 0]
  /\ chan = <<>>
  /\ window = NewWindow(1)
  /\ task = Idle
  /\ tiers = [t \in Tier |-> {}]
  /\ registry = {}
  /\ reader = Read("idle", 0, {})
  /\ hist = [order |-> <<>>, home |-> [w \in Writes |-> 0], lost |-> {}]

MayFail == load.faults > 0
Fault == load' = [load EXCEPT !.faults = @ - 1]

Advance ==
  /\ load.idle > 0
  /\ load' = [load EXCEPT !.idle = @ - 1]
  /\ clock' = clock + 1
  /\ UNCHANGED <<stamp, chan, window, task, tiers, registry, reader, hist>>

(* The mutation callback: it reads the clock,                              *)
Stamp(w) ==
  /\ w \in load.writes /\ stamp[w] = 0
  /\ stamp' = [stamp EXCEPT ![w] = clock]
  /\ UNCHANGED <<load, clock, chan, window, task, tiers, registry, reader, hist>>

(* and sends, without waiting for callbacks of other writes.               *)
Send(w) ==
  /\ w \in load.writes /\ stamp[w] > 0
  /\ chan' = Append(chan, w)
  /\ load' = [load EXCEPT !.writes = @ \ {w}]
  /\ UNCHANGED <<clock, stamp, window, task, tiers, registry, reader, hist>>

(* The drain task: record the next event.                                  *)
Drain ==
  /\ chan # <<>>
  /\ LET w == Head(chan)
     IN  /\ window' = [window EXCEPT !.nodes = Record(@, w, stamp[w])]
         /\ hist' = [hist EXCEPT !.order = Append(@, w), !.home[w] = window.start]
  /\ chan' = Tail(chan)
  /\ UNCHANGED <<load, clock, stamp, task, tiers, registry, reader>>

-----------------------------------------------------------------------------
(* The seal task: after an interval it reads the clock,                    *)
SealTick ==
  /\ task.pc = "idle"
  /\ \/ ~IsEmpty(window) /\ UNCHANGED load
     \/ IsEmpty(window) /\ load.idle > 0 /\ load' = [load EXCEPT !.idle = @ - 1]
  /\ clock' = clock + 1
  /\ task' = [pc |-> "seal", end |-> clock']
  /\ UNCHANGED <<stamp, chan, window, tiers, registry, reader, hist>>

StartLifecycle == [pc |-> "list", from |-> "hot"]

(* A fault: the new window starts where the old one did.                   *)
SwapKeepsStart ==
  /\ task.pc = "seal"
  /\ window' = NewWindow(window.start)
  /\ task' = IF IsEmpty(window) THEN StartLifecycle
             ELSE [pc |-> "put", fragment |-> Fragment(window, task.end)]
  /\ UNCHANGED <<load, clock, stamp, chan, tiers, registry, reader, hist>>

(* seal swaps the window under its lock,                                   *)
Swap ==
  /\ task.pc = "seal"
  /\ window' = NewWindow(task.end)
  /\ task' = IF IsEmpty(window) THEN StartLifecycle
             ELSE [pc |-> "put", fragment |-> Fragment(window, task.end)]
  /\ UNCHANGED <<load, clock, stamp, chan, tiers, registry, reader, hist>>

InHome(f) == {w \in Writes : hist.home[w] = f.start}

(* A fault: the task ends on a failed put.                                 *)
PutFragmentStops ==
  /\ task.pc = "put"
  /\ \/ /\ tiers' = [tiers EXCEPT !.hot = @ \cup {task.fragment}]
        /\ task' = [pc |-> "register", fragment |-> task.fragment]
        /\ UNCHANGED <<load, hist>>
     \/ /\ MayFail /\ Fault
        /\ task' = [pc |-> "stopped"]
        /\ hist' = [hist EXCEPT !.lost = @ \cup InHome(task.fragment)]
        /\ UNCHANGED tiers
  /\ UNCHANGED <<clock, stamp, chan, window, registry, reader>>

(* puts the body on the hot tier, or fails and drops it,                   *)
PutFragment ==
  /\ task.pc = "put"
  /\ \/ /\ tiers' = [tiers EXCEPT !.hot = @ \cup {task.fragment}]
        /\ task' = [pc |-> "register", fragment |-> task.fragment]
        /\ UNCHANGED <<load, hist>>
     \/ /\ MayFail /\ Fault
        /\ task' = StartLifecycle
        /\ hist' = [hist EXCEPT !.lost = @ \cup InHome(task.fragment)]
        /\ UNCHANGED tiers
  /\ UNCHANGED <<clock, stamp, chan, window, registry, reader>>

(* and registers it.                                                       *)
RegisterFragment ==
  /\ task.pc = "register"
  /\ registry' = registry \cup {task.fragment}
  /\ task' = StartLifecycle
  /\ UNCHANGED <<load, clock, stamp, chan, window, tiers, reader, hist>>

(* run_lifecycle: the next rule lists its source tier (a backend that does *)
(* not list nested keys, or an error, gives it nothing to move),           *)
NextRule(from) == IF from = "hot" THEN [pc |-> "list", from |-> "warm"] ELSE Idle

ListTier ==
  /\ task.pc = "list"
  /\ \/ /\ task' = IF task.from \in load.lists
                   THEN [pc |-> "move", from |-> task.from, objects |-> tiers[task.from]]
                   ELSE NextRule(task.from)
        /\ UNCHANGED load
     \/ task.from \in load.lists /\ MayFail /\ Fault /\ task' = NextRule(task.from)
  /\ UNCHANGED <<clock, stamp, chan, window, tiers, registry, reader, hist>>

(* A fault: the source is deleted although the put failed.                 *)
MoveObjectUnchecked ==
  /\ task.pc = "move" /\ task.objects # {}
  /\ \E f \in task.objects :
       /\ \/ tiers' = [tiers EXCEPT ![After(task.from)] = @ \cup {f}]
          \/ UNCHANGED tiers
       /\ task' = [pc |-> "delete", from |-> task.from, objects |-> task.objects, object |-> f]
  /\ UNCHANGED <<load, clock, stamp, chan, window, registry, reader, hist>>

(* reads an aged object and puts it on the target tier, or leaves it where *)
(* it is (too young, or an error),                                         *)
MoveObject ==
  /\ task.pc = "move" /\ task.objects # {}
  /\ \E f \in task.objects :
       \/ /\ tiers' = [tiers EXCEPT ![After(task.from)] = @ \cup {f}]
          /\ task' = [pc |-> "delete", from |-> task.from, objects |-> task.objects, object |-> f]
       \/ /\ task' = [pc |-> "move", from |-> task.from, objects |-> task.objects \ {f}]
          /\ UNCHANGED tiers
  /\ UNCHANGED <<load, clock, stamp, chan, window, registry, reader, hist>>

(* and deletes it from its source; an error is ignored.                    *)
DeleteSource ==
  /\ task.pc = "delete"
  /\ task' = [pc |-> "move", from |-> task.from, objects |-> task.objects \ {task.object}]
  /\ \/ tiers' = [tiers EXCEPT ![task.from] = @ \ {task.object}] /\ UNCHANGED load
     \/ MayFail /\ Fault /\ UNCHANGED tiers
  /\ UNCHANGED <<clock, stamp, chan, window, registry, reader, hist>>

RuleDone ==
  /\ task.pc = "move" /\ task.objects = {}
  /\ task' = NextRule(task.from)
  /\ UNCHANGED <<load, clock, stamp, chan, window, tiers, registry, reader, hist>>

-----------------------------------------------------------------------------
(* read_range asks the registry,                                           *)
StartRead(as_of) ==
  /\ reader.pc = "idle" /\ as_of \in load.reads
  /\ reader' = Read("get", as_of, QueryRange(0, as_of))
  /\ UNCHANGED <<load, clock, stamp, chan, window, task, tiers, registry, hist>>

(* where a get goes on when a tier has not given it the object: to the     *)
(* next tier, and after the cold one it fails, and the read with it.       *)
Miss == IF reader.tier = "cold" THEN [reader EXCEPT !.pc = "failed"]
                                ELSE [reader EXCEPT !.tier = After(@)]

(* and gets each body from the first tier that has it.                     *)
GetFragment ==
  /\ reader.pc = "get"
  /\ \E f \in reader.todo :
       /\ First(f, reader.todo)
       /\ \/ /\ f \in tiers[reader.tier]
             /\ reader' = [reader EXCEPT !.todo = @ \ {f}, !.got = Append(@, f), !.tier = "hot"]
             /\ UNCHANGED load
          \/ f \notin tiers[reader.tier] /\ reader' = Miss /\ UNCHANGED load
          \/ MayFail /\ Fault /\ reader' = [Miss EXCEPT !.faulty = TRUE]
  /\ UNCHANGED <<clock, stamp, chan, window, task, tiers, registry, hist>>

FinishRead ==
  /\ reader.pc = "get" /\ reader.todo = {}
  /\ reader' = [reader EXCEPT !.pc = "done"]
  /\ UNCHANGED <<load, clock, stamp, chan, window, task, tiers, registry, hist>>

Stamped == {w \in Writes : stamp[w] > 0}

(* A restart: the objects stay, the registry was in memory.                *)
RestartHistory ==
  /\ load.crashes > 0
  /\ load' = [load EXCEPT !.crashes = @ - 1, !.writes = @ \ Stamped]
  /\ clock' = clock + 1
  /\ chan' = <<>>
  /\ window' = NewWindow(clock')
  /\ task' = Idle
  /\ registry' = {}
  /\ reader' = Read("idle", 0, {})
  /\ hist' = [hist EXCEPT !.lost = Stamped]
  /\ UNCHANGED <<stamp, tiers>>

SealTask ==
  \/ SealTick \/ Swap \/ PutFragment \/ RegisterFragment
  \/ ListTier \/ MoveObject \/ DeleteSource \/ RuleDone

ReadStep == GetFragment \/ FinishRead

HistoryNext ==
  \/ Advance \/ Drain \/ SealTask \/ ReadStep \/ RestartHistory
  \/ \E w \in Writes : Stamp(w) \/ Send(w)
  \/ \E as_of \in load.reads : StartRead(as_of)

Fairness == WF_historyVars(Drain) /\ WF_historyVars(SealTask) /\ WF_historyVars(ReadStep)

HistorySpec == HistoryInit /\ [][HistoryNext]_historyVars /\ Fairness

-----------------------------------------------------------------------------
Sent == Stamped \ load.writes
Recorded == {w \in Writes : hist.home[w] > 0}

Starts(fragments) == {f.start : f \in fragments}
InSeal == IF task.pc \in {"put", "register"} THEN {task.fragment} ELSE {}

HistoryTypeOK ==
  /\ load.writes \subseteq Writes
  /\ Range(chan) \subseteq Sent
  /\ DOMAIN tiers = Tier
  /\ reader.pc \in {"idle", "get", "done", "failed"}

(* Nothing the callback sent disappears but in a failed put or a restart:  *)
(* it is in the channel, the window, the seal under way or a fragment.     *)
NothingForgotten ==
  Sent = Range(chan) \cup hist.lost
           \cup {w \in Recorded : hist.home[w] \in {window.start} \cup Starts(InSeal \cup registry)}

InOrder(fragments) ==
  [i \in 1 .. Cardinality(fragments) |->
     CHOOSE f \in fragments : Cardinality({g \in fragments : g.start <= f.start}) = i]

(* Replaying every registered fragment in order gives what the writes in   *)
(* them did, in the order the sealer saw them.                             *)
SealedReplays ==
  \A n \in Node :
    LET sealed == SelectSeq(hist.order, LAMBDA w : w.node = n /\ hist.home[w] \in Starts(registry))
        sets == SelectSeq(sealed, LAMBDA w : w.kind = "property")
    IN  ReplayNode(InOrder(registry), clock, n) =
          [property |-> IF sets = <<>> THEN Nothing ELSE sets[Len(sets)],
           edges |-> SelectSeq(sealed, LAMBDA w : w.kind = "edge")]

(* A range read that overlaps migrations still finds every body the        *)
(* registry named when it started; it fails only if a get has failed.      *)
ReadsWhole ==
  /\ reader.pc = "done" => Range(reader.got) = reader.want
  /\ reader.pc = "failed" => reader.faulty

(* What a read replays as of a time holds no write stamped later.          *)
NothingFromLater ==
  reader.pc = "done" =>
    \A n \in Node :
      LET state == ReplayNode(reader.got, reader.as_of, n)
      IN  \A w \in ({state.property} \ {Nothing}) \cup Range(state.edges) :
            stamp[w] <= reader.as_of

Predicates == [op : DOMAIN Holds, value : Value]

(* A scan returns the rows that match, its pruning by the column's bounds  *)
(* included, unless the column's first value is an explicit null; for `ne` *)
(* also its values must be of one type.                                    *)
ScansExact ==
  \A len \in 1 .. MaxRows :
    \A cells \in [1 .. len -> Value \cup {Null, Nothing}], p \in Predicates :
      LET present == SelectSeq(cells, LAMBDA c : c # Nothing)
          types == {c.type : c \in Range(present)}
      IN  /\ present # <<>> => Head(present) # Null
          /\ p.op = "ne" => Cardinality(types) <= 1
          => Scan(cells, p) = {i \in 1 .. len : Matches(p, cells[i])}

HistoryExact ==
  HistoryTypeOK /\ NothingForgotten /\ SealedReplays /\ ReadsWhole /\ NothingFromLater

(* Writes that the callback sent and that are neither sealed in a          *)
(* registered fragment nor lost.                                           *)
Unsealed == {w \in Sent \ hist.lost : hist.home[w] \notin Starts(registry)}
=============================================================================

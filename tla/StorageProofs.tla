---------------------------- MODULE StorageProofs ----------------------------
(***************************************************************************)
(* Proofs about what a node keeps on disk.                                 *)
(*                                                                         *)
(* The sealed history: fragments never overlap, a range read finds every   *)
(* body in spite of the migrations it overlaps, and every write that was   *)
(* sent is accounted for.                                                  *)
(*                                                                         *)
(* The replication log: the type invariant; that the store never           *)
(* contradicts memory, whatever fails; and, while puts succeed, that no    *)
(* seq is handed out for two writes, that the store rebuilds the log in    *)
(* memory, and that deltas are exact.                                      *)
(***************************************************************************)
EXTENDS Fragments, ReplicationLog, FiniteSetTheorems, TLAPS

-----------------------------------------------------------------------------
(* Clock and windows: every sealed fragment lies before the open window,   *)
(* and the one being sealed after the registered ones.                     *)
Before(f, start) == f.start \in Nat /\ f.end \in Nat /\ f.start < f.end /\ f.end <= start

Disjoint(fragments) ==
  \A f, g \in fragments : f = g \/ f.end <= g.start \/ g.end <= f.start

Ranges ==
  /\ clock \in Nat /\ window.start \in Nat
  /\ window.start <= clock
  /\ task.pc = "seal" => task.end \in Nat /\ window.start < task.end /\ task.end <= clock
  /\ \A f \in registry : Before(f, window.start)
  /\ Disjoint(registry)
  /\ task.pc \in {"put", "register"} =>
       Before(task.fragment, window.start) /\ \A f \in registry : Before(f, task.fragment.start)

(* Every registered body is in some tier, the one in migration in its      *)
(* target already.                                                         *)
OnSomeTier == tiers["hot"] \cup tiers["warm"] \cup tiers["cold"]

Stored ==
  /\ DOMAIN tiers = Tier
  /\ registry \subseteq OnSomeTier
  /\ task.pc = "register" => task.fragment \in tiers["hot"]
  /\ task.pc \in {"list", "move", "delete"} => task.from \in {"hot", "warm"}
  /\ task.pc = "delete" => task.object \in tiers[After(task.from)]

(* The reader still has what it has not got; the fragment it is at is      *)
(* below the tiers it has tried, unless a get has failed.                  *)
Below(f, tier) ==
  /\ tier = "warm" => f \in tiers["warm"] \cup tiers["cold"]
  /\ tier = "cold" => f \in tiers["cold"]

Reading ==
  /\ DOMAIN reader = {"pc", "as_of", "want", "todo", "tier", "got", "faulty"}
  /\ reader.got \in Seq(registry)
  /\ reader.tier \in Tier
  /\ reader.todo \subseteq registry
  /\ reader.want = Range(reader.got) \cup reader.todo
  /\ reader.pc = "get" => reader.faulty \/ \A f \in reader.todo : First(f, reader.todo) => Below(f, reader.tier)
  /\ reader.pc = "done" => reader.todo = {}
  /\ reader.pc = "failed" => reader.faulty

Inv == DOMAIN window = {"start", "nodes"} /\ Ranges /\ Stored /\ Reading

-----------------------------------------------------------------------------
(* Range of Append: one more value got by the reader.                      *)
LEMMA RangeAppend ==
  ASSUME NEW S, NEW s \in Seq(S), NEW x \in S
  PROVE  Range(Append(s, x)) = Range(s) \cup {x} /\ Append(s, x) \in Seq(S)
<1> DEFINE t == Append(s, x)
<1>1. /\ t \in Seq(S) /\ DOMAIN s = 1 .. Len(s) /\ DOMAIN t = 1 .. Len(s) + 1 /\ Len(s) \in Nat
      /\ \A i \in 1 .. Len(s) : t[i] = s[i]
      /\ t[Len(s) + 1] = x
  OBVIOUS
<1> HIDE DEF t
<1>2. \A i \in DOMAIN t : i \in DOMAIN s \/ i = Len(s) + 1  BY <1>1
<1>3. Range(t) \subseteq Range(s) \cup {x}  BY <1>1, <1>2 DEF Range
<1>4. Range(s) \subseteq Range(t)  BY <1>1 DEF Range
<1>5. x \in Range(t)  BY <1>1 DEF Range
<1> QED  BY <1>1, <1>3, <1>4, <1>5 DEF t

(* Non-empty fragments before one another start apart.                     *)
LEMMA FirstUnique ==
  ASSUME Inv, NEW f \in reader.todo, NEW g \in reader.todo,
         First(f, reader.todo), First(g, reader.todo)
  PROVE  f = g
<1>1. f \in registry /\ g \in registry  BY DEF Inv, Reading
<1>2. Before(f, window.start) /\ Before(g, window.start)  BY <1>1 DEF Inv, Ranges
<1>3. f = g \/ f.end <= g.start \/ g.end <= f.start  BY <1>1 DEF Inv, Ranges, Disjoint
<1>4. f.start <= g.start /\ g.start <= f.start  BY DEF First
<1> QED  BY <1>2, <1>3, <1>4 DEF Before

(* The initial state: one empty window, no fragment.                       *)
LEMMA InitInv == HistoryInit => Inv
<1> SUFFICES ASSUME HistoryInit PROVE Inv  OBVIOUS
<1>1. Ranges  BY DEF HistoryInit, Ranges, NewWindow, Idle, Disjoint
<1>2. Stored  BY DEF HistoryInit, Stored, Idle, Tier
<1>3. Reading  BY DEF HistoryInit, Reading, Read, Tier, Range
<1> QED  BY <1>1, <1>2, <1>3 DEF Inv, HistoryInit, NewWindow

-----------------------------------------------------------------------------
(* A step that leaves the tiers, the registry, the task and the reader     *)
(* alone.                                                                  *)
LEMMA Frame ==
  ASSUME Inv, UNCHANGED <<tiers, registry, reader>>
  PROVE  Reading'
BY DEF Inv, Reading, Below, First, Range, Tier

(* The callbacks, the drain task and the clock.                            *)
LEMMA WriterSteps ==
  ASSUME Inv, Advance \/ Drain \/ \E w \in Writes : Stamp(w) \/ Send(w)
  PROVE  Inv'
<1>1. UNCHANGED <<task, tiers, registry, reader>>  BY DEF Advance, Drain, Stamp, Send
<1>2. DOMAIN window' = {"start", "nodes"} /\ window'.start = window.start
  BY DEF Inv, Advance, Drain, Stamp, Send
<1>3. clock' = clock \/ clock' = clock + 1  BY DEF Advance, Drain, Stamp, Send
<1>4. Ranges'  BY <1>1, <1>2, <1>3 DEF Inv, Ranges, Before, Disjoint
<1>5. Stored'  BY <1>1 DEF Inv, Stored, OnSomeTier
<1>6. Reading'  BY <1>1, Frame
<1> QED  BY <1>2, <1>4, <1>5, <1>6 DEF Inv

(* The seal: the swap takes the window whole, and only a body in the hot   *)
(* tier is registered.                                                     *)
LEMMA SealSteps ==
  ASSUME Inv, SealTick \/ Swap \/ PutFragment \/ RegisterFragment
  PROVE  Inv'
<1>1. CASE SealTick
  <2>1. UNCHANGED <<window, tiers, registry, reader>> /\ clock' = clock + 1
        /\ task' = [pc |-> "seal", end |-> clock']
    BY <1>1 DEF SealTick
  <2>2. Ranges'  BY <2>1 DEF Inv, Ranges, Before, Disjoint
  <2>3. Stored'  BY <2>1 DEF Inv, Stored, OnSomeTier
  <2> QED  BY <2>1, <2>2, <2>3, Frame DEF Inv
<1>2. CASE Swap
  <2>1. UNCHANGED <<clock, tiers, registry, reader>> /\ window' = NewWindow(task.end)
        /\ task.pc = "seal"
        /\ \/ task' = [pc |-> "list", from |-> "hot"]
           \/ task' = [pc |-> "put", fragment |-> Fragment(window, task.end)]
    BY <1>2 DEF Swap, StartLifecycle
  <2>2. window'.start = task.end /\ DOMAIN window' = {"start", "nodes"}
    BY <2>1 DEF NewWindow
  <2>3. Fragment(window, task.end).start = window.start /\ Fragment(window, task.end).end = task.end
    BY DEF Fragment
  <2>4. Ranges'
    <3>1. \A f \in registry : Before(f, task.end)  BY <2>1 DEF Inv, Ranges, Before
    <3>2. Before(Fragment(window, task.end), task.end)  BY <2>1, <2>3 DEF Inv, Ranges, Before
    <3>3. \A f \in registry : Before(f, Fragment(window, task.end).start)
      BY <2>3 DEF Inv, Ranges
    <3> HIDE DEF Fragment
    <3> QED  BY <2>1, <2>2, <3>1, <3>2, <3>3 DEF Inv, Ranges, Before, Disjoint
  <2>5. Stored'  BY <2>1 DEF Inv, Stored, OnSomeTier
  <2> QED  BY <2>1, <2>2, <2>4, <2>5, Frame DEF Inv
<1>3. CASE PutFragment
  <2>1. UNCHANGED <<clock, window, registry, reader>> /\ task.pc = "put"
    BY <1>3 DEF PutFragment
  <2>2. \/ /\ tiers' = [tiers EXCEPT !.hot = @ \cup {task.fragment}]
           /\ task' = [pc |-> "register", fragment |-> task.fragment]
        \/ tiers' = tiers /\ task' = [pc |-> "list", from |-> "hot"]
    BY <1>3 DEF PutFragment, StartLifecycle
  <2>3. /\ DOMAIN tiers' = Tier /\ tiers["hot"] \subseteq tiers'["hot"]
        /\ tiers'["warm"] = tiers["warm"] /\ tiers'["cold"] = tiers["cold"]
    BY <2>2 DEF Inv, Stored, Tier
  <2>4. Ranges'  BY <2>1, <2>2 DEF Inv, Ranges, Before, Disjoint
  <2>5. Stored'
    <3>1. registry' \subseteq OnSomeTier'  BY <2>1, <2>3 DEF Inv, Stored, OnSomeTier
    <3>2. task'.pc = "register" => task'.fragment \in tiers'["hot"]
      BY <2>2 DEF Inv, Stored, Tier
    <3> QED  BY <2>2, <2>3, <3>1, <3>2 DEF Stored
  <2>6. Reading'  BY <2>1, <2>3 DEF Inv, Reading, Below, First, Range, Tier
  <2> QED  BY <2>1, <2>4, <2>5, <2>6 DEF Inv
<1>4. CASE RegisterFragment
  <2>1. UNCHANGED <<clock, window, tiers, reader>> /\ task.pc = "register"
        /\ registry' = registry \cup {task.fragment} /\ task' = [pc |-> "list", from |-> "hot"]
    BY <1>4 DEF RegisterFragment, StartLifecycle
  <2>2. Ranges'
    <3>1. Before(task.fragment, window.start)
          /\ \A f \in registry : Before(f, task.fragment.start)
      BY <2>1 DEF Inv, Ranges
    <3>2. \A f \in registry' : Before(f, window.start)  BY <2>1, <3>1 DEF Inv, Ranges
    <3>3. Disjoint(registry')  BY <2>1, <3>1 DEF Inv, Ranges, Disjoint, Before
    <3> QED  BY <2>1, <3>2, <3>3 DEF Inv, Ranges, Before, Disjoint
  <2>3. Stored'  BY <2>1 DEF Inv, Stored, OnSomeTier
  <2>4. reader.got \in Seq(registry')
    BY <2>1 DEF Inv, Reading
  <2>5. Reading'  BY <2>1, <2>4 DEF Inv, Reading, Below, First, Range, Tier
  <2> QED  BY <2>1, <2>2, <2>3, <2>5 DEF Inv
<1> QED  BY <1>1, <1>2, <1>3, <1>4

(* The lifecycle: an object is in its target before it leaves its source.  *)
LEMMA LifecycleSteps ==
  ASSUME Inv, ListTier \/ MoveObject \/ DeleteSource \/ RuleDone
  PROVE  Inv'
<1>1. UNCHANGED <<clock, window, registry, reader>>
      /\ task.pc \in {"list", "move", "delete"} /\ task.from \in {"hot", "warm"}
  BY DEF ListTier, MoveObject, DeleteSource, RuleDone, Inv, Stored
<1>2. task'.pc \in {"list", "move", "delete", "idle"}
      /\ (task'.pc # "idle" => task'.from \in {"hot", "warm"})
  BY <1>1 DEF ListTier, MoveObject, DeleteSource, RuleDone, NextRule, Idle
<1>3. Ranges'  BY <1>1, <1>2 DEF Inv, Ranges, Before, Disjoint
<1>4. Stored' /\ Reading'
  <2>1. CASE ListTier \/ RuleDone
    <3>1. tiers' = tiers /\ task'.pc # "delete"
      BY <2>1 DEF ListTier, RuleDone, NextRule, Idle
    <3> QED  BY <1>1, <1>2, <3>1, Frame DEF Inv, Stored, OnSomeTier
  <2>2. CASE MoveObject
    <3>1. PICK f \in task.objects :
            \/ /\ tiers' = [tiers EXCEPT ![After(task.from)] = @ \cup {f}]
               /\ task' = [pc |-> "delete", from |-> task.from, objects |-> task.objects, object |-> f]
            \/ tiers' = tiers /\ task'.pc = "move"
      BY <2>2 DEF MoveObject
    <3>2. CASE tiers' = tiers /\ task'.pc = "move"
      BY <1>1, <1>2, <3>2, Frame DEF Inv, Stored, OnSomeTier
    <3>3. CASE /\ tiers' = [tiers EXCEPT ![After(task.from)] = @ \cup {f}]
               /\ task' = [pc |-> "delete", from |-> task.from, objects |-> task.objects, object |-> f]
      <4>1. /\ DOMAIN tiers' = Tier
            /\ \A t \in Tier : tiers[t] \subseteq tiers'[t]
            /\ f \in tiers'[After(task.from)]
        BY <1>1, <3>3 DEF Inv, Stored, Tier, After
      <4>2. Stored'  BY <1>1, <1>2, <3>3, <4>1 DEF Inv, Stored, OnSomeTier, Tier
      <4>3. Reading'  BY <1>1, <4>1 DEF Inv, Reading, Below, First, Range, Tier
      <4> QED  BY <4>2, <4>3
    <3> QED  BY <3>1, <3>2, <3>3
  <2>3. CASE DeleteSource
    <3>1. task.pc = "delete" /\ task'.pc = "move"
          /\ (tiers' = tiers \/ tiers' = [tiers EXCEPT ![task.from] = @ \ {task.object}])
      BY <2>3 DEF DeleteSource
    <3>2. task.object \in tiers[After(task.from)]  BY <3>1 DEF Inv, Stored, OnSomeTier
    <3>3. CASE tiers' = tiers
      BY <1>1, <1>2, <3>1, <3>3, Frame DEF Inv, Stored, OnSomeTier
    <3>4. CASE tiers' = [tiers EXCEPT ![task.from] = @ \ {task.object}]
      <4>1. /\ DOMAIN tiers' = Tier /\ tiers'["cold"] = tiers["cold"]
            /\ \A f : f \in tiers["hot"] => f \in tiers'["hot"] \cup tiers'["warm"]
            /\ \A f : f \in tiers["warm"] => f \in tiers'["warm"] \cup tiers'["cold"]
        BY <1>1, <3>2, <3>4 DEF Inv, Stored, Tier, After
      <4>2. Stored'  BY <1>1, <1>2, <3>1, <4>1 DEF Inv, Stored, OnSomeTier
      <4>3. Reading'  BY <1>1, <4>1 DEF Inv, Reading, Below, First, Range, Tier
      <4> QED  BY <4>2, <4>3
    <3> QED  BY <3>1, <3>3, <3>4
  <2> QED  BY <2>1, <2>2, <2>3
<1> QED  BY <1>1, <1>3, <1>4 DEF Inv

(* The reader: what it has not found above is below, for a body is put     *)
(* into the next tier before it leaves one.                                *)
LEMMA ReadSteps ==
  ASSUME Inv, (\E as_of \in load.reads : StartRead(as_of)) \/ ReadStep
  PROVE  Inv'
<1>1. UNCHANGED <<clock, window, task, tiers, registry>>
  BY Zenon DEF StartRead, ReadStep, GetFragment, FinishRead
<1>2. Ranges' /\ Stored' /\ DOMAIN window' = {"start", "nodes"}
  BY <1>1 DEF Inv, Ranges, Stored, OnSomeTier, Before, Disjoint
<1>3. ASSUME NEW as_of \in load.reads, StartRead(as_of) PROVE Reading'
  <2>1. reader' = Read("get", as_of, QueryRange(0, as_of))  BY <1>3 DEF StartRead
  <2>2. QueryRange(0, as_of) \subseteq registry  BY DEF QueryRange
  <2> HIDE DEF QueryRange
  <2>3. <<>> \in Seq(registry) /\ Range(<<>>) = {}  BY DEF Range
  <2> QED  BY <1>1, <2>1, <2>2, <2>3 DEF Reading, Read, Below, First, Tier
<1>4. ASSUME GetFragment PROVE Reading'
  <2>1. PICK f \in reader.todo :
          /\ First(f, reader.todo)
          /\ \/ /\ f \in tiers[reader.tier]
                /\ reader' = [reader EXCEPT !.todo = @ \ {f}, !.got = Append(@, f), !.tier = "hot"]
             \/ f \notin tiers[reader.tier] /\ reader' = Miss
             \/ reader' = [Miss EXCEPT !.faulty = TRUE]
    BY <1>4, Zenon DEF GetFragment
  <2>2. reader.pc = "get" /\ f \in registry  BY <1>4 DEF GetFragment, Inv, Reading
  <2>3. CASE reader' = [reader EXCEPT !.todo = @ \ {f}, !.got = Append(@, f), !.tier = "hot"]
    <3>1. /\ DOMAIN reader' = DOMAIN reader /\ reader'.pc = "get" /\ reader'.tier = "hot"
          /\ reader'.todo = reader.todo \ {f} /\ reader'.got = Append(reader.got, f)
          /\ reader'.want = reader.want /\ reader'.faulty = reader.faulty
      BY <2>2, <2>3 DEF Inv, Reading
    <3>2. Range(reader'.got) = Range(reader.got) \cup {f} /\ reader'.got \in Seq(registry)
      BY <2>2, <3>1, RangeAppend DEF Inv, Reading
    <3>3. reader'.want = Range(reader'.got) \cup reader'.todo  BY <3>1, <3>2 DEF Inv, Reading
    <3>4. (\A g \in reader.todo : First(g, reader.todo) => Below(g, reader.tier))'
      BY <3>1 DEF Below
    <3> QED  BY <1>1, <3>1, <3>2, <3>3, <3>4, Zenon DEF Inv, Reading, Tier
  <2>4. CASE f \notin tiers[reader.tier] /\ reader' = Miss
    <3>1. \A g \in reader.todo : First(g, reader.todo) => g = f  BY <2>1, FirstUnique
    <3>2. /\ DOMAIN reader' = DOMAIN reader /\ reader'.todo = reader.todo /\ reader'.got = reader.got
          /\ reader'.want = reader.want /\ reader'.faulty = reader.faulty
          /\ \/ reader.tier = "cold" /\ reader'.pc = "failed" /\ reader'.tier = "cold"
             \/ reader.tier = "hot" /\ reader'.pc = "get" /\ reader'.tier = "warm"
             \/ reader.tier = "warm" /\ reader'.pc = "get" /\ reader'.tier = "cold"
      BY <2>2, <2>4 DEF Inv, Reading, Miss, After, Tier
    <3>3. f \in OnSomeTier  BY <2>2 DEF Inv, Stored
    <3>4. reader.faulty \/ Below(f, reader.tier)  BY <2>1, <2>2 DEF Inv, Reading
    <3>5. reader'.pc = "failed" => reader'.faulty
      BY <2>4, <3>2, <3>4 DEF Below
    <3>6. reader'.pc = "get" => reader'.faulty \/ Below(f, reader'.tier)
      BY <2>4, <3>2, <3>3, <3>4 DEF Below, OnSomeTier
    <3>7. (\A g \in reader.todo : First(g, reader.todo) => Below(g, reader.tier))'
          \/ reader'.faulty \/ reader'.pc # "get"
      BY <1>1, <3>1, <3>2, <3>6 DEF Below, First
    <3>8. reader'.want = Range(reader'.got) \cup reader'.todo  BY <3>2 DEF Inv, Reading
    <3> QED  BY <1>1, <3>2, <3>5, <3>7, <3>8 DEF Inv, Reading, Tier
  <2>5. CASE reader' = [Miss EXCEPT !.faulty = TRUE]
    <3>1. /\ DOMAIN reader' = DOMAIN reader /\ reader'.todo = reader.todo /\ reader'.got = reader.got
          /\ reader'.want = reader.want /\ reader'.faulty = TRUE /\ reader'.tier \in Tier
          /\ reader'.pc \in {"failed", "get"}
      BY <2>2, <2>5 DEF Inv, Reading, Miss, After, Tier
    <3>2. reader'.want = Range(reader'.got) \cup reader'.todo  BY <3>1 DEF Inv, Reading
    <3> QED  BY <1>1, <3>1, <3>2 DEF Inv, Reading
  <2> QED  BY <2>1, <2>3, <2>4, <2>5
<1>5. ASSUME FinishRead PROVE Reading'
  <2>1. reader' = [reader EXCEPT !.pc = "done"] /\ reader.todo = {} /\ reader.pc = "get"
    BY <1>5 DEF FinishRead
  <2>2. /\ DOMAIN reader' = DOMAIN reader /\ reader'.todo = {} /\ reader'.got = reader.got
        /\ reader'.want = reader.want /\ reader'.tier = reader.tier /\ reader'.pc = "done"
    BY <2>1 DEF Inv, Reading
  <2>3. reader'.want = Range(reader'.got) \cup reader'.todo  BY <2>1, <2>2 DEF Inv, Reading
  <2> QED  BY <1>1, <2>1, <2>2, <2>3 DEF Inv, Reading
<1> QED  BY <1>2, <1>3, <1>4, <1>5 DEF Inv, ReadStep

(* A restart forgets the registry, the window and the reads.               *)
LEMMA RestartStep ==
  ASSUME Inv, RestartHistory
  PROVE  Inv'
<1>1. /\ clock' = clock + 1 /\ window' = NewWindow(clock') /\ task' = [pc |-> "idle"]
      /\ registry' = {} /\ reader' = Read("idle", 0, {}) /\ tiers' = tiers
  BY DEF RestartHistory, Idle
<1>2. Ranges'  BY <1>1 DEF Inv, Ranges, NewWindow, Disjoint
<1>3. Stored'  BY <1>1 DEF Inv, Stored, OnSomeTier
<1>4. Reading'  BY <1>1 DEF Reading, Read, Tier, Range
<1> QED  BY <1>1, <1>2, <1>3, <1>4 DEF Inv, NewWindow

(* Every step preserves the invariant.                                     *)
LEMMA NextInv == Inv /\ [HistoryNext]_historyVars => Inv'
<1> SUFFICES ASSUME Inv, [HistoryNext]_historyVars PROVE Inv'  OBVIOUS
<1>1. CASE UNCHANGED historyVars
  BY <1>1, Frame DEF historyVars, Inv, Ranges, Stored, OnSomeTier, Before, Disjoint
<1>2. CASE HistoryNext
  BY <1>2, WriterSteps, SealSteps, LifecycleSteps, ReadSteps, RestartStep DEF HistoryNext, SealTask
<1> QED  BY <1>1, <1>2

-----------------------------------------------------------------------------
(* A range read returns every body the registry named when it started,     *)
(* wherever migrations have moved it meanwhile, and fails only if a get of *)
(* a backend failed: for any writes, nodes, workloads and faults.          *)
THEOREM RangeReadsWhole == HistorySpec => []ReadsWhole
<1>1. Inv => ReadsWhole  BY DEF Inv, Reading, ReadsWhole
<1> QED  BY <1>1, InitInv, NextInv, PTL DEF HistorySpec

(* The fragments that FragmentSealer::seal registers cover disjoint        *)
(* windows, whatever a seal overlaps.                                      *)
THEOREM SealedWindowsDisjoint == HistorySpec => []Disjoint(registry)
<1>1. Inv => Disjoint(registry)  BY DEF Inv, Ranges
<1> QED  BY <1>1, InitInv, NextInv, PTL DEF HistorySpec

-----------------------------------------------------------------------------
(* What a workload is made of.                                             *)
LoadShape ==
  \A l \in Load : DOMAIN l = {"writes", "reads", "lists", "idle", "faults", "crashes"}

(* Every recorded write was sent, its window is not later than the open    *)
(* one, and the open window is not empty if it holds one.                  *)
Accounted ==
  /\ DOMAIN load = {"writes", "reads", "lists", "idle", "faults", "crashes"}
  /\ DOMAIN hist = {"order", "home", "lost"}
  /\ chan \in Seq(Writes)
  /\ stamp \in [Writes -> Nat] /\ hist.home \in [Writes -> Nat]
  /\ window.start > 0 /\ \A f \in InSeal : f.start > 0
  /\ Recorded \subseteq Sent
  /\ \A w \in Recorded : hist.home[w] <= window.start
  /\ \A w \in Recorded : hist.home[w] = window.start => ~IsEmpty(window)
  /\ NothingForgotten

(* The head of the channel and the rest.                                   *)
LEMMA RangeTail ==
  ASSUME NEW S, NEW s \in Seq(S), s # <<>>
  PROVE  Range(s) = {Head(s)} \cup Range(Tail(s)) /\ Head(s) \in S /\ Tail(s) \in Seq(S)
<1> DEFINE t == Tail(s)
<1>1. /\ Len(s) \in Nat /\ Len(s) > 0 /\ DOMAIN s = 1 .. Len(s) /\ Head(s) = s[1]
      /\ s[1] \in S
  OBVIOUS
<1>2. /\ t \in Seq(S) /\ DOMAIN t = 1 .. Len(s) - 1
      /\ \A i \in 1 .. Len(s) - 1 : t[i] = s[i + 1]
  OBVIOUS
<1> HIDE DEF t
<1>3. Range(t) \subseteq Range(s)  BY <1>1, <1>2 DEF Range
<1>4. \A i \in DOMAIN s : s[i] \in {s[1]} \cup Range(t)
  <2> TAKE i \in DOMAIN s
  <2>1. CASE i = 1  BY <2>1
  <2>2. CASE i # 1
    <3>1. i - 1 \in DOMAIN t /\ t[i - 1] = s[i]  BY <1>1, <1>2, <2>2
    <3> QED  BY <3>1 DEF Range
  <2> QED  BY <2>1, <2>2
<1>5. Range(s) \subseteq {s[1]} \cup Range(t)  BY <1>4 DEF Range
<1>6. s[1] \in Range(s)  BY <1>1 DEF Range
<1> QED  BY <1>1, <1>2, <1>3, <1>5, <1>6 DEF t

(* A step that changes neither the writes nor what holds them.             *)
LEMMA AccountedFrame ==
  ASSUME Accounted, UNCHANGED <<stamp, chan, window, registry, hist>>, InSeal' = InSeal,
         load'.writes = load.writes, DOMAIN load' = DOMAIN load
  PROVE  Accounted'
<1>1. Sent' = Sent /\ Recorded' = Recorded  BY DEF Sent, Stamped, Recorded
<1> HIDE DEF InSeal
<1>2. NothingForgotten'  BY <1>1 DEF Accounted, NothingForgotten, Starts, Range
<1> QED  BY <1>1, <1>2, Zenon DEF Accounted, IsEmpty

(* The callbacks, the drain task and the clock.                            *)
LEMMA AccountedWriterSteps ==
  ASSUME Inv, Accounted, Advance \/ Drain \/ \E w \in Writes : Stamp(w) \/ Send(w)
  PROVE  Accounted'
<1>1. UNCHANGED <<task, registry>>  BY DEF Advance, Drain, Stamp, Send
<1>2. InSeal' = InSeal  BY <1>1 DEF InSeal
<1>3. CASE Advance
  BY <1>2, <1>3, AccountedFrame DEF Advance, Accounted
<1>4. ASSUME NEW w \in Writes, Stamp(w) PROVE Accounted'
  <2>1. /\ UNCHANGED <<load, chan, window, registry, hist>> /\ w \in load.writes
        /\ stamp' = [stamp EXCEPT ![w] = clock] /\ clock \in Nat
    BY <1>4 DEF Stamp, Inv, Ranges
  <2>2. stamp' \in [Writes -> Nat]  BY <2>1 DEF Accounted
  <2>3. Sent' = Sent  BY <2>1, <1>4 DEF Accounted, Sent, Stamped, Stamp
  <2>4. Recorded' = Recorded  BY <2>1 DEF Recorded
  <2>5. NothingForgotten'
    BY <1>2, <2>1, <2>3, <2>4 DEF Accounted, NothingForgotten, Starts, Range
  <2> QED  BY <1>2, <2>1, <2>2, <2>3, <2>4, <2>5 DEF Accounted, IsEmpty
<1>5. ASSUME NEW w \in Writes, Send(w) PROVE Accounted'
  <2>1. /\ UNCHANGED <<stamp, window, registry, hist>> /\ stamp[w] > 0
        /\ chan' = Append(chan, w) /\ load' = [load EXCEPT !.writes = @ \ {w}]
    BY <1>5 DEF Send
  <2>2. DOMAIN load' = DOMAIN load /\ load'.writes = load.writes \ {w}  BY <2>1 DEF Accounted
  <2>3. chan' \in Seq(Writes) /\ Range(chan') = Range(chan) \cup {w}
    BY <2>1, RangeAppend DEF Accounted
  <2>4. Sent' = Sent \cup {w} /\ Recorded' = Recorded
    BY <2>1, <2>2 DEF Sent, Stamped, Recorded
  <2>5. NothingForgotten'
    BY <1>2, <2>1, <2>3, <2>4 DEF Accounted, NothingForgotten, Starts
  <2> QED  BY <1>2, <2>1, <2>2, <2>3, <2>4, <2>5, Zenon DEF Accounted, IsEmpty
<1>6. CASE Drain
  <2>1. PICK w : w = Head(chan)  OBVIOUS
  <2>2. /\ UNCHANGED <<load, stamp, registry>> /\ chan # <<>> /\ chan' = Tail(chan)
        /\ window' = [window EXCEPT !.nodes = Record(@, w, stamp[w])]
        /\ hist' = [hist EXCEPT !.order = Append(@, w), !.home[w] = window.start]
    BY <1>6, <2>1 DEF Drain
  <2>3. Range(chan) = {w} \cup Range(chan') /\ w \in Writes /\ chan' \in Seq(Writes)
    BY <2>1, <2>2, RangeTail DEF Accounted
  <2>4. /\ DOMAIN hist' = DOMAIN hist /\ hist'.lost = hist.lost
        /\ hist'.home = [hist.home EXCEPT ![w] = window.start]
    BY <2>2 DEF Accounted
  <2>5. window'.start = window.start /\ ~IsEmpty(window)'
    <3>1. window'.nodes = Record(window.nodes, w, stamp[w]) /\ window'.start = window.start
      BY <2>2 DEF Inv
    <3>2. w.node \in DOMAIN Record(window.nodes, w, stamp[w])  BY DEF Record
    <3> HIDE DEF Record
    <3> QED  BY <3>1, <3>2 DEF IsEmpty
  <2>6. window.start \in Nat /\ window.start > 0  BY DEF Inv, Ranges, Accounted
  <2>7. Sent' = Sent /\ w \in Sent
    BY <2>2, <2>3 DEF Sent, Stamped, Accounted, NothingForgotten
  <2>8. Recorded' = Recorded \cup {w} /\ hist'.home \in [Writes -> Nat]
    BY <2>3, <2>4, <2>6 DEF Recorded, Accounted
  <2>9. \A v \in Recorded' : hist'.home[v] <= window.start
    BY <2>3, <2>4, <2>6, <2>8 DEF Accounted
  <2>10. NothingForgotten'
    <3> HIDE DEF InSeal
    <3>1. \A v \in Writes : v # w => hist'.home[v] = hist.home[v]  BY <2>4 DEF Accounted
    <3>2. hist'.home[w] = window.start  BY <2>3, <2>4 DEF Accounted
    <3>3. w \in Recorded'  BY <2>8
    <3>4. \A v \in Recorded : v \in Writes /\ v \in Sent  BY DEF Accounted, Recorded
    <3> QED  BY <1>2, <2>2, <2>3, <2>4, <2>5, <2>7, <2>8, <3>1, <3>2, <3>3, <3>4
             DEF Accounted, NothingForgotten, Starts
  <2> QED  BY <1>2, <2>2, <2>3, <2>4, <2>5, <2>6, <2>7, <2>8, <2>9, <2>10 DEF Accounted
<1> QED  BY <1>3, <1>4, <1>5, <1>6

(* The seal: the window's writes go with it, into the registry or lost.    *)
LEMMA AccountedSealSteps ==
  ASSUME Inv, Accounted, SealTick \/ Swap \/ PutFragment \/ RegisterFragment
  PROVE  Accounted'
<1>1. CASE SealTick
  <2>1. InSeal = {} /\ InSeal' = {}  BY <1>1 DEF SealTick, InSeal
  <2>2. UNCHANGED <<stamp, chan, window, registry, hist>>  BY <1>1 DEF SealTick
  <2>3. load'.writes = load.writes /\ DOMAIN load' = DOMAIN load  BY <1>1 DEF SealTick, Accounted
  <2> QED  BY <2>1, <2>2, <2>3, AccountedFrame
<1>2. CASE Swap
  <2>1. /\ UNCHANGED <<load, stamp, chan, registry, hist>>
        /\ window' = NewWindow(task.end) /\ task.pc = "seal"
    BY <1>2 DEF Swap
  <2>2. InSeal = {}  BY <2>1 DEF InSeal
  <2>3. InSeal' = IF IsEmpty(window) THEN {} ELSE {Fragment(window, task.end)}
    BY <1>2 DEF Swap, InSeal, StartLifecycle
  <2>4. /\ window'.start = task.end /\ task.end \in Nat /\ window.start \in Nat
        /\ window.start < task.end /\ Fragment(window, task.end).start = window.start
    BY <2>1 DEF NewWindow, Inv, Ranges, Fragment
  <2>5. Sent' = Sent /\ Recorded' = Recorded  BY <2>1 DEF Sent, Stamped, Recorded
  <2>6. \A w \in Recorded : hist.home[w] \in Nat /\ hist.home[w] < window'.start
    BY <2>4 DEF Accounted, Recorded
  <2>7. Starts(InSeal' \cup registry') =
          Starts(registry) \cup (IF IsEmpty(window) THEN {} ELSE {window.start})
    BY <2>1, <2>3, <2>4 DEF Starts
  <2>8. NothingForgotten'
    <3>1. \A w \in Recorded :
            hist.home[w] \in {window.start} \cup Starts(InSeal \cup registry) <=>
            hist.home[w] \in {window'.start} \cup Starts(InSeal' \cup registry')
      BY <2>2, <2>6, <2>7 DEF Accounted
    <3> QED  BY <2>1, <2>5, <3>1, Zenon DEF Accounted, NothingForgotten
  <2>9. \A f \in InSeal' : f.start > 0  BY <2>3, <2>4 DEF Accounted
  <2> QED  BY <2>1, <2>4, <2>5, <2>6, <2>8, <2>9 DEF Accounted
<1>3. CASE PutFragment
  <2>1. UNCHANGED <<stamp, chan, window, registry>> /\ InSeal = {task.fragment}
    BY <1>3 DEF PutFragment, InSeal
  <2>2. CASE UNCHANGED <<load, hist>> /\ task' = [pc |-> "register", fragment |-> task.fragment]
    <3>1. InSeal' = InSeal  BY <2>1, <2>2 DEF InSeal
    <3> QED  BY <2>1, <2>2, <3>1, AccountedFrame
  <2>3. CASE /\ Fault /\ task' = StartLifecycle
             /\ hist' = [hist EXCEPT !.lost = @ \cup InHome(task.fragment)]
    <3>1. InSeal' = {}  BY <2>3 DEF InSeal, StartLifecycle
    <3>2. load'.writes = load.writes /\ DOMAIN load' = DOMAIN load
      BY <2>3 DEF Fault, Accounted
    <3>3. /\ hist'.home = hist.home /\ DOMAIN hist' = DOMAIN hist
          /\ hist'.lost = hist.lost \cup InHome(task.fragment)
      BY <2>3 DEF Accounted
    <3>4. Sent' = Sent /\ Recorded' = Recorded
      BY <2>1, <3>2, <3>3 DEF Sent, Stamped, Recorded
    <3>5. InHome(task.fragment) = {w \in Recorded : hist.home[w] = task.fragment.start}
      BY <2>1 DEF InHome, Recorded, Accounted
    <3>6. Starts(InSeal \cup registry) = {task.fragment.start} \cup Starts(registry)
      BY <2>1 DEF Starts
    <3>7. Starts(InSeal' \cup registry') = Starts(registry)  BY <2>1, <3>1 DEF Starts
    <3>8. NothingForgotten'
      BY <2>1, <3>3, <3>4, <3>5, <3>6, <3>7, Zenon DEF Accounted, NothingForgotten
    <3> QED  BY <2>1, <3>1, <3>2, <3>3, <3>4, <3>8 DEF Accounted, IsEmpty
  <2> QED  BY <1>3, <2>2, <2>3 DEF PutFragment
<1>4. CASE RegisterFragment
  <2>1. /\ UNCHANGED <<load, stamp, chan, window, hist>> /\ InSeal = {task.fragment}
        /\ InSeal' = {} /\ registry' = registry \cup {task.fragment}
    BY <1>4 DEF RegisterFragment, InSeal, StartLifecycle
  <2>2. InSeal' \cup registry' = InSeal \cup registry  BY <2>1
  <2>3. Sent' = Sent /\ Recorded' = Recorded  BY <2>1 DEF Sent, Stamped, Recorded
  <2>4. NothingForgotten'  BY <2>1, <2>2, <2>3, Zenon DEF Accounted, NothingForgotten
  <2> QED  BY <2>1, <2>3, <2>4 DEF Accounted, IsEmpty
<1> QED  BY <1>1, <1>2, <1>3, <1>4

(* The lifecycle and the readers touch no write.                           *)
LEMMA AccountedOtherSteps ==
  ASSUME Inv, Accounted,
         ListTier \/ MoveObject \/ DeleteSource \/ RuleDone \/ GetFragment \/ FinishRead
           \/ \E as_of \in load.reads : StartRead(as_of)
  PROVE  Accounted'
<1>1. UNCHANGED <<stamp, chan, window, registry, hist>>
  BY Zenon DEF ListTier, MoveObject, DeleteSource, RuleDone, GetFragment, FinishRead, StartRead
<1>2. load'.writes = load.writes /\ DOMAIN load' = DOMAIN load
  BY Zenon DEF ListTier, MoveObject, DeleteSource, RuleDone, GetFragment, FinishRead, StartRead,
         Fault, Accounted
<1>3. InSeal' = InSeal
  <2>1. CASE ListTier  BY <2>1 DEF ListTier, NextRule, Idle, InSeal
  <2>2. CASE MoveObject  BY <2>2 DEF MoveObject, InSeal
  <2>3. CASE DeleteSource  BY <2>3 DEF DeleteSource, InSeal
  <2>4. CASE RuleDone  BY <2>4 DEF RuleDone, NextRule, Idle, InSeal
  <2>5. CASE UNCHANGED task  BY <2>5 DEF InSeal
  <2> QED  BY <2>1, <2>2, <2>3, <2>4, <2>5, Zenon DEF GetFragment, FinishRead, StartRead
<1> QED  BY <1>1, <1>2, <1>3, AccountedFrame

(* A restart loses every write whose callback has begun, and says so.      *)
LEMMA AccountedRestart == ASSUME Inv, Accounted, RestartHistory PROVE Accounted'
<1>1. /\ UNCHANGED stamp /\ chan' = <<>> /\ registry' = {} /\ InSeal' = {}
      /\ window' = NewWindow(clock') /\ clock' = clock + 1
  BY DEF RestartHistory, InSeal, Idle
<1>2. DOMAIN load' = DOMAIN load /\ load'.writes = load.writes \ Stamped
  BY DEF RestartHistory, Accounted
<1>3. DOMAIN hist' = DOMAIN hist /\ hist'.home = hist.home /\ hist'.lost = Stamped
  BY DEF RestartHistory, Accounted
<1>4. Sent' = Stamped /\ Recorded' = Recorded  BY <1>1, <1>2, <1>3 DEF Sent, Stamped, Recorded
<1>5. window'.start = clock + 1 /\ clock \in Nat /\ window.start \in Nat /\ window.start <= clock
  BY <1>1 DEF NewWindow, Inv, Ranges
<1>6. \A w \in Recorded : hist.home[w] \in Nat /\ hist.home[w] < window'.start
  BY <1>5 DEF Accounted, Recorded
<1>7. Range(chan') = {} /\ chan' \in Seq(Writes)  BY <1>1 DEF Range
<1>8. \A w \in Recorded : hist.home[w] \notin {window'.start} \cup Starts(InSeal' \cup registry')
  BY <1>1, <1>6 DEF Starts
<1>9. NothingForgotten'  BY <1>3, <1>4, <1>7, <1>8 DEF NothingForgotten
<1>10. Recorded \subseteq Stamped  BY DEF Accounted, Sent
<1> QED  BY <1>1, <1>2, <1>3, <1>4, <1>5, <1>6, <1>7, <1>9, <1>10 DEF Accounted

(* Nothing the callback sent disappears but in a failed put or a restart,  *)
(* for every set of writes and nodes and every workload.                   *)
THEOREM EveryWriteAccounted == LoadShape /\ HistorySpec => []NothingForgotten
<1> SUFFICES ASSUME LoadShape PROVE HistorySpec => []NothingForgotten  OBVIOUS
<1>1. ASSUME HistoryInit PROVE Accounted
  <2>1. Sent = {} /\ Recorded = {}  BY <1>1 DEF HistoryInit, Sent, Stamped, Recorded
  <2>2. Range(chan) = {} /\ chan \in Seq(Writes)  BY <1>1 DEF HistoryInit, Range
  <2>3. InSeal = {}  BY <1>1 DEF HistoryInit, InSeal, Idle
  <2>4. NothingForgotten  BY <1>1, <2>1, <2>2 DEF HistoryInit, NothingForgotten
  <2>5. DOMAIN load = {"writes", "reads", "lists", "idle", "faults", "crashes"}
    BY <1>1 DEF HistoryInit, LoadShape
  <2>6. /\ DOMAIN hist = {"order", "home", "lost"} /\ window.start = 1
        /\ stamp \in [Writes -> Nat] /\ hist.home \in [Writes -> Nat]
    BY <1>1 DEF HistoryInit, NewWindow
  <2> QED  BY <2>1, <2>2, <2>3, <2>4, <2>5, <2>6 DEF Accounted
<1>2. ASSUME Inv, Accounted, [HistoryNext]_historyVars PROVE Accounted'
  <2>1. CASE UNCHANGED historyVars
    <3>1. InSeal' = InSeal  BY <2>1 DEF historyVars, InSeal
    <3> QED  BY <1>2, <2>1, <3>1, AccountedFrame DEF historyVars
  <2>2. CASE HistoryNext
    BY <1>2, <2>2, AccountedWriterSteps, AccountedSealSteps, AccountedOtherSteps, AccountedRestart
    DEF HistoryNext, SealTask, ReadStep
  <2> QED  BY <1>2, <2>1, <2>2
<1>3. Accounted => NothingForgotten  BY DEF Accounted
<1> QED  BY <1>1, <1>2, <1>3, InitInv, NextInv, PTL DEF HistorySpec

-----------------------------------------------------------------------------
\* Pushing an entry above every seq of the ring keeps the ring typed, bounded
\* and with one entry per seq, and the pushed entry stays.
LEMMA PushBoundedProps ==
    ASSUME NEW entries, entries \subseteq Entry, IsFiniteSet(entries),
           Cardinality(entries) <= MaxEntries,
           \A x, y \in entries : x.seq = y.seq => x = y,
           NEW e \in Entry, \A x \in entries : x.seq < e.seq
    PROVE  LET pb == PushBounded(entries, e) IN
           /\ pb \subseteq entries \cup {e}
           /\ e \in pb
           /\ IsFiniteSet(pb)
           /\ Cardinality(pb) <= MaxEntries
<1> DEFINE pushed == entries \cup {e}
           kept == {x \in pushed : \E y \in pushed : y.seq < x.seq}
<1>1. IsFiniteSet(pushed) /\ Cardinality(pushed) = Cardinality(entries) + 1
  <2>1. e \notin entries
    BY DEF Entry
  <2> QED
    BY <2>1, FS_AddElement
<1>2. Cardinality(entries) \in Nat /\ MaxEntries \in Nat \ {0}
  BY FS_CardinalityType, MaxEntriesAssumption
<1>3. CASE Cardinality(pushed) > MaxEntries
  <2>1. PushBounded(entries, e) = kept
    BY <1>3 DEF PushBounded
  <2>2. entries # {}
    BY <1>1, <1>2, <1>3, FS_EmptySet
  <2>3. e \in kept
    BY <2>2
  <2>4. kept # pushed
    <3> DEFINE S == {x.seq : x \in pushed}
    <3>1. S \subseteq Nat /\ S # {}
      BY DEF Entry
    <3>2. PICK m \in S : \A y \in S : ~(<<y, m>> \in OpToRel(<, Nat))
      BY <3>1, NatLessThanWellFounded, WFMin, Zenon
    <3>3. \A y \in S : ~(y < m)
      BY <3>1, <3>2, Zenon DEF OpToRel
    <3>4. PICK x \in pushed : x.seq = m
      BY <3>2, Zenon
    <3>5. x \notin kept
      BY <3>3, <3>4
    <3> QED
      BY <3>5
  <2>5. IsFiniteSet(kept) /\ Cardinality(kept) <= Cardinality(pushed)
        /\ Cardinality(kept) # Cardinality(pushed)
    BY <1>1, <2>4, FS_Subset, kept \in SUBSET pushed
  <2>6. Cardinality(kept) \in Nat
    BY <2>5, FS_CardinalityType
  <2> QED
    BY <1>1, <1>2, <2>1, <2>3, <2>5, <2>6
<1>4. CASE ~(Cardinality(pushed) > MaxEntries)
  <2>1. PushBounded(entries, e) = pushed
    BY <1>4 DEF PushBounded
  <2> QED
    BY <1>1, <1>2, <1>4, <2>1
<1> QED
  BY <1>3, <1>4

\* A push evicts nothing while the ring is below its bound, and exactly the
\* oldest entry once it is full, so that a full ring stays full.
LEMMA PushEvictsOldest ==
    ASSUME NEW entries, entries \subseteq Entry, IsFiniteSet(entries),
           Cardinality(entries) <= MaxEntries,
           \A x, y \in entries : x.seq = y.seq => x = y,
           NEW e \in Entry, \A x \in entries : x.seq < e.seq
    PROVE  LET pb == PushBounded(entries, e) IN
           \/ /\ pb = entries \cup {e}
              /\ Cardinality(entries) < MaxEntries
           \/ \E z \in entries :
                /\ pb = (entries \cup {e}) \ {z}
                /\ \A y \in pb : z.seq < y.seq
                /\ Cardinality(entries) = MaxEntries
                /\ Cardinality(pb) = MaxEntries
<1> DEFINE pushed == entries \cup {e}
           kept == {x \in pushed : \E y \in pushed : y.seq < x.seq}
<1>1. IsFiniteSet(pushed) /\ Cardinality(pushed) = Cardinality(entries) + 1
  <2>1. e \notin entries
    BY DEF Entry
  <2> QED
    BY <2>1, FS_AddElement
<1>2. Cardinality(entries) \in Nat /\ MaxEntries \in Nat \ {0}
  BY FS_CardinalityType, MaxEntriesAssumption
<1>3. CASE Cardinality(pushed) > MaxEntries
  <2>1. PushBounded(entries, e) = kept
    BY <1>3 DEF PushBounded
  <2>2. Cardinality(entries) = MaxEntries
    BY <1>1, <1>2, <1>3
  <2>3. entries # {}
    BY <1>2, <2>2, FS_EmptySet
  <2>4. PICK z \in entries : \A y \in entries : z.seq <= y.seq
    <3> DEFINE S == {x.seq : x \in entries}
    <3>1. S \subseteq Nat /\ S # {}
      BY <2>3 DEF Entry
    <3>2. PICK m \in S : \A y \in S : ~(<<y, m>> \in OpToRel(<, Nat))
      BY <3>1, NatLessThanWellFounded, WFMin, Zenon
    <3>3. \A y \in S : ~(y < m)
      BY <3>1, <3>2, Zenon DEF OpToRel
    <3>4. PICK x \in entries : x.seq = m
      BY <3>2, Zenon
    <3> QED
      BY <3>3, <3>4 DEF Entry
  <2>5. \A y \in pushed : y # z => z.seq < y.seq
    BY <2>4 DEF Entry
  <2>6. kept = pushed \ {z}
    BY <2>5 DEF Entry
  <2>7. Cardinality(kept) = MaxEntries
    <3>1. Cardinality(pushed \ {z}) = Cardinality(pushed) - 1
      BY <1>1, FS_RemoveElement, z \in pushed, Zenon
    <3> HIDE DEF pushed, kept
    <3> QED
      BY <1>1, <1>2, <2>2, <2>6, <3>1
  <2> QED
    BY <2>1, <2>2, <2>5, <2>6, <2>7, Zenon
<1>4. CASE ~(Cardinality(pushed) > MaxEntries)
  <2>1. PushBounded(entries, e) = pushed
    BY <1>4 DEF PushBounded
  <2> QED
    BY <1>1, <1>2, <1>4, <2>1
<1> QED
  BY <1>3, <1>4

\* A ring that holds every seq of a range is at least as large as the range.
LEMMA RangeWithinBound ==
    ASSUME NEW entries, entries \subseteq Entry, IsFiniteSet(entries),
           Cardinality(entries) <= MaxEntries,
           NEW a \in Nat, NEW b \in Nat, a..b \subseteq SeqsOf(entries)
    PROVE  b < a + MaxEntries
<1> DEFINE seq == [x \in entries |-> x.seq]
<1>1. CASE a > b
  BY <1>1, MaxEntriesAssumption
<1>2. CASE a <= b
  <2>1. SeqsOf(entries) = {seq[x] : x \in entries}
    BY DEF SeqsOf
  <2>2. IsFiniteSet(SeqsOf(entries)) /\ Cardinality(SeqsOf(entries)) <= Cardinality(entries)
    <3>1. seq \in Surjection(entries, SeqsOf(entries))
      BY <2>1 DEF Surjection
    <3> HIDE DEF seq
    <3> QED
      BY <3>1, FS_Surjection
  <2>3. Cardinality(a..b) <= Cardinality(SeqsOf(entries))
    BY <2>2, FS_Subset, a..b \in SUBSET SeqsOf(entries)
  <2>4. Cardinality(a..b) = b - a + 1
    BY <1>2, FS_Interval
  <2>5. Cardinality(entries) \in Nat /\ Cardinality(SeqsOf(entries)) \in Nat
    BY <2>2, FS_CardinalityType
  <2> QED
    BY <2>2, <2>3, <2>4, <2>5, MaxEntriesAssumption
<1> QED
  BY <1>1, <1>2

\* record_owner leaves a well-formed log.
LEMMA RecordOwnerWellFormed ==
    ASSUME NEW l, WellFormed(l), NEW op \in Ops
    PROVE  WellFormed(RecordOwner(l, op))
<1> DEFINE e == [seq |-> NextSeq(l), op |-> op]
<1>1. e \in Entry /\ \A x \in l.entries : x.seq < e.seq
  BY DEF WellFormed, Entry, NextSeq
<1>2. LET pb == PushBounded(l.entries, e) IN
        /\ pb \subseteq l.entries \cup {e}
        /\ e \in pb
        /\ IsFiniteSet(pb)
        /\ Cardinality(pb) <= MaxEntries
  BY <1>1, PushBoundedProps DEF WellFormed
<1> QED
  BY <1>1, <1>2 DEF WellFormed, RecordOwner, NextSeq, SeqsOf, Entry

\* record_replica leaves a well-formed log.
LEMMA RecordReplicaWellFormed ==
    ASSUME NEW l, WellFormed(l), NEW op \in Ops, NEW s \in Nat \ {0}
    PROVE  WellFormed(RecordReplica(l, s, op))
<1>1. CASE s > l.high_water
  <2> DEFINE e == [seq |-> s, op |-> op]
  <2>1. e \in Entry /\ \A x \in l.entries : x.seq < e.seq
    BY <1>1 DEF WellFormed, Entry
  <2>2. LET pb == PushBounded(l.entries, e) IN
          /\ pb \subseteq l.entries \cup {e}
          /\ e \in pb
          /\ IsFiniteSet(pb)
          /\ Cardinality(pb) <= MaxEntries
    BY <2>1, PushBoundedProps DEF WellFormed
  <2> QED
    BY <1>1, <2>1, <2>2 DEF WellFormed, RecordReplica, SeqsOf, Entry
<1>2. CASE ~(s > l.high_water)
  BY <1>2 DEF RecordReplica
<1> QED
  BY <1>1, <1>2

-----------------------------------------------------------------------------
\* A set of naturals with an upper bound that is not empty has a greatest
\* element, so Newest, which open_durable's high_water uses, is defined.
LEMMA MaxOfBounded ==
    ASSUME NEW S \in SUBSET Nat, S # {}, NEW b \in Nat, \A s \in S : s <= b
    PROVE  Newest(S) \in S /\ \A s \in S : s <= Newest(S)
<1> DEFINE T == {n \in Nat : \A s \in S : s <= n}
<1>1. T \subseteq Nat /\ T # {}
  OBVIOUS
<1>2. PICK m \in T : \A y \in T : ~(<<y, m>> \in OpToRel(<, Nat))
  BY <1>1, NatLessThanWellFounded, WFMin, Zenon
<1>3. \A y \in T : ~(y < m)
  BY <1>1, <1>2, Zenon DEF OpToRel
<1>4. m \in S
  <2> SUFFICES ASSUME m \notin S PROVE FALSE
    OBVIOUS
  <2>1. \A s \in S : s < m
    OBVIOUS
  <2>2. m - 1 \in T
    <3>1. PICK s \in S : s \in Nat /\ s < m
      BY <2>1, Zenon
    <3>2. m \in Nat /\ m - 1 \in Nat
      BY <3>1
    <3> QED
      BY <2>1, <3>2
  <2> QED
    BY <2>2, <1>3
<1>5. \A s \in S : s <= m
  OBVIOUS
<1>6. \E x \in S : \A y \in S : x >= y
  BY <1>4, <1>5
<1> QED
  BY <1>6, Zenon DEF Newest

-----------------------------------------------------------------------------
\* The newest MaxEntries entries of a store with one entry per seq are at most
\* MaxEntries many: the number of newer entries tells them apart.
LEMMA ReplayedBounded ==
    ASSUME NEW E, E \subseteq Entry, IsFiniteSet(E),
           \A x, y \in E : x.seq = y.seq => x = y
    PROVE  IsFiniteSet(Replayed(E)) /\ Cardinality(Replayed(E)) <= MaxEntries
<1> DEFINE R == Replayed(E)
           newer(x) == {y \in E : y.seq > x.seq}
           rank == [x \in R |-> Cardinality(newer(x))]
           N == 0..(MaxEntries - 1)
<1>1. IsFiniteSet(R)
  BY FS_Subset, R \in SUBSET E, Zenon DEF Replayed
<1>2. \A x \in E : IsFiniteSet(newer(x)) /\ Cardinality(newer(x)) \in Nat
  <2> TAKE x \in E
  <2>1. IsFiniteSet(newer(x))
    BY FS_Subset, newer(x) \in SUBSET E
  <2> QED
    BY <2>1, FS_CardinalityType
<1>3. \A x, y \in E : x.seq < y.seq => Cardinality(newer(y)) < Cardinality(newer(x))
  <2> SUFFICES ASSUME NEW x \in E, NEW y \in E, x.seq < y.seq
               PROVE  Cardinality(newer(y)) < Cardinality(newer(x))
    OBVIOUS
  <2>1. newer(y) \in SUBSET newer(x)
    BY DEF Entry
  <2>2. y \in newer(x) /\ y \notin newer(y)
    BY DEF Entry
  <2>3. Cardinality(newer(y)) <= Cardinality(newer(x))
        /\ Cardinality(newer(x)) # Cardinality(newer(y))
    <3> HIDE DEF newer
    <3> QED
      BY <1>2, <2>1, <2>2, FS_Subset
  <2> QED
    BY <1>2, <2>3
<1>4. rank \in [R -> N]
  <2>1. \A x \in R : Cardinality(newer(x)) \in N
    BY <1>2, MaxEntriesAssumption DEF Replayed
  <2> QED
    BY <2>1
<1>5. rank \in Injection(R, N)
  <2> SUFFICES ASSUME NEW x \in R, NEW y \in R, x # y
               PROVE  rank[x] # rank[y]
    BY <1>4, Zenon DEF Injection, IsInjective
  <2>1. x \in E /\ y \in E
    BY DEF Replayed
  <2>2. x.seq < y.seq \/ y.seq < x.seq
    BY <2>1 DEF Entry
  <2>3. Cardinality(newer(x)) # Cardinality(newer(y))
    <3> HIDE DEF newer
    <3> QED
      BY <1>2, <1>3, <2>1, <2>2
  <2> QED
    BY <2>3
<1>6. IsFiniteSet(N) /\ Cardinality(N) = MaxEntries
  BY FS_Interval, MaxEntriesAssumption
<1>7. Cardinality(R) <= Cardinality(N)
  <2> HIDE DEF R, N, rank
  <2> QED
    BY <1>5, <1>6, FS_Injection
<1> QED
  BY <1>1, <1>6, <1>7

\* What the replay leaves out is older than all that it keeps, and it leaves
\* something out only when it has filled the ring.
LEMMA ReplayedNewest ==
    ASSUME NEW E, E \subseteq Entry, IsFiniteSet(E),
           \A x, y \in E : x.seq = y.seq => x = y,
           NEW b \in Nat, \A x \in E : x.seq <= b,
           NEW x \in E, x \notin Replayed(E)
    PROVE  /\ Cardinality(Replayed(E)) = MaxEntries
           /\ \A y \in Replayed(E) : x.seq < y.seq
<1> DEFINE newer(u) == {y \in E : y.seq > u.seq}
           Left == E \ Replayed(E)
           S == SeqsOf(Left)
<1>1. \A u \in E : IsFiniteSet(newer(u)) /\ Cardinality(newer(u)) \in Nat
  <2> TAKE u \in E
  <2>1. IsFiniteSet(newer(u))
    BY FS_Subset, newer(u) \in SUBSET E
  <2> QED
    BY <2>1, FS_CardinalityType
<1>2. \A u \in Left : Cardinality(newer(u)) >= MaxEntries
  BY <1>1, MaxEntriesAssumption DEF Replayed
<1>3. \A y \in Replayed(E) : y \in E /\ Cardinality(newer(y)) < MaxEntries
  BY DEF Replayed
<1>4. \A u \in Left, y \in Replayed(E) : u.seq < y.seq
  <2> SUFFICES ASSUME NEW u \in Left, NEW y \in Replayed(E), ~(u.seq < y.seq)
               PROVE  FALSE
    OBVIOUS
  <2>1. newer(u) \in SUBSET newer(y)
    <3>1. y \in E /\ u \in E
      BY <1>3, Zenon
    <3>2. \A v \in E : v.seq \in Nat
      BY DEF Entry
    <3> QED
      BY <3>1, <3>2
  <2>2. Cardinality(newer(u)) <= Cardinality(newer(y))
    <3> HIDE DEF newer
    <3> QED
      BY <1>1, <1>3, <2>1, FS_Subset
  <2> HIDE DEF newer
  <2> QED
    BY <1>1, <1>2, <1>3, <2>2, MaxEntriesAssumption
<1>5. PICK u \in Left : \A v \in Left : v.seq <= u.seq
  <2>1. x \in Left /\ \A v \in Left : v \in E /\ v.seq \in Nat
    BY DEF Entry
  <2>2. S \in SUBSET Nat /\ S # {} /\ \A s \in S : s <= b
    BY <2>1 DEF SeqsOf
  <2>3. Newest(S) \in S /\ \A s \in S : s <= Newest(S)
    BY <2>2, MaxOfBounded, Zenon
  <2> QED
    BY <2>3, Zenon DEF SeqsOf
<1>6. newer(u) \in SUBSET Replayed(E)
  <2>1. \A v \in E : v.seq \in Nat
    BY DEF Entry
  <2> QED
    BY <1>5, <2>1
<1>7. Cardinality(newer(u)) <= Cardinality(Replayed(E))
  <2> HIDE DEF newer
  <2> QED
    BY <1>6, ReplayedBounded, FS_Subset
<1>8. Cardinality(Replayed(E)) \in Nat /\ Cardinality(Replayed(E)) <= MaxEntries
  BY ReplayedBounded, FS_CardinalityType
<1> HIDE DEF newer
<1>9. Cardinality(Replayed(E)) = MaxEntries
  BY <1>1, <1>2, <1>7, <1>8, MaxEntriesAssumption
<1> QED
  BY <1>4, <1>9

\* open_durable builds a well-formed log whose mark is the newest seq on disk.
LEMMA OpenDurableWellFormed ==
    ASSUME NEW E, E \subseteq Entry, IsFiniteSet(E),
           \A x, y \in E : x.seq = y.seq => x = y,
           NEW b \in Nat, \A x \in E : x.seq <= b
    PROVE  /\ WellFormed(OpenDurable(E))
           /\ \A x \in E : x.seq <= OpenDurable(E).high_water
           /\ OpenDurable(E).high_water <= b
<1>1. CASE E = {}
  <2>1. Replayed(E) = {}
    BY <1>1 DEF Replayed
  <2> QED
    BY <1>1, <2>1, FS_EmptySet, MaxEntriesAssumption
    DEF OpenDurable, WellFormed, SeqsOf
<1>2. CASE E # {}
  <2> DEFINE m == Newest(SeqsOf(E))
  <2>1. SeqsOf(E) \subseteq Nat \ {0} /\ SeqsOf(E) # {} /\ \A s \in SeqsOf(E) : s <= b
    BY <1>2 DEF SeqsOf, Entry
  <2>2. m \in SeqsOf(E) /\ \A s \in SeqsOf(E) : s <= m
    BY <2>1, MaxOfBounded, Zenon
  <2>3. PICK top \in E : top.seq = m
    BY <2>2, Zenon DEF SeqsOf
  <2>4. {f \in E : f.seq > top.seq} = {}
    <3> SUFFICES ASSUME NEW f \in E, f.seq > top.seq PROVE FALSE
      OBVIOUS
    <3>1. f.seq \in SeqsOf(E)
      BY Zenon DEF SeqsOf
    <3>2. f.seq \in Nat /\ m \in Nat /\ f.seq <= m
      BY <2>1, <2>2, <3>1
    <3> QED
      BY <2>3, <3>2
  <2>5. top \in Replayed(E)
    <3>1. Cardinality({f \in E : f.seq > top.seq}) = 0
      BY <2>4, FS_EmptySet
    <3> QED
      BY <3>1, MaxEntriesAssumption DEF Replayed
  <2>6. OpenDurable(E) = [entries |-> Replayed(E), high_water |-> m]
    BY <1>2 DEF OpenDurable
  <2>7. Replayed(E) \subseteq E
    BY DEF Replayed
  <2>8. IsFiniteSet(Replayed(E)) /\ Cardinality(Replayed(E)) <= MaxEntries
    BY ReplayedBounded
  <2>9. \A x \in E : x.seq <= m
    BY <2>2 DEF SeqsOf
  <2>10. m \in SeqsOf(Replayed(E))
    BY <2>3, <2>5, Zenon DEF SeqsOf
  <2>11. m \in Nat /\ m <= b
    BY <2>1, <2>2
  <2> HIDE DEF m
  <2> QED
    BY <2>6, <2>7, <2>8, <2>9, <2>10, <2>11 DEF WellFormed
<1> QED
  BY <1>1, <1>2

-----------------------------------------------------------------------------
\* Everything on disk and everything in flight is at or below the mark of the
\* log in memory.  TypeOK alone is not inductive: a restart takes the mark from
\* the store, which needs a greatest seq.
Bounded == \A e \in db \cup pending : e.seq <= log.high_water

TypeInv == TypeOK /\ Bounded

LEMMA InitTypeInv == Init => TypeInv
  BY FS_EmptySet, MaxEntriesAssumption
  DEF Init, TypeInv, TypeOK, Bounded, WellFormed, EmptyLog, SeqsOf

\* Every step of the log keeps TypeInv: the two record functions push a seq
\* above the mark, persist changes only the store, a restart reopens it.
LEMMA NextTypeInv == TypeInv /\ [Next]_vars => TypeInv'
<1> SUFFICES ASSUME TypeInv, [Next]_vars PROVE TypeInv'
  OBVIOUS
<1>t. /\ WellFormed(log) /\ log.high_water \in Nat
      /\ db \subseteq Entry /\ IsFiniteSet(db)
      /\ pending \subseteq Entry /\ IsFiniteSet(pending)
      /\ \A e, f \in db : e.seq = f.seq => e = f
      /\ Bounded
  BY DEF TypeInv, TypeOK, WellFormed
<1>1. CASE \E op \in OwnerOps : RecordOwnerLocked(op)
  <2> PICK op \in OwnerOps : RecordOwnerLocked(op)
    BY <1>1
  <2> DEFINE e == [seq |-> NextSeq(log), op |-> op]
  <2>1. op \in Ops /\ e \in Entry
    BY <1>t, OwnerOpsAssumption DEF Entry, NextSeq
  <2>2. WellFormed(log)'
    BY <1>t, <2>1, RecordOwnerWellFormed DEF RecordOwnerLocked, WellFormed
  <2>3. IsFiniteSet(pending')
    BY <1>t, FS_AddElement, Zenon DEF RecordOwnerLocked
  <2>4. log'.high_water = log.high_water + 1
    BY DEF RecordOwnerLocked, RecordOwner, NextSeq
  <2>5. Bounded'
    BY <1>t, <2>1, <2>4 DEF RecordOwnerLocked, Bounded, Entry, NextSeq
  <2>6. TypeOK'
    BY <2>1, <2>2, <2>3 DEF RecordOwnerLocked, TypeInv, TypeOK
  <2> QED
    BY <2>5, <2>6 DEF TypeInv
<1>2. CASE \E seq \in ReplicaSeqs, op \in Ops : RecordReplicaLocked(seq, op)
  <2> PICK seq \in ReplicaSeqs, op \in Ops : RecordReplicaLocked(seq, op)
    BY <1>2
  <2> DEFINE e == [seq |-> seq, op |-> op]
  <2>1. seq \in Nat \ {0} /\ e \in Entry
    BY ReplicaSeqsAssumption DEF Entry
  <2>2. WellFormed(log)'
    BY <1>t, <2>1, RecordReplicaWellFormed DEF RecordReplicaLocked, WellFormed
  <2>3. IsFiniteSet(pending')
    BY <1>t, FS_AddElement, Zenon DEF RecordReplicaLocked
  <2>4. log'.high_water = seq /\ log.high_water < seq
    BY <1>t, <2>1 DEF RecordReplicaLocked, RecordReplica
  <2>5. Bounded'
    BY <1>t, <2>1, <2>4 DEF RecordReplicaLocked, Bounded, Entry
  <2>6. TypeOK'
    BY <2>1, <2>2, <2>3 DEF RecordReplicaLocked, TypeInv, TypeOK
  <2> QED
    BY <2>5, <2>6 DEF TypeInv
<1>3. CASE \E e \in pending : Persist(e)
  <2> PICK e \in pending : Persist(e)
    BY <1>3
  <2>1. db' \subseteq db \cup {e} /\ e \in Entry
    BY <1>t DEF Persist, Pruned, PutEntry
  <2>2. IsFiniteSet(db') /\ IsFiniteSet(pending')
    <3>1. IsFiniteSet(db \cup {e})
      BY <1>t, FS_AddElement
    <3>2. IsFiniteSet(db')
      BY <2>1, <3>1, FS_Subset, db' \in SUBSET (db \cup {e})
    <3> QED
      BY <1>t, <3>2, FS_RemoveElement DEF Persist
  <2>3. \A x, y \in db' : x.seq = y.seq => x = y
    BY <1>t DEF Persist, Pruned, PutEntry
  <2>4. Bounded'
    BY <1>t, <2>1 DEF Persist, Bounded
  <2>5. TypeOK'
    BY <1>t, <2>1, <2>2, <2>3 DEF Persist, TypeInv, TypeOK, WellFormed
  <2> QED
    BY <2>4, <2>5 DEF TypeInv
<1>4. CASE \E e \in pending : PersistFails(e)
  <2> PICK e \in pending : PersistFails(e)
    BY <1>4
  <2>1. IsFiniteSet(pending')
    BY <1>t, FS_RemoveElement DEF PersistFails
  <2>2. Bounded'
    BY <1>t DEF PersistFails, Bounded
  <2>3. TypeOK'
    BY <1>t, <2>1 DEF PersistFails, TypeInv, TypeOK, WellFormed
  <2> QED
    BY <2>2, <2>3 DEF TypeInv
<1>5. CASE Restart
  <2>1. /\ WellFormed(OpenDurable(db))
        /\ \A x \in db : x.seq <= OpenDurable(db).high_water
    BY <1>t, OpenDurableWellFormed DEF Bounded
  <2>2. Bounded'
    BY <1>5, <2>1 DEF Restart, Bounded
  <2>3. TypeOK'
    <3>1. WellFormed(log')
      BY <1>5, <2>1 DEF Restart
    <3>2. pending' \subseteq Entry /\ IsFiniteSet(pending')
      BY <1>5, FS_EmptySet DEF Restart
    <3>3. UNCHANGED <<db, issued, returned>> /\ restarts' \in Nat
      BY <1>5 DEF Restart, TypeInv, TypeOK
    <3> QED
      BY <3>1, <3>2, <3>3 DEF TypeInv, TypeOK
  <2> QED
    BY <2>2, <2>3 DEF TypeInv
<1>6. CASE UNCHANGED vars
  BY <1>6 DEF vars, TypeInv, TypeOK, Bounded, WellFormed
<1> QED
  BY <1>1, <1>2, <1>3, <1>4, <1>5, <1>6 DEF Next

\* The log in memory is well formed in every state, whatever overlaps, fails or
\* restarts: at most max_entries entries, one per seq, the newest at the mark.
THEOREM TypeCorrect == Spec => []TypeOK
<1>1. TypeInv => TypeOK
  BY DEF TypeInv
<1> QED
  BY <1>1, InitTypeInv, NextTypeInv, PTL DEF Spec

-----------------------------------------------------------------------------
\* What makes ReturnedSeqsUnique inductive while puts succeed: the store never
\* falls behind a seq that was handed out (pruning removes only older entries),
\* so the mark a restart reads covers all of them, and calls still in flight
\* hold seqs of their own.
Covered == \A e \in returned : \E d \in db : e.seq <= d.seq

HandedOutOnce ==
    \A e, f \in pending \cup returned : e.seq = f.seq => e = f

UniqueInv == TypeInv /\ Covered /\ HandedOutOnce

\* Every seq handed out, and every seq in flight, is at or below the mark.
LEMMA HandedOutBounded ==
    ASSUME UniqueInv
    PROVE  \A e \in pending \cup returned :
              e.seq \in Nat /\ e.seq <= log.high_water
<1>1. /\ log.high_water \in Nat /\ pending \subseteq Entry
      /\ returned \subseteq Entry /\ db \subseteq Entry
  BY DEF UniqueInv, TypeInv, TypeOK, WellFormed
<1> QED
  BY <1>1 DEF UniqueInv, TypeInv, Bounded, Covered, Entry

LEMMA InitUniqueInv == Init => UniqueInv
  BY InitTypeInv DEF Init, UniqueInv, Covered, HandedOutOnce

\* Without put failures every step keeps the strengthened invariant.
LEMMA NextUniqueInv ==
    ASSUME ~PutMayFail
    PROVE  UniqueInv /\ [Next]_vars => UniqueInv'
<1> SUFFICES ASSUME UniqueInv, [Next]_vars PROVE UniqueInv'
  OBVIOUS
<1>t. /\ log.high_water \in Nat /\ db \subseteq Entry
      /\ pending \subseteq Entry /\ returned \subseteq Entry
  BY DEF UniqueInv, TypeInv, TypeOK, WellFormed
<1>i. TypeInv'
  BY NextTypeInv DEF UniqueInv
<1>b. \A e \in pending \cup returned : e.seq \in Nat /\ e.seq <= log.high_water
  BY HandedOutBounded
<1>1. ASSUME NEW op \in OwnerOps, RecordOwnerLocked(op)
      PROVE  Covered' /\ HandedOutOnce'
  BY <1>t, <1>b, <1>1
  DEF RecordOwnerLocked, NextSeq, UniqueInv, Covered, HandedOutOnce
<1>2. ASSUME NEW seq \in ReplicaSeqs, NEW op \in Ops, RecordReplicaLocked(seq, op)
      PROVE  Covered' /\ HandedOutOnce'
  BY <1>t, <1>b, <1>2, ReplicaSeqsAssumption
  DEF RecordReplicaLocked, UniqueInv, Covered, HandedOutOnce
<1>3. ASSUME NEW e \in pending, Persist(e)
      PROVE  Covered' /\ HandedOutOnce'
  <2>1. e \in db' /\ e \in Entry
    BY <1>t, <1>3, MaxEntriesAssumption DEF Persist, Pruned, PutEntry, Entry
  <2>2. \A d \in db : d \in db' \/ d.seq <= e.seq
    BY <1>t, <1>3, <2>1, MaxEntriesAssumption DEF Persist, Pruned, PutEntry, Entry
  <2>3. Covered'
    BY <1>t, <1>3, <2>1, <2>2 DEF Persist, UniqueInv, Covered, Entry
  <2>4. HandedOutOnce'
    BY <1>3 DEF Persist, UniqueInv, HandedOutOnce
  <2> QED
    BY <2>3, <2>4
<1>4. \A e \in pending : ~PersistFails(e)
  BY DEF PersistFails
<1>5. CASE Restart
  BY <1>i, <1>5 DEF Restart, UniqueInv, Covered, HandedOutOnce
<1>6. CASE UNCHANGED vars
  BY <1>i, <1>6 DEF vars, UniqueInv, Covered, HandedOutOnce
<1> QED
  BY <1>i, <1>1, <1>2, <1>3, <1>4, <1>5, <1>6 DEF Next, UniqueInv

\* While puts to the store succeed, record_owner never hands out one seq for two
\* writes, for any number of overlapping calls and any number of restarts.
THEOREM SeqsHandedOutOnce ==
    ASSUME ~PutMayFail
    PROVE  Spec => []ReturnedSeqsUnique
<1>1. UniqueInv => ReturnedSeqsUnique
  BY DEF UniqueInv, HandedOutOnce, ReturnedSeqsUnique
<1>2. UniqueInv /\ [Next]_vars => UniqueInv'
  BY NextUniqueInv
<1> QED
  BY <1>1, <1>2, InitUniqueInv, PTL DEF Spec
-----------------------------------------------------------------------------
\* Disk, memory and the calls in flight have one entry per seq between them: a
\* record call takes a seq above all of them, and nothing else makes an entry.
Agree == \A e, f \in db \cup pending \cup log.entries : e.seq = f.seq => e = f

AgreeInv == TypeInv /\ Agree

LEMMA InitAgreeInv == Init => AgreeInv
  BY InitTypeInv DEF Init, AgreeInv, Agree, EmptyLog

\* Recording an entry above the mark keeps it apart from every other entry.
LEMMA PushAgrees ==
    ASSUME AgreeInv, NEW e \in Entry, e.seq > log.high_water,
           log'.entries = PushBounded(log.entries, e),
           pending' = pending \cup {e}, UNCHANGED db
    PROVE  Agree'
<1>1. /\ WellFormed(log) /\ log.high_water \in Nat
      /\ db \subseteq Entry /\ pending \subseteq Entry /\ log.entries \subseteq Entry
  BY DEF AgreeInv, TypeInv, TypeOK, WellFormed
<1>2. \A x \in db \cup pending \cup log.entries : x.seq < e.seq
  BY <1>1 DEF AgreeInv, TypeInv, Bounded, WellFormed, Entry
<1>3. log'.entries \subseteq log.entries \cup {e}
  BY <1>1, <1>2, PushBoundedProps DEF WellFormed
<1>4. \A x, y \in db \cup pending \cup log.entries \cup {e} : x.seq = y.seq => x = y
  BY <1>1, <1>2 DEF AgreeInv, Agree, Entry
<1> QED
  BY <1>3, <1>4 DEF Agree

LEMMA NextAgreeInv == AgreeInv /\ [Next]_vars => AgreeInv'
<1> SUFFICES ASSUME AgreeInv, [Next]_vars PROVE AgreeInv'
  OBVIOUS
<1>t. log.high_water \in Nat
  BY DEF AgreeInv, TypeInv, TypeOK, WellFormed
<1>i. TypeInv'
  BY NextTypeInv DEF AgreeInv
<1>1. ASSUME NEW op \in OwnerOps, RecordOwnerLocked(op) PROVE Agree'
  <2> DEFINE e == [seq |-> NextSeq(log), op |-> op]
  <2>1. e \in Entry /\ e.seq > log.high_water
    BY <1>t, OwnerOpsAssumption DEF Entry, NextSeq
  <2>2. log'.entries = PushBounded(log.entries, e)
    BY <1>1 DEF RecordOwnerLocked, RecordOwner
  <2>3. pending' = pending \cup {e} /\ UNCHANGED db
    BY <1>1 DEF RecordOwnerLocked
  <2> HIDE DEF e
  <2> QED
    BY <2>1, <2>2, <2>3, PushAgrees
<1>2. ASSUME NEW seq \in ReplicaSeqs, NEW op \in Ops, RecordReplicaLocked(seq, op)
      PROVE  Agree'
  <2> DEFINE e == [seq |-> seq, op |-> op]
  <2>1. e \in Entry /\ e.seq > log.high_water
    BY <1>2, ReplicaSeqsAssumption DEF Entry, RecordReplicaLocked
  <2>2. log'.entries = PushBounded(log.entries, e)
    BY <1>2 DEF RecordReplicaLocked, RecordReplica
  <2>3. pending' = pending \cup {e} /\ UNCHANGED db
    BY <1>2 DEF RecordReplicaLocked
  <2> HIDE DEF e
  <2> QED
    BY <2>1, <2>2, <2>3, PushAgrees
<1>3. ASSUME NEW e \in pending, Persist(e) PROVE Agree'
  <2>1. db' \subseteq db \cup {e} /\ pending' \subseteq pending /\ log' = log
    BY <1>3 DEF Persist, Pruned, PutEntry
  <2> QED
    BY <2>1 DEF AgreeInv, Agree
<1>4. ASSUME NEW e \in pending, PersistFails(e) PROVE Agree'
  BY <1>4 DEF PersistFails, AgreeInv, Agree
<1>5. CASE Restart
  <2>1. log'.entries \subseteq db /\ pending' = {} /\ db' = db
    BY <1>5 DEF Restart, OpenDurable, Replayed
  <2> QED
    BY <1>i, <2>1 DEF AgreeInv, Agree
<1>6. CASE UNCHANGED vars
  BY <1>i, <1>6 DEF vars, AgreeInv, Agree
<1> QED
  BY <1>i, <1>1, <1>2, <1>3, <1>4, <1>5, <1>6 DEF Next, AgreeInv

\* RocksDB never holds another op than memory under a seq, nor a seq above
\* memory's mark, on an owner or a follower, whatever gaps the replicated seqs
\* have, whichever puts fail and wherever the process restarts.
THEOREM StoreNeverContradictsMemory == Spec => []StoreAgreesWithMemory
<1>1. AgreeInv => StoreAgreesWithMemory
  BY DEF AgreeInv, Agree, TypeInv, Bounded, StoreAgreesWithMemory
<1> QED
  BY <1>1, InitAgreeInv, NextAgreeInv, PTL DEF Spec
-----------------------------------------------------------------------------
\* The owner's log against its store, while puts succeed.  Held is what a crash
\* after the calls in flight would leave; Unbroken(y) says that memory holds all
\* seqs from y to the mark.
Held == db \cup pending

Unbroken(y) == \A s \in y.seq..log.high_water : s \in SeqsOf(log.entries)

\* The mark is the seq of an entry on disk or on its way there.
MarkHeld == log.high_water # 0 => log.high_water \in SeqsOf(Held)

\* Calls in flight were recorded since the last restart, and so was all above.
PendingUnbroken ==
    \A x \in pending, y \in log.entries : x.seq <= y.seq => Unbroken(y)

\* Pruning removes from the bottom: above an entry that is held, all that memory
\* holds is held, too.
NewerHeld == \A x \in Held, y \in log.entries : x.seq < y.seq => y \in Held

\* Memory lacks a held entry only because the ring is full of newer ones.
EvictedWhenFull ==
    \A x \in Held \ log.entries :
        /\ Cardinality(log.entries) = MaxEntries
        /\ \A y \in log.entries : x.seq < y.seq

\* An op is recorded once, so a call lost to a crash stays lost.
OpsOnce ==
    /\ pending \cap returned = {}
    /\ \A e \in pending \cup returned : e.op \in issued
    /\ \A e, f \in pending \cup returned : e.op = f.op => e = f

\* Without lost calls the ring has no gap and nothing of it is missing on disk.
NoGap == NoCallLost => \A y \in log.entries : Unbroken(y) /\ y \in Held

IsRecord == log = [entries |-> log.entries, high_water |-> log.high_water]

MirrorInv ==
    /\ AgreeInv /\ IsRecord /\ MarkHeld /\ PendingUnbroken /\ NewerHeld
    /\ EvictedWhenFull /\ OpsOnce /\ NoGap

\* What AgreeInv says of the types.
LEMMA LogTypes ==
    ASSUME AgreeInv
    PROVE  /\ WellFormed(log) /\ log.high_water \in Nat /\ log.entries \subseteq Entry
           /\ IsFiniteSet(log.entries) /\ Cardinality(log.entries) <= MaxEntries
           /\ db \subseteq Entry /\ IsFiniteSet(db)
           /\ pending \subseteq Entry /\ returned \subseteq Entry
           /\ \A e, f \in db : e.seq = f.seq => e = f
           /\ \A e \in Held \cup log.entries : e.seq \in Nat \ {0} /\ e.seq <= log.high_water
           /\ \A e, f \in Held \cup log.entries : e.seq = f.seq => e = f
  BY DEF AgreeInv, Agree, TypeInv, TypeOK, Bounded, WellFormed, Held, Entry

LEMMA InitMirrorInv == Init => MirrorInv
  BY InitAgreeInv
  DEF Init, MirrorInv, IsRecord, MarkHeld, PendingUnbroken, NewerHeld, Held,
      EvictedWhenFull, OpsOnce, NoGap, EmptyLog

\* The replay of the store, once no call is in flight, against memory.
LEMMA Reopened ==
    ASSUME MirrorInv, pending = {}
    PROVE  /\ OpenDurable(db).high_water = log.high_water
           /\ Replayed(db) \subseteq log.entries
           /\ NoCallLost => OpenDurable(db) = log
<1>t. /\ WellFormed(log) /\ log.high_water \in Nat /\ log.entries \subseteq Entry
      /\ IsFiniteSet(log.entries) /\ Cardinality(log.entries) <= MaxEntries
      /\ db \subseteq Entry /\ IsFiniteSet(db) /\ Held = db
      /\ \A e, f \in db : e.seq = f.seq => e = f
      /\ \A e \in db : e.seq \in Nat \ {0} /\ e.seq <= log.high_water
      /\ \A e \in log.entries : e.seq \in Nat
  BY LogTypes DEF MirrorInv, Held
<1>c. Cardinality(log.entries) \in Nat /\ MaxEntries \in Nat \ {0}
  BY <1>t, FS_CardinalityType, MaxEntriesAssumption
<1> DEFINE newer(x) == {f \in db : f.seq > x.seq}
<1>n. \A x \in Entry : IsFiniteSet(newer(x)) /\ Cardinality(newer(x)) \in Nat
  <2> TAKE x \in Entry
  <2>1. IsFiniteSet(newer(x))
    BY <1>t, FS_Subset, newer(x) \in SUBSET db
  <2> QED
    BY <2>1, FS_CardinalityType
<1>r. \A x : x \in Replayed(db) <=> x \in db /\ Cardinality(newer(x)) < MaxEntries
  BY DEF Replayed
<1>1. OpenDurable(db).high_water = log.high_water
  <2>1. /\ WellFormed(OpenDurable(db))
        /\ \A x \in db : x.seq <= OpenDurable(db).high_water
        /\ OpenDurable(db).high_water <= log.high_water
    BY <1>t, OpenDurableWellFormed
  <2>2. OpenDurable(db).high_water \in Nat
    BY <2>1 DEF WellFormed
  <2>3. log.high_water # 0 => \E x \in db : x.seq = log.high_water
    BY <1>t DEF MirrorInv, MarkHeld, SeqsOf
  <2> QED
    BY <1>t, <2>1, <2>2, <2>3
<1>2. ASSUME NEW x \in Replayed(db), x \notin log.entries PROVE FALSE
  <2>1. x \in db /\ Cardinality(newer(x)) < MaxEntries
    BY <1>2, <1>r
  <2>2. Cardinality(log.entries) = MaxEntries /\ \A y \in log.entries : x.seq < y.seq
    BY <1>t, <1>2, <2>1 DEF MirrorInv, EvictedWhenFull
  <2>3. log.entries \in SUBSET newer(x)
    BY <1>t, <2>1, <2>2 DEF MirrorInv, NewerHeld
  <2>4. Cardinality(log.entries) <= Cardinality(newer(x))
    <3> HIDE DEF newer
    <3> QED
      BY <1>t, <1>n, <2>1, <2>3, FS_Subset
  <2> HIDE DEF newer
  <2> QED
    BY <1>t, <1>c, <1>n, <2>1, <2>2, <2>4
<1>3. ASSUME NoCallLost PROVE OpenDurable(db) = log
  <2>1. \A y \in log.entries : y \in db
    BY <1>t, <1>3 DEF MirrorInv, NoGap
  <2>2. ASSUME NEW y \in log.entries PROVE y \in Replayed(db)
    <3>1. newer(y) \in SUBSET (log.entries \ {y})
      BY <1>t, <2>1 DEF MirrorInv, EvictedWhenFull
    <3>2. IsFiniteSet(log.entries \ {y})
          /\ Cardinality(log.entries \ {y}) = Cardinality(log.entries) - 1
      BY <1>t, FS_RemoveElement
    <3>3. Cardinality(newer(y)) <= Cardinality(log.entries \ {y})
      <4> HIDE DEF newer
      <4> QED
        BY <3>1, <3>2, FS_Subset
    <3>4. Cardinality(newer(y)) < MaxEntries
      <4> HIDE DEF newer
      <4> QED
        BY <1>t, <1>c, <1>n, <3>2, <3>3
    <3> QED
      BY <1>r, <2>1, <3>4
  <2>3. Replayed(db) = log.entries
    BY <1>2, <2>2
  <2> QED
    BY <1>1, <2>3 DEF OpenDurable, MirrorInv, IsRecord
<1> QED
  BY <1>1, <1>2, <1>3

\* An owner's record call keeps the invariant: its entry goes to the top of the
\* ring and into flight, and only the oldest entry may leave.
LEMMA RecordOwnerMirror ==
    ASSUME MirrorInv, NEW op \in OwnerOps, RecordOwnerLocked(op), AgreeInv'
    PROVE  MirrorInv'
<1>e. PICK e : e = [seq |-> log.high_water + 1, op |-> op]
  BY Zenon
<1> DEFINE M == log.entries
           Mp == log'.entries
<1>t. /\ log.high_water \in Nat /\ M \subseteq Entry
      /\ IsFiniteSet(M) /\ Cardinality(M) <= MaxEntries
      /\ \A x, y \in M : x.seq = y.seq => x = y
      /\ \A x \in Held \cup M : x.seq \in Nat \ {0} /\ x.seq <= log.high_water
  BY LogTypes DEF MirrorInv, WellFormed
<1>1. e \in Entry /\ e.seq = log.high_water + 1 /\ e.op = op
      /\ \A x \in Held \cup M : x.seq < e.seq
  BY <1>e, <1>t, OwnerOpsAssumption DEF Entry
<1>2. /\ Mp = PushBounded(M, e) /\ log'.high_water = log.high_water + 1
      /\ pending' = pending \cup {e} /\ Held' = Held \cup {e} /\ returned' = returned
      /\ issued' = issued \cup {op} /\ op \notin issued /\ IsRecord'
  BY <1>e DEF RecordOwnerLocked, RecordOwner, NextSeq, Held, IsRecord
<1>3. \/ Mp = M \cup {e} /\ Cardinality(M) < MaxEntries
      \/ \E z \in M : /\ Mp = (M \cup {e}) \ {z}
                      /\ \A y \in Mp : z.seq < y.seq
                      /\ Cardinality(M) = MaxEntries
                      /\ Cardinality(Mp) = MaxEntries
  <2> HIDE DEF M, Mp
  <2> QED
    BY <1>t, <1>1, <1>2, PushEvictsOldest
<1>4. e \in Mp /\ Mp \subseteq M \cup {e}
  <2>1. e \notin M
    <3>1. e.seq \in Nat
      BY <1>t, <1>1
    <3> QED
      BY <1>1, <3>1
  <2> HIDE DEF M, Mp
  <2> QED
    BY <1>3, <2>1
<1>5. ASSUME NEW y \in M, y \in Mp, Unbroken(y) PROVE Unbroken(y)'
  <2> SUFFICES ASSUME NEW s \in y.seq..(log.high_water + 1)
               PROVE  s \in SeqsOf(Mp)
    BY <1>2 DEF Unbroken
  <2>1. CASE s = log.high_water + 1
    BY <1>1, <1>4, <2>1 DEF SeqsOf
  <2>2. CASE s # log.high_water + 1
    <3>1. s \in y.seq..log.high_water
      BY <1>t, <2>2
    <3>2. PICK x \in M : x.seq = s
      BY <1>5, <3>1 DEF Unbroken, SeqsOf
    <3>3. x \in Mp
      BY <1>t, <1>3, <1>5, <3>1, <3>2
    <3> QED
      BY <3>2, <3>3 DEF SeqsOf
  <2> QED
    BY <2>1, <2>2
<1>6. Unbroken(e)'
  <2>1. \A s \in (log.high_water + 1)..(log.high_water + 1) : s = log.high_water + 1
    BY <1>t
  <2> QED
    BY <1>1, <1>2, <1>4, <2>1 DEF Unbroken, SeqsOf
<1>7. MarkHeld'
  BY <1>1, <1>2 DEF MarkHeld, SeqsOf
<1>8. PendingUnbroken'
  <2> SUFFICES ASSUME NEW x \in pending', NEW y \in Mp, x.seq <= y.seq
               PROVE  Unbroken(y)'
    BY DEF PendingUnbroken
  <2>1. CASE y = e
    BY <1>6, <2>1
  <2>2. CASE y # e
    <3>1. y \in M /\ x \in pending
      BY <1>t, <1>1, <1>2, <1>4, <2>2
    <3> QED
      BY <1>5, <3>1 DEF MirrorInv, PendingUnbroken
  <2> QED
    BY <2>1, <2>2
<1>9. NewerHeld'
  <2> SUFFICES ASSUME NEW x \in Held', NEW y \in Mp, x.seq < y.seq
               PROVE  y \in Held'
    BY DEF NewerHeld
  <2> QED
    BY <1>t, <1>1, <1>2, <1>4 DEF MirrorInv, NewerHeld
<1>10. EvictedWhenFull'
  <2> SUFFICES ASSUME NEW x \in Held', x \notin Mp
               PROVE  Cardinality(Mp) = MaxEntries /\ \A y \in Mp : x.seq < y.seq
    BY DEF EvictedWhenFull
  <2>1. x \in Held
    BY <1>2, <1>4
  <2>2. CASE x \in M
    BY <1>3, <2>2
  <2>3. CASE x \notin M
    <3>1. Cardinality(M) = MaxEntries /\ \A y \in M : x.seq < y.seq
      BY <2>1, <2>3 DEF MirrorInv, EvictedWhenFull
    <3>2. Cardinality(Mp) = MaxEntries
      BY <1>3, <3>1, MaxEntriesAssumption
    <3> QED
      BY <1>1, <1>4, <2>1, <3>1, <3>2
  <2> QED
    BY <2>2, <2>3
<1>11. OpsOnce'
  BY <1>1, <1>2 DEF MirrorInv, OpsOnce
<1>12. NoCallLost' => NoCallLost
  BY <1>1, <1>2 DEF MirrorInv, OpsOnce, NoCallLost
<1>13. NoGap'
  <2> SUFFICES ASSUME NoCallLost', NEW y \in Mp PROVE Unbroken(y)' /\ y \in Held'
    BY DEF NoGap
  <2>1. CASE y = e
    BY <1>2, <1>6, <2>1
  <2>2. CASE y # e
    BY <1>2, <1>4, <1>5, <1>12, <2>2 DEF MirrorInv, NoGap
  <2> QED
    BY <2>1, <2>2
<1> QED
  BY <1>2, <1>7, <1>8, <1>9, <1>10, <1>11, <1>13 DEF MirrorInv

\* A persist keeps the invariant: the entries it prunes are too old for a ring
\* without a gap above them.
LEMMA PersistMirror ==
    ASSUME MirrorInv, NEW e \in pending, Persist(e), AgreeInv'
    PROVE  MirrorInv'
<1>t. /\ log.high_water \in Nat /\ log.entries \subseteq Entry
      /\ IsFiniteSet(log.entries) /\ Cardinality(log.entries) <= MaxEntries
      /\ \A x \in Held \cup log.entries : x.seq \in Nat \ {0} /\ x.seq <= log.high_water
      /\ \A x, y \in Held \cup log.entries : x.seq = y.seq => x = y
  BY LogTypes DEF MirrorInv
<1>1. /\ db' = Pruned(PutEntry(db, e), e.seq) /\ pending' = pending \ {e}
      /\ returned' = returned \cup {e} /\ issued' = issued /\ log' = log
  BY DEF Persist
<1>2. e \in Held /\ e.seq \in Nat \ {0} /\ e.seq <= log.high_water
  BY <1>t DEF Held
<1>3. Held' \subseteq Held
  BY <1>1 DEF Held, Pruned, PutEntry
<1>4. ASSUME NEW y \in Held, y.seq + MaxEntries > e.seq PROVE y \in Held'
  <2>1. y.seq \in Nat /\ (y.seq = e.seq => y = e)
    BY <1>t, <1>2
  <2>2. y \in PutEntry(db, e) \/ y \in pending'
    BY <1>1, <2>1 DEF Held, PutEntry
  <2>3. y \in PutEntry(db, e) => y \in db'
    BY <1>1, <1>2, <1>4, <2>1, MaxEntriesAssumption DEF Pruned
  <2> QED
    BY <2>2, <2>3 DEF Held
<1>5. ASSUME NEW y \in log.entries, y \in Held, Unbroken(y) PROVE y \in Held'
  <2>1. y.seq..log.high_water \subseteq SeqsOf(log.entries) /\ y.seq \in Nat
    BY <1>t, <1>5 DEF Unbroken
  <2>2. log.high_water < y.seq + MaxEntries
    BY <1>t, <2>1, RangeWithinBound
  <2> QED
    BY <1>2, <1>4, <1>5, <1>t, <2>1, <2>2, MaxEntriesAssumption
<1>6. \A y \in log.entries : Unbroken(y)' <=> Unbroken(y)
  BY <1>1 DEF Unbroken
<1>7. IsRecord'
  BY <1>1 DEF MirrorInv, IsRecord
<1>8. MarkHeld'
  <2> SUFFICES ASSUME log.high_water # 0 PROVE log.high_water \in SeqsOf(Held')
    BY <1>1 DEF MarkHeld, SeqsOf
  <2>1. PICK x \in Held : x.seq = log.high_water
    BY DEF MirrorInv, MarkHeld, SeqsOf
  <2>2. x \in Held'
    BY <1>t, <1>2, <1>4, <2>1, MaxEntriesAssumption
  <2> QED
    BY <2>1, <2>2 DEF SeqsOf
<1>9. PendingUnbroken'
  BY <1>1, <1>6 DEF MirrorInv, PendingUnbroken
<1>10. NewerHeld'
  <2> SUFFICES ASSUME NEW x \in Held', NEW y \in log.entries, x.seq < y.seq
               PROVE  y \in Held'
    BY <1>1 DEF NewerHeld
  <2>1. y \in Held /\ x \in Held
    BY <1>3 DEF MirrorInv, NewerHeld
  <2>2. CASE x \in pending
    BY <1>5, <2>1, <2>2, <1>t DEF MirrorInv, PendingUnbroken
  <2>3. CASE x \notin pending
    <3>1. x \in db' /\ x \in Held
      BY <1>1, <1>3, <2>3 DEF Held
    <3>2. x.seq + MaxEntries > e.seq
      BY <1>t, <1>1, <1>2, <3>1, MaxEntriesAssumption DEF Pruned
    <3> QED
      BY <1>t, <1>2, <1>4, <2>1, <3>1, <3>2, MaxEntriesAssumption
  <2> QED
    BY <2>2, <2>3
<1>11. EvictedWhenFull'
  BY <1>1, <1>3 DEF MirrorInv, EvictedWhenFull
<1>12. OpsOnce'
  BY <1>1 DEF MirrorInv, OpsOnce
<1>13. NoCallLost' <=> NoCallLost
  <2>1. (returned \cup pending)' = returned \cup pending
    BY <1>1
  <2> QED
    BY <1>1, <2>1 DEF NoCallLost
<1>14. NoGap'
  BY <1>1, <1>5, <1>6, <1>13 DEF MirrorInv, NoGap
<1> QED
  BY <1>7, <1>8, <1>9, <1>10, <1>11, <1>12, <1>14 DEF MirrorInv

\* A restart keeps the invariant; if it lost no call, it left memory as it was.
LEMMA RestartMirror ==
    ASSUME MirrorInv, Restart, AgreeInv'
    PROVE  MirrorInv'
<1>t. /\ log.high_water \in Nat /\ db \subseteq Entry /\ IsFiniteSet(db)
      /\ \A e, f \in db : e.seq = f.seq => e = f
      /\ \A e \in db : e.seq \in Nat \ {0} /\ e.seq <= log.high_water
  BY LogTypes DEF MirrorInv, Held
<1>1. /\ log' = OpenDurable(db) /\ pending' = {} /\ db' = db /\ issued' = issued
      /\ returned' = returned /\ Held' = db /\ log'.entries = Replayed(db)
  BY DEF Restart, OpenDurable, Held
<1>2. Replayed(db) \subseteq db
  BY DEF Replayed
<1>3. IsRecord'
  BY <1>1 DEF IsRecord, OpenDurable
<1>4. MarkHeld'
  <2>1. WellFormed(OpenDurable(db))
    BY <1>t, OpenDurableWellFormed
  <2> QED
    BY <1>1, <1>2, <2>1 DEF MarkHeld, WellFormed, SeqsOf
<1>5. PendingUnbroken' /\ NewerHeld'
  BY <1>1, <1>2 DEF PendingUnbroken, NewerHeld
<1>6. EvictedWhenFull'
  <2>1. ASSUME NEW x \in db, x \notin Replayed(db)
        PROVE  Cardinality(Replayed(db)) = MaxEntries /\ \A y \in Replayed(db) : x.seq < y.seq
    BY <1>t, <2>1, ReplayedNewest
  <2> QED
    BY <1>1, <2>1 DEF EvictedWhenFull
<1>7. OpsOnce'
  BY <1>1 DEF MirrorInv, OpsOnce
<1>8. ASSUME NoCallLost' PROVE pending = {} /\ NoCallLost
  <2>1. issued = {e.op : e \in returned}
    BY <1>1, <1>8 DEF NoCallLost
  <2>2. ASSUME NEW p \in pending PROVE FALSE
    <3>1. PICK r \in returned : r.op = p.op
      BY <2>1 DEF MirrorInv, OpsOnce
    <3> QED
      BY <3>1 DEF MirrorInv, OpsOnce
  <2> QED
    BY <2>1, <2>2 DEF NoCallLost
<1>9. NoGap'
  <2> SUFFICES ASSUME NoCallLost', NEW y \in log'.entries PROVE Unbroken(y)' /\ y \in Held'
    BY DEF NoGap
  <2>1. pending = {} /\ NoCallLost /\ log' = log
    BY <1>1, <1>8, Reopened
  <2>2. Unbroken(y)
    BY <2>1 DEF MirrorInv, NoGap
  <2> QED
    BY <1>1, <1>2, <2>1, <2>2 DEF Unbroken
<1> QED
  BY <1>3, <1>4, <1>5, <1>6, <1>7, <1>9 DEF MirrorInv

\* On the shard's owner, while puts succeed, every step keeps MirrorInv.
LEMMA NextMirrorInv ==
    ASSUME ~PutMayFail, ReplicaSeqs = {}
    PROVE  MirrorInv /\ [Next]_vars => MirrorInv'
<1> SUFFICES ASSUME MirrorInv, [Next]_vars PROVE MirrorInv'
  OBVIOUS
<1>i. AgreeInv'
  BY NextAgreeInv DEF MirrorInv
<1>1. \A e \in pending : ~PersistFails(e)
  BY DEF PersistFails
<1>2. CASE UNCHANGED vars
  <2>1. UNCHANGED <<log, db, pending, issued, returned>>
    BY <1>2 DEF vars
  <2>2. NoCallLost' <=> NoCallLost
    BY <2>1 DEF NoCallLost
  <2>3. IsRecord' /\ MarkHeld' /\ NewerHeld' /\ EvictedWhenFull' /\ OpsOnce'
    BY <2>1 DEF MirrorInv, IsRecord, MarkHeld, NewerHeld, EvictedWhenFull, OpsOnce, Held
  <2>4. PendingUnbroken' /\ NoGap'
    BY <2>1, <2>2 DEF MirrorInv, PendingUnbroken, NoGap, Unbroken, Held
  <2> QED
    BY <1>i, <2>3, <2>4 DEF MirrorInv
<1> QED
  BY <1>i, <1>1, <1>2, RecordOwnerMirror, PersistMirror, RestartMirror DEF Next

\* Once every record call of an owner has returned, reopening the store gives
\* the mark and no other entries than memory has, and gives exactly the log in
\* memory if no crash has caught a call in flight, for any bound on the entries,
\* any number of overlapping calls and restarts, while puts succeed.
THEOREM StoreRebuildsMemory ==
    ASSUME ~PutMayFail, ReplicaSeqs = {}
    PROVE  Spec => []DurableMirrorsMemory
<1>1. MirrorInv => DurableMirrorsMemory
  BY Reopened DEF DurableMirrorsMemory
<1>2. MirrorInv /\ [Next]_vars => MirrorInv'
  BY NextMirrorInv
<1> QED
  BY <1>1, <1>2, InitMirrorInv, PTL DEF Spec

\* A log without a gap serves exact deltas: the window test of since lets a
\* replica through only if the next seq it needs is in the ring.
LEMMA NoGapServes == MirrorInv => ServesContiguously
<1> SUFFICES ASSUME MirrorInv, NoCallLost, NEW f \in 0..(log.high_water - 1)
             PROVE  /\ Incremental(log, f) =>
                         SeqsOf(Delta(log, f)) = (f + 1)..log.high_water
                    /\ TooOld(log, f) => f + 1 \notin SeqsOf(log.entries)
  BY DEF ServesContiguously
<1>t. /\ log.high_water \in Nat
      /\ \A x \in log.entries : x.seq \in Nat \ {0} /\ x.seq <= log.high_water
  BY LogTypes DEF MirrorInv
<1>f. f \in Nat /\ f < log.high_water
  BY <1>t
<1>1. ASSUME Incremental(log, f)
      PROVE  SeqsOf(Delta(log, f)) = (f + 1)..log.high_water
  <2>1. PICK y \in log.entries : y.seq <= f + 1
    BY <1>t, <1>f, <1>1 DEF Incremental, TooOld
  <2>2. \A s \in y.seq..log.high_water : s \in SeqsOf(log.entries)
    BY DEF MirrorInv, NoGap, Unbroken
  <2>3. ASSUME NEW s \in (f + 1)..log.high_water PROVE s \in SeqsOf(Delta(log, f))
    <3>1. s \in SeqsOf(log.entries) /\ s > f
      BY <1>t, <1>f, <2>1, <2>2
    <3> QED
      BY <3>1 DEF SeqsOf, Delta
  <2>4. ASSUME NEW s \in SeqsOf(Delta(log, f)) PROVE s \in (f + 1)..log.high_water
    BY <1>t, <1>f DEF SeqsOf, Delta
  <2> QED
    BY <2>3, <2>4, Zenon
<1>2. ASSUME TooOld(log, f) PROVE f + 1 \notin SeqsOf(log.entries)
  BY <1>t, <1>f, <1>2 DEF TooOld, SeqsOf
<1> QED
  BY <1>1, <1>2

\* If no crash has caught a record call in flight, an owner's log answers
\* Incremental exactly when it holds every seq the replica lacks, before and
\* after restarts, for any bound on the entries and any overlap, while puts
\* succeed.
THEOREM DeltasExact ==
    ASSUME ~PutMayFail, ReplicaSeqs = {}
    PROVE  Spec => []ServesContiguously
<1>1. MirrorInv /\ [Next]_vars => MirrorInv'
  BY NextMirrorInv
<1> QED
  BY <1>1, InitMirrorInv, NoGapServes, PTL DEF Spec
==============================================================================

----------------------------- MODULE ViewRefresh -----------------------------
(***************************************************************************)
(* The materialized views of nexora-eventlog: ViewManager creates, drops   *)
(* and refreshes a view, RefreshScheduler runs its background task, and    *)
(* ViewRefresher computes generations of the view from the event table and *)
(* appends them to the view's target table.                                *)
(*                                                                         *)
(* One view, grouped by event with COUNT( * ), the measure that tells      *)
(* apart a lost and a doubly counted event.  A generation is               *)
(* [version, src, data]: _mv_version, _mv_src_snapshot_id and the counts.  *)
(***************************************************************************)
EXTENDS EventLog

CONSTANTS
  Caller,      \* clients of the ViewManager
  Mode         \* refresh_mode of the view: "pull" (full) or "push" (incremental)

(* The background task a caller's create_view spawns.                      *)
TaskOf(c) == <<"task", c>>
Task == {TaskOf(c) : c \in Caller}
CallerJob(c) == <<"call", c>>
Job == Task \cup {CallerJob(c) : c \in Caller}

VARIABLES
  target,      \* the generations appended to the target table
  job,         \* a refresh in progress: Job -> record
  manager,     \* caller -> where its create_view or drop_view is
  registered,  \* the view is in ViewManager.views
  tracked,     \* the tasks in RefreshScheduler.tasks (at most one: one view)
  running,     \* the spawned tasks not aborted
  overlapped,  \* history: two create_view calls were in progress at once
  skipped      \* history: an append committed between a full refresh's reads

viewVars == <<target, job, manager, registered, tracked, running, overlapped, skipped>>
vars == <<logVars, viewVars>>

NoData == [e \in Event |-> 0]
NoJob == [pc |-> "idle", data |-> NoData, src |-> 0, version |-> 0, read |-> 0]

Init ==
  /\ LogInit
  /\ target = <<>>
  /\ job = [j \in Job |-> NoJob]
  /\ manager = [c \in Caller |-> "idle"]
  /\ registered = FALSE
  /\ tracked = {}
  /\ running = {}
  /\ overlapped = FALSE
  /\ skipped = FALSE

-----------------------------------------------------------------------------
(* The aggregate over the files of snapshot n of the source table, and     *)
(* over the files added after snapshot m (read_snapshot_delta: the set     *)
(* difference of the two snapshots' files, empty when m is the newer).     *)
PartialAggregate(n) == [e \in Event |-> Copies(e, n)]

(* A delta that starts one file late.                                      *)
DeltaOffByOne(m, n) ==
  [e \in Event |-> Cardinality({i \in (1 .. n) \ (1 .. m + 1) : e \in table[i]})]

Delta(m, n) == [e \in Event |-> Cardinality({i \in (1 .. n) \ (1 .. m) : e \in table[i]})]

(* build_merge_sql: COUNTs of the old state and of the delta are summed.   *)
Merge(a, b) == [e \in Event |-> a[e] + b[e]]

Versions == {target[i].version : i \in DOMAIN target}

MaxVersion == IF target = <<>> THEN 0 ELSE CHOOSE v \in Versions : \A w \in Versions : w <= v

(* latest_generation: all the rows of the largest version.  Two            *)
(* generations written with one version are read as one.                   *)
LatestIndexes == {i \in DOMAIN target : target[i].version = MaxVersion}

LatestData ==
  [e \in Event |-> LET Sum[S \in SUBSET LatestIndexes] ==
                         IF S = {} THEN 0
                         ELSE LET i == CHOOSE i \in S : TRUE
                              IN  target[i].data[e] + Sum[S \ {i}]
                   IN  Sum[LatestIndexes]]

-----------------------------------------------------------------------------
Step(j, pc) == job' = [job EXCEPT ![j].pc = pc]

(* refresh_aggregate and refresh_sql: scan the source table at its current *)
(* snapshot; an empty source ends the refresh.                             *)
ReadSource(j) ==
  /\ job[j].pc = "source"
  /\ job' = [job EXCEPT ![j] = IF table = <<>> THEN [@ EXCEPT !.pc = "done"]
               ELSE [@ EXCEPT !.pc = "version", !.data = PartialAggregate(Len(table)),
                              !.read = Len(table)]]
  /\ UNCHANGED <<target, manager, registered, tracked, running, overlapped, skipped>>

(* next_version; a full refresh then asks for the source's snapshot.       *)
NextVersion(j) ==
  /\ job[j].pc \in {"version", "versionOfDelta"}
  /\ job' = [job EXCEPT ![j].version = MaxVersion + 1,
               ![j].pc = IF @ = "version" THEN "snapshot" ELSE "write"]
  /\ UNCHANGED <<target, manager, registered, tracked, running, overlapped, skipped>>

(* source_snapshot_id: the watermark of a full refresh is read after the   *)
(* data.                                                                   *)
SourceSnapshot(j) ==
  /\ job[j].pc = "snapshot"
  /\ job' = [job EXCEPT ![j].src = Len(table), ![j].pc = "write"]
  /\ skipped' = (skipped \/ Len(table) # job[j].read)
  /\ UNCHANGED <<target, manager, registered, tracked, running, overlapped>>

(* write_versioned_batch: an append to the target table, whose commit      *)
(* conflicts are retried.                                                  *)
WriteGeneration(j) ==
  /\ job[j].pc = "write"
  /\ target' = Append(target, [version |-> job[j].version, src |-> job[j].src,
                               data |-> job[j].data])
  /\ Step(j, "done")
  /\ UNCHANGED <<manager, registered, tracked, running, overlapped, skipped>>

(* incremental_aggregate, first the source's current snapshot.             *)
CurrentSnapshot(j) ==
  /\ job[j].pc = "current"
  /\ job' = [job EXCEPT ![j] = IF table = <<>> THEN [@ EXCEPT !.pc = "done"]
               ELSE [@ EXCEPT !.pc = "latest", !.src = Len(table)]]
  /\ UNCHANGED <<target, manager, registered, tracked, running, overlapped, skipped>>

(* A delta read from the files after the job's snapshot minus one.         *)
MergeDeltaAgain(j) ==
  /\ job[j].pc = "latest"
  /\ IF target = <<>> THEN job' = [job EXCEPT ![j] = [NoJob EXCEPT !.pc = "source"]]
     ELSE \E i \in LatestIndexes :
       LET delta == Delta(target[i].src - 1, job[j].src)
       IN  job' = [job EXCEPT ![j] =
             IF target[i].src = job[j].src \/ delta = NoData THEN [@ EXCEPT !.pc = "done"]
             ELSE [@ EXCEPT !.pc = "versionOfDelta", !.data = Merge(LatestData, delta)]]
  /\ UNCHANGED <<target, manager, registered, tracked, running, overlapped, skipped>>

(* Then the latest generation: none falls back to a full refresh; an equal *)
(* watermark or an empty delta is a no-op; otherwise old state and delta   *)
(* are merged.  The watermark is taken from the first row of the           *)
(* generation, whichever comes first.                                      *)
MergeDelta(j) ==
  /\ job[j].pc = "latest"
  /\ IF target = <<>> THEN job' = [job EXCEPT ![j] = [NoJob EXCEPT !.pc = "source"]]
     ELSE \E i \in LatestIndexes :
       LET delta == Delta(target[i].src, job[j].src)
       IN  job' = [job EXCEPT ![j] =
             IF target[i].src = job[j].src \/ delta = NoData THEN [@ EXCEPT !.pc = "done"]
             ELSE [@ EXCEPT !.pc = "versionOfDelta", !.data = Merge(LatestData, delta)]]
  /\ UNCHANGED <<target, manager, registered, tracked, running, overlapped, skipped>>

RefreshStep(j) ==
  \/ ReadSource(j) \/ NextVersion(j) \/ SourceSnapshot(j) \/ WriteGeneration(j)
  \/ CurrentSnapshot(j) \/ MergeDelta(j)

-----------------------------------------------------------------------------
(* The start of a refresh, of the kind of the view's mode or full.         *)
Begin(j, incremental) ==
  job' = [job EXCEPT ![j] = [NoJob EXCEPT !.pc = IF incremental THEN "current" ELSE "source"]]

Refreshes == todo.refreshes > 0 /\ todo' = [todo EXCEPT !.refreshes = @ - 1]

(* A tick of the scheduled task: it refreshes, logs an error, and waits    *)
(* for the next tick.                                                      *)
ScheduledRefresh(t) ==
  /\ t \in running
  /\ job[t].pc \in {"idle", "done"}
  /\ Refreshes
  /\ Begin(t, Mode = "push")
  /\ UNCHANGED <<target, manager, registered, tracked, running, overlapped, skipped>>

(* refresh_view, and incremental_update for a view in push mode.           *)
RefreshView(c) ==
  /\ registered
  /\ manager[c] = "idle"
  /\ Refreshes
  /\ \E incremental \in {FALSE, Mode = "push"} : Begin(CallerJob(c), incremental)
  /\ manager' = [manager EXCEPT ![c] = "refreshing"]
  /\ UNCHANGED <<target, registered, tracked, running, overlapped, skipped>>

RefreshReturns(c) ==
  /\ manager[c] = "refreshing"
  /\ job[CallerJob(c)].pc = "done"
  /\ manager' = [manager EXCEPT ![c] = "idle"]
  /\ job' = [job EXCEPT ![CallerJob(c)] = NoJob]
  /\ UNCHANGED <<target, registered, tracked, running, overlapped, skipped, todo>>

-----------------------------------------------------------------------------
Creating(c) == manager[c] \in {"creating", "cancelOld", "spawn", "register"}

(* create_view: load the source table, which ensure_table_from_domain may  *)
(* have created empty, run a full refresh, ...                             *)
CreateView(c) ==
  /\ c \in todo.creates
  /\ manager[c] = "idle"
  /\ todo' = [todo EXCEPT !.creates = @ \ {c}]
  /\ manager' = [manager EXCEPT ![c] = "creating"]
  /\ Begin(CallerJob(c), FALSE)
  /\ overlapped' = (overlapped \/ \E d \in Caller : Creating(d))
  /\ UNCHANGED <<target, registered, tracked, running, skipped>>

Created(c) ==
  /\ manager[c] = "creating"
  /\ job[CallerJob(c)].pc = "done"
  /\ manager' = [manager EXCEPT ![c] = "cancelOld"]
  /\ job' = [job EXCEPT ![CallerJob(c)] = NoJob]
  /\ UNCHANGED <<target, registered, tracked, running, overlapped, skipped, todo>>

(* RefreshScheduler::cancel: remove the task and abort it, wherever its    *)
(* refresh is.                                                             *)
Cancel ==
  /\ tracked' = {}
  /\ running' = running \ tracked
  /\ job' = [j \in Job |-> IF j \in tracked THEN NoJob ELSE job[j]]

(* ... schedule: cancel the previous task, spawn the new one and keep its  *)
(* handle (an overwritten handle detaches its task), ...                   *)
CancelOld(c) ==
  /\ manager[c] = "cancelOld"
  /\ Cancel
  /\ manager' = [manager EXCEPT ![c] = "spawn"]
  /\ UNCHANGED <<target, registered, overlapped, skipped, todo>>

Spawn(c) ==
  /\ manager[c] = "spawn"
  /\ running' = running \cup {TaskOf(c)}
  /\ tracked' = {TaskOf(c)}
  /\ manager' = [manager EXCEPT ![c] = "register"]
  /\ UNCHANGED <<target, job, registered, overlapped, skipped, todo>>

(* ... and insert the definition.                                          *)
Register(c) ==
  /\ manager[c] = "register"
  /\ registered' = TRUE
  /\ manager' = [manager EXCEPT ![c] = "idle"]
  /\ UNCHANGED <<target, job, tracked, running, overlapped, skipped, todo>>

(* drop_view: remove the definition, then cancel the task.                 *)
DropView(c) ==
  /\ c \in todo.dropBy
  /\ manager[c] = "idle"
  /\ registered
  /\ todo' = [todo EXCEPT !.dropBy = @ \ {c}]
  /\ registered' = FALSE
  /\ manager' = [manager EXCEPT ![c] = "cancel"]
  /\ UNCHANGED <<target, job, tracked, running, overlapped, skipped>>

(* A drop that leaves the scheduled task alone.                            *)
DropForgetsTask(c) ==
  /\ manager[c] = "cancel"
  /\ manager' = [manager EXCEPT ![c] = "idle"]
  /\ tracked' = {}
  /\ UNCHANGED <<target, job, running, registered, overlapped, skipped, todo>>

DropCancels(c) ==
  /\ manager[c] = "cancel"
  /\ Cancel
  /\ manager' = [manager EXCEPT ![c] = "idle"]
  /\ UNCHANGED <<target, registered, overlapped, skipped, todo>>

(* A refresh fails: the task waits for its next tick, refresh_view and     *)
(* create_view return the error.                                           *)
RefreshFails(j) ==
  /\ todo.faults > 0
  /\ job[j].pc \notin {"idle", "done"}
  /\ todo' = [todo EXCEPT !.faults = @ - 1]
  /\ job' = [job EXCEPT ![j] = NoJob]
  /\ manager' = [c \in Caller |-> IF j = CallerJob(c) THEN "idle" ELSE manager[c]]
  /\ UNCHANGED <<target, registered, tracked, running, overlapped, skipped>>

ViewStep ==
  \/ \E j \in Job : (RefreshStep(j) /\ UNCHANGED todo) \/ RefreshFails(j)
  \/ \E t \in Task : ScheduledRefresh(t)
  \/ \E c \in Caller :
       \/ RefreshView(c) \/ RefreshReturns(c) \/ CreateView(c) \/ Created(c)
       \/ CancelOld(c) \/ Spawn(c) \/ Register(c) \/ DropView(c) \/ DropCancels(c)

ViewNext == ViewStep /\ UNCHANGED <<call, buffer, batchSize, flush, table, ambiguous>>

Next == (LogNext /\ UNCHANGED viewVars) \/ ViewNext

Spec == Init /\ [][Next]_vars
FairSpec == Spec /\ LogFairness

-----------------------------------------------------------------------------
TypeOK ==
  /\ LogTypeOK
  /\ \A i \in DOMAIN target :
       target[i] \in [version : Nat \ {0}, src : 1 .. Len(table), data : [Event -> Nat]]
  /\ manager \in [Caller -> {"idle", "refreshing", "creating", "cancelOld", "spawn",
                             "register", "cancel"}]
  /\ registered \in BOOLEAN
  /\ tracked \subseteq running
  /\ running \subseteq Task

Unshared == \A i, k \in DOMAIN target : target[i].version = target[k].version => i = k

(* While no two generations were written with one version, no generation   *)
(* counts an event more often than the snapshot it names holds it: however *)
(* refreshes overlap, a delta is never merged into a state that has it.    *)
NeverOvercounts ==
  Unshared => \A i \in DOMAIN target : \A e \in Event :
                target[i].data[e] <= Copies(e, target[i].src)

(* If also no append committed between the two reads of a full refresh,    *)
(* every generation is exactly the aggregate of the snapshot it names.     *)
ExactUnlessSkipped ==
  Unshared /\ ~skipped => \A i \in DOMAIN target :
                            target[i].data = PartialAggregate(target[i].src)

(* The generations of the view: none counts an event twice, and none       *)
(* misses one but by a skipped append.                                     *)
GenerationsExact == NeverOvercounts /\ ExactUnlessSkipped

(* A dropped view stops refreshing: with no call in progress, no task runs *)
(* for a view that is not registered, unless two create_view calls         *)
(* overlapped (the second handle then replaces the first one's).           *)
DroppedStopsRefreshing ==
  (~overlapped /\ ~registered /\ \A c \in Caller : manager[c] \in {"idle", "refreshing"})
    => running = {}
=============================================================================

----------------------------- MODULE ViewsProofs -----------------------------
(***************************************************************************)
(* Proofs about the event log and its views: appends are exact under       *)
(* failed and retried commits, generations are exact under overlapping     *)
(* refreshes, and a dropped view stops refreshing.                         *)
(***************************************************************************)
EXTENDS ViewRefresh, FiniteSetTheorems, TLAPS

-----------------------------------------------------------------------------
(* The event log.                                                          *)

FlushPcs == {"idle", "take", "load", "commit", "landed"}

(* A flush_topic call has its fields.                                      *)
IsFlush(r) ==
  /\ r = [pc |-> r.pc, events |-> r.events, attempt |-> r.attempt, base |-> r.base,
          tries |-> r.tries]
  /\ r.pc \in FlushPcs
  /\ \A e \in r.events : e \in Event
  /\ r.pc \in {"idle", "take"} => r.events = {}

LogShape ==
  /\ "events" \in DOMAIN todo
  /\ call = [e \in Event |-> call[e]]
  /\ \A e \in Event : call[e] \in {"idle", "waiting", "ok", "failed"}
  /\ \A e \in buffer : e \in Event
  /\ flush = [f \in Flusher |-> flush[f]]
  /\ \A f \in Flusher : IsFlush(flush[f])
  /\ Len(table) \in Nat /\ table \in Seq(SUBSET Event)

Has(e, n) == \E i \in 1 .. n : e \in table[i]

(* Where an event is: waiting in the buffer or in one flush, or nowhere.   *)
InOnePlace ==
  /\ \A e \in buffer : call[e] = "waiting"
  /\ \A f \in Flusher : \A e \in flush[f].events :
       /\ call[e] = "waiting" /\ e \notin buffer
       /\ \A g \in Flusher : e \in flush[g].events => g = f
  /\ \A e \in Event : call[e] = "waiting" =>
       e \in buffer \/ \E f \in Flusher : e \in flush[f].events
  /\ \A e \in Event : e \in todo.events => call[e] = "idle" /\ flush[e].pc = "idle"

(* What is in the table: the answered events and those whose commit landed;*)
(* the unambiguous ones once, and no others.                               *)
InTable ==
  /\ \A e \in Event : call[e] = "ok" => Has(e, Len(table))
  /\ \A f \in Flusher : flush[f].pc = "landed" =>
       \A e \in flush[f].events : Has(e, Len(table))
  /\ \A e \in Event \ ambiguous : Has(e, Len(table)) =>
       \/ call[e] = "ok"
       \/ \E f \in Flusher : flush[f].pc = "landed" /\ e \in flush[f].events
  /\ \A e \in Event \ ambiguous : \A i, j \in 1 .. Len(table) :
       e \in table[i] /\ e \in table[j] => i = j

(* The inductive invariant.                                                *)
LogInv == LogShape /\ InOnePlace /\ InTable

(* The names of flushers.                                                  *)
LEMMA FlusherNames ==
  /\ "worker" \in Flusher /\ "drain" \in Flusher
  /\ \A e \in Event : e \in Flusher /\ e # "worker" /\ e # "drain"
BY EventLogAssumption DEF Flusher

LEMMA NoFlushShape == IsFlush(NoFlush) /\ NoFlush.events = {} /\ NoFlush.pc = "idle"
BY DEF NoFlush, IsFlush, FlushPcs

LEMMA InitLog == LogInit => LogInv
<1> SUFFICES ASSUME LogInit PROVE LogInv
  OBVIOUS
<1>1. LogShape
  <2>1. "events" \in DOMAIN todo
    BY EventLogAssumption DEF LogInit
  <2> QED
    BY <2>1, NoFlushShape DEF LogInit, LogShape
<1>2. InOnePlace
  BY NoFlushShape, FlusherNames DEF LogInit, InOnePlace
<1>3. InTable
  BY NoFlushShape DEF LogInit, InTable, Has
<1> QED
  BY <1>1, <1>2, <1>3 DEF LogInv

(* A step that sets one flush to r.                                        *)
LEMMA SetFlush ==
  ASSUME LogShape, NEW f \in Flusher, NEW r, IsFlush(r), flush' = [flush EXCEPT ![f] = r]
  PROVE  /\ flush' = [g \in Flusher |-> flush'[g]]
         /\ \A g \in Flusher : flush'[g] = IF g = f THEN r ELSE flush[g]
         /\ \A g \in Flusher : IsFlush(flush'[g])
<1>1. flush = [g \in Flusher |-> flush[g]] /\ \A g \in Flusher : IsFlush(flush[g])
  BY DEF LogShape
<1>2. /\ flush' = [g \in Flusher |-> flush'[g]]
      /\ \A g \in Flusher : flush'[g] = IF g = f THEN r ELSE flush[g]
  BY <1>1
<1> QED
  BY <1>1, <1>2

(* An attempt goes on or starts over, with its events.                     *)
LEMMA AttemptKeeps ==
  ASSUME LogInv, NEW f \in Flusher, NEW r, IsFlush(r),
         f \in InFlight, r.pc \in {"load", "commit"}, r.events = flush[f].events,
         flush' = [flush EXCEPT ![f] = r], UNCHANGED <<call, buffer, table>>,
         "events" \in DOMAIN todo', todo'.events = todo.events,
         ambiguous' = IF flush[f].pc = "landed" THEN ambiguous \cup flush[f].events ELSE ambiguous
  PROVE  LogInv'
<1>1. LogShape /\ InOnePlace /\ InTable
  BY DEF LogInv
<1>2. /\ flush' = [g \in Flusher |-> flush'[g]]
      /\ \A g \in Flusher : flush'[g] = IF g = f THEN r ELSE flush[g]
      /\ \A g \in Flusher : IsFlush(flush'[g])
  BY <1>1, SetFlush, Zenon
<1>3. \A g \in Flusher : flush'[g].events = flush[g].events
  BY <1>2
<1>4. flush[f].pc # "idle" /\ \A g \in Flusher : flush[g].pc = "idle" => flush'[g].pc = "idle"
  BY <1>2 DEF InFlight
<1>5. LogShape'
  BY <1>1, <1>2 DEF LogShape
<1>6. InOnePlace'
  BY <1>1, <1>3, <1>4, FlusherNames DEF InOnePlace
<1>7. InTable'
  <2>1. \A e, n : Has(e, n)' <=> Has(e, n)
    BY DEF Has
  <2>2. \A g \in Flusher : flush'[g].pc = "landed" => flush[g].pc = "landed" /\ g # f
    BY <1>2
  <2>3. \A e \in Event \ ambiguous' : Has(e, Len(table)) =>
           \/ call[e] = "ok"
           \/ \E g \in Flusher : flush'[g].pc = "landed" /\ e \in flush'[g].events
    <3> SUFFICES ASSUME NEW e \in Event, e \notin ambiguous', Has(e, Len(table)), call[e] # "ok"
                 PROVE  \E g \in Flusher : flush'[g].pc = "landed" /\ e \in flush'[g].events
      OBVIOUS
    <3>1. PICK g \in Flusher : flush[g].pc = "landed" /\ e \in flush[g].events
      BY <1>1 DEF InTable
    <3>2. g # f
      BY <3>1
    <3> QED
      BY <1>2, <3>1, <3>2
  <2>4. ambiguous \subseteq ambiguous'
    OBVIOUS
  <2> QED
    BY <1>1, <1>3, <2>1, <2>2, <2>3, <2>4 DEF InTable
<1> QED
  BY <1>5, <1>6, <1>7 DEF LogInv

(* The waiting senders of a flush get the result.                          *)
LEMMA AnswerKeeps ==
  ASSUME LogInv, NEW f \in Flusher, NEW result \in {"ok", "failed"},
         f \in InFlight, Answer(f, result), UNCHANGED <<buffer, table>>,
         result = "ok" => flush[f].pc = "landed" /\ ambiguous' = ambiguous,
         "events" \in DOMAIN todo', todo'.events = todo.events,
         result = "failed" =>
           ambiguous' = IF flush[f].pc = "landed" THEN ambiguous \cup flush[f].events ELSE ambiguous
  PROVE  LogInv'
<1>1. LogShape /\ InOnePlace /\ InTable
  BY DEF LogInv
<1>2. /\ flush' = [g \in Flusher |-> flush'[g]]
      /\ \A g \in Flusher : flush'[g] = IF g = f THEN NoFlush ELSE flush[g]
      /\ \A g \in Flusher : IsFlush(flush'[g])
  BY <1>1, SetFlush, NoFlushShape, Zenon DEF Answer
<1>3. /\ call' = [e \in Event |-> call'[e]]
      /\ \A e \in Event : call'[e] = IF e \in flush[f].events THEN result ELSE call[e]
  BY DEF Answer
<1>4. \A e \in flush[f].events : e \in Event /\ call[e] = "waiting" /\ e \notin buffer
  BY <1>1 DEF InOnePlace, LogShape, IsFlush
<1>5. LogShape'
  BY <1>1, <1>2, <1>3 DEF LogShape
<1>6. InOnePlace'
  <2>0. /\ \A d \in buffer : d \in Event
        /\ \A g \in Flusher : \A d \in flush[g].events : d \in Event
    BY <1>1 DEF LogShape, IsFlush
  <2>1. \A e \in buffer' : call'[e] = "waiting"
    BY <1>1, <1>3, <1>4, <2>0 DEF InOnePlace
  <2>2. \A g \in Flusher : \A e \in flush'[g].events :
          /\ g # f /\ e \in flush[g].events /\ e \in Event /\ e \notin flush[f].events
    BY <1>1, <1>2, <2>0, NoFlushShape DEF InOnePlace
  <2>3. \A g \in Flusher : \A e \in flush'[g].events :
          /\ call'[e] = "waiting" /\ e \notin buffer'
          /\ \A h \in Flusher : e \in flush'[h].events => h = g
    BY <1>1, <1>3, <2>2 DEF InOnePlace
  <2>4. \A e \in Event : call'[e] = "waiting" =>
          e \in buffer' \/ \E g \in Flusher : e \in flush'[g].events
    BY <1>1, <1>2, <1>3 DEF InOnePlace
  <2>5. \A e \in Event : e \in todo'.events => call'[e] = "idle" /\ flush'[e].pc = "idle"
    BY <1>1, <1>2, <1>3, <1>4, NoFlushShape, FlusherNames DEF InOnePlace
  <2> QED
    BY <2>1, <2>3, <2>4, <2>5 DEF InOnePlace
<1>7. InTable'
  <2>1. \A e, n : Has(e, n)' <=> Has(e, n)
    BY DEF Has
  <2>2. \A e \in Event : call'[e] = "ok" => Has(e, Len(table))
    BY <1>1, <1>3 DEF InTable
  <2>3. \A g \in Flusher : flush'[g].pc = "landed" =>
          /\ g # f /\ flush[g].pc = "landed" /\ flush'[g].events = flush[g].events
    BY <1>2, NoFlushShape
  <2>4. \A e \in Event \ ambiguous' : Has(e, Len(table)) =>
          \/ call'[e] = "ok"
          \/ \E g \in Flusher : flush'[g].pc = "landed" /\ e \in flush'[g].events
    <3> SUFFICES ASSUME NEW e \in Event, e \notin ambiguous', Has(e, Len(table)), call'[e] # "ok"
                 PROVE  \E g \in Flusher : flush'[g].pc = "landed" /\ e \in flush'[g].events
      OBVIOUS
    <3>0. e \notin ambiguous
      OBVIOUS
    <3>1. call[e] # "ok"
      BY <1>3, <1>4
    <3>2. PICK g \in Flusher : flush[g].pc = "landed" /\ e \in flush[g].events
      BY <1>1, <3>0, <3>1 DEF InTable
    <3>3. g # f
      BY <1>3, <3>2
    <3> QED
      BY <1>2, <3>2, <3>3
  <2>5. ambiguous \subseteq ambiguous'
    OBVIOUS
  <2> QED
    BY <1>1, <2>1, <2>2, <2>3, <2>4, <2>5 DEF InTable
<1> QED
  BY <1>5, <1>6, <1>7 DEF LogInv

(* A flush starts: nothing else changes but the number of drains.          *)
LEMMA StartKeeps ==
  ASSUME LogInv, NEW f \in Flusher, f \notin Event, flush[f].pc = "idle",
         flush' = [flush EXCEPT ![f].pc = "take"], UNCHANGED <<call, buffer, table, ambiguous>>,
         "events" \in DOMAIN todo', todo'.events = todo.events
  PROVE  LogInv'
<1>1. LogShape /\ InOnePlace /\ InTable
  BY DEF LogInv
<1>2. PICK r : r = [flush[f] EXCEPT !.pc = "take"]
  BY Zenon
<1>3. IsFlush(flush[f])
  BY <1>1 DEF LogShape
<1>4. IsFlush(r) /\ r.pc = "take" /\ r.events = flush[f].events
  BY <1>2, <1>3 DEF IsFlush, FlushPcs
<1>5. /\ flush' = [g \in Flusher |-> flush'[g]]
      /\ \A g \in Flusher : flush'[g] = IF g = f THEN r ELSE flush[g]
      /\ \A g \in Flusher : IsFlush(flush'[g])
  BY <1>1, <1>2, <1>4, SetFlush, Zenon
<1>6. /\ \A g \in Flusher : flush'[g].events = flush[g].events
      /\ \A g \in Flusher : flush'[g].pc = "landed" <=> flush[g].pc = "landed"
      /\ \A e \in Event : flush'[e].pc = flush[e].pc
  BY <1>4, <1>5, FlusherNames
<1>7. LogShape'
  BY <1>1, <1>5 DEF LogShape
<1>8. InOnePlace'
  BY <1>1, <1>6 DEF InOnePlace
<1>9. InTable'
  <2>1. \A e, n : Has(e, n)' <=> Has(e, n)
    BY DEF Has
  <2> QED
    BY <1>1, <1>6, <2>1 DEF InTable
<1> QED
  BY <1>7, <1>8, <1>9 DEF LogInv

(* An append enters the buffer, and may start a flush named after it.      *)
LEMMA AppendKeeps ==
  ASSUME LogInv, NEW e \in Event, AppendEvent(e)
  PROVE  LogInv'
<1>1. LogShape /\ InOnePlace /\ InTable
  BY DEF LogInv
<1>2. /\ e \in todo.events /\ call[e] = "idle" /\ flush[e].pc = "idle" /\ e \in Flusher
      /\ "events" \in DOMAIN todo' /\ todo'.events = todo.events \ {e}
  BY <1>1, FlusherNames, Zenon DEF AppendEvent, InOnePlace, LogShape
<1>3. IsFlush(flush[e])
  BY <1>1, <1>2 DEF LogShape
<1>4. PICK r : IsFlush(r) /\ r.pc \in {"idle", "take"} /\ flush' = [flush EXCEPT ![e] = r]
  <2>1. CASE Cardinality(buffer') >= batchSize
    <3>1. PICK r : r = [flush[e] EXCEPT !.pc = "take"]
      BY Zenon
    <3>2. IsFlush(r) /\ r.pc = "take"
      BY <1>2, <1>3, <3>1 DEF IsFlush, FlushPcs
    <3> QED
      BY <2>1, <3>1, <3>2, Zenon DEF AppendEvent
  <2>2. CASE ~(Cardinality(buffer') >= batchSize)
    <3>1. flush' = [flush EXCEPT ![e] = flush[e]]
      BY <1>1, <2>2 DEF AppendEvent, LogShape
    <3> QED
      BY <1>2, <1>3, <3>1, Zenon
  <2> QED
    BY <2>1, <2>2
<1>5. /\ flush' = [g \in Flusher |-> flush'[g]]
      /\ \A g \in Flusher : flush'[g] = IF g = e THEN r ELSE flush[g]
      /\ \A g \in Flusher : IsFlush(flush'[g])
  BY <1>1, <1>2, <1>4, SetFlush, Zenon
<1>6. /\ \A g \in Flusher : flush'[g].events = flush[g].events
      /\ \A g \in Flusher : flush'[g].pc = "landed" <=> flush[g].pc = "landed"
      /\ \A g \in Flusher : g # e => flush'[g].pc = flush[g].pc
  BY <1>2, <1>3, <1>4, <1>5, Zenon DEF IsFlush
<1>7. /\ call' = [d \in Event |-> call'[d]]
      /\ \A d \in Event : call'[d] = IF d = e THEN "waiting" ELSE call[d]
      /\ buffer' = buffer \cup {e} /\ UNCHANGED <<table, ambiguous>>
  BY <1>1 DEF AppendEvent, LogShape
<1>8. e \notin buffer /\ \A g \in Flusher : e \notin flush[g].events
  BY <1>1, <1>2 DEF InOnePlace
<1>9. LogShape'
  BY <1>1, <1>2, <1>5, <1>7 DEF LogShape
<1>10. InOnePlace'
  <2>0. /\ \A d \in buffer : d \in Event
        /\ \A g \in Flusher : \A d \in flush[g].events : d \in Event
    BY <1>1 DEF LogShape, IsFlush
  <2>1. \A d \in buffer' : call'[d] = "waiting"
    BY <1>1, <1>7, <2>0 DEF InOnePlace
  <2>2. \A g \in Flusher : \A d \in flush'[g].events :
          /\ call'[d] = "waiting" /\ d \notin buffer'
          /\ \A h \in Flusher : d \in flush'[h].events => h = g
    BY <1>1, <1>6, <1>7, <1>8, <2>0 DEF InOnePlace
  <2>3. \A d \in Event : call'[d] = "waiting" =>
          d \in buffer' \/ \E g \in Flusher : d \in flush'[g].events
    BY <1>1, <1>6, <1>7 DEF InOnePlace
  <2>4. \A d \in Event : d \in todo'.events => call'[d] = "idle" /\ flush'[d].pc = "idle"
    BY <1>1, <1>2, <1>6, <1>7, FlusherNames DEF InOnePlace
  <2> QED
    BY <2>1, <2>2, <2>3, <2>4 DEF InOnePlace
<1>11. InTable'
  <2>1. \A d, n : Has(d, n)' <=> Has(d, n)
    BY <1>7 DEF Has
  <2>2. \A d \in Event : call'[d] = "ok" <=> call[d] = "ok"
    BY <1>2, <1>7
  <2> QED
    BY <1>1, <1>6, <1>7, <2>1, <2>2 DEF InTable
<1> QED
  BY <1>9, <1>10, <1>11 DEF LogInv

(* A flush takes the buffer, all of it, or finds it empty.                 *)
LEMMA TakeKeeps ==
  ASSUME LogInv, NEW f \in Flusher, TakeBuffer(f)
  PROVE  LogInv'
<1>1. LogShape /\ InOnePlace /\ InTable
  BY DEF LogInv
<1>2. IsFlush(flush[f]) /\ flush[f].pc = "take" /\ flush[f].events = {}
  BY <1>1 DEF LogShape, TakeBuffer, IsFlush
<1>3. PICK r : r = IF buffer = {} THEN NoFlush
                   ELSE [flush[f] EXCEPT !.pc = "load", !.events = buffer, !.attempt = 1]
  OBVIOUS
<1>4. IsFlush(r) /\ r.events = buffer /\ r.pc \in {"idle", "load"}
  <2>1. CASE buffer = {}
    BY <1>3, <2>1, NoFlushShape
  <2>2. CASE buffer # {}
    BY <1>1, <1>2, <1>3, <2>2, Zenon DEF IsFlush, FlushPcs, LogShape
  <2> QED
    BY <2>1, <2>2
<1>5. flush' = [flush EXCEPT ![f] = r] /\ buffer' = {} /\ UNCHANGED <<todo, call, table, ambiguous>>
  BY <1>3 DEF TakeBuffer
<1>6. /\ flush' = [g \in Flusher |-> flush'[g]]
      /\ \A g \in Flusher : flush'[g] = IF g = f THEN r ELSE flush[g]
      /\ \A g \in Flusher : IsFlush(flush'[g])
  BY <1>1, <1>4, <1>5, SetFlush, Zenon
<1>7. /\ \A g \in Flusher : flush'[g].events = IF g = f THEN buffer ELSE flush[g].events
      /\ \A g \in Flusher : flush'[g].pc = "landed" <=> flush[g].pc = "landed"
      /\ \A g \in Flusher : flush[g].pc = "idle" => flush'[g].pc = "idle"
  BY <1>2, <1>4, <1>6
<1>8. LogShape'
  BY <1>1, <1>5, <1>6 DEF LogShape
<1>9. InOnePlace'
  <2>1. \A g \in Flusher : \A d \in flush'[g].events :
          /\ call[d] = "waiting" /\ d \notin buffer'
          /\ \A h \in Flusher : d \in flush'[h].events => h = g
    BY <1>1, <1>5, <1>7 DEF InOnePlace
  <2>2. \A d \in Event : call[d] = "waiting" =>
          \E g \in Flusher : d \in flush'[g].events
    BY <1>1, <1>2, <1>7 DEF InOnePlace
  <2>3. \A d \in Event : d \in todo.events => call[d] = "idle" /\ flush'[d].pc = "idle"
    BY <1>1, <1>7, FlusherNames DEF InOnePlace
  <2> QED
    BY <1>5, <2>1, <2>2, <2>3 DEF InOnePlace
<1>10. InTable'
  <2>1. \A d, n : Has(d, n)' <=> Has(d, n)
    BY <1>5 DEF Has
  <2>2. \A g \in Flusher : flush[g].pc = "landed" => flush'[g].events = flush[g].events
    BY <1>2, <1>7
  <2> QED
    BY <1>1, <1>5, <1>7, <2>1, <2>2 DEF InTable
<1> QED
  BY <1>8, <1>9, <1>10 DEF LogInv

(* A commit lands: its events were in the table before only if ambiguous.  *)
LEMMA LandsKeeps ==
  ASSUME LogInv, NEW f \in Flusher, CommitLands(f)
  PROVE  LogInv'
<1>1. LogShape /\ InOnePlace /\ InTable
  BY DEF LogInv
<1>2. IsFlush(flush[f]) /\ flush[f].pc = "commit"
  BY <1>1 DEF LogShape, CommitLands
<1>3. PICK r : r = [flush[f] EXCEPT !.pc = "landed"]
  BY Zenon
<1>4. IsFlush(r) /\ r.events = flush[f].events /\ r.pc = "landed"
  BY <1>2, <1>3 DEF IsFlush, FlushPcs
<1>5. /\ flush' = [flush EXCEPT ![f] = r] /\ table' = Append(table, flush[f].events)
      /\ UNCHANGED <<todo, call, buffer, ambiguous>>
  BY <1>3 DEF CommitLands
<1>6. /\ flush' = [g \in Flusher |-> flush'[g]]
      /\ \A g \in Flusher : flush'[g] = IF g = f THEN r ELSE flush[g]
      /\ \A g \in Flusher : IsFlush(flush'[g])
  BY <1>1, <1>4, <1>5, SetFlush, Zenon
<1>7. /\ \A g \in Flusher : flush'[g].events = flush[g].events
      /\ \A g \in Flusher : flush'[g].pc = "landed" <=> (g = f \/ flush[g].pc = "landed")
      /\ \A g \in Flusher : flush[g].pc = "idle" => flush'[g].pc = "idle"
  BY <1>2, <1>4, <1>6
<1>8. PICK n \in Nat : n = Len(table)
  BY <1>1 DEF LogShape
<1>9. /\ Len(table') = n + 1 /\ table' \in Seq(SUBSET Event)
      /\ \A i \in 1 .. n : table'[i] = table[i]
      /\ table'[n + 1] = flush[f].events
  <2>1. table \in Seq(SUBSET Event) /\ flush[f].events \in SUBSET Event
    BY <1>1, <1>2 DEF LogShape, IsFlush
  <2> QED
    BY <1>5, <1>8, <2>1
<1>10. LogShape'
  BY <1>1, <1>5, <1>6, <1>9 DEF LogShape
<1>11. InOnePlace'
  BY <1>1, <1>5, <1>7, FlusherNames DEF InOnePlace
<1>12. \A e : Has(e, Len(table))' <=> (Has(e, n) \/ e \in flush[f].events)
  BY <1>9 DEF Has
<1>13. \A e \in flush[f].events : e \in Event /\ (e \notin ambiguous => ~Has(e, n))
  BY <1>1, <1>2, <1>8 DEF InTable, InOnePlace, IsFlush
<1>14. InTable'
  <2>1. \A e \in Event : call[e] = "ok" => Has(e, Len(table))'
    BY <1>1, <1>8, <1>12 DEF InTable
  <2>2. \A g \in Flusher : flush'[g].pc = "landed" =>
          \A e \in flush'[g].events : Has(e, Len(table))'
    BY <1>1, <1>7, <1>8, <1>12 DEF InTable
  <2>3. \A e \in Event \ ambiguous : Has(e, Len(table))' =>
          \/ call[e] = "ok"
          \/ \E g \in Flusher : flush'[g].pc = "landed" /\ e \in flush'[g].events
    BY <1>1, <1>7, <1>8, <1>12 DEF InTable
  <2>4. \A e \in Event \ ambiguous : \A i, j \in 1 .. Len(table') :
          e \in table'[i] /\ e \in table'[j] => i = j
    <3> SUFFICES ASSUME NEW e \in Event, e \notin ambiguous,
                        NEW i \in 1 .. (n + 1), NEW j \in 1 .. (n + 1),
                        e \in table'[i], e \in table'[j]
                 PROVE  i = j
      BY <1>9
    <3>1. CASE i \in 1 .. n /\ j \in 1 .. n
      BY <1>1, <1>8, <1>9, <3>1 DEF InTable
    <3>2. CASE i = n + 1 \/ j = n + 1
      <4>1. e \in flush[f].events
        BY <1>9, <3>2
      <4>2. ~Has(e, n)
        BY <1>13, <4>1
      <4> QED
        BY <1>9, <4>2 DEF Has
    <3> QED
      BY <3>1, <3>2
  <2> QED
    BY <1>5, <2>1, <2>2, <2>3, <2>4 DEF InTable
<1> QED
  BY <1>10, <1>11, <1>14 DEF LogInv

(* RetryOrFail: the attempt starts over or the senders get the error.      *)
LEMMA RetryKeeps ==
  ASSUME LogInv, NEW f \in Flusher, f \in InFlight, RetryOrFail(f), UNCHANGED <<buffer, table>>,
         "events" \in DOMAIN todo', todo'.events = todo.events,
         ambiguous' = IF flush[f].pc = "landed" THEN ambiguous \cup flush[f].events ELSE ambiguous
  PROVE  LogInv'
<1>1. CASE flush[f].attempt < MaxAttempts
  <2>1. PICK r : r = [flush[f] EXCEPT !.pc = "load", !.attempt = @ + 1]
    OBVIOUS
  <2>2. IsFlush(flush[f])
    BY DEF LogInv, LogShape
  <2>3. IsFlush(r) /\ r.pc = "load" /\ r.events = flush[f].events
    BY <2>1, <2>2, Zenon DEF IsFlush, FlushPcs
  <2>4. flush' = [flush EXCEPT ![f] = r] /\ UNCHANGED call
    BY <1>1, <2>1, Zenon DEF RetryOrFail
  <2> QED
    BY <2>3, <2>4, AttemptKeeps, Zenon
<1>2. CASE ~(flush[f].attempt < MaxAttempts)
  <2>1. Answer(f, "failed")
    BY <1>2 DEF RetryOrFail
  <2> QED
    BY <2>1, AnswerKeeps
<1> QED
  BY <1>1, <1>2

LEMMA LogStepKeeps == LogInv /\ LogNext => LogInv'
<1> SUFFICES ASSUME LogInv, LogNext PROVE LogInv'
  OBVIOUS
<1>0. "events" \in DOMAIN todo /\ \A f \in Flusher : IsFlush(flush[f])
  BY DEF LogInv, LogShape
<1>1. ASSUME NEW e \in Event, AppendEvent(e) PROVE LogInv'
  BY <1>1, AppendKeeps
<1>2. ASSUME Tick PROVE LogInv'
  <2>1. "worker" \in Flusher /\ "worker" \notin Event
    BY FlusherNames
  <2> QED
    BY <1>0, <1>2, <2>1, StartKeeps, Zenon DEF Tick
<1>3. ASSUME FlushAll PROVE LogInv'
  <2>1. "drain" \in Flusher /\ "drain" \notin Event
    BY FlusherNames
  <2>2. "events" \in DOMAIN todo' /\ todo'.events = todo.events
    BY <1>0, <1>3 DEF FlushAll
  <2> QED
    BY <1>3, <2>1, <2>2, StartKeeps, Zenon DEF FlushAll
<1>4. ASSUME NEW f \in Flusher, TakeBuffer(f) PROVE LogInv'
  BY <1>4, TakeKeeps
<1>5. ASSUME NEW f \in Flusher, PrepareAttempt(f) PROVE LogInv'
  <2>1. PICK r : r = [flush[f] EXCEPT !.pc = "commit", !.base = Len(table), !.tries = 1]
    OBVIOUS
  <2>2. IsFlush(r) /\ r.pc = "commit" /\ r.events = flush[f].events
    <3>1. IsFlush(flush[f]) /\ flush[f].pc = "load"
      BY <1>0, <1>5 DEF PrepareAttempt
    <3> QED
      BY <2>1, <3>1, Zenon DEF IsFlush, FlushPcs
  <2>3. flush' = [flush EXCEPT ![f] = r] /\ f \in InFlight /\ flush[f].pc = "load"
    BY <1>5, <2>1, Zenon DEF PrepareAttempt, InFlight
  <2>4. UNCHANGED <<todo, call, buffer, table, ambiguous>>
    BY <1>5 DEF PrepareAttempt
  <2>5. ambiguous' = IF flush[f].pc = "landed" THEN ambiguous \cup flush[f].events ELSE ambiguous
    BY <2>3, <2>4
  <2> QED
    BY <1>0, <2>2, <2>3, <2>4, <2>5, AttemptKeeps, Zenon
<1>6. ASSUME NEW f \in Flusher, CommitLands(f) PROVE LogInv'
  BY <1>6, LandsKeeps
<1>7. ASSUME NEW f \in Flusher, CommitConflict(f) PROVE LogInv'
  <2>1. f \in InFlight /\ flush[f].pc = "commit" /\ UNCHANGED <<todo, buffer, table, ambiguous>>
    BY <1>7 DEF CommitConflict, InFlight
  <2>a. ambiguous' = IF flush[f].pc = "landed" THEN ambiguous \cup flush[f].events ELSE ambiguous
    BY <2>1
  <2>2. CASE flush[f].tries < MaxCommitTries
    <3>1. PICK r : r = [flush[f] EXCEPT !.tries = @ + 1, !.base = Len(table)]
      OBVIOUS
    <3>2. IsFlush(r) /\ r.pc = "commit" /\ r.events = flush[f].events
      <4>1. IsFlush(flush[f]) /\ flush[f].pc = "commit"
        BY <1>0, <2>1
      <4> QED
        BY <3>1, <4>1, Zenon DEF IsFlush, FlushPcs
    <3>3. flush' = [flush EXCEPT ![f] = r] /\ UNCHANGED call
      BY <1>7, <2>2, <3>1, Zenon DEF CommitConflict
    <3> QED
      BY <1>0, <2>1, <2>a, <3>2, <3>3, AttemptKeeps, Zenon
  <2>3. CASE ~(flush[f].tries < MaxCommitTries)
    <3>1. RetryOrFail(f)
      BY <1>7, <2>3 DEF CommitConflict
    <3> QED
      BY <1>0, <2>1, <2>a, <3>1, RetryKeeps
  <2> QED
    BY <2>2, <2>3
<1>8. ASSUME NEW f \in Flusher, AppendSucceeds(f) PROVE LogInv'
  BY <1>0, <1>8, AnswerKeeps DEF AppendSucceeds, InFlight
<1>9. ASSUME NEW f \in Flusher, AttemptFails(f) PROVE LogInv'
  <2>1. "events" \in DOMAIN todo' /\ todo'.events = todo.events
    BY <1>0, <1>9 DEF AttemptFails
  <2> QED
    BY <1>9, <2>1, RetryKeeps DEF AttemptFails
<1> QED
  BY <1>1, <1>2, <1>3, <1>4, <1>5, <1>6, <1>7, <1>8, <1>9 DEF LogNext, FlushStep

(* A step of the views leaves the log alone.                               *)
LEMMA ViewStepKeepsLog == LogInv /\ ViewNext => LogInv'
<1> SUFFICES ASSUME LogInv, ViewNext PROVE LogInv'
  OBVIOUS
<1>1. "events" \in DOMAIN todo /\ UNCHANGED <<call, buffer, flush, table, ambiguous>>
  BY DEF LogInv, LogShape, ViewNext
<1>2. "events" \in DOMAIN todo' /\ todo'.events = todo.events
  BY <1>1, Zenon DEF ViewNext, ViewStep, RefreshStep, RefreshFails, ScheduledRefresh, RefreshView,
     Refreshes, RefreshReturns, CreateView, Created, CancelOld, Spawn, Register, DropView,
     DropCancels
<1>3. \A d, n : Has(d, n)' <=> Has(d, n)
  BY <1>1 DEF Has
<1>4. LogShape'
  BY <1>1, <1>2 DEF LogInv, LogShape
<1>5. InOnePlace'
  BY <1>1, <1>2 DEF LogInv, InOnePlace
<1>6. InTable'
  BY <1>1, <1>3 DEF LogInv, InTable
<1> QED
  BY <1>4, <1>5, <1>6 DEF LogInv

LEMMA LogInductive == LogInv /\ [Next]_vars => LogInv'
<1> SUFFICES ASSUME LogInv, [Next]_vars PROVE LogInv'
  OBVIOUS
<1>1. CASE LogNext
  BY <1>1, LogStepKeeps
<1>2. CASE ViewNext
  BY <1>2, ViewStepKeepsLog
<1>3. CASE UNCHANGED vars
  <2>1. UNCHANGED logVars
    BY <1>3 DEF vars
  <2> QED
    BY <2>1, Zenon DEF logVars, LogInv, LogShape, InOnePlace, InTable, Has
<1> QED
  BY <1>1, <1>2, <1>3 DEF Next

(* Copies counts the files that have the event.                            *)
LEMMA CopiesFacts ==
  ASSUME NEW e, NEW n \in Nat
  PROVE  /\ Copies(e, n) \in Nat
         /\ Copies(e, n) >= 1 <=> Has(e, n)
         /\ (\A i, j \in 1 .. n : e \in table[i] /\ e \in table[j] => i = j) => Copies(e, n) <= 1
<1> DEFINE H == {i \in 1 .. n : e \in table[i]}
<1>1. IsFiniteSet(H) /\ Cardinality(H) \in Nat
  <2>1. H \in SUBSET (1 .. n)
    OBVIOUS
  <2>2. 1 \in Int /\ n \in Int
    OBVIOUS
  <2>3. IsFiniteSet(1 .. n)
    BY <2>2, FS_Interval
  <2> HIDE DEF H
  <2>4. IsFiniteSet(H)
    BY <2>1, <2>3, FS_Subset, Zenon
  <2> QED
    BY <2>4, FS_CardinalityType
<1>2. Cardinality(H) = 0 <=> H = {}
  <2> HIDE DEF H
  <2> QED
    BY <1>1, FS_EmptySet
<1>3. H = {} <=> ~Has(e, n)
  BY DEF Has
<1>4. ASSUME \A i, j \in 1 .. n : e \in table[i] /\ e \in table[j] => i = j
      PROVE  Cardinality(H) <= 1
  <2>1. CASE H = {}
    <3> HIDE DEF H
    <3> QED
      BY <1>2, <2>1
  <2>2. CASE H # {}
    <3>1. PICK k : H = {k}
      BY <1>4, <2>2
    <3> HIDE DEF H
    <3>2. Cardinality({k}) = 1
      BY FS_Singleton
    <3> QED
      BY <3>1, <3>2
  <2> QED
    BY <2>1, <2>2
<1>5. Copies(e, n) = Cardinality(H)
  BY DEF Copies
<1> HIDE DEF H
<1> QED
  BY <1>1, <1>2, <1>3, <1>4, <1>5

LEMMA LogFollows == LogInv => AppendsExact
<1> SUFFICES ASSUME LogInv PROVE AppendsExact
  OBVIOUS
<1>1. Len(table) \in Nat
  BY DEF LogInv, LogShape
<1>2. \A e \in Event : call[e] = "ok" => Copies(e, Len(table)) >= 1
  BY <1>1, CopiesFacts DEF LogInv, InTable
<1>3. \A e \in Event \ ambiguous : Copies(e, Len(table)) <= 1
  BY <1>1, CopiesFacts DEF LogInv, InTable
<1>4. ASSUME NEW e \in Event
      PROVE  call[e] = "waiting" <=>
               Cardinality({f \in Flusher : e \in flush[f].events})
                 + (IF e \in buffer THEN 1 ELSE 0) = 1
  <2> DEFINE P == {f \in Flusher : e \in flush[f].events}
  <2>1. CASE call[e] # "waiting"
    <3>1. P = {} /\ e \notin buffer
      BY <2>1 DEF LogInv, InOnePlace
    <3> HIDE DEF P
    <3>2. Cardinality(P) = 0
      BY <3>1, FS_EmptySet, Zenon
    <3> QED
      BY <2>1, <3>1, <3>2 DEF P
  <2>2. CASE e \in buffer
    <3>1. P = {} /\ call[e] = "waiting"
      BY <2>2 DEF LogInv, InOnePlace
    <3> HIDE DEF P
    <3>2. Cardinality(P) = 0
      BY <3>1, FS_EmptySet, Zenon
    <3> QED
      BY <2>2, <3>1, <3>2 DEF P
  <2>3. CASE call[e] = "waiting" /\ e \notin buffer
    <3>1. PICK f : P = {f}
      BY <2>3 DEF LogInv, InOnePlace
    <3> HIDE DEF P
    <3>2. Cardinality(P) = 1
      BY <3>1, FS_Singleton, Zenon
    <3> QED
      BY <2>3, <3>2 DEF P
  <2> QED
    BY <2>1, <2>2, <2>3
<1> QED
  BY <1>2, <1>3, <1>4, Zenon DEF AppendsExact, OkIsCommitted, AppendedOnceUnlessAmbiguous

(* For every set of events, batch size, retry limit and workload, with the *)
(* views running beside: an append that MicrobatchWriter answered Ok is in *)
(* the table, every waiting one is in the buffer or in exactly one flush,  *)
(* and an event is in the table twice only if an attempt of it failed      *)
(* after its commit had landed.                                            *)
THEOREM AppendsAreExact == Spec => []AppendsExact
<1>1. Init => LogInv
  BY InitLog DEF Init
<1> QED
  BY <1>1, LogInductive, LogFollows, PTL DEF Spec
-----------------------------------------------------------------------------
(* The generations of the view.                                            *)

(* A latest generation of its own is what latest_generation reads.         *)
LEMMA LatestOfOne ==
  ASSUME NEW i, LatestIndexes = {i}, NEW e \in Event, target[i].data[e] \in Nat
  PROVE  LatestData[e] = target[i].data[e]
<1> DEFINE Row(g) == [S \in SUBSET LatestIndexes |->
                        IF S = {} THEN 0
                        ELSE target[CHOOSE k \in S : TRUE].data[e] + g[S \ {CHOOSE k \in S : TRUE}]]
           Sum == CHOOSE g : g = Row(g)
           w == [S \in SUBSET {i} |-> IF S = {} THEN 0 ELSE target[i].data[e]]
<1>1. LatestData[e] = Sum[{i}]
  BY DEF LatestData
<1>2. SUBSET {i} = {{}, {i}} /\ (CHOOSE k \in {i} : TRUE) = i /\ {i} \ {i} = {} /\ {i} # {}
  OBVIOUS
<1>3. w[{}] = 0 /\ w[{i}] = target[i].data[e]
  BY <1>2
<1>4. w = Row(w)
  BY <1>2, <1>3
<1>5. Sum = Row(Sum)
  <2> HIDE DEF Row, w
  <2> QED
    BY <1>4
<1> HIDE DEF Sum
<1>6. Sum[{}] = 0
  BY <1>2, <1>5
<1>7. Sum[{i}] = target[i].data[e] + Sum[{}]
  BY <1>2, <1>5
<1> QED
  BY <1>1, <1>6, <1>7

(* Appending to a sequence told by its length.                             *)
LEMMA AppendFacts ==
  ASSUME NEW s, Len(s) \in Nat, s = [i \in 1 .. Len(s) |-> s[i]], NEW g
  PROVE  /\ Len(Append(s, g)) = Len(s) + 1
         /\ Append(s, g) = [i \in 1 .. (Len(s) + 1) |-> Append(s, g)[i]]
         /\ \A i \in 1 .. Len(s) : Append(s, g)[i] = s[i]
         /\ Append(s, g)[Len(s) + 1] = g
<1> DEFINE S == {s[i] : i \in 1 .. Len(s)} \cup {g}
<1>1. s \in Seq(S) /\ g \in S
  OBVIOUS
<1> HIDE DEF S
<1>2. /\ Append(s, g) \in Seq(S) /\ Len(Append(s, g)) = Len(s) + 1
      /\ \A i \in 1 .. Len(s) : Append(s, g)[i] = s[i]
      /\ Append(s, g)[Len(s) + 1] = g
  BY <1>1
<1>3. PICK t : t = Append(s, g)
  BY Zenon
<1>4. t = [i \in 1 .. Len(t) |-> t[i]]
  <2>1. t \in Seq(S)
    BY <1>2, <1>3
  <2>2. t \in [1 .. Len(t) -> S]
    BY <2>1
  <2> QED
    BY <2>2
<1> QED
  BY <1>2, <1>3, <1>4

(* The copies of a snapshot: a delta makes up the difference of two.       *)
LEMMA DeltaCounts ==
  ASSUME NEW m \in Nat, NEW n \in Nat, NEW e \in Event
  PROVE  /\ Delta(m, n)[e] \in Nat
         /\ m <= n => Copies(e, m) + Delta(m, n)[e] = Copies(e, n)
         /\ ~(m <= n) => Delta(m, n)[e] = 0
<1> DEFINE A == {i \in 1 .. m : e \in table[i]}
           B == {i \in (1 .. n) \ (1 .. m) : e \in table[i]}
           C == {i \in 1 .. n : e \in table[i]}
<1>1. IsFiniteSet(A) /\ IsFiniteSet(B) /\ IsFiniteSet(C)
  <2>1. IsFiniteSet(1 .. m) /\ IsFiniteSet(1 .. n)
    BY FS_Interval
  <2>2. A \in SUBSET (1 .. m) /\ B \in SUBSET (1 .. n) /\ C \in SUBSET (1 .. n)
    OBVIOUS
  <2> HIDE DEF A, B, C
  <2> QED
    BY <2>1, <2>2, FS_Subset, Zenon
<1>2. A \cap B = {} /\ (m <= n => A \cup B = C) /\ (~(m <= n) => B = {})
  OBVIOUS
<1>3. Copies(e, m) = Cardinality(A) /\ Copies(e, n) = Cardinality(C)
  BY DEF Copies
<1>4. Delta(m, n)[e] = Cardinality(B)
  BY DEF Delta
<1> HIDE DEF A, B, C
<1>5. Cardinality(A) \in Nat /\ Cardinality(B) \in Nat
  BY <1>1, FS_CardinalityType
<1>6. Cardinality(A \cap B) = 0
  BY <1>2, FS_EmptySet, Zenon
<1>7. Cardinality(A \cup B) = Cardinality(A) + Cardinality(B)
  <2>1. Cardinality(A \cup B) = Cardinality(A) + Cardinality(B) - Cardinality(A \cap B)
    BY <1>1, FS_Union
  <2> QED
    BY <1>5, <1>6, <2>1
<1>8. ~(m <= n) => Cardinality(B) = 0
  BY <1>2, FS_EmptySet, Zenon
<1> QED
  BY <1>2, <1>3, <1>4, <1>5, <1>7, <1>8

(* A delta that is not empty ends after it begins.                         *)
LEMMA DeltaForward ==
  ASSUME NEW m \in Nat, NEW n \in Nat, Delta(m, n) # NoData
  PROVE  m <= n
<1>1. ASSUME ~(m <= n) PROVE Delta(m, n) = NoData
  <2>1. \A e \in Event : Delta(m, n)[e] = 0
    BY <1>1, DeltaCounts
  <2>2. Delta(m, n) = [e \in Event |-> Delta(m, n)[e]]
    BY DEF Delta
  <2> QED
    BY <2>1, <2>2 DEF NoData
<1> QED
  BY <1>1

-----------------------------------------------------------------------------
(* Counts for snapshot n: never too high, and right if nothing was skipped.*)
Sound(d, n) ==
  /\ Unshared => \A e \in Event : d[e] \in Nat /\ d[e] <= Copies(e, n)
  /\ Unshared /\ ~skipped => d = PartialAggregate(n)

Snapshot(n) == n \in Nat /\ 1 <= n /\ n <= Len(table)

IsGeneration(g) ==
  /\ g = [version |-> g.version, src |-> g.src, data |-> g.data]
  /\ g.version \in Nat /\ 1 <= g.version
  /\ Snapshot(g.src)
  /\ g.data = [e \in Event |-> g.data[e]]
  /\ Sound(g.data, g.src)

(* What a refresh has in hand, by where it is.                             *)
IsJob(r) ==
  /\ r = [pc |-> r.pc, data |-> r.data, src |-> r.src, version |-> r.version, read |-> r.read]
  /\ r.pc \in {"version", "snapshot"} =>
       Snapshot(r.read) /\ r.data = PartialAggregate(r.read)
  /\ r.pc \in {"versionOfDelta", "write"} =>
       Snapshot(r.src) /\ r.data = [e \in Event |-> r.data[e]] /\ Sound(r.data, r.src)
  /\ r.pc = "latest" => Snapshot(r.src)
  /\ r.pc \in {"snapshot", "write"} => r.version \in Nat /\ 1 <= r.version

(* Some generation has the largest version.                                *)
HasLargest ==
  target # <<>> =>
    \E m \in 1 .. Len(target) : \A i \in 1 .. Len(target) : target[i].version <= target[m].version

(* The inductive invariant.                                                *)
GenerationsInv ==
  /\ job = [j \in Job |-> job[j]]
  /\ \A j \in Job : IsJob(job[j])
  /\ Len(target) \in Nat /\ target = [i \in 1 .. Len(target) |-> target[i]]
  /\ \A i \in 1 .. Len(target) : IsGeneration(target[i])
  /\ HasLargest

LEMMA NoJobIsJob == IsJob(NoJob) /\ NoJob.pc = "idle"
BY DEF NoJob, IsJob

(* What no step undoes.                                                    *)
Extends ==
  /\ Len(table) \in Nat /\ Len(table') \in Nat /\ Len(table) <= Len(table')
  /\ \A n \in 0 .. Len(table) : \A e \in Event : Copies(e, n)' = Copies(e, n)
  /\ Unshared' => Unshared
  /\ skipped => skipped'

(* What was sound stays so.                                                *)
LEMMA StaysSound ==
  ASSUME Extends
  PROVE  /\ \A n : Snapshot(n) => Snapshot(n)'
         /\ \A n : Snapshot(n) => PartialAggregate(n)' = PartialAggregate(n)
         /\ \A d, n : Snapshot(n) /\ Sound(d, n) => Sound(d, n)'
<1>1. \A n : Snapshot(n) => Snapshot(n)'
  BY DEF Extends, Snapshot
<1>2. ASSUME NEW n, Snapshot(n)
      PROVE  /\ \A e \in Event : Copies(e, n)' = Copies(e, n)
             /\ PartialAggregate(n)' = PartialAggregate(n)
  <2>1. n \in 0 .. Len(table)
    BY <1>2 DEF Extends, Snapshot
  <2>2. \A e \in Event : Copies(e, n)' = Copies(e, n)
    BY <2>1 DEF Extends
  <2> QED
    BY <2>2 DEF PartialAggregate
<1>3. ASSUME NEW d, NEW n, Snapshot(n), Sound(d, n) PROVE Sound(d, n)'
  BY <1>2, <1>3 DEF Extends, Sound
<1> QED
  BY <1>1, <1>2, <1>3

LEMMA StayGood ==
  ASSUME Extends
  PROVE  /\ \A g : IsGeneration(g) => IsGeneration(g)'
         /\ \A r : IsJob(r) => IsJob(r)'
<1>1. ASSUME NEW g, IsGeneration(g) PROVE IsGeneration(g)'
  BY <1>1, StaysSound DEF IsGeneration
<1>2. ASSUME NEW r, IsJob(r) PROVE IsJob(r)'
  BY <1>2, StaysSound DEF IsJob
<1> QED
  BY <1>1, <1>2

(* The table only grows, within the log's steps.                           *)
LEMMA TableGrows ==
  ASSUME LogShape, table' = table \/ \E x \in SUBSET Event : table' = Append(table, x)
  PROVE  /\ Len(table) \in Nat /\ Len(table') \in Nat /\ Len(table) <= Len(table')
         /\ \A n \in 0 .. Len(table) : \A e \in Event : Copies(e, n)' = Copies(e, n)
<1>1. Len(table) \in Nat /\ table \in Seq(SUBSET Event)
  BY DEF LogShape
<1>2. /\ Len(table') \in Nat /\ Len(table) <= Len(table')
      /\ \A i \in 1 .. Len(table) : table'[i] = table[i]
  BY <1>1
<1>3. ASSUME NEW n \in 0 .. Len(table), NEW e \in Event PROVE Copies(e, n)' = Copies(e, n)
  <2>1. {i \in 1 .. n : e \in table'[i]} = {i \in 1 .. n : e \in table[i]}
    BY <1>1, <1>2
  <2> QED
    BY <2>1, Zenon DEF Copies
<1> QED
  BY <1>1, <1>2, <1>3

LEMMA LogGrowsTable ==
  ASSUME LogShape, LogNext
  PROVE  table' = table \/ \E x \in SUBSET Event : table' = Append(table, x)
<1>1. ASSUME NEW f \in Flusher, CommitLands(f)
      PROVE  \E x \in SUBSET Event : table' = Append(table, x)
  <2>1. flush[f].events \in SUBSET Event /\ table' = Append(table, flush[f].events)
    BY <1>1 DEF CommitLands, LogShape, IsFlush
  <2> QED
    BY <2>1
<1> QED
  BY <1>1, Zenon DEF LogNext, FlushStep, AppendEvent, Tick, FlushAll, TakeBuffer, PrepareAttempt,
     CommitConflict, AppendSucceeds, AttemptFails

(* Only WriteGeneration changes the target, and only by appending.         *)
LEMMA UnsharedBefore ==
  ASSUME Len(target) \in Nat, target = [i \in 1 .. Len(target) |-> target[i]],
         target' = target \/ \E g : target' = Append(target, g)
  PROVE  Unshared' => Unshared
<1>1. CASE target' = target
  BY <1>1 DEF Unshared
<1>2. CASE \E g : target' = Append(target, g)
  <2>1. PICK g : target' = Append(target, g)
    BY <1>2, Zenon
  <2>2. DOMAIN target = 1 .. Len(target) /\ DOMAIN target' = 1 .. (Len(target) + 1)
    BY <2>1, AppendFacts, Zenon
  <2>3. \A i \in 1 .. Len(target) : target'[i] = target[i]
    <3>1. PICK s : s = target
      OBVIOUS
    <3>2. Len(s) \in Nat /\ s = [i \in 1 .. Len(s) |-> s[i]]
      BY <3>1
    <3>3. \A i \in 1 .. Len(s) : Append(s, g)[i] = s[i]
      BY <3>2, AppendFacts
    <3> QED
      BY <2>1, <3>1, <3>3, Zenon
  <2> QED
    BY <2>2, <2>3 DEF Unshared
<1> QED
  BY <1>1, <1>2

(* A step that replaces refreshes by sound ones.                           *)
LEMMA JobsKeep ==
  ASSUME GenerationsInv, Extends, target' = target,
         job' = [j \in Job |-> job'[j]],
         \A j \in Job : job'[j] = job[j] \/ IsJob(job[j])'
  PROVE  GenerationsInv'
<1>1. ASSUME NEW j \in Job PROVE IsJob(job[j])'
  <2>1. PICK r : r = job[j]
    OBVIOUS
  <2>2. IsJob(r)'
    BY <2>1, StayGood DEF GenerationsInv
  <2>3. CASE job'[j] = r
    BY <2>2, <2>3
  <2> QED
    BY <2>1, <2>3
<1>2. \A i \in 1 .. Len(target') : IsGeneration(target[i])'
  BY StayGood DEF GenerationsInv
<1>3. HasLargest'
  BY DEF GenerationsInv, HasLargest
<1> QED
  BY <1>1, <1>2, <1>3 DEF GenerationsInv

(* A step of one refresh.                                                  *)
LEMMA OneJobKeeps ==
  ASSUME GenerationsInv, Extends, target' = target, NEW j \in Job, NEW r, IsJob(r)',
         job' = [job EXCEPT ![j] = r]
  PROVE  GenerationsInv'
<1>1. job = [k \in Job |-> job[k]]
  BY DEF GenerationsInv
<1>2. /\ job' = [k \in Job |-> job'[k]]
      /\ \A k \in Job : job'[k] = IF k = j THEN r ELSE job[k]
  BY <1>1
<1>3. \A k \in Job : job'[k] = job[k] \/ IsJob(job[k])'
  <2> SUFFICES ASSUME NEW k \in Job, k = j PROVE IsJob(job[k])'
    BY <1>2
  <2>1. job'[k] = r
    BY <1>2
  <2> QED
    BY <2>1
<1> QED
  BY <1>2, <1>3, JobsKeep

(* The largest version, and the generations that have it.                  *)
LEMMA LargestVersion ==
  ASSUME GenerationsInv
  PROVE  /\ MaxVersion \in Nat
         /\ \A i \in 1 .. Len(target) : target[i].version <= MaxVersion
         /\ \A i \in LatestIndexes : i \in 1 .. Len(target)
         /\ Unshared => \A i \in LatestIndexes : LatestIndexes = {i}
<1>1. DOMAIN target = 1 .. Len(target) /\ Len(target) \in Nat
  BY DEF GenerationsInv
<1>2. \A i \in 1 .. Len(target) : target[i].version \in Nat
  BY Zenon DEF GenerationsInv, IsGeneration
<1>3. CASE target = <<>>
  <2>1. Len(target) = 0 /\ MaxVersion = 0
    BY <1>3 DEF MaxVersion
  <2> QED
    BY <1>1, <2>1 DEF LatestIndexes
<1>4. CASE target # <<>>
  <2>1. PICK m \in 1 .. Len(target) : \A i \in 1 .. Len(target) : target[i].version <= target[m].version
    BY <1>4 DEF GenerationsInv, HasLargest
  <2>2. target[m].version \in Versions /\ \A w \in Versions : w <= target[m].version
    BY <1>1, <2>1 DEF Versions
  <2>3. MaxVersion \in Versions /\ \A w \in Versions : w <= MaxVersion
    BY <1>4, <2>2 DEF MaxVersion
  <2>4. MaxVersion \in Nat /\ \A i \in 1 .. Len(target) : target[i].version <= MaxVersion
    BY <1>1, <1>2, <2>3 DEF Versions
  <2>5. \A i \in LatestIndexes : i \in 1 .. Len(target)
    BY <1>1 DEF LatestIndexes
  <2>6. Unshared => \A i \in LatestIndexes : LatestIndexes = {i}
    BY DEF LatestIndexes, Unshared
  <2> QED
    BY <2>4, <2>5, <2>6
<1> QED
  BY <1>3, <1>4

(* One more version: the largest is the largest before or the new one.     *)
LEMMA LargestAppended ==
  ASSUME NEW k \in Nat, NEW s, NEW t,
         \A i \in 1 .. k : t[i] = s[i] /\ s[i].version \in Nat,
         t[k + 1].version \in Nat,
         k = 0 \/ \E m \in 1 .. k : \A i \in 1 .. k : s[i].version <= s[m].version
  PROVE  \E m \in 1 .. (k + 1) : \A i \in 1 .. (k + 1) : t[i].version <= t[m].version
<1>1. \A i \in 1 .. (k + 1) : i = k + 1 \/ i \in 1 .. k
  OBVIOUS
<1>2. \A i \in 1 .. (k + 1) : t[i].version \in Nat
  BY <1>1
<1>3. k + 1 \in 1 .. (k + 1)
  OBVIOUS
<1>4. CASE k = 0 \/ \A i \in 1 .. k : t[i].version <= t[k + 1].version
  <2>1. \A i \in 1 .. (k + 1) : t[i].version <= t[k + 1].version
    BY <1>1, <1>2, <1>3, <1>4
  <2> QED
    BY <1>3, <2>1
<1>5. CASE ~(k = 0 \/ \A i \in 1 .. k : t[i].version <= t[k + 1].version)
  <2>1. PICK m \in 1 .. k : \A i \in 1 .. k : t[i].version <= t[m].version
    BY <1>5
  <2>2. PICK l \in 1 .. k : ~(t[l].version <= t[k + 1].version)
    BY <1>5
  <2>3. m \in 1 .. (k + 1) /\ l \in 1 .. (k + 1) /\ t[l].version <= t[m].version
    BY <2>1
  <2>4. t[k + 1].version <= t[m].version
    BY <1>2, <1>3, <2>2, <2>3
  <2> QED
    BY <1>1, <2>1, <2>3, <2>4
<1> QED
  BY <1>4, <1>5

(* A merge of the latest generation, when it is one, and of the delta that *)
(* follows its snapshot.                                                   *)
LEMMA MergedSound ==
  ASSUME GenerationsInv, NEW i \in LatestIndexes, NEW n \in Nat,
         Delta(target[i].src, n) # NoData
  PROVE  Sound(Merge(LatestData, Delta(target[i].src, n)), n)
<1>1. PICK g : g = target[i]
  OBVIOUS
<1>2. IsGeneration(g)
  BY <1>1, LargestVersion DEF GenerationsInv
<1>3. PICK m \in Nat : m = g.src
  BY <1>2 DEF IsGeneration, Snapshot
<1>4. m <= n
  BY <1>1, <1>3, DeltaForward
<1>5. PICK d : d = Merge(LatestData, Delta(m, n))
  OBVIOUS
<1>6. ASSUME Unshared, NEW e \in Event
      PROVE  /\ d[e] \in Nat /\ d[e] <= Copies(e, n)
             /\ ~skipped => d[e] = Copies(e, n)
  <2>1. LatestIndexes = {i}
    BY <1>6, LargestVersion
  <2>2. g.data[e] \in Nat /\ g.data[e] <= Copies(e, m)
    BY <1>2, <1>3, <1>6 DEF IsGeneration, Sound
  <2>3. LatestData[e] = g.data[e]
    BY <1>1, <2>1, <2>2, LatestOfOne
  <2>4. PICK x : x = Delta(m, n)[e]
    OBVIOUS
  <2>5. /\ Copies(e, m) \in Nat /\ Copies(e, n) \in Nat /\ x \in Nat
        /\ Copies(e, m) + x = Copies(e, n)
    BY <1>4, <2>4, DeltaCounts, CopiesFacts
  <2>6. d[e] = g.data[e] + x
    BY <1>5, <2>3, <2>4 DEF Merge
  <2>7. ~skipped => g.data[e] = Copies(e, m)
    BY <1>2, <1>3, <1>6 DEF IsGeneration, Sound, PartialAggregate
  <2> QED
    BY <2>2, <2>5, <2>6, <2>7
<1>7. d = [e \in Event |-> d[e]]
  BY <1>5 DEF Merge
<1>8. Unshared /\ ~skipped => d = PartialAggregate(n)
  BY <1>6, <1>7 DEF PartialAggregate
<1>9. Sound(d, n)
  BY <1>6, <1>8 DEF Sound
<1> QED
  BY <1>1, <1>3, <1>5, <1>9

LEMMA MergeKeeps ==
  ASSUME LogShape, GenerationsInv, Extends, NEW j \in Job, MergeDelta(j)
  PROVE  GenerationsInv'
<1>1. PICK o : o = job[j]
  OBVIOUS
<1>2. IsJob(o)
  BY <1>1 DEF GenerationsInv
<1>3. o = [pc |-> o.pc, data |-> o.data, src |-> o.src, version |-> o.version, read |-> o.read]
  BY <1>2 DEF IsJob
<1>4. o.pc = "latest" /\ target' = target
  BY <1>1, Zenon DEF MergeDelta
<1>5. PICK n \in Nat : n = o.src /\ Snapshot(n)
  BY <1>2, <1>4 DEF IsJob, Snapshot
<1>6. CASE target = <<>>
  <2>1. PICK r : r = [NoJob EXCEPT !.pc = "source"]
    BY Zenon
  <2>2. job' = [job EXCEPT ![j] = r]
    BY <1>6, <2>1 DEF MergeDelta
  <2>3. IsJob(r)'
    BY <2>1 DEF IsJob, NoJob
  <2> QED
    BY <1>4, <2>2, <2>3, OneJobKeeps, Zenon
<1>7. CASE target # <<>>
  <2>1. PICK i \in LatestIndexes :
          job' = [job EXCEPT ![j] =
            IF target[i].src = job[j].src \/ Delta(target[i].src, job[j].src) = NoData
            THEN [@ EXCEPT !.pc = "done"]
            ELSE [@ EXCEPT !.pc = "versionOfDelta",
                           !.data = Merge(LatestData, Delta(target[i].src, job[j].src))]]
    BY <1>7, Zenon DEF MergeDelta
  <2>2. PICK x : x = Delta(target[i].src, n)
    OBVIOUS
  <2>3. PICK d : d = Merge(LatestData, x)
    OBVIOUS
  <2>4. PICK b : b = (target[i].src = n \/ x = NoData)
    OBVIOUS
  <2>5. PICK r : r = IF b THEN [o EXCEPT !.pc = "done"]
                     ELSE [o EXCEPT !.pc = "versionOfDelta", !.data = d]
    BY Zenon
  <2>6. job' = [job EXCEPT ![j] = r]
    BY <1>1, <1>5, <2>1, <2>2, <2>3, <2>4, <2>5, Zenon
  <2>7. d = [e \in Event |-> d[e]]
    BY <2>3 DEF Merge
  <2>8. CASE b
    <3>1. IsJob(r)
      BY <1>3, <2>5, <2>8 DEF IsJob
    <3> QED
      BY <1>4, <2>6, <3>1, StayGood, OneJobKeeps, Zenon
  <2>9. CASE ~b
    <3>1. Sound(d, n)
      BY <2>2, <2>3, <2>4, <2>9, MergedSound, Zenon
    <3>2. /\ r.pc = "versionOfDelta" /\ r.data = d /\ r.src = n
          /\ r = [pc |-> r.pc, data |-> r.data, src |-> r.src, version |-> r.version,
                  read |-> r.read]
      BY <1>3, <1>5, <2>5, <2>9, Zenon
    <3>3. IsJob(r)
      BY <1>5, <2>7, <3>1, <3>2 DEF IsJob
    <3> QED
      BY <1>4, <2>6, <3>3, StayGood, OneJobKeeps, Zenon
  <2> QED
    BY <2>8, <2>9
<1> QED
  BY <1>6, <1>7

(* The refreshes' steps.                                                   *)
LEMMA RefreshKeeps ==
  ASSUME LogShape, GenerationsInv, Extends, table' = table, NEW j \in Job, RefreshStep(j)
  PROVE  GenerationsInv'
<1>1. PICK o : o = job[j]
  OBVIOUS
<1>2. IsJob(o)
  BY <1>1 DEF GenerationsInv
<1>3. o = [pc |-> o.pc, data |-> o.data, src |-> o.src, version |-> o.version, read |-> o.read]
  BY <1>2 DEF IsJob
<1>4. PICK n \in Nat : n = Len(table)
  BY DEF LogShape
<1>5. table # <<>> => Snapshot(n) /\ Snapshot(n)'
  BY <1>4 DEF LogShape, Snapshot
<1>6. \A m : PartialAggregate(m)' = PartialAggregate(m)
  BY DEF PartialAggregate, Copies
<1>7. CASE ReadSource(j)
  <2>1. PICK r : r = IF table = <<>> THEN [o EXCEPT !.pc = "done"]
                     ELSE [o EXCEPT !.pc = "version", !.data = PartialAggregate(n), !.read = n]
    BY Zenon
  <2>2. job' = [job EXCEPT ![j] = r] /\ target' = target
    BY <1>1, <1>4, <1>7, <2>1 DEF ReadSource
  <2>3. IsJob(r)'
    <3>1. CASE table = <<>>
      BY <1>3, <2>1, <3>1 DEF IsJob
    <3>2. CASE table # <<>>
      <4>1. /\ r.pc = "version" /\ r.data = PartialAggregate(n) /\ r.read = n
            /\ r = [pc |-> r.pc, data |-> r.data, src |-> r.src, version |-> r.version,
                    read |-> r.read]
        BY <1>3, <2>1, <3>2, Zenon
      <4> QED
        BY <1>5, <1>6, <3>2, <4>1 DEF IsJob
    <3> QED
      BY <3>1, <3>2
  <2> QED
    BY <2>2, <2>3, OneJobKeeps, Zenon
<1>8. CASE NextVersion(j)
  <2>1. PICK v \in Nat : v = MaxVersion + 1 /\ 1 <= v
    BY LargestVersion
  <2>2. PICK r : r = [o EXCEPT !.version = v, !.pc = IF @ = "version" THEN "snapshot" ELSE "write"]
    OBVIOUS
  <2>3. job' = [job EXCEPT ![j] = r] /\ target' = target /\ o.pc \in {"version", "versionOfDelta"}
    BY <1>1, <1>8, <2>1, <2>2, Zenon DEF NextVersion
  <2>4. /\ r.version = v /\ r.data = o.data /\ r.src = o.src /\ r.read = o.read
        /\ r.pc = (IF o.pc = "version" THEN "snapshot" ELSE "write")
        /\ r = [pc |-> r.pc, data |-> r.data, src |-> r.src, version |-> r.version,
                read |-> r.read]
    BY <1>3, <2>2, Zenon
  <2>5. IsJob(o)'
    BY <1>2, StayGood
  <2>6. IsJob(r)'
    BY <2>1, <2>3, <2>4, <2>5 DEF IsJob
  <2> QED
    BY <2>3, <2>6, OneJobKeeps, Zenon
<1>9. CASE SourceSnapshot(j)
  <2>1. PICK r : r = [o EXCEPT !.src = n, !.pc = "write"]
    OBVIOUS
  <2>2. /\ job' = [job EXCEPT ![j] = r] /\ target' = target /\ o.pc = "snapshot"
        /\ skipped' = (skipped \/ n # o.read)
    BY <1>1, <1>4, <1>9, <2>1, Zenon DEF SourceSnapshot
  <2>3. /\ r.src = n /\ r.data = o.data /\ r.version = o.version /\ r.pc = "write"
        /\ r = [pc |-> r.pc, data |-> r.data, src |-> r.src, version |-> r.version,
                read |-> r.read]
    BY <1>3, <2>1, Zenon
  <2>4. /\ Snapshot(o.read) /\ o.data = PartialAggregate(o.read)
        /\ o.version \in Nat /\ 1 <= o.version
    BY <1>2, <2>2 DEF IsJob
  <2>5. o.read \in Nat /\ o.read <= n /\ 1 <= n
    BY <1>4, <2>4 DEF Snapshot
  <2>6. Snapshot(n) /\ Snapshot(n)'
    BY <1>4, <2>5 DEF Snapshot
  <2>7. /\ \A e \in Event : o.data[e] = Copies(e, o.read)
        /\ o.data = [e \in Event |-> o.data[e]]
    BY <2>4 DEF PartialAggregate
  <2>8. \A e \in Event : o.data[e] \in Nat /\ o.data[e] <= Copies(e, n)
    <3> SUFFICES ASSUME NEW e \in Event PROVE o.data[e] \in Nat /\ o.data[e] <= Copies(e, n)
      OBVIOUS
    <3>1. Copies(e, o.read) \in Nat /\ Copies(e, n) \in Nat
      BY <2>5, CopiesFacts
    <3>2. Delta(o.read, n)[e] \in Nat /\ Copies(e, o.read) + Delta(o.read, n)[e] = Copies(e, n)
      BY <2>5, DeltaCounts
    <3> QED
      BY <2>7, <3>1, <3>2
  <2>9. \A e \in Event : Copies(e, n)' = Copies(e, n)
    BY DEF Copies
  <2>10. ~skipped' => o.data = PartialAggregate(n)
    BY <2>2, <2>4, Zenon
  <2>11. Sound(r.data, r.src)'
    BY <1>6, <2>3, <2>8, <2>9, <2>10 DEF Sound
  <2>12. IsJob(r)'
    BY <2>3, <2>4, <2>6, <2>7, <2>11 DEF IsJob
  <2> QED
    BY <2>2, <2>12, OneJobKeeps, Zenon
<1>10. CASE WriteGeneration(j)
  <2>1. PICK g : g = [version |-> o.version, src |-> o.src, data |-> o.data]
    BY Zenon
  <2>2. PICK r : r = [o EXCEPT !.pc = "done"]
    BY Zenon
  <2>3. target' = Append(target, g) /\ job' = [job EXCEPT ![j] = r] /\ o.pc = "write"
    BY <1>1, <1>10, <2>1, <2>2 DEF WriteGeneration, Step
  <2>4. IsJob(r)'
    BY <1>3, <2>2 DEF IsJob
  <2>5. IsJob(o)'
    BY <1>2, StayGood
  <2>6. IsGeneration(g)'
    BY <2>1, <2>3, <2>5 DEF IsJob, IsGeneration
  <2>7. \A i \in 1 .. Len(target) : IsGeneration(target[i]) /\ target[i].version \in Nat
    BY DEF GenerationsInv, IsGeneration
  <2>8. PICK s : s = target
    OBVIOUS
  <2>9. /\ Len(s) \in Nat /\ s = [i \in 1 .. Len(s) |-> s[i]]
        /\ \A i \in 1 .. Len(s) : IsGeneration(s[i]) /\ s[i].version \in Nat
        /\ s # <<>> => \E m \in 1 .. Len(s) : \A i \in 1 .. Len(s) : s[i].version <= s[m].version
    BY <2>7, <2>8 DEF GenerationsInv, HasLargest
  <2>10. PICK t : t = Append(s, g)
    BY Zenon
  <2>11. /\ Len(t) = Len(s) + 1 /\ t = [i \in 1 .. (Len(s) + 1) |-> t[i]]
         /\ \A i \in 1 .. Len(s) : t[i] = s[i]
         /\ t[Len(s) + 1] = g
    BY <2>9, <2>10, AppendFacts
  <2>12. target' = t
    BY <2>3, <2>8, <2>10
  <2>13. \A i \in 1 .. Len(t) : IsGeneration(t[i])'
    <3> SUFFICES ASSUME NEW i \in 1 .. Len(t) PROVE IsGeneration(t[i])'
      OBVIOUS
    <3>1. CASE i = Len(s) + 1
      BY <2>6, <2>11, <3>1
    <3>2. CASE i # Len(s) + 1
      <4>1. i \in 1 .. Len(s)
        BY <2>9, <2>11, <3>2
      <4>2. PICK h : h = s[i]
        OBVIOUS
      <4>3. IsGeneration(h)'
        BY <2>9, <4>1, <4>2, StayGood
      <4> QED
        BY <2>11, <4>1, <4>2, <4>3, Zenon
    <3> QED
      BY <3>1, <3>2
  <2>14. g.version \in Nat
    BY <2>6 DEF IsGeneration
  <2>15. \E m \in 1 .. Len(t) : \A i \in 1 .. Len(t) : t[i].version <= t[m].version
    <3>1. PICK k \in Nat : k = Len(s)
      BY <2>9
    <3>2. s = <<>> => k = 0
      BY <3>1
    <3>3. /\ \A i \in 1 .. k : t[i] = s[i] /\ s[i].version \in Nat
          /\ t[k + 1].version \in Nat
          /\ k = 0 \/ \E m \in 1 .. k : \A i \in 1 .. k : s[i].version <= s[m].version
      BY <2>9, <2>11, <2>14, <3>1, <3>2, Zenon
    <3>4. Len(t) = k + 1
      BY <2>11, <3>1
    <3> QED
      BY <3>3, <3>4, LargestAppended, Zenon
  <2>16. \A i \in 1 .. Len(target') : IsGeneration(target[i])'
    BY <2>12, <2>13
  <2>17. HasLargest'
    BY <2>12, <2>15 DEF HasLargest
  <2>18. Len(target') \in Nat /\ target' = [i \in 1 .. Len(target') |-> target'[i]]
    BY <2>9, <2>11, <2>12
  <2>19. job' = [k \in Job |-> job'[k]] /\ \A k \in Job : IsJob(job[k])'
    <3>1. job = [k \in Job |-> job[k]]
      BY DEF GenerationsInv
    <3>2. /\ job' = [k \in Job |-> job'[k]]
          /\ \A k \in Job : job'[k] = IF k = j THEN r ELSE job[k]
      BY <2>3, <3>1
    <3>3. ASSUME NEW k \in Job PROVE IsJob(job[k])'
      <4>1. PICK q : q = job[k]
        OBVIOUS
      <4>2. IsJob(q)'
        BY <4>1, StayGood DEF GenerationsInv
      <4>3. job'[k] = q \/ job'[k] = r
        BY <3>2, <4>1
      <4> QED
        BY <2>4, <4>2, <4>3
    <3> QED
      BY <3>2, <3>3
  <2> QED
    BY <2>16, <2>17, <2>18, <2>19 DEF GenerationsInv
<1>11. CASE CurrentSnapshot(j)
  <2>1. PICK r : r = IF table = <<>> THEN [o EXCEPT !.pc = "done"]
                     ELSE [o EXCEPT !.pc = "latest", !.src = n]
    BY Zenon
  <2>2. job' = [job EXCEPT ![j] = r] /\ target' = target
    BY <1>1, <1>4, <1>11, <2>1 DEF CurrentSnapshot
  <2>3. IsJob(r)'
    <3>1. CASE table = <<>>
      BY <1>3, <2>1, <3>1 DEF IsJob
    <3>2. CASE table # <<>>
      <4>1. /\ r.pc = "latest" /\ r.src = n
            /\ r = [pc |-> r.pc, data |-> r.data, src |-> r.src, version |-> r.version,
                    read |-> r.read]
        BY <1>3, <2>1, <3>2, Zenon
      <4> QED
        BY <1>5, <3>2, <4>1 DEF IsJob
    <3> QED
      BY <3>1, <3>2
  <2> QED
    BY <2>2, <2>3, OneJobKeeps, Zenon
<1>12. CASE MergeDelta(j)
  BY <1>12, MergeKeeps
<1> QED
  BY <1>7, <1>8, <1>9, <1>10, <1>11, <1>12 DEF RefreshStep

(* Every step extends: the table, the versions in use and the skips.       *)
LEMMA StepExtends ==
  ASSUME LogShape, GenerationsInv, [Next]_vars
  PROVE  Extends
<1>1. table' = table \/ \E x \in SUBSET Event : table' = Append(table, x)
  <2>1. CASE LogNext
    BY <2>1, LogGrowsTable
  <2> QED
    BY <2>1 DEF Next, ViewNext, vars, logVars
<1>2. target' = target \/ \E g : target' = Append(target, g)
  BY Zenon DEF Next, ViewNext, vars, viewVars, ViewStep, RefreshStep, ReadSource, NextVersion,
     SourceSnapshot, WriteGeneration, CurrentSnapshot, MergeDelta, RefreshFails, ScheduledRefresh, RefreshView,
     RefreshReturns, CreateView, Created, CancelOld, Spawn, Register, DropView, DropCancels
<1>3. skipped => skipped'
  BY Zenon DEF Next, ViewNext, vars, viewVars, ViewStep, RefreshStep, ReadSource, NextVersion,
     SourceSnapshot, WriteGeneration, CurrentSnapshot, MergeDelta, RefreshFails, ScheduledRefresh, RefreshView,
     RefreshReturns, CreateView, Created, CancelOld, Spawn, Register, DropView, DropCancels
<1>4. Unshared' => Unshared
  BY <1>2, UnsharedBefore DEF GenerationsInv
<1> QED
  BY <1>1, <1>3, <1>4, TableGrows DEF Extends

(* A refresh that begins has nothing in hand.                              *)
LEMMA BeginKeeps ==
  ASSUME GenerationsInv, Extends, target' = target, NEW j \in Job, NEW b, Begin(j, b)
  PROVE  GenerationsInv'
<1>1. PICK r : r = [NoJob EXCEPT !.pc = IF b THEN "current" ELSE "source"]
  BY Zenon
<1>2. job' = [job EXCEPT ![j] = r]
  BY <1>1 DEF Begin
<1>3. r.pc \in {"current", "source"}
  BY <1>1 DEF NoJob
<1>4. r = [pc |-> r.pc, data |-> r.data, src |-> r.src, version |-> r.version, read |-> r.read]
  BY <1>1 DEF NoJob
<1>5. IsJob(r)'
  BY <1>3, <1>4 DEF IsJob
<1> QED
  BY <1>2, <1>5, OneJobKeeps, Zenon

(* A refresh that ends or is aborted has nothing left.                     *)
LEMMA EndKeeps ==
  ASSUME GenerationsInv, Extends, target' = target,
         \/ \E j \in Job : job' = [job EXCEPT ![j] = NoJob]
         \/ Cancel
         \/ job' = job
  PROVE  GenerationsInv'
<1>1. PICK r : r = NoJob
  OBVIOUS
<1>2. IsJob(r)'
  BY <1>1, NoJobIsJob, StayGood
<1>3. CASE \E j \in Job : job' = [job EXCEPT ![j] = NoJob]
  <2>1. PICK j \in Job : job' = [job EXCEPT ![j] = r]
    BY <1>1, <1>3, Zenon
  <2> QED
    BY <1>2, <2>1, OneJobKeeps, Zenon
<1>4. CASE Cancel
  <2>1. job' = [j \in Job |-> IF j \in tracked THEN r ELSE job[j]]
    BY <1>1, <1>4 DEF Cancel
  <2>2. ASSUME NEW j \in Job PROVE job'[j] = job[j] \/ IsJob(job[j])'
    <3>1. CASE j \in tracked
      <4>1. job'[j] = r
        BY <2>1, <3>1
      <4> QED
        BY <1>2, <4>1
    <3>2. CASE j \notin tracked
      BY <2>1, <3>2
    <3> QED
      BY <3>1, <3>2
  <2>3. job' = [j \in Job |-> job'[j]]
    BY <2>1
  <2> QED
    BY <2>2, <2>3, JobsKeep
<1>5. CASE job' = job
  <2>1. job' = [j \in Job |-> job'[j]] /\ \A j \in Job : job'[j] = job[j]
    BY <1>5 DEF GenerationsInv
  <2> QED
    BY <2>1, JobsKeep
<1> QED
  BY <1>3, <1>4, <1>5

(* Every step keeps the generations and the refreshes sound.               *)
LEMMA GenerationsInductive ==
  ASSUME LogShape, GenerationsInv, [Next]_vars
  PROVE  GenerationsInv'
<1>1. Extends
  BY StepExtends
<1>2. CASE UNCHANGED vars
  BY <1>1, <1>2, EndKeeps DEF vars, viewVars
<1>3. CASE Next
  <2>1. CASE LogNext /\ UNCHANGED viewVars
    BY <1>1, <2>1, EndKeeps DEF viewVars
  <2>2. CASE ViewNext
    <3>1. table' = table
      BY <2>2 DEF ViewNext
    <3>2. ASSUME NEW j \in Job, RefreshStep(j) PROVE GenerationsInv'
      BY <1>1, <3>1, <3>2, RefreshKeeps
    <3>3. ASSUME NEW j \in Job, RefreshFails(j) PROVE GenerationsInv'
      BY <1>1, <3>3, EndKeeps, Zenon DEF RefreshFails
    <3>4. ASSUME NEW t \in Task, ScheduledRefresh(t) PROVE GenerationsInv'
      BY <1>1, <3>4, BeginKeeps DEF ScheduledRefresh, Job
    <3>5. ASSUME NEW c \in Caller
          PROVE  /\ RefreshView(c) => GenerationsInv'
                 /\ CreateView(c) => GenerationsInv'
                 /\ RefreshReturns(c) => GenerationsInv'
                 /\ Created(c) => GenerationsInv'
                 /\ CancelOld(c) \/ Spawn(c) \/ Register(c) \/ DropView(c) \/ DropCancels(c)
                      => GenerationsInv'
      <4>1. CallerJob(c) \in Job
        BY <3>5 DEF Job
      <4>2. CASE RefreshView(c)
        <5>1. PICK b \in {FALSE, Mode = "push"} : Begin(CallerJob(c), b)
          BY <4>2, Zenon DEF RefreshView
        <5> QED
          BY <1>1, <4>1, <4>2, <5>1, BeginKeeps, Zenon DEF RefreshView
      <4>3. CASE CreateView(c)
        BY <1>1, <4>1, <4>3, BeginKeeps, Zenon DEF CreateView
      <4>4. CASE RefreshReturns(c)
        BY <1>1, <4>1, <4>4, EndKeeps, Zenon DEF RefreshReturns
      <4>5. CASE Created(c)
        BY <1>1, <4>1, <4>5, EndKeeps, Zenon DEF Created
      <4>6. CASE CancelOld(c) \/ Spawn(c) \/ Register(c) \/ DropView(c) \/ DropCancels(c)
        BY <1>1, <4>6, EndKeeps DEF CancelOld, Spawn, Register, DropView, DropCancels
      <4> QED
        BY <4>2, <4>3, <4>4, <4>5, <4>6
    <3> QED
      BY <2>2, <3>2, <3>3, <3>4, <3>5 DEF ViewNext, ViewStep
  <2> QED
    BY <1>3, <2>1, <2>2 DEF Next
<1> QED
  BY <1>2, <1>3

LEMMA GenerationsBegin == Init => GenerationsInv
<1> SUFFICES ASSUME Init PROVE GenerationsInv
  OBVIOUS
<1>1. target = <<>> /\ job = [j \in Job |-> NoJob]
  BY DEF Init
<1>2. \A j \in Job : job[j] = NoJob
  BY <1>1
<1>3. \A j \in Job : IsJob(job[j])
  BY <1>2, NoJobIsJob
<1>4. Len(target) = 0 /\ target = [i \in 1 .. Len(target) |-> target[i]]
  BY <1>1
<1>5. job = [j \in Job |-> job[j]]
  BY <1>1
<1> QED
  BY <1>1, <1>3, <1>4, <1>5 DEF GenerationsInv, HasLargest

LEMMA GenerationsFollow == GenerationsInv => GenerationsExact
<1> SUFFICES ASSUME GenerationsInv PROVE GenerationsExact
  OBVIOUS
<1>1. \A i \in DOMAIN target : IsGeneration(target[i])
  BY DEF GenerationsInv
<1>2. \A i \in DOMAIN target : Sound(target[i].data, target[i].src)
  BY <1>1, Zenon DEF IsGeneration
<1>3. NeverOvercounts
  BY <1>2 DEF NeverOvercounts, Sound
<1>4. ExactUnlessSkipped
  BY <1>2 DEF ExactUnlessSkipped, Sound
<1> QED
  BY <1>3, <1>4 DEF GenerationsExact

(* The generations that ViewRefresher writes are exact: while no version   *)
(* is shared none counts an event twice, and none misses one unless an     *)
(* append committed between a full refresh's two reads.                    *)
THEOREM GenerationsAreExact == Spec => []GenerationsExact
<1>1. Init => LogInv /\ GenerationsInv
  BY InitLog, GenerationsBegin DEF Init
<1>2. LogInv /\ GenerationsInv /\ [Next]_vars => LogInv' /\ GenerationsInv'
  BY LogInductive, GenerationsInductive DEF LogInv
<1>3. GenerationsInv => GenerationsExact
  BY GenerationsFollow
<1> QED
  BY <1>1, <1>2, <1>3, PTL DEF Spec

-----------------------------------------------------------------------------
(* A dropped view stops refreshing.                                        *)

(* A caller's refresh runs only within its refresh_view or create_view.    *)
CallsRefresh ==
  /\ manager = [c \in Caller |-> manager[c]]
  /\ job = [j \in Job |-> job[j]]
  /\ \A c \in Caller :
       manager[c] \notin {"creating", "refreshing"} => job[CallerJob(c)].pc = "idle"

(* Without overlapping create_view calls the scheduler's handle is that of *)
(* the only task, and a task of an unregistered view has a call that will  *)
(* register the view or cancel the task.                                   *)
TasksAccounted ==
  ~overlapped =>
    /\ \A c, d \in Caller : Creating(c) /\ Creating(d) => c = d
    /\ running = tracked
    /\ \A c \in Caller : manager[c] = "spawn" => running = {}
    /\ running # {} /\ ~registered => \E c \in Caller : manager[c] \in {"register", "cancel"}

DropInv == CallsRefresh /\ TasksAccounted

LEMMA JobsApart ==
  /\ \A c \in Caller : CallerJob(c) \in Job
  /\ \A c, d \in Caller : CallerJob(c) = CallerJob(d) => c = d
  /\ \A c, d \in Caller : CallerJob(c) # TaskOf(d)
  /\ \A t \in Task : t \in Job /\ \A c \in Caller : t # CallerJob(c)
BY DEF CallerJob, TaskOf, Job, Task

(* The calls' refreshes, step by step.                                     *)
LEMMA CallsRefreshKept ==
  ASSUME CallsRefresh, tracked \subseteq Task, ViewStep
  PROVE  CallsRefresh'
<1>1. ASSUME NEW j \in Job, RefreshStep(j)
      PROVE  CallsRefresh'
  <2>1. PICK r : job' = [job EXCEPT ![j] = r] /\ manager' = manager /\ job[j].pc # "idle"
    <3>1. CASE ReadSource(j)
      BY <3>1, Zenon DEF ReadSource
    <3>2. CASE NextVersion(j)
      BY <3>2, Zenon DEF NextVersion
    <3>3. CASE SourceSnapshot(j)
      BY <3>3, Zenon DEF SourceSnapshot
    <3>4. CASE WriteGeneration(j)
      BY <3>4, Zenon DEF WriteGeneration, Step
    <3>5. CASE CurrentSnapshot(j)
      BY <3>5, Zenon DEF CurrentSnapshot
    <3>6. CASE MergeDelta(j)
      BY <3>6, Zenon DEF MergeDelta
    <3> QED
      BY <1>1, <3>1, <3>2, <3>3, <3>4, <3>5, <3>6 DEF RefreshStep
  <2> QED
    BY <2>1, JobsApart DEF CallsRefresh
<1>2. ASSUME NEW j \in Job, RefreshFails(j) PROVE CallsRefresh'
  BY <1>2, JobsApart DEF RefreshFails, CallsRefresh, NoJob
<1>3. ASSUME NEW t \in Task, ScheduledRefresh(t) PROVE CallsRefresh'
  BY <1>3, JobsApart DEF ScheduledRefresh, Begin, CallsRefresh
<1>4. ASSUME NEW c \in Caller, RefreshView(c) PROVE CallsRefresh'
  <2>1. PICK r : job' = [job EXCEPT ![CallerJob(c)] = r]
    BY <1>4, Zenon DEF RefreshView, Begin
  <2> QED
    BY <1>4, <2>1, JobsApart DEF RefreshView, CallsRefresh
<1>5. ASSUME NEW c \in Caller, CreateView(c) PROVE CallsRefresh'
  <2>1. PICK r : job' = [job EXCEPT ![CallerJob(c)] = r]
    BY <1>5, Zenon DEF CreateView, Begin
  <2> QED
    BY <1>5, <2>1, JobsApart DEF CreateView, CallsRefresh
<1>6. ASSUME NEW c \in Caller, RefreshReturns(c) \/ Created(c) PROVE CallsRefresh'
  BY <1>6, JobsApart DEF RefreshReturns, Created, CallsRefresh, NoJob
<1>7. ASSUME NEW c \in Caller, CancelOld(c) \/ DropCancels(c) PROVE CallsRefresh'
  BY <1>7, JobsApart DEF CancelOld, DropCancels, Cancel, CallsRefresh, NoJob
<1>8. ASSUME NEW c \in Caller, Spawn(c) \/ Register(c) \/ DropView(c) PROVE CallsRefresh'
  BY <1>8, JobsApart DEF Spawn, Register, DropView, CallsRefresh
<1> QED
  BY <1>1, <1>2, <1>3, <1>4, <1>5, <1>6, <1>7, <1>8 DEF ViewStep

(* The tasks, step by step.                                                *)
LEMMA TasksKept ==
  ASSUME CallsRefresh, TasksAccounted, ViewStep
  PROVE  TasksAccounted'
<1>1. ASSUME UNCHANGED <<manager, registered, tracked, running, overlapped>>
      PROVE  TasksAccounted'
  BY <1>1 DEF TasksAccounted, Creating
<1>2. ASSUME NEW j \in Job, RefreshStep(j) PROVE TasksAccounted'
  BY <1>1, <1>2, Zenon DEF RefreshStep, ReadSource, NextVersion, SourceSnapshot, WriteGeneration,
     CurrentSnapshot, MergeDelta
<1>3. ASSUME NEW j \in Job, RefreshFails(j) PROVE TasksAccounted'
  <2>1. \A c \in Caller :
          \/ manager'[c] = manager[c]
          \/ manager[c] \in {"creating", "refreshing"} /\ manager'[c] = "idle"
    BY <1>3 DEF RefreshFails, CallsRefresh
  <2>2. UNCHANGED <<registered, tracked, running, overlapped>>
    BY <1>3 DEF RefreshFails
  <2> QED
    BY <2>1, <2>2 DEF TasksAccounted, Creating
<1>4. ASSUME NEW t \in Task, ScheduledRefresh(t) PROVE TasksAccounted'
  BY <1>1, <1>4 DEF ScheduledRefresh
<1>5. ASSUME NEW c \in Caller, RefreshView(c) \/ RefreshReturns(c) \/ Created(c)
      PROVE  TasksAccounted'
  <2>1. \A d \in Caller :
          \/ manager'[d] = manager[d]
          \/ /\ manager[d] \in {"idle", "refreshing"} /\ manager'[d] \in {"idle", "refreshing"}
          \/ manager[d] = "creating" /\ manager'[d] = "cancelOld"
    BY <1>5, Zenon DEF RefreshView, RefreshReturns, Created, CallsRefresh
  <2>2. UNCHANGED <<registered, tracked, running, overlapped>>
    BY <1>5, Zenon DEF RefreshView, RefreshReturns, Created
  <2> QED
    BY <2>1, <2>2 DEF TasksAccounted, Creating
<1>6. ASSUME NEW c \in Caller, CreateView(c) PROVE TasksAccounted'
  BY <1>6, Zenon DEF CreateView, TasksAccounted, Creating, CallsRefresh
<1>7. ASSUME NEW c \in Caller, CancelOld(c) \/ DropCancels(c) PROVE TasksAccounted'
  BY <1>7 DEF CancelOld, DropCancels, Cancel, TasksAccounted, Creating, CallsRefresh
<1>8. ASSUME NEW c \in Caller, Spawn(c) PROVE TasksAccounted'
  BY <1>8 DEF Spawn, TasksAccounted, Creating, CallsRefresh
<1>9. ASSUME NEW c \in Caller, Register(c) \/ DropView(c) PROVE TasksAccounted'
  BY <1>9 DEF Register, DropView, TasksAccounted, Creating, CallsRefresh
<1> QED
  BY <1>2, <1>3, <1>4, <1>5, <1>6, <1>7, <1>8, <1>9 DEF ViewStep

(* drop_view leaves no task behind: whenever no call is creating, dropping *)
(* or registering and the view is not registered, no background task runs, *)
(* in every state before two create_view calls have overlapped.            *)
THEOREM DroppedViewsStop == Spec => []DroppedStopsRefreshing
<1> DEFINE I == DropInv /\ tracked \subseteq Task
<1>1. Init => I
  BY JobsApart DEF Init, DropInv, CallsRefresh, TasksAccounted, Creating, NoJob
<1>2. I /\ [Next]_vars => I'
  <2> SUFFICES ASSUME I, [Next]_vars PROVE I'
    OBVIOUS
  <2>1. CASE ViewStep
    <3>1. tracked' \subseteq Task
      BY <2>1, Zenon DEF ViewStep, RefreshStep, ReadSource, NextVersion, SourceSnapshot,
         WriteGeneration, CurrentSnapshot, MergeDelta, RefreshFails, ScheduledRefresh, RefreshView,
         RefreshReturns, CreateView, Created, CancelOld, Spawn, Register, DropView, DropCancels,
         Cancel, Task
    <3> QED
      BY <2>1, <3>1, CallsRefreshKept, TasksKept DEF DropInv
  <2>2. CASE UNCHANGED viewVars
    BY <2>2 DEF viewVars, DropInv, CallsRefresh, TasksAccounted, Creating
  <2> QED
    BY <2>1, <2>2 DEF Next, ViewNext, vars
<1>3. I => DroppedStopsRefreshing
  BY DEF DropInv, TasksAccounted, DroppedStopsRefreshing
<1> QED
  BY <1>1, <1>2, <1>3, PTL DEF Spec
=============================================================================

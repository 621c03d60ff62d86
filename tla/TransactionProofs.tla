-------------------------- MODULE TransactionProofs --------------------------
(***************************************************************************)
(* The coordinator implements AtomicOutcome and keeps true books for any   *)
(* calls, participants, operations and ids, and a participant finishes a   *)
(* transaction once, for any requests.                                     *)
(***************************************************************************)
EXTENDS Transaction, TxnParticipant, TLAPS

\* The types of the variables the argument is about.
Shape ==
    /\ phase \in [Call -> {"new", "prepare", "commit", "finish", "returned"}]
    /\ final \in [Call -> Outcomes]
    /\ write \in [Call -> [Participant -> {"idle", "running", "ok", "error"}]]
    /\ accepted \in [Call -> [Participant -> Nat]]
    /\ applied \in [Call -> [Participant -> Nat]]

\* The phase of a call says what it has decided.
Decided(c) ==
    /\ phase[c] \in {"new", "prepare"} <=> final[c] = "open"
    /\ phase[c] = "commit" <=> final[c] = "committing"

\* Commit tasks exist only after a decision to commit, a participant never
\* applies more than its operations, and the answers a commit waits for mean
\* that all of them were applied.
TaskOk(c, p) ==
    /\ write[c][p] # "idle" => final[c] \in {"committing", "committed", "incomplete"}
    /\ write[c][p] # "idle" => p \in Parts(c)
    /\ final[c] = "committed" /\ p \in Parts(c) => write[c][p] = "ok"
    /\ write[c][p] = "idle" => accepted[c][p] = 0 /\ applied[c][p] = 0
    /\ write[c][p] = "running" => applied[c][p] = accepted[c][p]
    /\ write[c][p] = "ok" => applied[c][p] = NumOps[c][p]
    /\ accepted[c][p] <= NumOps[c][p]
    /\ applied[c][p] <= NumOps[c][p]

IInv ==
    /\ Shape
    /\ \A c \in Call : Decided(c)
    /\ \A c \in Call, p \in Participant : TaskOk(c, p)

LEMMA InitIInv == Init => IInv
  BY TransactionAssumption
  DEF Init, IInv, Shape, Decided, TaskOk, Outcomes

\* A participant without operations need not be asked.
LEMMA NoOpsOutside ==
    ASSUME NEW c \in Call, NEW p \in Participant, p \notin Parts(c)
    PROVE  NumOps[c][p] = 0
<1>1. NumOps[c][p] \in Nat
  BY TransactionAssumption
<1>2. ~(NumOps[c][p] > 0)
  BY TransactionAssumption DEF Parts
<1> QED
  BY <1>1, <1>2

\* One task's entry of a table changes, the others stay.
LEMMA OneTask ==
    ASSUME NEW S, NEW f \in [Call -> [Participant -> S]], NEW x,
           NEW d \in Call, NEW q \in Participant, NEW c \in Call, NEW p \in Participant
    PROVE  [f EXCEPT ![d][q] = x][c][p] = IF c = d /\ p = q THEN x ELSE f[c][p]
  OBVIOUS

LEMMA NextIInv == IInv /\ [Next]_vars => IInv'
<1> SUFFICES ASSUME IInv, [Next]_vars PROVE IInv'
  OBVIOUS
<1> USE TransactionAssumption
<1>1. ASSUME NEW d \in Call, Begin(d) PROVE IInv'
  BY <1>1 DEF Begin, IInv, Shape, Decided, TaskOk, Parts, Outcomes
<1>2. ASSUME NEW d \in Call, CollectVote(d) \/ CollectAck(d) PROVE IInv'
  <2>1. UNCHANGED <<phase, final, write, accepted, applied>>
    BY <1>2 DEF CollectVote, CollectAck
  <2> QED
    BY <2>1 DEF IInv, Shape, Decided, TaskOk, Parts
<1>3. ASSUME NEW d \in Call, AbortTxn(d) PROVE IInv'
  <2>1. Shape'
    BY <1>3 DEF AbortTxn, IInv, Shape, Outcomes
  <2>2. \A c \in Call : Decided(c)'
    BY <1>3 DEF AbortTxn, IInv, Shape, Decided
  <2>3. ASSUME NEW c \in Call, NEW p \in Participant PROVE TaskOk(c, p)'
    <3>1. TaskOk(c, p) /\ Decided(c) /\ Shape /\ NumOps[c][p] \in Nat
      BY DEF IInv
    <3>2. Parts(c)' = Parts(c)
      BY DEF Parts
    <3> QED
      BY <1>3, <3>1, <3>2 DEF AbortTxn, Shape, Decided, TaskOk
  <2> QED
    BY <2>1, <2>2, <2>3 DEF IInv
<1>4. ASSUME NEW d \in Call, StartCommit(d) PROVE IInv'
  <2>1. Shape'
    BY <1>4 DEF StartCommit, IInv, Shape, Outcomes
  <2>2. \A c \in Call : Decided(c)'
    BY <1>4 DEF StartCommit, IInv, Shape, Decided
  <2>3. ASSUME NEW c \in Call, NEW p \in Participant PROVE TaskOk(c, p)'
    <3>1. TaskOk(c, p) /\ Decided(c) /\ Shape /\ NumOps[c][p] \in Nat
      BY DEF IInv
    <3>2. Parts(c)' = Parts(c)
      BY DEF Parts
    <3> QED
      BY <1>4, <3>1, <3>2 DEF StartCommit, Shape, Decided, TaskOk
  <2> QED
    BY <2>1, <2>2, <2>3 DEF IInv
<1>5. ASSUME NEW d \in Call, CommitComplete(d) PROVE IInv'
  <2>1. Shape'
    BY <1>5 DEF CommitComplete, IInv, Shape, Outcomes
  <2>2. \A c \in Call : Decided(c)'
    BY <1>5 DEF CommitComplete, IInv, Shape, Decided
  <2>3. ASSUME NEW c \in Call, NEW p \in Participant PROVE TaskOk(c, p)'
    <3>1. TaskOk(c, p) /\ Decided(c) /\ Shape /\ NumOps[c][p] \in Nat
      BY DEF IInv
    <3>2. Parts(c)' = Parts(c)
      BY DEF Parts
    <3> QED
      BY <1>5, <3>1, <3>2 DEF CommitComplete, Shape, Decided, TaskOk
  <2> QED
    BY <2>1, <2>2, <2>3 DEF IInv
<1>6. ASSUME NEW d \in Call, CommitIncomplete(d) PROVE IInv'
  <2>1. Shape'
    BY <1>6 DEF CommitIncomplete, IInv, Shape, Outcomes
  <2>2. \A c \in Call : Decided(c)'
    BY <1>6 DEF CommitIncomplete, IInv, Shape, Decided
  <2>3. ASSUME NEW c \in Call, NEW p \in Participant PROVE TaskOk(c, p)'
    <3>1. TaskOk(c, p) /\ Decided(c) /\ Shape /\ NumOps[c][p] \in Nat
      BY DEF IInv
    <3>2. Parts(c)' = Parts(c)
      BY DEF Parts
    <3> QED
      BY <1>6, <3>1, <3>2 DEF CommitIncomplete, Shape, Decided, TaskOk
  <2> QED
    BY <2>1, <2>2, <2>3 DEF IInv
<1>7. ASSUME NEW d \in Call, Finish(d) PROVE IInv'
  BY <1>7 DEF Finish, IInv, Shape, Decided, TaskOk, Parts, Outcomes
<1>8. ASSUME NEW d \in Call, NEW q \in Participant, Probe(d, q) PROVE IInv'
  BY <1>8 DEF Probe, IInv, Shape, Decided, TaskOk, Parts
<1>9. ASSUME NEW d \in Call, NEW q \in Participant, WriteOp(d, q) PROVE IInv'
  <2>1. Shape'
    BY <1>9 DEF WriteOp, IInv, Shape, Outcomes
  <2>2. \A c \in Call : Decided(c)'
    BY <1>9 DEF WriteOp, IInv, Shape, Decided
  <2>3. ASSUME NEW c \in Call, NEW p \in Participant PROVE TaskOk(c, p)'
    <3>1. TaskOk(c, p) /\ Decided(c) /\ Shape /\ NumOps[c][p] \in Nat
      BY DEF IInv
    <3>2. Parts(c)' = Parts(c)
      BY DEF Parts
    <3>3. write' = write /\ final' = final
      BY <1>9 DEF WriteOp
    <3>4. accepted'[c][p] = IF c = d /\ p = q THEN accepted[c][p] + 1 ELSE accepted[c][p]
      BY <1>9, <3>1, OneTask DEF WriteOp, Shape
    <3>5. applied'[c][p] = IF c = d /\ p = q THEN applied[c][p] + 1 ELSE applied[c][p]
      BY <1>9, <3>1, OneTask DEF WriteOp, Shape
    <3>6. c = d /\ p = q => write[c][p] = "running" /\ accepted[c][p] < NumOps[c][p]
      BY <1>9 DEF WriteOp
    <3>7. accepted[c][p] \in Nat /\ applied[c][p] \in Nat
      BY <3>1 DEF Shape
    <3> QED
      BY <3>1, <3>2, <3>3, <3>4, <3>5, <3>6, <3>7 DEF TaskOk
  <2> QED
    BY <2>1, <2>2, <2>3 DEF IInv
<1>10. ASSUME NEW d \in Call, NEW q \in Participant, WriteFails(d, q) PROVE IInv'
  <2>1. Shape'
    BY <1>10 DEF WriteFails, IInv, Shape, Outcomes
  <2>2. \A c \in Call : Decided(c)'
    BY <1>10 DEF WriteFails, IInv, Shape, Decided
  <2>3. ASSUME NEW c \in Call, NEW p \in Participant PROVE TaskOk(c, p)'
    <3>1. TaskOk(c, p) /\ Decided(c) /\ Shape /\ NumOps[c][p] \in Nat
      BY DEF IInv
    <3>2. Parts(c)' = Parts(c)
      BY DEF Parts
    <3>3. CASE ~(c = d /\ p = q)
      <4>1. accepted' = accepted /\ final' = final
        BY <1>10 DEF WriteFails
      <4>2. write'[c][p] = write[c][p]
        BY <1>10, <3>1, <3>3, OneTask DEF WriteFails, Shape
      <4>3. applied'[c][p] = applied[c][p]
        BY <1>10, <3>1, <3>3, OneTask DEF WriteFails, Shape
      <4> QED
        BY <3>1, <3>2, <4>1, <4>2, <4>3 DEF TaskOk
    <3>4. CASE c = d /\ p = q
      <4>1. /\ write[c][p] = "running" /\ accepted[c][p] < NumOps[c][p]
            /\ write'[c][p] = "error" /\ accepted' = accepted /\ final' = final
        BY <1>10, <3>1, <3>4 DEF WriteFails, Shape
      <4>2. applied'[c][p] \in {applied[c][p], applied[c][p] + 1}
        BY <1>10, <3>1, <3>4 DEF WriteFails, Shape
      <4>3. accepted[c][p] \in Nat /\ applied[c][p] = accepted[c][p]
        BY <3>1, <4>1 DEF Shape, TaskOk
      <4>4. applied'[c][p] <= NumOps[c][p]
        BY <3>1, <4>1, <4>2, <4>3
      <4> QED
        BY <3>1, <3>2, <4>1, <4>4 DEF TaskOk
    <3> QED
      BY <3>3, <3>4
  <2> QED
    BY <2>1, <2>2, <2>3 DEF IInv
<1>11. ASSUME NEW d \in Call, NEW q \in Participant, WriteEnds(d, q) PROVE IInv'
  <2>1. Shape'
    BY <1>11 DEF WriteEnds, IInv, Shape, Outcomes
  <2>2. \A c \in Call : Decided(c)'
    BY <1>11 DEF WriteEnds, IInv, Shape, Decided
  <2>3. ASSUME NEW c \in Call, NEW p \in Participant PROVE TaskOk(c, p)'
    <3>1. TaskOk(c, p) /\ Decided(c) /\ Shape /\ NumOps[c][p] \in Nat
      BY DEF IInv
    <3>2. Parts(c)' = Parts(c)
      BY DEF Parts
    <3> QED
      BY <1>11, <3>1, <3>2 DEF WriteEnds, Shape, Decided, TaskOk
  <2> QED
    BY <2>1, <2>2, <2>3 DEF IInv
<1>12. CASE UNCHANGED vars
  BY <1>12 DEF vars, IInv, Shape, Decided, TaskOk, Parts
<1> QED
  BY <1>1, <1>2, <1>3, <1>4, <1>5, <1>6, <1>7, <1>8, <1>9, <1>10, <1>11, <1>12
  DEF Next, Coordinator

-----------------------------------------------------------------------------
(* Every step of the coordinator is a step of AtomicOutcome or leaves its  *)
(* variables alone.                                                        *)

LEMMA StepImplements == IInv /\ [Next]_vars => [Outcome!Next]_(Outcome!avars)
<1> SUFFICES ASSUME IInv, [Next]_vars
             PROVE  Outcome!Next \/ UNCHANGED <<final, applied>>
  BY DEF Outcome!avars
<1> USE TransactionAssumption
<1>1. ASSUME NEW d \in Call,
             Begin(d) \/ CollectVote(d) \/ CollectAck(d) \/ Finish(d)
      PROVE  UNCHANGED <<final, applied>>
  BY <1>1 DEF Begin, CollectVote, CollectAck, Finish
<1>2. ASSUME NEW d \in Call, AbortTxn(d) PROVE Outcome!Abort(d)
  BY <1>2 DEF AbortTxn, Outcome!Abort, IInv, Decided
<1>3. ASSUME NEW d \in Call, StartCommit(d) PROVE Outcome!Decide(d)
  BY <1>3 DEF StartCommit, Outcome!Decide, IInv, Decided
<1>4. ASSUME NEW d \in Call, CommitComplete(d) PROVE Outcome!Commit(d)
  <2>1. \A p \in Parts(d) : p \in Participant => applied[d][p] = NumOps[d][p]
    BY <1>4 DEF CommitComplete, IInv, TaskOk
  <2>2. ASSUME NEW p \in Participant, p \notin Parts(d)
        PROVE  applied[d][p] = NumOps[d][p]
    <3>1. NumOps[d][p] = 0
      BY <2>2, NoOpsOutside
    <3>2. TaskOk(d, p)
      BY DEF IInv
    <3> QED
      BY <2>2, <3>1, <3>2 DEF TaskOk
  <2> QED
    BY <1>4, <2>1, <2>2 DEF CommitComplete, Outcome!Commit, IInv, Decided
<1>5. ASSUME NEW d \in Call, CommitIncomplete(d) PROVE Outcome!GiveUp(d)
  BY <1>5 DEF CommitIncomplete, Outcome!GiveUp, IInv, Decided
<1>6. ASSUME NEW d \in Call, NEW q \in Participant, Probe(d, q) \/ WriteEnds(d, q)
      PROVE  UNCHANGED <<final, applied>>
  BY <1>6 DEF Probe, WriteEnds
<1>7. ASSUME NEW d \in Call, NEW q \in Participant, WriteOp(d, q)
      PROVE  Outcome!Apply(d, q)
  <2>1. final[d] \in {"committing", "incomplete"} /\ applied[d][q] = accepted[d][q]
    BY <1>7, Zenon DEF WriteOp, IInv, TaskOk
  <2> QED
    BY <1>7, <2>1 DEF WriteOp, Outcome!Apply
<1>8. ASSUME NEW d \in Call, NEW q \in Participant, WriteFails(d, q)
      PROVE  Outcome!Apply(d, q) \/ UNCHANGED <<final, applied>>
  <2>1. final[d] \in {"committing", "incomplete"} /\ applied[d][q] = accepted[d][q]
    BY <1>8, Zenon DEF WriteFails, IInv, TaskOk
  <2>2. PICK n \in {0, 1} : applied' = [applied EXCEPT ![d][q] = @ + n]
    BY <1>8, Zenon DEF WriteFails
  <2>3. CASE n = 0
    BY <1>8, <2>2, <2>3 DEF WriteFails, IInv, Shape
  <2>4. CASE n = 1
    BY <1>8, <2>1, <2>2, <2>4, Zenon DEF WriteFails, Outcome!Apply
  <2> QED
    BY <2>2, <2>3, <2>4
<1>9. CASE UNCHANGED vars
  BY <1>9 DEF vars
<1> QED
  BY <1>1, <1>2, <1>3, <1>4, <1>5, <1>6, <1>7, <1>8, <1>9
  DEF Next, Coordinator, Outcome!Next

\* The coordinator of transaction.rs implements AtomicOutcome: an aborted call
\* never writes, and committed is reported only when everything was applied.
THEOREM CoordinatorImplementsAtomicOutcome == Spec => ImplementsAtomicOutcome
<1>1. Init => Outcome!Init
  BY DEF Init, Outcome!Init
<1> QED
  BY <1>1, InitIInv, NextIInv, StepImplements, PTL
  DEF Spec, ImplementsAtomicOutcome, Outcome!Spec

-----------------------------------------------------------------------------
(* What the coordinator says of its transactions.                          *)

Metas == [parts : SUBSET Participant, acks : SUBSET Participant, known : BOOLEAN]
Results == [state : Outcomes \cup {"none"}, parts : SUBSET Participant,
            acks : SUBSET Participant]

\* The rest of the types.
BookShape ==
    /\ vote \in [Call -> [Participant -> {"idle", "running", "yes", "no"}]]
    /\ got \in [Call -> Nat]
    /\ \A c \in Call : got[c] <= Len(Order[c])
    /\ \A c \in Call, p \in Participant : accepted[c][p] <= applied[c][p]
    /\ active \in [TxnId -> Metas]
    /\ result \in [Call -> Results]
    /\ completed \in Seq(Results)
    /\ Len(completed) <= MaxHistory

\* No other call uses the transaction id.
Alone(c) == \A d \in Call : IdOf[d] = IdOf[c] => d = c

\* While a call runs, the entry under an id of its own is its own, and once the
\* call has decided, the entry names all of its participants.
EntryIsOwn ==
    \A c \in Call : Alone(c) =>
        /\ phase[c] \in {"prepare", "commit", "finish"} =>
               active[IdOf[c]].known /\ active[IdOf[c]].parts = Parts(c)
        /\ phase[c] = "finish" => active[IdOf[c]].acks = Parts(c)

BookInv ==
    IInv /\ BookShape /\ EntryIsOwn /\ CommittedNamesAll /\ ActiveIsRunningOrIncomplete

LEMMA InitBookInv == Init => BookInv
<1> SUFFICES ASSUME Init PROVE BookInv
  OBVIOUS
<1>1. BookShape
  BY TransactionAssumption
  DEF Init, BookShape, Metas, Results, NoMeta, NoResult, Outcomes
<1>2. EntryIsOwn /\ CommittedNamesAll
  BY DEF Init, EntryIsOwn, CommittedNamesAll, NoResult
<1>3. ActiveIsRunningOrIncomplete
  BY DEF Init, ActiveIsRunningOrIncomplete, NoMeta
<1> QED
  BY <1>1, <1>2, <1>3, InitIInv DEF BookInv

LEMMA PartsTyped ==
    ASSUME NEW c \in Call
    PROVE  /\ Parts(c) \subseteq Participant /\ Len(Order[c]) \in Nat
           /\ DOMAIN Order[c] = 1..Len(Order[c])
           /\ Parts(c)' = Parts(c) /\ IdOf[c] \in TxnId
  BY TransactionAssumption DEF Parts

\* The history keeps its type and its limit.
LEMMA PushedProps ==
    ASSUME NEW h \in Seq(Results), Len(h) <= MaxHistory, NEW res \in Results
    PROVE  Pushed(h, res) \in Seq(Results) /\ Len(Pushed(h, res)) <= MaxHistory
<1>1. MaxHistory \in Nat \ {0}
  BY TransactionAssumption
<1>2. Append(h, res) \in Seq(Results) /\ Len(Append(h, res)) = Len(h) + 1
  OBVIOUS
<1>3. CASE Len(Append(h, res)) > MaxHistory
  <2>1. Append(h, res) # << >>
    BY <1>2
  <2>2. Tail(Append(h, res)) \in Seq(Results)
        /\ Len(Tail(Append(h, res))) = Len(Append(h, res)) - 1
    BY <1>2, <2>1
  <2> QED
    BY <1>1, <1>2, <1>3, <2>2 DEF Pushed
<1>4. CASE ~(Len(Append(h, res)) > MaxHistory)
  BY <1>1, <1>2, <1>4 DEF Pushed
<1> QED
  BY <1>3, <1>4

\* The updates through get_mut keep the entry's participants and whether it is
\* there.
LEMMA SetActiveProps ==
    ASSUME active \in [TxnId -> Metas], NEW c \in Call, NEW acks \in SUBSET Participant,
           SetActive(c, acks)
    PROVE  /\ active' \in [TxnId -> Metas]
           /\ \A i \in TxnId : active'[i].known = active[i].known
                               /\ active'[i].parts = active[i].parts
           /\ \A i \in TxnId : i # IdOf[c] => active'[i] = active[i]
           /\ active[IdOf[c]].known => active'[IdOf[c]].acks = acks
<1>1. IdOf[c] \in TxnId
  BY PartsTyped
<1> QED
  BY <1>1 DEF SetActive, Metas

\* A step that neither decides nor returns leaves the coordinator's books alone.
LEMMA BooksUntouched ==
    ASSUME BookInv, UNCHANGED <<phase, final, active, result, completed>>
    PROVE  /\ EntryIsOwn' /\ CommittedNamesAll' /\ ActiveIsRunningOrIncomplete'
           /\ active' \in [TxnId -> Metas] /\ result' \in [Call -> Results]
           /\ completed' \in Seq(Results) /\ Len(completed') <= MaxHistory
<1>1. EntryIsOwn'
  BY DEF BookInv, EntryIsOwn, Alone, Parts
<1>2. CommittedNamesAll'
  BY DEF BookInv, CommittedNamesAll, Parts
<1>3. ActiveIsRunningOrIncomplete'
  BY DEF BookInv, ActiveIsRunningOrIncomplete
<1> QED
  BY <1>1, <1>2, <1>3 DEF BookInv, BookShape

\* A step that only decides: it updates its entry and moves to the finish.
LEMMA DecideKeepsBooks ==
    ASSUME BookInv, NEW d \in Call, phase[d] \in {"prepare", "commit"}, NEW o \in Outcomes,
           SetActive(d, Parts(d)), final' = [final EXCEPT ![d] = o],
           phase' = [phase EXCEPT ![d] = "finish"],
           UNCHANGED <<got, vote, write, accepted, applied, result, completed>>
    PROVE  BookShape' /\ EntryIsOwn' /\ CommittedNamesAll' /\ ActiveIsRunningOrIncomplete'
<1>1. /\ active \in [TxnId -> Metas]
      /\ phase \in [Call -> {"new", "prepare", "commit", "finish", "returned"}]
      /\ final \in [Call -> Outcomes]
  BY DEF BookInv, BookShape, IInv, Shape
<1>2. Parts(d) \in SUBSET Participant
  BY PartsTyped
<1>3. /\ active' \in [TxnId -> Metas]
      /\ \A i \in TxnId : active'[i].known = active[i].known
                          /\ active'[i].parts = active[i].parts
      /\ \A i \in TxnId : i # IdOf[d] => active'[i] = active[i]
      /\ active[IdOf[d]].known => active'[IdOf[d]].acks = Parts(d)
  BY <1>1, <1>2, SetActiveProps
<1>4. BookShape'
  BY <1>3 DEF BookInv, BookShape
<1>5. EntryIsOwn'
  <2> SUFFICES ASSUME NEW c \in Call, Alone(c)
               PROVE  /\ phase'[c] \in {"prepare", "commit", "finish"} =>
                             active'[IdOf[c]].known /\ active'[IdOf[c]].parts = Parts(c)
                      /\ phase'[c] = "finish" => active'[IdOf[c]].acks = Parts(c)
    BY PartsTyped DEF EntryIsOwn, Alone
  <2>1. IdOf[c] \in TxnId
    BY PartsTyped
  <2>2. CASE c = d
    BY <1>1, <1>3, <2>1, <2>2 DEF BookInv, EntryIsOwn
  <2>3. CASE c # d
    <3>1. IdOf[c] # IdOf[d]
      BY <2>3 DEF Alone
    <3> QED
      BY <1>1, <1>3, <2>1, <2>3, <3>1 DEF BookInv, EntryIsOwn
  <2> QED
    BY <2>2, <2>3
<1>6. CommittedNamesAll'
  BY DEF BookInv, CommittedNamesAll, Parts
<1>7. ActiveIsRunningOrIncomplete'
  <2> SUFFICES ASSUME NEW i \in TxnId, active'[i].known
               PROVE  \E c \in Call : /\ IdOf[c] = i
                                      /\ \/ phase'[c] \in {"prepare", "commit", "finish"}
                                         \/ final'[c] = "incomplete"
    BY DEF ActiveIsRunningOrIncomplete
  <2>1. PICK c \in Call : /\ IdOf[c] = i
                          /\ \/ phase[c] \in {"prepare", "commit", "finish"}
                             \/ final[c] = "incomplete"
    BY <1>3 DEF BookInv, ActiveIsRunningOrIncomplete
  <2> QED
    BY <1>1, <2>1
<1> QED
  BY <1>4, <1>5, <1>6, <1>7

\* One more answer is awaited.
LEMMA CollectBooks ==
    ASSUME BookInv, NEW d \in Call, CollectVote(d) \/ CollectAck(d)
    PROVE  BookShape' /\ EntryIsOwn' /\ CommittedNamesAll' /\ ActiveIsRunningOrIncomplete'
<1>1. /\ ~AllCollected(d) /\ got' = [got EXCEPT ![d] = @ + 1]
      /\ UNCHANGED <<phase, final, vote, write, accepted, applied, active, result, completed>>
  BY DEF CollectVote, CollectAck
<1>2. /\ EntryIsOwn' /\ CommittedNamesAll' /\ ActiveIsRunningOrIncomplete'
      /\ active' \in [TxnId -> Metas] /\ result' \in [Call -> Results]
      /\ completed' \in Seq(Results) /\ Len(completed') <= MaxHistory
  BY <1>1, BooksUntouched
<1>3. BookShape
  BY DEF BookInv
<1>4. got' \in [Call -> Nat] /\ \A c \in Call : got'[c] <= Len(Order[c])
  <2>1. got[d] < Len(Order[d]) /\ \A c \in Call : Len(Order[c]) \in Nat /\ got[c] \in Nat
    BY <1>1, <1>3, PartsTyped DEF BookShape, AllCollected
  <2> QED
    BY <1>1, <1>3, <2>1 DEF BookShape
<1> QED
  BY <1>1, <1>2, <1>3, <1>4 DEF BookShape

\* A commit task makes one step.
LEMMA TaskBooks ==
    ASSUME BookInv, NEW d \in Call, NEW q \in Participant,
           WriteOp(d, q) \/ WriteFails(d, q) \/ WriteEnds(d, q)
    PROVE  BookShape' /\ EntryIsOwn' /\ CommittedNamesAll' /\ ActiveIsRunningOrIncomplete'
<1>1. UNCHANGED <<phase, final, got, vote, active, result, completed>>
  BY DEF WriteOp, WriteFails, WriteEnds
<1>2. /\ EntryIsOwn' /\ CommittedNamesAll' /\ ActiveIsRunningOrIncomplete'
      /\ active' \in [TxnId -> Metas] /\ result' \in [Call -> Results]
      /\ completed' \in Seq(Results) /\ Len(completed') <= MaxHistory
  BY <1>1, BooksUntouched
<1>3. BookShape /\ Shape
  BY DEF BookInv, IInv
<1>4. ASSUME NEW c \in Call, NEW p \in Participant PROVE accepted'[c][p] <= applied'[c][p]
  <2>1. accepted[c][p] \in Nat /\ applied[c][p] \in Nat /\ accepted[c][p] <= applied[c][p]
    BY <1>3 DEF Shape, BookShape
  <2>2. CASE WriteOp(d, q)
    <3>1. accepted'[c][p] = IF c = d /\ p = q THEN accepted[c][p] + 1 ELSE accepted[c][p]
      BY <1>3, <2>2, OneTask DEF WriteOp, Shape
    <3>2. applied'[c][p] = IF c = d /\ p = q THEN applied[c][p] + 1 ELSE applied[c][p]
      BY <1>3, <2>2, OneTask DEF WriteOp, Shape
    <3> QED
      BY <2>1, <3>1, <3>2
  <2>3. CASE WriteFails(d, q)
    <3>1. accepted' = accepted
      BY <2>3 DEF WriteFails
    <3>2. PICK n \in {0, 1} : applied' = [applied EXCEPT ![d][q] = @ + n]
      BY <2>3, Zenon DEF WriteFails
    <3>3. applied'[c][p] = IF c = d /\ p = q THEN applied[c][p] + n ELSE applied[c][p]
      BY <1>3, <3>2, OneTask DEF Shape
    <3> QED
      BY <2>1, <3>1, <3>3
  <2>4. CASE WriteEnds(d, q)
    BY <2>1, <2>4 DEF WriteEnds
  <2> QED
    BY <2>2, <2>3, <2>4
<1> QED
  BY <1>1, <1>2, <1>3, <1>4 DEF BookShape

\* A call begins: its entry, perhaps another call's before, is its own.
LEMMA BeginBooks ==
    ASSUME BookInv, NEW d \in Call, Begin(d)
    PROVE  BookShape' /\ EntryIsOwn' /\ CommittedNamesAll' /\ ActiveIsRunningOrIncomplete'
<1>1. BookShape /\ Shape
  BY DEF BookInv, IInv
<1>2. Parts(d) \subseteq Participant /\ IdOf[d] \in TxnId
  BY PartsTyped
<1>3. /\ active'[IdOf[d]].known /\ active'[IdOf[d]].parts = Parts(d)
      /\ active' \in [TxnId -> Metas]
      /\ \A i \in TxnId : i # IdOf[d] => active'[i] = active[i]
  BY <1>1, <1>2 DEF Begin, BookShape, Metas
<1>4. vote' \in [Call -> [Participant -> {"idle", "running", "yes", "no"}]]
  BY <1>1 DEF Begin, BookShape
<1>5. BookShape'
  BY <1>1, <1>3, <1>4 DEF Begin, BookShape
<1>6. EntryIsOwn'
  <2> SUFFICES ASSUME NEW c \in Call, Alone(c)
               PROVE  /\ phase'[c] \in {"prepare", "commit", "finish"} =>
                             active'[IdOf[c]].known /\ active'[IdOf[c]].parts = Parts(c)
                      /\ phase'[c] = "finish" => active'[IdOf[c]].acks = Parts(c)
    BY PartsTyped DEF EntryIsOwn, Alone
  <2>1. IdOf[c] \in TxnId
    BY PartsTyped
  <2>2. CASE c = d
    BY <1>1, <1>3, <2>2 DEF Begin, Shape
  <2>3. CASE c # d
    <3>1. IdOf[c] # IdOf[d]
      BY <2>3 DEF Alone
    <3> QED
      BY <1>1, <1>3, <2>1, <2>3, <3>1 DEF Begin, Shape, BookInv, EntryIsOwn
  <2> QED
    BY <2>2, <2>3
<1>7. CommittedNamesAll'
  BY Zenon DEF Begin, BookInv, CommittedNamesAll, Parts
<1>8. ActiveIsRunningOrIncomplete'
  <2> SUFFICES ASSUME NEW i \in TxnId, active'[i].known
               PROVE  \E c \in Call : /\ IdOf[c] = i
                                      /\ \/ phase'[c] \in {"prepare", "commit", "finish"}
                                         \/ final'[c] = "incomplete"
    BY DEF ActiveIsRunningOrIncomplete
  <2>1. CASE i = IdOf[d]
    BY <1>1, <2>1 DEF Begin, Shape
  <2>2. CASE i # IdOf[d]
    BY <1>1, <1>3, <2>2 DEF Begin, Shape, BookInv, ActiveIsRunningOrIncomplete
  <2> QED
    BY <2>1, <2>2
<1> QED
  BY <1>5, <1>6, <1>7, <1>8

\* A commit that some participant failed, or that timed out, returns.
LEMMA IncompleteBooks ==
    ASSUME BookInv, NEW d \in Call, CommitIncomplete(d)
    PROVE  BookShape' /\ EntryIsOwn' /\ CommittedNamesAll' /\ ActiveIsRunningOrIncomplete'
<1>1. BookShape /\ Shape
  BY DEF BookInv, IInv
<1>2. Parts(d) \subseteq Participant /\ IdOf[d] \in TxnId
  BY PartsTyped
<1>3. Acks(d) \in SUBSET Participant
  <2>1. /\ got[d] \in Nat /\ got[d] <= Len(Order[d]) /\ Len(Order[d]) \in Nat
        /\ DOMAIN Order[d] = 1 .. Len(Order[d])
    BY <1>1, PartsTyped DEF BookShape
  <2>2. Collected(d) \subseteq Parts(d)
    BY <2>1 DEF Collected, Parts
  <2> QED
    BY <1>2, <2>2 DEF Acks
<1>4. /\ active' \in [TxnId -> Metas]
      /\ \A i \in TxnId : active'[i].known = active[i].known
                          /\ active'[i].parts = active[i].parts
      /\ \A i \in TxnId : i # IdOf[d] => active'[i] = active[i]
  BY <1>1, <1>3, SetActiveProps DEF CommitIncomplete, BookShape
<1>5. PICK res \in Results : /\ res.state = "incomplete"
                             /\ result' = [result EXCEPT ![d] = res]
                             /\ completed' = Pushed(completed, res)
  BY <1>2, Zenon DEF CommitIncomplete, Results, Outcomes
<1>6. completed' \in Seq(Results) /\ Len(completed') <= MaxHistory
  BY <1>1, <1>5, PushedProps DEF BookShape
<1>7. BookShape'
  BY <1>1, <1>4, <1>5, <1>6, Zenon DEF CommitIncomplete, BookShape
<1>8. EntryIsOwn'
  <2> SUFFICES ASSUME NEW c \in Call, Alone(c), c # d
               PROVE  /\ phase'[c] \in {"prepare", "commit", "finish"} =>
                             active'[IdOf[c]].known /\ active'[IdOf[c]].parts = Parts(c)
                      /\ phase'[c] = "finish" => active'[IdOf[c]].acks = Parts(c)
    BY <1>1, PartsTyped DEF EntryIsOwn, Alone, CommitIncomplete, Shape
  <2>1. IdOf[c] \in TxnId /\ IdOf[c] # IdOf[d]
    BY PartsTyped DEF Alone
  <2> QED
    BY <1>1, <1>4, <2>1, Zenon DEF CommitIncomplete, Shape, BookInv, EntryIsOwn
<1>9. CommittedNamesAll'
  <2>1. \A c \in Call : result'[c].state = "committed" => result'[c] = result[c]
    BY <1>1, <1>5 DEF BookShape
  <2> QED
    BY <2>1 DEF BookInv, CommittedNamesAll, Parts
<1>10. ActiveIsRunningOrIncomplete'
  <2> SUFFICES ASSUME NEW i \in TxnId, active'[i].known
               PROVE  \E c \in Call : /\ IdOf[c] = i
                                      /\ \/ phase'[c] \in {"prepare", "commit", "finish"}
                                         \/ final'[c] = "incomplete"
    BY DEF ActiveIsRunningOrIncomplete
  <2>1. PICK c \in Call : /\ IdOf[c] = i
                          /\ \/ phase[c] \in {"prepare", "commit", "finish"}
                             \/ final[c] = "incomplete"
    BY <1>4 DEF BookInv, ActiveIsRunningOrIncomplete
  <2> QED
    BY <1>1, <2>1 DEF CommitIncomplete, Shape
<1> QED
  BY <1>7, <1>8, <1>9, <1>10

\* The entry is removed and the result made from it.
LEMMA FinishBooks ==
    ASSUME BookInv, NEW d \in Call, Finish(d)
    PROVE  BookShape' /\ EntryIsOwn' /\ CommittedNamesAll' /\ ActiveIsRunningOrIncomplete'
<1>1. BookShape /\ Shape
  BY DEF BookInv, IInv
<1>2. IdOf[d] \in TxnId /\ active[IdOf[d]] \in Metas /\ final[d] \in Outcomes
  BY <1>1, PartsTyped DEF BookShape, Shape
<1>3. /\ active' \in [TxnId -> Metas] /\ ~active'[IdOf[d]].known
      /\ \A i \in TxnId : i # IdOf[d] => active'[i] = active[i]
  BY <1>1, <1>2 DEF Finish, BookShape, Metas, NoMeta
<1>4. PICK res \in Results :
          /\ res.parts = active[IdOf[d]].parts /\ res.acks = active[IdOf[d]].acks
          /\ result' = [result EXCEPT ![d] = res]
          /\ completed' = Pushed(completed, res)
  BY <1>2, Zenon DEF Finish, Results, Metas
<1>5. completed' \in Seq(Results) /\ Len(completed') <= MaxHistory
  BY <1>1, <1>4, PushedProps DEF BookShape
<1>6. BookShape'
  BY <1>1, <1>3, <1>4, <1>5 DEF Finish, BookShape
<1>7. EntryIsOwn'
  <2> SUFFICES ASSUME NEW c \in Call, Alone(c), c # d
               PROVE  /\ phase'[c] \in {"prepare", "commit", "finish"} =>
                             active'[IdOf[c]].known /\ active'[IdOf[c]].parts = Parts(c)
                      /\ phase'[c] = "finish" => active'[IdOf[c]].acks = Parts(c)
    BY <1>1, PartsTyped DEF EntryIsOwn, Alone, Finish, Shape
  <2>1. IdOf[c] \in TxnId /\ IdOf[c] # IdOf[d]
    BY PartsTyped DEF Alone
  <2> QED
    BY <1>1, <1>3, <2>1, Zenon DEF Finish, Shape, BookInv, EntryIsOwn
<1>8. CommittedNamesAll'
  <2> SUFFICES ASSUME NEW c \in Call, Alone(c), result'[c].state = "committed"
               PROVE  result'[c].parts = Parts(c) /\ result'[c].acks = Parts(c)
    BY PartsTyped DEF CommittedNamesAll, Alone
  <2>1. CASE c = d
    BY <1>1, <1>4, <2>1 DEF Finish, BookShape, BookInv, EntryIsOwn
  <2>2. CASE c # d
    BY <1>1, <1>4, <2>2 DEF BookShape, BookInv, CommittedNamesAll, Alone
  <2> QED
    BY <2>1, <2>2
<1>9. ActiveIsRunningOrIncomplete'
  <2> SUFFICES ASSUME NEW i \in TxnId, active'[i].known
               PROVE  \E c \in Call : /\ IdOf[c] = i
                                      /\ \/ phase'[c] \in {"prepare", "commit", "finish"}
                                         \/ final'[c] = "incomplete"
    BY DEF ActiveIsRunningOrIncomplete
  <2>1. i # IdOf[d]
    BY <1>3
  <2>2. PICK c \in Call : /\ IdOf[c] = i
                          /\ \/ phase[c] \in {"prepare", "commit", "finish"}
                             \/ final[c] = "incomplete"
    BY <1>3, <2>1 DEF BookInv, ActiveIsRunningOrIncomplete
  <2> QED
    BY <1>1, <2>1, <2>2 DEF Finish, Shape
<1> QED
  BY <1>6, <1>7, <1>8, <1>9

LEMMA NextBookInv == BookInv /\ [Next]_vars => BookInv'
<1> SUFFICES ASSUME BookInv, [Next]_vars PROVE BookInv'
  OBVIOUS
<1> DEFINE Books == BookShape /\ EntryIsOwn /\ CommittedNamesAll
                    /\ ActiveIsRunningOrIncomplete
<1>1. IInv'
  BY NextIInv DEF BookInv
<1>2. ASSUME NEW d \in Call, Begin(d) PROVE Books'
  BY <1>2, BeginBooks
<1>3. ASSUME NEW d \in Call, CollectVote(d) \/ CollectAck(d) PROVE Books'
  BY <1>3, CollectBooks
<1>4. ASSUME NEW d \in Call, AbortTxn(d) PROVE Books'
  <2>1. /\ phase[d] \in {"prepare", "commit"} /\ "aborted" \in Outcomes
        /\ SetActive(d, Parts(d)) /\ final' = [final EXCEPT ![d] = "aborted"]
        /\ phase' = [phase EXCEPT ![d] = "finish"]
        /\ UNCHANGED <<got, vote, write, accepted, applied, result, completed>>
    BY <1>4 DEF AbortTxn, Outcomes
  <2> QED
    BY <2>1, DecideKeepsBooks, Zenon
<1>5. ASSUME NEW d \in Call, StartCommit(d) PROVE Books'
  <2>1. BookShape /\ Shape
    BY DEF BookInv, IInv
  <2>2. BookShape'
    <3>1. got' = [got EXCEPT ![d] = 0]
          /\ UNCHANGED <<vote, accepted, applied, active, result, completed>>
      BY <1>5 DEF StartCommit
    <3>2. got \in [Call -> Nat] /\ \A c \in Call : got[c] <= Len(Order[c]) /\ Len(Order[c]) \in Nat
      BY <2>1, PartsTyped DEF BookShape
    <3>3. got' \in [Call -> Nat] /\ \A c \in Call : got'[c] <= Len(Order[c])
      BY <3>1, <3>2
    <3> QED
      BY <2>1, <3>1, <3>3 DEF BookShape
  <2>3. /\ phase[d] = "prepare" /\ phase' = [phase EXCEPT ![d] = "commit"]
        /\ active' = active /\ result' = result
        /\ final[d] = "open" /\ final' = [final EXCEPT ![d] = "committing"]
    BY <1>5 DEF StartCommit, BookInv, IInv, Decided
  <2>4. EntryIsOwn'
    BY <2>1, <2>3, PartsTyped DEF BookInv, EntryIsOwn, Alone, Shape
  <2>5. CommittedNamesAll'
    BY <2>3 DEF BookInv, CommittedNamesAll, Parts
  <2>6. ActiveIsRunningOrIncomplete'
    <3>1. \A c \in Call :
              phase[c] \in {"prepare", "commit", "finish"} \/ final[c] = "incomplete" =>
              phase'[c] \in {"prepare", "commit", "finish"} \/ final'[c] = "incomplete"
      BY <2>1, <2>3 DEF Shape
    <3> QED
      BY <2>3, <3>1 DEF BookInv, ActiveIsRunningOrIncomplete
  <2> QED
    BY <2>2, <2>4, <2>5, <2>6
<1>6. ASSUME NEW d \in Call, CommitComplete(d) PROVE Books'
  <2>1. /\ phase[d] \in {"prepare", "commit"} /\ "committed" \in Outcomes
        /\ SetActive(d, Parts(d)) /\ final' = [final EXCEPT ![d] = "committed"]
        /\ phase' = [phase EXCEPT ![d] = "finish"]
        /\ UNCHANGED <<got, vote, write, accepted, applied, result, completed>>
    BY <1>6 DEF CommitComplete, Outcomes
  <2> QED
    BY <2>1, DecideKeepsBooks, Zenon
<1>7. ASSUME NEW d \in Call, CommitIncomplete(d) PROVE Books'
  BY <1>7, IncompleteBooks
<1>8. ASSUME NEW d \in Call, Finish(d) PROVE Books'
  BY <1>8, FinishBooks
<1>9. ASSUME NEW d \in Call, NEW q \in Participant, Probe(d, q) PROVE Books'
  <2>1. UNCHANGED <<phase, final, got, write, accepted, applied, active, result, completed>>
    BY <1>9 DEF Probe
  <2>2. vote' \in [Call -> [Participant -> {"idle", "running", "yes", "no"}]]
    BY <1>9 DEF Probe, BookInv, BookShape
  <2>3. BookShape'
    BY <2>1, <2>2 DEF BookInv, BookShape
  <2> QED
    BY <2>1, <2>3, BooksUntouched
<1>10. ASSUME NEW d \in Call, NEW q \in Participant,
              WriteOp(d, q) \/ WriteFails(d, q) \/ WriteEnds(d, q)
       PROVE  Books'
  BY <1>10, TaskBooks
<1>11. ASSUME UNCHANGED vars PROVE Books'
  <2>1. UNCHANGED <<phase, final, got, vote, write, accepted, applied, active, result,
                    completed>>
    BY <1>11 DEF vars
  <2> QED
    BY <2>1, BooksUntouched DEF BookInv, BookShape
<1> HIDE DEF Books
<1>12. Books'
  BY <1>2, <1>3, <1>4, <1>5, <1>6, <1>7, <1>8, <1>9, <1>10, <1>11 DEF Next, Coordinator
<1> QED
  BY <1>1, <1>12 DEF BookInv, Books

\* BookkeepingTrue for any calls, participants, operations and ids: what
\* execute_transaction returns as committed names every participant, the active
\* list holds no finished call, and the history keeps its limit.
THEOREM BookkeepingIsTrue == Spec => []BookkeepingTrue
<1>1. BookInv => BookkeepingTrue
  <2> SUFFICES ASSUME BookInv PROVE TypeOK
    BY DEF BookInv, BookkeepingTrue
  <2>1. BookShape /\ Shape
    BY DEF BookInv, IInv
  <2>2. ASSUME NEW c \in Call, NEW p \in Participant
        PROVE  /\ vote[c][p] \in {"idle", "running", "yes", "no"}
               /\ write[c][p] \in {"idle", "running", "ok", "error"}
               /\ accepted[c][p] \in 0 .. NumOps[c][p]
               /\ applied[c][p] \in accepted[c][p] .. NumOps[c][p]
    <3>1. /\ accepted[c][p] \in Nat /\ applied[c][p] \in Nat /\ NumOps[c][p] \in Nat
          /\ accepted[c][p] <= applied[c][p]
      BY <2>1, TransactionAssumption DEF Shape, BookShape
    <3>2. accepted[c][p] <= NumOps[c][p] /\ applied[c][p] <= NumOps[c][p]
      BY DEF BookInv, IInv, TaskOk
    <3>3. /\ vote[c][p] \in {"idle", "running", "yes", "no"}
          /\ write[c][p] \in {"idle", "running", "ok", "error"}
      BY <2>1 DEF Shape, BookShape
    <3> QED
      BY <3>1, <3>2, <3>3
  <2>3. ASSUME NEW c \in Call PROVE got[c] \in 0 .. Len(Order[c])
    <3>1. got[c] \in Nat /\ got[c] <= Len(Order[c])
      BY <2>1 DEF BookShape
    <3>2. Len(Order[c]) \in Nat
      BY PartsTyped
    <3> QED
      BY <3>1, <3>2
  <2> QED
    BY <2>1, <2>2, <2>3 DEF TypeOK, Shape, BookShape
<1> QED
  BY <1>1, InitBookInv, NextBookInv, PTL DEF Spec

-----------------------------------------------------------------------------
(* The participant.                                                        *)

\* A commit has taken the operations, or an abort has discarded them, and the
\* outcome is not recorded yet.
Finishing(r) ==
    \/ Kind[r] = "commit" /\ handler[r] \in {"execute", "mark_ok", "mark_failed"}
    \/ Kind[r] = "abort" /\ handler[r] = "mark_aborted"

\* What the maps say of a transaction no prepare of which ran beside a commit or an
\* abort: once a commit has taken its operations or an abort has discarded them,
\* none are prepared and no prepare is about to store any; a commit that is about
\* to execute is the first one.
Settled(t) ==
    /\ (outcomes[t] # "none" \/ \E r \in Request : Txn[r] = t /\ Finishing(r)) =>
         /\ t \notin prepared
         /\ \A q \in Request : Txn[q] = t => handler[q] # "store"
    /\ executed[t] > 0 =>
         outcomes[t] # "none" \/ \E r \in Request : Txn[r] = t /\ Finishing(r)
    /\ executed[t] <= 1
    /\ \A r \in Request : Txn[r] = t /\ handler[r] = "execute" =>
         /\ executed[t] = 0
         /\ \A q \in Request : Txn[q] = t /\ Kind[q] = "commit" /\ Finishing(q) => q = r

\* The types, and which handler can be where.
ParticipantShape ==
    /\ handler \in [Request -> {"sent", "done", "store", "execute", "mark_ok", "mark_failed",
                                "mark_aborted"}]
    /\ prepared \subseteq Transactions
    /\ outcomes \in [Transactions -> {"none", "Committed", "Aborted"}]
    /\ executed \in [Transactions -> Nat]
    /\ \A r \in Request :
         /\ handler[r] = "store" => Kind[r] = "prepare"
         /\ handler[r] \in {"execute", "mark_ok", "mark_failed"} => Kind[r] = "commit"
         /\ handler[r] = "mark_aborted" => Kind[r] = "abort"

PInv == ParticipantShape /\ \A t \in Transactions : t \in overlapped \/ Settled(t)

LEMMA InitPInv == ParticipantInit => PInv
<1> SUFFICES ASSUME ParticipantInit PROVE PInv
  OBVIOUS
<1>1. ParticipantShape
  BY DEF ParticipantInit, ParticipantShape
<1>2. ASSUME NEW t \in Transactions PROVE Settled(t)
  BY DEF ParticipantInit, Settled, Finishing
<1> QED
  BY <1>1, <1>2 DEF PInv

LEMMA NextPInv == PInv /\ [ParticipantNext]_pvars => PInv'
<1> SUFFICES ASSUME PInv, [ParticipantNext]_pvars PROVE PInv'
  OBVIOUS
<1>a. ParticipantShape
  BY DEF PInv
<1>b. \A t \in Transactions : t \in overlapped \/ Settled(t)
  BY DEF PInv
<1>0. ASSUME NEW r \in Request, ~UNCHANGED pvars,
             \/ PrepareCheck(r) \/ PrepareStore(r) \/ CommitTake(r) \/ CommitExecute(r)
             \/ CommitMark(r) \/ AbortDiscard(r) \/ AbortMark(r)
      PROVE  PInv'
  <2>t. PICK t \in Transactions : t = Txn[r]
    BY DEF Transactions
  <2>1. ParticipantShape'
    BY <1>a, <1>0, <2>t DEF ParticipantShape, PrepareCheck, PrepareStore, CommitTake,
       CommitExecute, CommitMark, AbortDiscard, AbortMark, Return, Goto
  <2>2. ASSUME NEW u \in Transactions, u # t, u \in overlapped \/ Settled(u)
        PROVE  (u \in overlapped \/ Settled(u))'
    <3>1. /\ \A q \in Request : Txn[q] = u => handler'[q] = handler[q]
          /\ outcomes'[u] = outcomes[u] /\ executed'[u] = executed[u]
          /\ u \in prepared' <=> u \in prepared
          /\ u \in overlapped => u \in overlapped'
      BY <1>a, <1>0, <2>t, <2>2 DEF ParticipantShape, PrepareCheck, PrepareStore, CommitTake,
         CommitExecute, CommitMark, AbortDiscard, AbortMark, Return, Goto
    <3>2. \A q \in Request : Txn[q] = u => (Finishing(q)' <=> Finishing(q))
      BY <3>1 DEF Finishing
    <3> QED
      BY <2>2, <3>1, <3>2, Zenon DEF Settled
  <2>3. t \in overlapped => t \in overlapped'
    BY <1>0, <2>t DEF PrepareCheck, PrepareStore, CommitTake, CommitExecute, CommitMark, AbortDiscard,
       AbortMark
  <2>4. ASSUME Settled(t), t \notin overlapped' PROVE Settled(t)'
    <3>a. /\ \A q \in Request : q # r => handler'[q] = handler[q]
          /\ outcomes[t] \in {"none", "Committed", "Aborted"} /\ executed[t] \in Nat
      BY <1>a, <1>0, <2>t DEF ParticipantShape, PrepareCheck, PrepareStore, CommitTake,
         CommitExecute, CommitMark, AbortDiscard, AbortMark, Return, Goto
    <3>1. CASE PrepareCheck(r)
      <4>1. /\ handler[r] = "sent" /\ Kind[r] = "prepare" /\ handler'[r] \in {"done", "store"}
            /\ handler'[r] = "store" => outcomes[t] = "none"
            /\ UNCHANGED <<prepared, outcomes, executed>>
        BY <1>a, <2>t, <3>1 DEF ParticipantShape, PrepareCheck, Return, Goto
      <4>2. ~Running(t, {"commit", "abort"})
        BY <2>t, <2>4, <3>1 DEF PrepareCheck
      <4>3. \A q \in Request : Txn[q] = t => ~Finishing(q)
        BY <4>2 DEF Running, Finishing
      <4> QED
        BY <2>t, <2>4, <3>a, <4>1, <4>3 DEF Settled, Finishing
    <3>2. CASE PrepareStore(r)
      <4>1. /\ handler[r] = "store" /\ Kind[r] = "prepare" /\ handler'[r] = "done"
            /\ UNCHANGED <<outcomes, executed>>
        BY <1>a, <2>t, <3>2 DEF ParticipantShape, PrepareStore, Return
      <4>2. outcomes[t] = "none" /\ \A q \in Request : Txn[q] = t => ~Finishing(q)
        BY <2>t, <2>4, <4>1 DEF Settled
      <4>3. \A q \in Request : Txn[q] = t => ~Finishing(q)' /\ handler'[q] # "execute"
        BY <1>a, <2>t, <3>a, <4>1, <4>2 DEF Finishing, ParticipantShape
      <4> QED
        BY <2>t, <2>4, <3>a, <4>1, <4>2, <4>3 DEF Settled
    <3>3. CASE CommitTake(r)
      <4>1. /\ handler[r] = "sent" /\ Kind[r] = "commit" /\ t \notin prepared'
            /\ handler'[r] \in {"done", "execute"}
            /\ handler'[r] = "execute" => t \in prepared
            /\ UNCHANGED <<outcomes, executed>>
        BY <1>a, <2>t, <3>3 DEF ParticipantShape, CommitTake, Return, Goto
      <4>2. ~Running(t, {"prepare"})
        BY <2>t, <2>4, <3>3 DEF CommitTake
      <4>3. \A q \in Request : Txn[q] = t => handler[q] # "store" /\ handler'[q] # "store"
        BY <1>a, <2>t, <3>a, <4>1, <4>2 DEF Running, ParticipantShape
      <4>4. CASE t \in prepared
        <5>1. outcomes[t] = "none" /\ \A q \in Request : Txn[q] = t => ~Finishing(q)
          BY <2>4, <4>4 DEF Settled
        <5>2. ~(executed[t] > 0)
          BY <2>4, <5>1 DEF Settled
        <5>3. executed'[t] = 0
          BY <3>a, <4>1, <5>2
        <5>4. \A q \in Request : Txn[q] = t /\ q # r => ~Finishing(q)' /\ handler'[q] # "execute"
          BY <1>a, <2>t, <3>a, <5>1 DEF Finishing, ParticipantShape
        <5> QED
          BY <4>1, <4>3, <5>3, <5>4 DEF Settled
      <4>5. CASE t \notin prepared
        BY <2>t, <2>4, <3>a, <4>1, <4>3, <4>5 DEF Settled, Finishing
      <4> QED
        BY <4>4, <4>5
    <3>4. CASE CommitExecute(r)
      <4>1. /\ handler[r] = "execute" /\ handler'[r] \in {"mark_ok", "mark_failed"}
            /\ executed'[t] = executed[t] + 1
            /\ UNCHANGED <<prepared, outcomes>>
        BY <1>a, <2>t, <3>4 DEF ParticipantShape, CommitExecute, Goto
      <4>2. Kind[r] = "commit" /\ Finishing(r) /\ Finishing(r)'
        BY <1>a, <2>t, <4>1 DEF Finishing, ParticipantShape
      <4>3. /\ executed[t] = 0 /\ t \notin prepared
            /\ \A q \in Request : Txn[q] = t => handler[q] # "store"
            /\ \A q \in Request : Txn[q] = t /\ handler[q] = "execute" => q = r
        BY <1>a, <2>t, <2>4, <4>1, <4>2 DEF Settled, Finishing, ParticipantShape
      <4>4. executed'[t] = 1
        BY <4>1, <4>3
      <4>5. \A q \in Request : Txn[q] = t => handler'[q] # "store" /\ handler'[q] # "execute"
        BY <3>a, <4>1, <4>3
      <4>6. t \notin prepared' /\ executed'[t] <= 1
        BY <4>1, <4>3, <4>4
      <4>7. \E q \in Request : Txn[q] = t /\ Finishing(q)'
        BY <2>t, <4>2
      <4> QED
        BY <4>5, <4>6, <4>7, Zenon DEF Settled
    <3>5. CASE CommitMark(r)
      <4>1. /\ handler[r] \in {"mark_ok", "mark_failed"} /\ handler'[r] = "done"
            /\ outcomes'[t] = "Committed" /\ executed' = executed /\ prepared' = prepared
        BY <1>a, <2>t, <3>5 DEF ParticipantShape, CommitMark, Return
      <4>2. Kind[r] = "commit" /\ Finishing(r)
        BY <1>a, <2>t, <4>1 DEF Finishing, ParticipantShape
      <4> QED
        BY <2>t, <2>4, <3>a, <4>1, <4>2 DEF Settled, Finishing
    <3>6. CASE AbortDiscard(r)
      <4>1. /\ handler[r] = "sent" /\ Kind[r] = "abort" /\ handler'[r] = "mark_aborted"
            /\ t \notin prepared' /\ UNCHANGED <<outcomes, executed>>
        BY <1>a, <2>t, <3>6 DEF ParticipantShape, AbortDiscard, Goto
      <4>2. ~Running(t, {"prepare"})
        BY <2>t, <2>4, <3>6 DEF AbortDiscard
      <4>3. \A q \in Request : Txn[q] = t => handler'[q] # "store"
        BY <1>a, <2>t, <3>a, <4>1, <4>2 DEF Running, ParticipantShape
      <4> QED
        BY <2>t, <2>4, <3>a, <4>1, <4>3 DEF Settled, Finishing
    <3>7. CASE AbortMark(r)
      <4>1. /\ handler[r] = "mark_aborted" /\ handler'[r] = "done"
            /\ outcomes'[t] = "Aborted" /\ executed' = executed /\ prepared' = prepared
        BY <1>a, <2>t, <3>7 DEF ParticipantShape, AbortMark, Return
      <4>2. Kind[r] = "abort" /\ Finishing(r)
        BY <1>a, <2>t, <4>1 DEF Finishing, ParticipantShape
      <4> QED
        BY <2>t, <2>4, <3>a, <4>1, <4>2, Zenon DEF Settled, Finishing
    <3> QED
      BY <1>0, <3>1, <3>2, <3>3, <3>4, <3>5, <3>6, <3>7
  <2>5. ASSUME NEW u \in Transactions PROVE (u \in overlapped \/ Settled(u))'
    BY <1>b, <2>2, <2>3, <2>4, <2>5
  <2> QED
    BY <2>1, <2>5 DEF PInv
<1>1. CASE UNCHANGED pvars
  <2>1. ParticipantShape'
    BY <1>a, <1>1 DEF pvars, ParticipantShape
  <2>2. ASSUME NEW u \in Transactions PROVE (u \in overlapped \/ Settled(u))'
    BY <1>b, <1>1 DEF pvars, Settled, Finishing
  <2> QED
    BY <2>1, <2>2 DEF PInv
<1> QED
  BY <1>0, <1>1 DEF ParticipantNext

\* handle_prepare, handle_commit and handle_abort in any interleaving, with any
\* duplicates: operations execute at most once and none are left prepared after an
\* abort, unless a prepare ran beside the outcome.
THEOREM ParticipantFinishesOnce == ParticipantSpec => []FinishedOnce
<1>1. PInv => FinishedOnce
  BY DEF PInv, ParticipantShape, Settled, FinishedOnce, ExecutedOnceUnlessOverlapped,
     AbortedStaysDiscarded
<1> QED
  BY InitPInv, NextPInv, <1>1, PTL DEF ParticipantSpec
=============================================================================

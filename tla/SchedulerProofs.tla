-------------------------- MODULE SchedulerProofs --------------------------
(* Proofs about the scheduler, for every set of jobs, tickers, schedules    *)
(* and limits.                                                              *)
EXTENDS Scheduler, TLAPS

\* What the assumptions say of the constants, one fact at a time.
LEMMA ConstantTypes ==
    /\ AgeCap \in Nat /\ Poll \in Nat \ {0} /\ RetryCap \in Nat
    /\ DefaultSchedule \in Schedules /\ Limits \subseteq Nat /\ DefaultLimit \in Nat
    /\ \A s \in Schedules : Delays[s] \subseteq Nat
    /\ Defaults \subseteq Jobs /\ Tasks \subseteq Jobs
    /\ NoJob \notin Jobs
  BY SchedulerAssumption

\* The absent row has the type of a row.
LEMMA BlankIsRow == Blank \in Row
  BY ConstantTypes DEF Blank, Row

\* A remaining delay is never negative.
LEMMA RemainingIsNat == ASSUME NEW d \in Nat, NEW a \in Nat
                        PROVE  Remaining(d, a) \in Nat
  BY DEF Remaining

\* The four statements of the storage map rows to rows.
LEMMA StatementsKeepRows ==
    ASSUME NEW r \in Row
    PROVE  /\ RunningRow(r) \in Row
           /\ FailedRow(r) \in Row
           /\ \A w \in Nat : DoneRow(r, w) \in Row
           /\ \A s \in Schedules, w \in Nat, m \in Limits \cup {DefaultLimit} :
                UpsertRow(r, s, w, m) \in Row
<1>1. RunningRow(r) \in Row
  BY DEF Row, RunningRow
<1>2. FailedRow(r) \in Row
  BY ConstantTypes DEF Row, FailedRow
<1>3. ASSUME NEW w \in Nat PROVE DoneRow(r, w) \in Row
  BY ConstantTypes DEF Row, DoneRow
<1>4. ASSUME NEW s \in Schedules, NEW w \in Nat, NEW m \in Limits \cup {DefaultLimit}
      PROVE  UpsertRow(r, s, w, m) \in Row
  BY ConstantTypes DEF Row, UpsertRow
<1>5. QED BY <1>1, <1>2, <1>3, <1>4

\* The clock maps rows to rows.
LEMMA ElapseKeepsRow ==
    ASSUME NEW r \in Row
    PROVE  [r EXCEPT !.wait = IF @ > 0 THEN @ - 1 ELSE 0] \in Row
  BY DEF Row

\* What Leave and Abandon do to the control state of a ticker.
ControlOK ==
    /\ pc \in [Tickers -> {"idle", "between", "task", "retry"}]
    /\ todo \in [Tickers -> SUBSET Jobs]
    /\ doing \in [Tickers -> Jobs \cup {NoJob}]
    /\ \A t \in Tickers : (doing[t] = NoJob) <=> (pc[t] \in {"idle", "between"})

SnapOK == snap \in [Tickers -> [Jobs -> Row]]

\* Turning to the next job keeps the snapshots typed.
LEMMA LeaveTypes ==
    ASSUME NEW t \in Tickers, NEW j \in Jobs, Leave(t, j), SnapOK
    PROVE  SnapOK'
<1>1. [snap[t] EXCEPT ![j] = Blank] \in [Jobs -> Row]
  BY BlankIsRow DEF SnapOK
<1>2. snap' = [snap EXCEPT ![t] = [snap[t] EXCEPT ![j] = Blank]]
  BY DEF Leave
<1>3. QED BY <1>1, <1>2 DEF SnapOK

\* Ending a tick keeps the snapshots typed.
LEMMA AbandonTypes ==
    ASSUME NEW t \in Tickers, Abandon(t), SnapOK
    PROVE  SnapOK'
<1>1. [j \in Jobs |-> Blank] \in [Jobs -> Row]
  BY BlankIsRow
<1>2. snap' = [snap EXCEPT ![t] = [j \in Jobs |-> Blank]]
  BY DEF Abandon
<1>3. QED BY <1>1, <1>2 DEF SnapOK

-----------------------------------------------------------------------------

\* The control part of the type invariant.
LEMMA ControlInvariant ==
    ASSUME ControlOK, [Next]_vars PROVE ControlOK'
<1>1. ASSUME NEW t \in Tickers, StartTick(t) PROVE ControlOK'
  BY <1>1 DEF StartTick, ControlOK, DueJobs
<1>2. ASSUME NEW t \in Tickers, NEW j \in Jobs, SkipUnknownTask(t, j)
      PROVE  ControlOK'
  BY <1>2 DEF SkipUnknownTask, Leave, ControlOK
<1>3. ASSUME NEW t \in Tickers, NEW j \in Jobs, MarkJobRunning(t, j)
      PROVE  ControlOK'
  BY <1>3, ConstantTypes DEF MarkJobRunning, ControlOK
<1>4. ASSUME NEW t \in Tickers, TaskSucceeds(t) PROVE ControlOK'
  BY <1>4 DEF TaskSucceeds, Leave, ControlOK
<1>5. ASSUME NEW t \in Tickers, TaskFails(t) PROVE ControlOK'
  BY <1>5 DEF TaskFails, Leave, ControlOK
<1>6. ASSUME NEW t \in Tickers, RetrySoon(t) PROVE ControlOK'
  BY <1>6 DEF RetrySoon, Leave, ControlOK
<1>7. ASSUME NEW t \in Tickers, EndTick(t) \/ StorageFault(t) \/ Stop(t)
      PROVE  ControlOK'
  BY <1>7 DEF EndTick, StorageFault, Stop, Abandon, ControlOK
<1>8. ASSUME UNCHANGED <<pc, todo, doing>> PROVE ControlOK'
  BY <1>8 DEF ControlOK
<1>9. ASSUME NEW j \in Jobs, UpsertSchedulerJob(j) \/ InstallDefault(j)
      PROVE  ControlOK'
  BY <1>9, <1>8 DEF UpsertSchedulerJob, InstallDefault, tick
<1>10. CASE ListMissingDefaults \/ Elapse \/ UNCHANGED vars
  BY <1>10, <1>8 DEF ListMissingDefaults, Elapse, tick, vars
<1>11. QED BY <1>1, <1>2, <1>3, <1>4, <1>5, <1>6, <1>7, <1>9, <1>10
           DEF Next, InTick, Disturb

TableOK == table \in [Jobs -> Row]
AgeOK == age \in [Tickers -> 0..AgeCap]
RestOK == rest \in 0..Poll /\ missing \subseteq Defaults

\* The type invariant, split by variable.
LEMMA TypeParts == TypeOK <=> TableOK /\ ControlOK /\ AgeOK /\ SnapOK /\ RestOK
  BY DEF TypeOK, TableOK, ControlOK, AgeOK, SnapOK, RestOK

\* A ticker that executes or retries is at a job.
LEMMA DoingIsJob ==
    ASSUME ControlOK, NEW t \in Tickers, pc[t] \in {"task", "retry"}
    PROVE  doing[t] \in Jobs
  BY DEF ControlOK

\* The snapshots stay rows.
LEMMA SnapInvariant ==
    ASSUME ControlOK, TableOK, SnapOK, [Next]_vars PROVE SnapOK'
<1>1. ASSUME NEW t \in Tickers, StartTick(t) PROVE SnapOK'
  BY <1>1, BlankIsRow DEF StartTick, TableOK, SnapOK
<1>2. ASSUME NEW t \in Tickers, NEW j \in Jobs, SkipUnknownTask(t, j)
      PROVE  SnapOK'
  BY <1>2, LeaveTypes DEF SkipUnknownTask
<1>3. ASSUME NEW t \in Tickers, TaskSucceeds(t) \/ TaskFails(t) \/ RetrySoon(t)
      PROVE  SnapOK'
  <2>1. doing[t] \in Jobs
    BY <1>3, DoingIsJob DEF TaskSucceeds, TaskFails, RetrySoon
  <2>2. Leave(t, doing[t]) \/ UNCHANGED snap
    BY <1>3 DEF TaskSucceeds, TaskFails, RetrySoon
  <2>3. QED BY <2>1, <2>2, LeaveTypes DEF SnapOK
<1>4. ASSUME NEW t \in Tickers, EndTick(t) \/ StorageFault(t) \/ Stop(t)
      PROVE  SnapOK'
  BY <1>4, AbandonTypes DEF EndTick, StorageFault, Stop
<1>5. ASSUME UNCHANGED snap PROVE SnapOK'
  BY <1>5 DEF SnapOK
<1>6. ASSUME NEW t \in Tickers, NEW j \in Jobs, MarkJobRunning(t, j)
      PROVE  SnapOK'
  BY <1>6, <1>5 DEF MarkJobRunning
<1>7. ASSUME NEW j \in Jobs, UpsertSchedulerJob(j) \/ InstallDefault(j)
      PROVE  SnapOK'
  BY <1>7, <1>5 DEF UpsertSchedulerJob, InstallDefault, tick
<1>8. CASE ListMissingDefaults \/ Elapse \/ UNCHANGED vars
  BY <1>8, <1>5 DEF ListMissingDefaults, Elapse, tick, vars
<1>9. QED BY <1>1, <1>2, <1>3, <1>4, <1>6, <1>7, <1>8 DEF Next, InTick, Disturb

\* Every statement leaves rows in the table.
LEMMA TableInvariant ==
    ASSUME ControlOK, TableOK, AgeOK, SnapOK, [Next]_vars PROVE TableOK'
<1>1. ASSUME UNCHANGED table PROVE TableOK'
  BY <1>1 DEF TableOK
<1>2. ASSUME NEW j \in Jobs, NEW r \in Row, table' = [table EXCEPT ![j] = r]
      PROVE  TableOK'
  BY <1>2 DEF TableOK
<1>3. ASSUME NEW t \in Tickers, NEW j \in Jobs, SkipUnknownTask(t, j)
      PROVE  TableOK'
  BY <1>3, <1>2, StatementsKeepRows DEF SkipUnknownTask, TableOK
<1>4. ASSUME NEW t \in Tickers, NEW j \in Jobs, MarkJobRunning(t, j)
      PROVE  TableOK'
  BY <1>4, <1>2, StatementsKeepRows DEF MarkJobRunning, TableOK
<1>5. ASSUME NEW t \in Tickers, TaskSucceeds(t) PROVE TableOK'
  <2>1. doing[t] \in Jobs
    BY <1>5, DoingIsJob DEF TaskSucceeds
  <2>2. PICK d \in Delays[snap[t][doing[t]].sched] :
          table' = [table EXCEPT ![doing[t]] =
                      DoneRow(table[doing[t]], Remaining(d, age[t]))]
    BY <1>5 DEF TaskSucceeds
  <2>3. snap[t][doing[t]] \in Row
    BY <2>1 DEF SnapOK
  <2>4. snap[t][doing[t]].sched \in Schedules
    BY <2>3 DEF Row
  <2>5. d \in Nat /\ age[t] \in Nat
    BY <2>4, ConstantTypes DEF AgeOK
  <2>6. DoneRow(table[doing[t]], Remaining(d, age[t])) \in Row
    BY <2>1, <2>5, RemainingIsNat, StatementsKeepRows DEF TableOK
  <2>7. QED BY <2>1, <2>2, <2>6, <1>2
<1>6. ASSUME NEW t \in Tickers, TaskFails(t) PROVE TableOK'
  <2>1. doing[t] \in Jobs
    BY <1>6, DoingIsJob DEF TaskFails
  <2>2. table' = [table EXCEPT ![doing[t]] = FailedRow(table[doing[t]])]
    BY <1>6 DEF TaskFails
  <2>3. QED BY <2>1, <2>2, <1>2, StatementsKeepRows DEF TableOK
<1>7. ASSUME NEW t \in Tickers, RetrySoon(t) PROVE TableOK'
  <2>1. doing[t] \in Jobs
    BY <1>7, DoingIsJob DEF RetrySoon
  <2> DEFINE seen == snap[t][doing[t]]
  <2>2. table' = [table EXCEPT ![doing[t]] =
           UpsertRow(table[doing[t]], seen.sched, Remaining(2 * Poll, age[t]), seen.max)]
    BY <1>7 DEF RetrySoon
  <2>3. seen \in Row
    BY <2>1 DEF SnapOK
  <2>4. seen.sched \in Schedules /\ seen.max \in Limits \cup {DefaultLimit}
    BY <2>3 DEF Row
  <2>5. 2 * Poll \in Nat /\ age[t] \in Nat
    BY ConstantTypes DEF AgeOK
  <2>6. Remaining(2 * Poll, age[t]) \in Nat
    BY <2>5, RemainingIsNat
  <2>7. table[doing[t]] \in Row
    BY <2>1 DEF TableOK
  <2> HIDE DEF seen
  <2>8. QED BY <2>1, <2>2, <2>4, <2>6, <2>7, <1>2, StatementsKeepRows
<1>8. ASSUME NEW t \in Tickers,
             StartTick(t) \/ EndTick(t) \/ StorageFault(t) \/ Stop(t)
      PROVE  TableOK'
  BY <1>8, <1>1 DEF StartTick, EndTick, StorageFault, Stop
<1>9. ASSUME NEW j \in Jobs, UpsertSchedulerJob(j) PROVE TableOK'
  <2>1. PICK s \in Schedules, m \in Limits : \E d \in Delays[s] :
          table' = [table EXCEPT ![j] = UpsertRow(table[j], s, d, m)]
    BY <1>9 DEF UpsertSchedulerJob
  <2>2. PICK d \in Delays[s] :
          table' = [table EXCEPT ![j] = UpsertRow(table[j], s, d, m)]
    BY <2>1
  <2>3. d \in Nat
    BY ConstantTypes
  <2>4. QED BY <2>2, <2>3, <1>2, StatementsKeepRows DEF TableOK
<1>10. ASSUME NEW j \in Jobs, InstallDefault(j) PROVE TableOK'
  <2>1. PICK d \in Delays[DefaultSchedule] :
          table' = [table EXCEPT ![j] =
                      UpsertRow(table[j], DefaultSchedule, d, DefaultLimit)]
    BY <1>10 DEF InstallDefault
  <2>2. d \in Nat
    BY ConstantTypes
  <2>3. QED BY <2>1, <2>2, <1>2, ConstantTypes, StatementsKeepRows DEF TableOK
<1>11. CASE Elapse
  BY <1>11, ElapseKeepsRow DEF Elapse, TableOK
<1>12. CASE ListMissingDefaults \/ UNCHANGED vars
  BY <1>12, <1>1 DEF ListMissingDefaults, vars
<1>13. QED BY <1>3, <1>4, <1>5, <1>6, <1>7, <1>8, <1>9, <1>10, <1>11, <1>12
           DEF Next, InTick, Disturb
\* The clocks stay within their bounds.
LEMMA ClockInvariant ==
    ASSUME AgeOK, RestOK, [Next]_vars PROVE AgeOK' /\ RestOK'
<1>1. ASSUME UNCHANGED <<age, rest, missing>> PROVE AgeOK' /\ RestOK'
  BY <1>1 DEF AgeOK, RestOK
<1>2. ASSUME NEW t \in Tickers, NEW j \in Jobs,
             SkipUnknownTask(t, j) \/ MarkJobRunning(t, j)
      PROVE  AgeOK' /\ RestOK'
  BY <1>2, <1>1 DEF SkipUnknownTask, MarkJobRunning
<1>3. ASSUME NEW t \in Tickers,
             StartTick(t) \/ TaskSucceeds(t) \/ TaskFails(t) \/ RetrySoon(t)
      PROVE  AgeOK' /\ RestOK'
  BY <1>3, <1>1 DEF StartTick, TaskSucceeds, TaskFails, RetrySoon
<1>4. ASSUME NEW t \in Tickers, EndTick(t) \/ StorageFault(t) \/ Stop(t)
      PROVE  AgeOK' /\ RestOK'
  <2>1. age' = [age EXCEPT ![t] = 0] /\ UNCHANGED missing
    BY <1>4 DEF EndTick, StorageFault, Stop, Abandon
  <2>2. rest' \in {Poll, rest, 0}
    BY <1>4 DEF EndTick, StorageFault, Stop, Sleep
  <2>3. QED BY <2>1, <2>2, ConstantTypes DEF AgeOK, RestOK
<1>5. ASSUME NEW j \in Jobs, UpsertSchedulerJob(j) \/ InstallDefault(j)
      PROVE  AgeOK' /\ RestOK'
  <2>1. UNCHANGED <<age, rest>> /\ missing' \subseteq missing
    BY <1>5 DEF UpsertSchedulerJob, InstallDefault, tick
  <2>2. QED BY <2>1 DEF AgeOK, RestOK
<1>6. CASE ListMissingDefaults
  BY <1>6 DEF ListMissingDefaults, AgeOK, RestOK, tick
<1>7. CASE Elapse
  <2>1. age' = [t \in Tickers |->
                  IF pc[t] = "idle" \/ age[t] = AgeCap THEN age[t] ELSE age[t] + 1]
    BY <1>7 DEF Elapse
  <2>2. AgeOK'
    BY <2>1, ConstantTypes DEF AgeOK
  <2>3. rest' = (IF rest > 0 THEN rest - 1 ELSE 0) /\ UNCHANGED missing
    BY <1>7 DEF Elapse
  <2>4. QED BY <2>2, <2>3, ConstantTypes DEF RestOK
<1>8. CASE UNCHANGED vars
  BY <1>8, <1>1 DEF vars
<1>9. QED BY <1>2, <1>3, <1>4, <1>5, <1>6, <1>7, <1>8 DEF Next, InTick, Disturb

\* Type correctness of the scheduler: rows, control states, snapshots and
\* clocks stay in their ranges in every behaviour.
THEOREM TypeCorrect == Spec => []TypeOK
<1>1. Init => TypeOK
  <2> SUFFICES ASSUME Init PROVE TypeOK
    OBVIOUS
  <2>1. [Blank EXCEPT !.status = "idle"] \in Row
    BY BlankIsRow DEF Row
  <2>2. TableOK
    BY <2>1, BlankIsRow DEF Init, TableOK
  <2>3. ControlOK /\ SnapOK
    BY BlankIsRow DEF Init, ControlOK, SnapOK
  <2>4. AgeOK /\ RestOK
    BY ConstantTypes DEF Init, AgeOK, RestOK
  <2>5. QED BY <2>2, <2>3, <2>4, TypeParts
<1>2. TypeOK /\ [Next]_vars => TypeOK'
  <2> SUFFICES ASSUME TypeOK, [Next]_vars PROVE TypeOK'
    OBVIOUS
  <2>1. TableOK /\ ControlOK /\ AgeOK /\ SnapOK /\ RestOK
    BY TypeParts
  <2>2. TableOK' /\ ControlOK' /\ AgeOK' /\ SnapOK' /\ RestOK'
    BY <2>1, ControlInvariant, SnapInvariant, TableInvariant, ClockInvariant
  <2>3. QED BY <2>2 DEF TypeOK, TableOK, ControlOK, AgeOK, SnapOK, RestOK
<1>3. QED BY <1>1, <1>2, PTL DEF Spec

-----------------------------------------------------------------------------

\* Whatever the number of tickers: a job is left `running' with nobody
\* executing it only by a stop or by an unhandled storage error.
THEOREM StrandedOnlyByDisturbanceHolds == Spec => StrandedOnlyByDisturbance
<1> DEFINE Step == \A j \in Jobs :
             ~Stranded(j) /\ Stranded(j)' => \E t \in Tickers : Disturb(t)
<1>1. TypeOK /\ [Next]_vars => Step
  <2> SUFFICES ASSUME TypeOK, [Next]_vars, NEW j \in Jobs, Stranded(j)',
                      \A t \in Tickers : ~Disturb(t)
               PROVE  Stranded(j)
    OBVIOUS
  <2>0. TableOK /\ ControlOK
    BY TypeParts
  <2>1. ASSUME table'[j].status = "running" => table[j].status = "running",
               \A t \in Tickers : Executes(t, j) => Executes(t, j)'
        PROVE  Stranded(j)
    BY <2>1 DEF Stranded
  <2>2. ASSUME UNCHANGED <<pc, doing>>,
               table'[j].status = "running" => table[j].status = "running"
        PROVE  Stranded(j)
    BY <2>1, <2>2 DEF Executes
  <2>3. ASSUME NEW t \in Tickers, StartTick(t) \/ EndTick(t) PROVE Stranded(j)
    <3>1. UNCHANGED table /\ pc[t] # "task" /\ pc' = [pc EXCEPT ![t] = pc'[t]]
      BY <2>0, <2>3 DEF StartTick, EndTick, Abandon, ControlOK
    <3>2. doing' = [doing EXCEPT ![t] = doing'[t]]
      BY <2>0, <2>3 DEF StartTick, EndTick, Abandon, ControlOK
    <3>3. QED BY <2>0, <2>1, <3>1, <3>2 DEF Executes, ControlOK
  <2>4. ASSUME NEW t \in Tickers, NEW k \in Jobs,
               SkipUnknownTask(t, k) \/ MarkJobRunning(t, k)
        PROVE  Stranded(j)
    <3>1. pc[t] = "between"
      BY <2>4 DEF SkipUnknownTask, MarkJobRunning
    <3>2. \A u \in Tickers : Executes(u, j) => Executes(u, j)'
      BY <2>0, <2>4, <3>1 DEF SkipUnknownTask, MarkJobRunning, Leave, Executes,
                              ControlOK
    <3>3. CASE j # k
      BY <2>0, <2>1, <2>4, <3>2, <3>3
         DEF SkipUnknownTask, MarkJobRunning, TableOK
    <3>4. CASE j = k /\ SkipUnknownTask(t, k)
      <4>1. table'[j].status = "failed"
        BY <2>0, <3>4 DEF SkipUnknownTask, TableOK, FailedRow
      <4>2. QED BY <4>1 DEF Stranded
    <3>5. CASE j = k /\ MarkJobRunning(t, k)
      <4>1. Executes(t, j)'
        BY <2>0, <3>5 DEF MarkJobRunning, Executes, ControlOK
      <4>2. QED BY <4>1 DEF Stranded
    <3>6. QED BY <2>4, <3>3, <3>4, <3>5
  <2>5. ASSUME NEW t \in Tickers, TaskSucceeds(t) \/ TaskFails(t) \/ RetrySoon(t)
        PROVE  Stranded(j)
    <3> DEFINE k == doing[t]
    <3>1. k \in Jobs
      BY <2>0, <2>5, DoingIsJob DEF TaskSucceeds, TaskFails, RetrySoon
    <3>2. \A u \in Tickers \ {t} : Executes(u, j) => Executes(u, j)'
      BY <2>0, <2>5 DEF TaskSucceeds, TaskFails, RetrySoon, Leave, Executes,
                        ControlOK
    <3>3. CASE j # k
      <4>1. table'[j] = table[j]
        BY <2>0, <2>5, <3>1, <3>3
           DEF TaskSucceeds, TaskFails, RetrySoon, TableOK
      <4>2. ~Executes(t, j)
        BY <3>3 DEF Executes
      <4>3. QED BY <2>1, <3>2, <4>1, <4>2
    <3>4. CASE j = k /\ (TaskSucceeds(t) \/ TaskFails(t))
      <4>1. table'[j].status \in {"idle", "failed"}
        <5>1. CASE TaskSucceeds(t)
          <6>1. PICK w : table' = [table EXCEPT ![k] = DoneRow(table[k], w)]
            BY <5>1 DEF TaskSucceeds
          <6>2. DoneRow(table[k], w).status = "idle"
            BY DEF DoneRow
          <6>3. QED BY <2>0, <3>1, <3>4, <6>1, <6>2 DEF TableOK
        <5>2. CASE TaskFails(t)
          <6>1. table' = [table EXCEPT ![k] = FailedRow(table[k])]
            BY <5>2 DEF TaskFails
          <6>2. FailedRow(table[k]).status = "failed"
            BY DEF FailedRow
          <6>3. QED BY <2>0, <3>1, <3>4, <6>1, <6>2 DEF TableOK
        <5>3. QED BY <3>4, <5>1, <5>2
      <4>2. QED BY <4>1 DEF Stranded
    <3>5. CASE j = k /\ RetrySoon(t)
      <4>1. table'[j].status = "running" => table[j].status = "running"
        BY <2>0, <3>1, <3>5 DEF RetrySoon, TableOK, UpsertRow
      <4>2. ~Executes(t, j)
        BY <3>5 DEF RetrySoon, Executes
      <4>3. QED BY <2>1, <3>2, <4>1, <4>2
    <3>6. QED BY <2>5, <3>3, <3>4, <3>5
  <2>6. ASSUME NEW k \in Jobs, UpsertSchedulerJob(k) \/ InstallDefault(k)
        PROVE  Stranded(j)
    <3>1. UNCHANGED <<pc, doing>>
      BY <2>6 DEF UpsertSchedulerJob, InstallDefault, tick
    <3>2. table'[j].status = "running" => table[j].status = "running"
      BY <2>0, <2>6 DEF UpsertSchedulerJob, InstallDefault, TableOK, UpsertRow
    <3>3. QED BY <2>2, <3>1, <3>2
  <2>7. CASE ListMissingDefaults \/ UNCHANGED vars
    BY <2>2, <2>7 DEF ListMissingDefaults, vars, tick
  <2>8. CASE Elapse
    <3>1. table'[j] = [table[j] EXCEPT !.wait = IF @ > 0 THEN @ - 1 ELSE 0]
      BY <2>8 DEF Elapse
    <3>2. table'[j].status = table[j].status
      BY <2>0, <3>1 DEF TableOK, Row
    <3>3. QED BY <2>2, <2>8, <3>2 DEF Elapse
  <2>9. QED BY <2>3, <2>4, <2>5, <2>6, <2>7, <2>8 DEF Next, InTick
<1>2. QED BY <1>1, TypeCorrect, PTL DEF Spec, StrandedOnlyByDisturbance

-----------------------------------------------------------------------------
(* One ticker: the deployment with the embedded loop and no manual ticks.   *)

OneTicker == Tickers = {Loop}

\* The step lemma of SnapshotAgrees.
LEMMA AgreesStep ==
    ASSUME OneTicker, TypeOK, SnapshotAgrees, [Next]_vars, NEW j \in Jobs
    PROVE  Agrees(Loop, j)'
<1>0. TableOK /\ ControlOK /\ SnapOK /\ Loop \in Tickers /\ Agrees(Loop, j)
  BY TypeParts DEF SnapshotAgrees, OneTicker
<1>1. ASSUME UNCHANGED <<pc, doing, todo, snap>>,
             j \in todo[Loop] \/ Executes(Loop, j)
               \/ (pc[Loop] = "retry" /\ doing[Loop] = j)
             => /\ table'[j].status = table[j].status
                /\ table'[j].retries = table[j].retries
      PROVE  Agrees(Loop, j)'
  BY <1>0, <1>1 DEF Agrees, Executes
<1>2. ASSUME StartTick(Loop) PROVE Agrees(Loop, j)'
  <2>1. /\ todo'[Loop] = DueJobs /\ pc'[Loop] = "between" /\ table' = table
        /\ snap'[Loop][j] = IF j \in DueJobs THEN table[j] ELSE Blank
    BY <1>0, <1>2 DEF StartTick, ControlOK, SnapOK
  <2>2. j \in DueJobs => table[j].status \in {"idle", "failed"}
    BY <1>0 DEF DueJobs, TableOK, Row
  <2>3. QED BY <2>1, <2>2 DEF Agrees, Executes
<1>3. ASSUME NEW k \in Jobs, SkipUnknownTask(Loop, k) PROVE Agrees(Loop, j)'
  <2>1. pc'[Loop] = "between" /\ todo'[Loop] = todo[Loop] \ {k}
    BY <1>0, <1>3 DEF SkipUnknownTask, Leave, ControlOK
  <2>2. j # k => table'[j] = table[j] /\ snap'[Loop][j] = snap[Loop][j]
    BY <1>0, <1>3 DEF SkipUnknownTask, Leave, TableOK, SnapOK
  <2>3. QED BY <1>0, <2>1, <2>2 DEF Agrees, Executes
<1>4. ASSUME NEW k \in Jobs, MarkJobRunning(Loop, k) PROVE Agrees(Loop, j)'
  <2>1. /\ pc'[Loop] = "task" /\ doing'[Loop] = k
        /\ todo'[Loop] = todo[Loop] \ {k} /\ k \in todo[Loop] /\ snap' = snap
    BY <1>0, <1>4, ConstantTypes DEF MarkJobRunning, ControlOK
  <2>2. table' = [table EXCEPT ![k] = RunningRow(table[k])]
    BY <1>4 DEF MarkJobRunning
  <2>3. CASE j # k
    <3>1. table'[j] = table[j]
      BY <1>0, <2>2, <2>3 DEF TableOK
    <3>2. QED BY <1>0, <2>1, <2>3, <3>1 DEF Agrees, Executes
  <2>4. CASE j = k
    <3>1. table'[j] = RunningRow(table[j])
      BY <1>0, <2>2, <2>4 DEF TableOK
    <3>2. table'[j].status = "running" /\ table'[j].retries = table[j].retries
      BY <1>0, <3>1 DEF RunningRow, TableOK, Row
    <3>3. QED BY <1>0, <2>1, <2>4, <3>2 DEF Agrees, Executes
  <2>5. QED BY <2>3, <2>4
<1>5. ASSUME TaskSucceeds(Loop) \/ TaskFails(Loop) \/ RetrySoon(Loop)
      PROVE  Agrees(Loop, j)'
  <2> DEFINE k == doing[Loop]
  <2>1. k \in Jobs
    BY <1>0, <1>5, DoingIsJob DEF TaskSucceeds, TaskFails, RetrySoon
  <2>2. todo' = todo /\ pc'[Loop] \in {"between", "retry"}
    BY <1>0, <1>5 DEF TaskSucceeds, TaskFails, RetrySoon, Leave, ControlOK
  <2>3. CASE j # k
    <3>1. table'[j] = table[j] /\ snap'[Loop][j] = snap[Loop][j]
      BY <1>0, <1>5, <2>1, <2>3
         DEF TaskSucceeds, TaskFails, RetrySoon, Leave, TableOK, SnapOK
    <3>2. pc'[Loop] = "retry" => doing'[Loop] # j
      BY <1>0, <1>5, <2>3
         DEF TaskSucceeds, TaskFails, RetrySoon, Leave, ControlOK
    <3>3. QED BY <1>0, <2>2, <3>1, <3>2 DEF Agrees, Executes
  <2>4. CASE j = k
    <3>1. j \notin todo[Loop]
      BY <1>0, <1>5, <2>4
         DEF TaskSucceeds, TaskFails, RetrySoon, Agrees, Executes
    <3>2. CASE pc'[Loop] = "between"
      BY <2>2, <3>1, <3>2 DEF Agrees, Executes
    <3>3. CASE pc'[Loop] = "retry"
      <4>1. TaskFails(Loop) /\ UNCHANGED <<snap, doing>>
        BY <1>0, <1>5, <3>3
           DEF TaskSucceeds, TaskFails, RetrySoon, Leave, ControlOK
      <4>2. table'[j] = FailedRow(table[j])
        BY <1>0, <2>1, <2>4, <4>1 DEF TaskFails, TableOK
      <4>3. table[j].retries = snap[Loop][j].retries
        BY <1>0, <2>4, <4>1 DEF TaskFails, Agrees, Executes
      <4>4. table'[j].status = "failed"
        BY <4>2 DEF FailedRow
      <4>5. table'[j].retries = FailedRow(snap[Loop][j]).retries
        BY <4>2, <4>3 DEF FailedRow
      <4>6. (FailedRow(snap[Loop][j]).retries)' = FailedRow(snap[Loop][j]).retries
        BY <4>1 DEF FailedRow
      <4>7. QED BY <2>2, <3>1, <3>3, <4>4, <4>5, <4>6 DEF Agrees, Executes
    <3>4. QED BY <2>2, <3>2, <3>3
  <2>5. QED BY <2>3, <2>4
<1>6. ASSUME EndTick(Loop) \/ StorageFault(Loop) \/ Stop(Loop)
      PROVE  Agrees(Loop, j)'
  <2>1. todo'[Loop] = {} /\ pc'[Loop] = "idle"
    BY <1>0, <1>6 DEF EndTick, StorageFault, Stop, Abandon, ControlOK
  <2>2. QED BY <2>1 DEF Agrees, Executes
<1>7. ASSUME NEW k \in Jobs, UpsertSchedulerJob(k) \/ InstallDefault(k)
      PROVE  Agrees(Loop, j)'
  <2>1. UNCHANGED <<pc, doing, todo, snap>>
    BY <1>7 DEF UpsertSchedulerJob, InstallDefault, tick
  <2>2. table[j].status # "absent" => /\ table'[j].status = table[j].status
                                      /\ table'[j].retries = table[j].retries
    BY <1>0, <1>7 DEF UpsertSchedulerJob, InstallDefault, TableOK, UpsertRow
  <2>3. j \in todo[Loop] \/ Executes(Loop, j)
          \/ (pc[Loop] = "retry" /\ doing[Loop] = j)
        => table[j].status # "absent"
    BY <1>0 DEF Agrees
  <2>4. QED BY <1>1, <2>1, <2>2, <2>3
<1>8. CASE ListMissingDefaults \/ UNCHANGED vars
  BY <1>1, <1>8 DEF ListMissingDefaults, vars, tick
<1>9. CASE Elapse
  <2>1. table'[j] = [table[j] EXCEPT !.wait = IF @ > 0 THEN @ - 1 ELSE 0]
    BY <1>9 DEF Elapse
  <2>2. table'[j].status = table[j].status /\ table'[j].retries = table[j].retries
    BY <1>0, <2>1 DEF TableOK, Row
  <2>3. QED BY <1>1, <1>9, <2>2 DEF Elapse
<1>10. QED BY <1>2, <1>3, <1>4, <1>5, <1>6, <1>7, <1>8, <1>9
           DEF Next, InTick, Disturb, OneTicker

\* With one ticker, what run_due_jobs_once read about a job still holds while
\* it works on it, whatever the endpoints do in between.
THEOREM SnapshotAgreesHolds == ASSUME OneTicker PROVE Spec => []SnapshotAgrees
<1>1. Init => SnapshotAgrees
  BY DEF Init, SnapshotAgrees, Agrees, Executes
<1>2. TypeOK /\ SnapshotAgrees /\ [Next]_vars => SnapshotAgrees'
  BY AgreesStep DEF SnapshotAgrees, OneTicker
<1>3. QED BY <1>1, <1>2, TypeCorrect, PTL DEF Spec

-----------------------------------------------------------------------------

\* One row written: how the mapped variables change.
LEMMA RowWritten ==
    ASSUME TableOK, NEW k \in Jobs, NEW r, table' = [table EXCEPT ![k] = r]
    PROVE  /\ PhaseBar' = [PhaseBar EXCEPT ![k] = Phase(r)]
           /\ FailsBar' = [FailsBar EXCEPT ![k] = r.retries]
<1>1. \A j \in Jobs : table'[j] = IF j = k THEN r ELSE table[j]
  BY DEF TableOK
<1>2. \A j \in Jobs :
        (Phase(table[j]))' = IF j = k THEN Phase(r) ELSE Phase(table[j])
  BY <1>1 DEF Phase
<1>3. PhaseBar' = [j \in Jobs |-> IF j = k THEN Phase(r) ELSE PhaseBar[j]]
  BY <1>2 DEF PhaseBar
<1>4. FailsBar' = [j \in Jobs |-> IF j = k THEN r.retries ELSE FailsBar[j]]
  BY <1>1 DEF FailsBar
<1>5. /\ PhaseBar = [j \in Jobs |-> PhaseBar[j]]
      /\ FailsBar = [j \in Jobs |-> FailsBar[j]]
  BY DEF PhaseBar, FailsBar
<1>6. QED BY <1>3, <1>4, <1>5

\* The mapped variables at one job.
LEMMA BarsAt == ASSUME NEW k \in Jobs
                PROVE  /\ PhaseBar[k] = Phase(table[k])
                       /\ FailsBar[k] = table[k].retries
                       /\ DOMAIN FailsBar = Jobs
  BY DEF PhaseBar, FailsBar

\* A write that keeps phase and count of its row is a stuttering step.
LEMMA RowsKept ==
    ASSUME \A j \in Jobs : /\ (Phase(table[j]))' = Phase(table[j])
                           /\ table'[j].retries = table[j].retries
    PROVE  UNCHANGED Lifecycle!vars
  BY DEF Lifecycle!vars, PhaseBar, FailsBar

\* Every step of the scheduler is a step of the life cycle or stutters.
LEMMA LifecycleStep ==
    ASSUME OneTicker, TypeOK, SnapshotAgrees, [Next]_vars
    PROVE  [Lifecycle!Next]_(Lifecycle!vars)
<1>0. /\ TableOK /\ ControlOK /\ SnapOK /\ Loop \in Tickers
      /\ \A j \in Jobs : Agrees(Loop, j)
  BY TypeParts DEF SnapshotAgrees, OneTicker
<1> USE DEF Lifecycle!Next
<1>1. ASSUME UNCHANGED table PROVE UNCHANGED Lifecycle!vars
  BY <1>1, RowsKept DEF Phase
<1>2. ASSUME NEW k \in Jobs, SkipUnknownTask(Loop, k) PROVE Lifecycle!Reject(k)
  <2>1. table[k].status \in {"idle", "failed"}
    BY <1>0, <1>2 DEF SkipUnknownTask, Agrees
  <2>2. Phase(table[k]) = "ready" /\ Phase(FailedRow(table[k])) = "ready"
    BY <2>1 DEF Phase, FailedRow
  <2>3. table' = [table EXCEPT ![k] = FailedRow(table[k])]
    BY <1>2 DEF SkipUnknownTask
  <2>4. FailedRow(table[k]).retries
          = IF table[k].retries < RetryCap THEN table[k].retries + 1
            ELSE table[k].retries
    BY DEF FailedRow
  <2>5. /\ PhaseBar' = [PhaseBar EXCEPT ![k] = Phase(FailedRow(table[k]))]
        /\ FailsBar' = [FailsBar EXCEPT ![k] = FailedRow(table[k]).retries]
    BY <1>0, <2>3, RowWritten
  <2>6. PhaseBar' = PhaseBar
    BY <2>2, <2>5, BarsAt DEF PhaseBar
  <2>7. QED BY <2>2, <2>4, <2>5, <2>6, BarsAt
            DEF Lifecycle!Reject, Lifecycle!CountFailure
<1>3. ASSUME NEW k \in Jobs, MarkJobRunning(Loop, k) PROVE Lifecycle!Start(k)
  <2>1. table[k].status \in {"idle", "failed"}
    BY <1>0, <1>3 DEF MarkJobRunning, Agrees
  <2>2. table' = [table EXCEPT ![k] = RunningRow(table[k])]
    BY <1>3 DEF MarkJobRunning
  <2>3. /\ RunningRow(table[k]).status = "running"
        /\ RunningRow(table[k]).retries = table[k].retries
    BY <1>0 DEF RunningRow, TableOK, Row
  <2>4. Phase(table[k]) = "ready" /\ Phase(RunningRow(table[k])) = "running"
    BY <2>1, <2>3 DEF Phase
  <2>5. /\ PhaseBar' = [PhaseBar EXCEPT ![k] = Phase(RunningRow(table[k]))]
        /\ FailsBar' = [FailsBar EXCEPT ![k] = RunningRow(table[k]).retries]
    BY <1>0, <2>2, RowWritten
  <2>6. FailsBar' = FailsBar
    BY <2>3, <2>5, BarsAt DEF FailsBar
  <2>7. QED BY <2>4, <2>5, <2>6, BarsAt DEF Lifecycle!Start
<1>4. ASSUME TaskSucceeds(Loop) PROVE Lifecycle!Succeed(doing[Loop])
  <2> DEFINE k == doing[Loop]
  <2>1. k \in Jobs /\ table[k].status = "running"
    BY <1>0, <1>4, DoingIsJob DEF TaskSucceeds, Agrees, Executes
  <2>2. PICK w : table' = [table EXCEPT ![k] = DoneRow(table[k], w)]
    BY <1>4 DEF TaskSucceeds
  <2>3. Phase(DoneRow(table[k], w)) = "ready" /\ DoneRow(table[k], w).retries = 0
    BY DEF DoneRow, Phase
  <2>4. Phase(table[k]) = "running"
    BY <2>1 DEF Phase
  <2>5. /\ PhaseBar' = [PhaseBar EXCEPT ![k] = Phase(DoneRow(table[k], w))]
        /\ FailsBar' = [FailsBar EXCEPT ![k] = DoneRow(table[k], w).retries]
    BY <1>0, <2>1, <2>2, RowWritten
  <2>6. QED BY <2>1, <2>3, <2>4, <2>5, BarsAt DEF Lifecycle!Succeed
<1>5. ASSUME TaskFails(Loop) PROVE Lifecycle!Fail(doing[Loop])
  <2> DEFINE k == doing[Loop]
  <2>1. k \in Jobs /\ table[k].status = "running"
    BY <1>0, <1>5, DoingIsJob DEF TaskFails, Agrees, Executes
  <2>2. table' = [table EXCEPT ![k] = FailedRow(table[k])]
    BY <1>5 DEF TaskFails
  <2>3. /\ Phase(table[k]) = "running" /\ Phase(FailedRow(table[k])) = "ready"
        /\ FailedRow(table[k]).retries
             = IF table[k].retries < RetryCap THEN table[k].retries + 1
               ELSE table[k].retries
    BY <2>1 DEF Phase, FailedRow
  <2>4. /\ PhaseBar' = [PhaseBar EXCEPT ![k] = Phase(FailedRow(table[k]))]
        /\ FailsBar' = [FailsBar EXCEPT ![k] = FailedRow(table[k]).retries]
    BY <1>0, <2>1, <2>2, RowWritten
  <2>5. QED BY <2>1, <2>3, <2>4, BarsAt
            DEF Lifecycle!Fail, Lifecycle!CountFailure
<1>6. ASSUME RetrySoon(Loop) PROVE UNCHANGED Lifecycle!vars
  <2> DEFINE k == doing[Loop]
  <2>1. k \in Jobs /\ table[k].status = "failed"
    BY <1>0, <1>6, DoingIsJob DEF RetrySoon, Agrees
  <2>2. PICK s, w, m : table' = [table EXCEPT ![k] = UpsertRow(table[k], s, w, m)]
    BY <1>6 DEF RetrySoon
  <2>3. /\ UpsertRow(table[k], s, w, m).status = table[k].status
        /\ UpsertRow(table[k], s, w, m).retries = table[k].retries
    BY <2>1 DEF UpsertRow
  <2>4. \A j \in Jobs : /\ table'[j].status = table[j].status
                        /\ table'[j].retries = table[j].retries
    BY <1>0, <2>1, <2>2, <2>3 DEF TableOK
  <2>5. QED BY <2>4, RowsKept DEF Phase
<1>7. ASSUME NEW k \in Jobs, UpsertSchedulerJob(k) \/ InstallDefault(k)
      PROVE  Lifecycle!Register(k) \/ UNCHANGED Lifecycle!vars
  <2>1. PICK s, w, m : table' = [table EXCEPT ![k] = UpsertRow(table[k], s, w, m)]
    BY <1>7 DEF UpsertSchedulerJob, InstallDefault
  <2>2. CASE table[k].status = "absent"
    <3>1. UpsertRow(table[k], s, w, m).status = "idle"
          /\ UpsertRow(table[k], s, w, m).retries = 0
      BY <2>2 DEF UpsertRow
    <3>2. /\ Phase(table[k]) = "absent"
          /\ Phase(UpsertRow(table[k], s, w, m)) = "ready"
      BY <2>2, <3>1 DEF Phase
    <3>3. /\ PhaseBar' = [PhaseBar EXCEPT ![k] = Phase(UpsertRow(table[k], s, w, m))]
          /\ FailsBar' = [FailsBar EXCEPT ![k] = UpsertRow(table[k], s, w, m).retries]
      BY <1>0, <2>1, RowWritten
    <3>4. QED BY <3>1, <3>2, <3>3, BarsAt DEF Lifecycle!Register
  <2>3. CASE table[k].status # "absent"
    <3>1. /\ UpsertRow(table[k], s, w, m).status = table[k].status
          /\ UpsertRow(table[k], s, w, m).retries = table[k].retries
      BY <2>3 DEF UpsertRow
    <3>2. \A j \in Jobs : /\ table'[j].status = table[j].status
                          /\ table'[j].retries = table[j].retries
      BY <1>0, <2>1, <3>1 DEF TableOK
    <3>3. QED BY <3>2, RowsKept DEF Phase
  <2>4. QED BY <2>2, <2>3
<1>8. CASE Elapse
  <2>1. \A j \in Jobs : /\ table'[j].status = table[j].status
                        /\ table'[j].retries = table[j].retries
    <3> TAKE j \in Jobs
    <3>1. table'[j] = [table[j] EXCEPT !.wait = IF @ > 0 THEN @ - 1 ELSE 0]
      BY <1>8 DEF Elapse
    <3>2. QED BY <1>0, <3>1 DEF TableOK, Row
  <2>2. QED BY <2>1, RowsKept DEF Phase
<1>9. CASE ListMissingDefaults \/ UNCHANGED vars
  BY <1>1, <1>9 DEF ListMissingDefaults, vars
<1>10. ASSUME StartTick(Loop) \/ EndTick(Loop) \/ StorageFault(Loop) \/ Stop(Loop)
       PROVE  UNCHANGED Lifecycle!vars
  BY <1>1, <1>10 DEF StartTick, EndTick, StorageFault, Stop
<1>11. TaskSucceeds(Loop) \/ TaskFails(Loop) => doing[Loop] \in Jobs
  BY <1>0, DoingIsJob DEF TaskSucceeds, TaskFails
<1>12. ASSUME NEW t \in Tickers, StartTick(t) \/ InTick(t) \/ Disturb(t)
       PROVE  Lifecycle!Next \/ UNCHANGED Lifecycle!vars
  <2>1. t = Loop
    BY DEF OneTicker
  <2>2. CASE \E k \in Jobs : SkipUnknownTask(t, k) \/ MarkJobRunning(t, k)
    BY <1>2, <1>3, <2>1, <2>2
  <2>3. CASE TaskSucceeds(t) \/ TaskFails(t)
    BY <1>4, <1>5, <1>11, <2>1, <2>3
  <2>4. CASE RetrySoon(t)
    BY <1>6, <2>1, <2>4
  <2>5. CASE StartTick(t) \/ EndTick(t) \/ Disturb(t)
    BY <1>10, <2>1, <2>5 DEF Disturb
  <2>6. QED BY <1>12, <2>2, <2>3, <2>4, <2>5 DEF InTick
<1>13. ASSUME NEW k \in Jobs, UpsertSchedulerJob(k) \/ InstallDefault(k)
       PROVE  Lifecycle!Next \/ UNCHANGED Lifecycle!vars
  BY <1>7, <1>13
<1>14. Lifecycle!Next \/ UNCHANGED Lifecycle!vars
  BY <1>8, <1>9, <1>12, <1>13 DEF Next
<1>15. QED BY <1>14

\* With one ticker every behaviour of the scheduler is one of the job life
\* cycle: no job is started while it runs, each start has one outcome, and
\* `retries' counts the failures since the last success.
THEOREM ImplementsLifecycleHolds ==
    ASSUME OneTicker PROVE Spec => ImplementsLifecycle
<1>1. Init => Lifecycle!Init
  <2> SUFFICES ASSUME Init PROVE Lifecycle!Init
    OBVIOUS
  <2>1. \A j \in Jobs : /\ Phase(table[j]) \in {"absent", "ready"}
                        /\ table[j].retries = 0
    BY DEF Init, Phase, Blank
  <2>2. QED BY <2>1 DEF Lifecycle!Init, PhaseBar, FailsBar
<1>2. TypeOK /\ SnapshotAgrees /\ [Next]_vars => [Lifecycle!Next]_(Lifecycle!vars)
  BY LifecycleStep
<1>3. QED BY <1>1, <1>2, TypeCorrect, SnapshotAgreesHolds, PTL
          DEF Spec, ImplementsLifecycle, Lifecycle!Spec
=============================================================================

---------------------------- MODULE WorkerProofs ----------------------------
(***************************************************************************)
(* The worker's safety properties for any endpoints, threads and pool.     *)
(***************************************************************************)
EXTENDS Worker, FiniteSetTheorems, FunctionTheorems, TLAPS

(* max_instances=1: an endpoint has at most one check, queued or awaited.  *)
OneCheck ==
  \A c, d \in queued \cup fetching : c[1] = d[1] => c = d

(* The late check was the one in flight, and no other starts.              *)
LateInv ==
  \A e \in Endpoint :
    /\ late[e] <= 1
    /\ late[e] = 1 => /\ ~Monitored(e)
                      /\ \A c \in fetching : c[1] # e

(* Reconcile's own job is there even before the scheduler runs.            *)
JobsInv ==
  /\ RECONCILE_JOB_ID \in jobs
  /\ PeriodicJobsSurvive

(* Every interval since the heartbeat but the last has a missed reconcile; *)
(* the last one's may still run.                                           *)
Running == IF reconcile = "idle" THEN 0 ELSE 1

HeartInv ==
  /\ ~started /\ reconcile = "idle" => age = 0
  /\ started /\ missed < 2 => age <= missed + Running

IInv == TypeOK /\ OneCheck /\ LateInv /\ JobsInv /\ HeartInv

-----------------------------------------------------------------------------

(* A check is about an endpoint. *)
LEMMA CheckOfEndpoint ==
  ASSUME NEW c \in Check
  PROVE  c[1] \in Endpoint
BY DEF Check

(* Setting or raising one count leaves the others natural numbers. *)
LEMMA LateIsNat ==
  ASSUME NEW f \in [Endpoint -> Nat], NEW e \in Endpoint
  PROVE  /\ [f EXCEPT ![e] = 0] \in [Endpoint -> Nat]
         /\ [f EXCEPT ![e] = @ + 1] \in [Endpoint -> Nat]
<1>1. f[e] + 1 \in Nat
  OBVIOUS
<1>2. QED
  BY <1>1

(* Most steps leave the heartbeat alone. *)
LEMMA HeartKept ==
  ASSUME HeartInv, UNCHANGED <<started, reconcile, heart>>
  PROVE  HeartInv'
BY DEF HeartInv, Running, heart

LEMMA InitInv == Init => IInv
<1>1. SUFFICES ASSUME Init PROVE IInv
  OBVIOUS
<1>2. TypeOK
  <2>1. late \in [Endpoint -> Nat] /\ row \in [Endpoint -> RowState]
    BY <1>1 DEF Init
  <2>2. faults \in 0..MaxFaults
    BY <1>1, WorkerAssumption DEF Init
  <2>3. jobs \subseteq Endpoint \cup PERIODIC_JOB_IDS
    BY <1>1 DEF Init, PERIODIC_JOB_IDS
  <2>4. age \in 0..HeartbeatMaxAge /\ missed \in 0..2
    BY <1>1, WorkerAssumption DEF Init
  <2>5. QED
    BY <1>1, <2>1, <2>2, <2>3, <2>4 DEF Init, TypeOK
<1>3. OneCheck /\ LateInv
  BY <1>1 DEF Init, OneCheck, LateInv
<1>4. JobsInv
  BY <1>1 DEF Init, JobsInv, PeriodicJobsSurvive
<1>5. HeartInv
  BY <1>1 DEF Init, HeartInv
<1>6. QED
  BY <1>2, <1>3, <1>4, <1>5 DEF IInv

-----------------------------------------------------------------------------

(* A write to the registry: a row that is monitored again has no late      *)
(* checks.                                                                 *)
LEMMA WriteInv ==
  ASSUME IInv, NEW e \in Endpoint, NEW state \in RowState, Write(e, state)
  PROVE  IInv'
<1> USE DEF IInv
<1>1. UNCHANGED <<process, heart>> /\ faults' = faults
  BY DEF Write
<1>2. late' \in [Endpoint -> Nat]
  BY LateIsNat DEF Write, TypeOK
<1>3. TypeOK'
  BY <1>1, <1>2 DEF Write, TypeOK, process, heart
<1>4. OneCheck' /\ JobsInv'
  BY <1>1 DEF OneCheck, JobsInv, PeriodicJobsSurvive, process
<1>5. ASSUME NEW d \in Endpoint
      PROVE  /\ late'[d] <= 1
             /\ late'[d] = 1 => /\ row'[d] # "enabled"
                                /\ \A c \in fetching' : c[1] # d
  <2>1. fetching' = fetching
    BY <1>1 DEF process
  <2>2. CASE d # e
    <3>1. late'[d] = late[d] /\ row'[d] = row[d]
      BY <2>2 DEF Write, TypeOK
    <3>2. QED
      BY <2>1, <3>1 DEF LateInv, Monitored
  <2>3. CASE d = e /\ state = "enabled"
    <3>1. late'[d] = 0
      BY <2>3 DEF Write, TypeOK
    <3>2. QED
      BY <3>1
  <2>4. CASE d = e /\ state # "enabled"
    <3>1. late' = late /\ row'[d] = state
      BY <2>4 DEF Write, TypeOK
    <3>2. QED
      BY <2>1, <2>4, <3>1 DEF LateInv
  <2>5. QED
    BY <2>2, <2>3, <2>4
<1>6. LateInv'
  BY <1>5 DEF LateInv, Monitored
<1>7. HeartInv'
  BY <1>1, HeartKept DEF process
<1>8. QED
  BY <1>3, <1>4, <1>6, <1>7

LEMMA RegistryInv == IInv /\ Registry => IInv'
<1>1. SUFFICES ASSUME IInv, NEW e \in Endpoint,
                      create_endpoint(e) \/ update_endpoint(e) \/ delete_endpoint(e)
               PROVE  IInv'
  BY DEF Registry
<1>2. PICK state \in RowState : Write(e, state)
  BY <1>1 DEF create_endpoint, update_endpoint, delete_endpoint, RowState
<1>3. QED
  BY <1>1, <1>2, WriteInv

-----------------------------------------------------------------------------

(* Steps that touch neither rows nor checks: only types and jobs matter.   *)
LEMMA ChecksKept ==
  ASSUME IInv, UNCHANGED <<row, queued, fetching, late>>
  PROVE  OneCheck' /\ LateInv'
BY DEF IInv, OneCheck, LateInv, Monitored

LEMMA ReconcileInv == IInv /\ (Reconcile \/ ReconcileFails \/ StartScheduler) => IInv'
<1>1. SUFFICES ASSUME IInv, Reconcile \/ ReconcileFails \/ StartScheduler
               PROVE  IInv'
  OBVIOUS
<1> USE DEF IInv
<1>2. UNCHANGED <<row, queued, fetching, late>>
  BY <1>1 DEF Reconcile, StartReconcile, Connect, Select, EndReconcile,
     Schedule, Unschedule, ReconcileFails, StartScheduler
<1> USE WorkerAssumption DEF TypeOK, HeartInv, Running, heart
<1>3. CASE StartReconcile \/ Connect \/ EndReconcile
  <2>1. TypeOK'
    BY <1>1, <1>3 DEF StartReconcile, Connect, EndReconcile, IntervalPasses
  <2>2. JobsInv'
    BY <1>1, <1>3 DEF JobsInv, PeriodicJobsSurvive, StartReconcile, Connect,
       EndReconcile
  <2>3. HeartInv'
    BY <1>1, <1>3 DEF StartReconcile, Connect, EndReconcile,
       IntervalPasses
  <2>4. QED
    BY <1>1, <1>2, <2>1, <2>2, <2>3, ChecksKept
<1>4. CASE Select
  <2>1. TypeOK'
    BY <1>1, <1>4 DEF TypeOK, Select, RowsToCheck
  <2>2. JobsInv'
    BY <1>1, <1>4 DEF JobsInv, PeriodicJobsSurvive, Select
  <2>3. HeartInv'
    BY <1>1, <1>4 DEF Select
  <2>4. QED
    BY <1>1, <1>2, <2>1, <2>2, <2>3, ChecksKept
<1>5. ASSUME NEW e \in Endpoint, Schedule(e)
      PROVE  IInv'
  <2>1. TypeOK'
    BY <1>1, <1>5 DEF TypeOK, Schedule
  <2>2. JobsInv'
    BY <1>1, <1>5 DEF JobsInv, PeriodicJobsSurvive, Schedule
  <2>3. HeartInv'
    BY <1>1, <1>5 DEF Schedule
  <2>4. QED
    BY <1>1, <1>2, <2>1, <2>2, <2>3, ChecksKept
<1>6. ASSUME NEW j \in jobs, Unschedule(j)
      PROVE  IInv'
  <2>1. TypeOK'
    BY <1>1, <1>6 DEF TypeOK, Unschedule
  <2>2. JobsInv'
    BY <1>1, <1>6 DEF JobsInv, PeriodicJobsSurvive, Unschedule, Existing,
       PERIODIC_JOB_IDS
  <2>3. HeartInv'
    BY <1>1, <1>6 DEF Unschedule
  <2>4. QED
    BY <1>1, <1>2, <2>1, <2>2, <2>3, ChecksKept
<1>7. CASE ReconcileFails
  <2>1. TypeOK'
    BY <1>1, <1>7 DEF ReconcileFails, Fault, OneMissed
  <2>2. JobsInv'
    BY <1>1, <1>7 DEF JobsInv, PeriodicJobsSurvive, ReconcileFails
  <2>3. HeartInv'
    BY <1>1, <1>7 DEF ReconcileFails, OneMissed
  <2>4. QED
    BY <1>1, <1>2, <2>1, <2>2, <2>3, ChecksKept
<1>8. CASE StartScheduler
  <2>1. TypeOK'
    BY <1>1, <1>8 DEF TypeOK, StartScheduler, PERIODIC_JOB_IDS
  <2>2. JobsInv'
    BY <1>1, <1>8 DEF JobsInv, PeriodicJobsSurvive, StartScheduler,
       PERIODIC_JOB_IDS
  <2>3. HeartInv'
    BY <1>1, <1>8 DEF StartScheduler
  <2>4. QED
    BY <1>1, <1>2, <2>1, <2>2, <2>3, ChecksKept
<1>9. QED
  BY <1>1, <1>3, <1>4, <1>5, <1>6, <1>7, <1>8 DEF Reconcile

(* A skipped reconcile is counted with its interval. *)
LEMMA SkipInv == IInv /\ SkipReconcile => IInv'
<1>1. SUFFICES ASSUME IInv, SkipReconcile PROVE IInv'
  OBVIOUS
<1> USE DEF IInv
<1>2. UNCHANGED <<row, process, late, faults>>
  BY <1>1 DEF SkipReconcile
<1>3. age' \in 0..HeartbeatMaxAge /\ missed' \in 0..2
  BY <1>1, WorkerAssumption DEF SkipReconcile, IntervalPasses, OneMissed, TypeOK
<1>4. TypeOK' /\ JobsInv'
  BY <1>1, <1>2, <1>3 DEF TypeOK, JobsInv, PeriodicJobsSurvive, process
<1>5. OneCheck' /\ LateInv'
  BY <1>1, <1>2, ChecksKept DEF process
<1>6. HeartInv'
  BY <1>1, <1>2, WorkerAssumption
  DEF SkipReconcile, IntervalPasses, OneMissed, HeartInv, Running, TypeOK, process
<1>7. QED
  BY <1>4, <1>5, <1>6

-----------------------------------------------------------------------------

(* A job fires only when its endpoint has no check. *)
LEMMA FireInv ==
  ASSUME IInv, NEW e \in Endpoint, Fire(e)
  PROVE  IInv'
<1> USE DEF IInv
<1>1. PICK s \in Slot : /\ <<e, s>> \notin queued \cup fetching
                        /\ queued' = queued \cup {<<e, s>>}
  <2>1. (CHOOSE s \in FreeSlots(e) : TRUE) \in FreeSlots(e)
    BY DEF Fire, Begin
  <2>2. QED
    BY <2>1 DEF Fire, Begin, FreeSlots
<1>2. UNCHANGED <<row, jobs, started, reconcile, wanted, fetching, loop,
                  holding, heart, late, faults>>
  BY DEF Fire, Begin
<1>3. <<e, s>> \in Check
  BY DEF Check
<1>4. TypeOK'
  BY <1>1, <1>2, <1>3 DEF TypeOK, heart
<1>5. \A c \in queued \cup fetching : c[1] # e
  BY DEF Fire, ChecksOf
<1>6. OneCheck'
  BY <1>1, <1>2, <1>5 DEF OneCheck
<1>7. LateInv' /\ JobsInv'
  BY <1>2 DEF LateInv, Monitored, JobsInv, PeriodicJobsSurvive
<1>8. HeartInv'
  BY <1>2, HeartKept
<1>9. QED
  BY <1>4, <1>6, <1>7, <1>8

(* A row that is loaded and checked is a monitored one. *)
LEMMA LoadRowInv ==
  ASSUME IInv, NEW c \in Check, c \in queued, LoadRow(c)
  PROVE  IInv'
<1> USE DEF IInv
<1>1. c[1] \in Endpoint
  BY CheckOfEndpoint
<1>2. UNCHANGED <<row, jobs, started, reconcile, wanted, holding, heart, late,
                  faults>>
  BY DEF LoadRow
<1>3. queued' = queued \ {c} /\ fetching' \subseteq fetching \cup {c} /\ loop' = NULL
  BY DEF LoadRow
<1>4. TypeOK'
  BY <1>2, <1>3 DEF TypeOK, heart
<1>5. OneCheck'
  BY <1>3 DEF OneCheck
<1>6. fetching' = fetching \/ Monitored(c[1])
  BY DEF LoadRow, ToBeChecked, Monitored
<1>7. LateInv'
  BY <1>1, <1>2, <1>3, <1>6 DEF LateInv, Monitored
<1>8. JobsInv'
  BY <1>2 DEF JobsInv, PeriodicJobsSurvive
<1>9. HeartInv'
  BY <1>2, HeartKept
<1>10. QED
  BY <1>4, <1>5, <1>7, <1>8, <1>9

(* The late check recorded is the only one of its endpoint. *)
LEMMA RecordInv ==
  ASSUME IInv, NEW c \in Check, Record(c)
  PROVE  IInv'
<1> USE DEF IInv
<1>1. c[1] \in Endpoint
  BY CheckOfEndpoint
<1>2. UNCHANGED <<row, jobs, started, reconcile, wanted, queued, loop, holding,
                  heart, faults>>
  BY DEF Record
<1>3. c \in fetching /\ fetching' = fetching \ {c}
  BY DEF Record
<1>4. late' \in [Endpoint -> Nat]
  BY <1>1, LateIsNat DEF Record, TypeOK
<1>5. TypeOK'
  BY <1>2, <1>3, <1>4 DEF TypeOK, heart
<1>6. OneCheck' /\ JobsInv'
  BY <1>2, <1>3 DEF OneCheck, JobsInv, PeriodicJobsSurvive
<1>7. \A d \in fetching' : d[1] # c[1]
  BY <1>3 DEF OneCheck
<1>8. late[c[1]] = 0
  BY <1>1, <1>3 DEF LateInv, TypeOK
<1>9. ASSUME NEW e \in Endpoint
      PROVE  /\ late'[e] <= 1
             /\ late'[e] = 1 => /\ row[e] # "enabled"
                                /\ \A d \in fetching' : d[1] # e
  <2>1. CASE late' = late
    BY <1>3, <2>1 DEF LateInv, Monitored
  <2>2. CASE late' # late /\ e # c[1]
    <3>1. late'[e] = late[e]
      BY <1>1, <2>2 DEF Record, TypeOK
    <3>2. QED
      BY <1>3, <3>1 DEF LateInv, Monitored
  <2>3. CASE late' # late /\ e = c[1]
    <3>1. late'[e] = late[e] + 1 /\ ~Monitored(e)
      BY <1>1, <2>3 DEF Record, TypeOK
    <3>2. late'[e] = 1
      BY <1>8, <2>3, <3>1
    <3>3. QED
      BY <1>7, <2>3, <3>1, <3>2 DEF Monitored
  <2>4. QED
    BY <2>1, <2>2, <2>3
<1>10. LateInv'
  BY <1>2, <1>9 DEF LateInv, Monitored
<1>11. HeartInv'
  BY <1>2, HeartKept
<1>12. QED
  BY <1>5, <1>6, <1>10, <1>11

LEMMA CheckFailsInv ==
  ASSUME IInv, NEW c \in Check, CheckFails(c)
  PROVE  IInv'
<1> USE DEF IInv
<1>1. UNCHANGED <<row, jobs, started, reconcile, wanted, loop, holding, heart,
                  late>>
  BY DEF CheckFails
<1>2. queued' = queued \ {c} /\ fetching' = fetching \ {c} /\ loop = NULL
  BY DEF CheckFails, LoopRuns
<1>3. faults' \in 0..MaxFaults
  BY WorkerAssumption DEF CheckFails, Fault, TypeOK
<1>4. TypeOK'
  BY <1>1, <1>2, <1>3 DEF TypeOK, heart
<1>5. OneCheck' /\ LateInv'
  BY <1>1, <1>2 DEF OneCheck, LateInv, Monitored
<1>6. JobsInv' /\ HeartInv'
  BY <1>1, HeartKept DEF JobsInv, PeriodicJobsSurvive
<1>7. QED
  BY <1>4, <1>5, <1>6

(* The loop blocks in the pool, on behalf of a check or the dispatcher. *)
LEMMA BlockLoopInv ==
  ASSUME IInv, NEW who \in queued \cup {Dispatcher}, BlockLoop(who)
  PROVE  IInv'
<1> USE DEF IInv
<1>1. TypeOK'
  BY DEF BlockLoop, TypeOK, heart
<1>2. OneCheck' /\ LateInv'
  BY ChecksKept DEF BlockLoop
<1>3. JobsInv' /\ HeartInv'
  BY HeartKept DEF BlockLoop, JobsInv, PeriodicJobsSurvive
<1>4. QED
  BY <1>1, <1>2, <1>3

(* Only a queued check blocks the loop as a check. *)
LEMMA LoopIsQueued ==
  ASSUME IInv, NEW c \in Check, loop = c
  PROVE  c \in queued
BY WorkerAssumption DEF IInv, TypeOK

LEMMA ChecksInv == IInv /\ Checks => IInv'
<1>1. SUFFICES ASSUME IInv, Checks PROVE IInv'
  OBVIOUS
<1>2. ASSUME NEW e \in Endpoint, Fire(e) PROVE IInv'
  BY <1>1, <1>2, FireInv
<1>3. ASSUME NEW c \in Check,
             Load(c) \/ LoadBlocks(c) \/ Unblock(c) \/ Record(c) \/ CheckFails(c)
      PROVE  IInv'
  <2>1. CASE Load(c)
    BY <1>1, <2>1, LoadRowInv DEF Load
  <2>2. CASE LoadBlocks(c)
    BY <1>1, <2>2, BlockLoopInv DEF LoadBlocks
  <2>3. CASE Unblock(c)
    BY <1>1, <2>3, LoopIsQueued, LoadRowInv DEF Unblock
  <2>4. CASE Record(c)
    BY <1>1, <2>4, RecordInv
  <2>5. CASE CheckFails(c)
    BY <1>1, <2>5, CheckFailsInv
  <2>6. QED
    BY <1>3, <2>1, <2>2, <2>3, <2>4, <2>5
<1>4. QED
  BY <1>1, <1>2, <1>3 DEF Checks

-----------------------------------------------------------------------------

LEMMA ThreadInv ==
  ASSUME IInv, NEW t \in Thread, TakeConnection(t) \/ ReleaseConnection(t)
  PROVE  IInv'
<1> USE DEF IInv
<1>1. TypeOK'
  BY DEF TypeOK, heart, TakeConnection, ReleaseConnection
<1>2. OneCheck' /\ LateInv'
  BY ChecksKept DEF TakeConnection, ReleaseConnection
<1>3. JobsInv' /\ HeartInv'
  BY HeartKept
  DEF JobsInv, PeriodicJobsSurvive, TakeConnection, ReleaseConnection
<1>4. QED
  BY <1>1, <1>2, <1>3

LEMMA PoolTimeoutInv ==
  ASSUME IInv, PoolTimeout
  PROVE  IInv'
<1> USE DEF IInv
<1>1. faults' \in 0..MaxFaults
  BY WorkerAssumption DEF PoolTimeout, Fault, TypeOK
<1>2. TypeOK'
  BY <1>1 DEF TypeOK, heart, PoolTimeout
<1>3. OneCheck' /\ LateInv'
  BY DEF OneCheck, LateInv, Monitored, PoolTimeout
<1>4. JobsInv' /\ HeartInv'
  BY HeartKept DEF JobsInv, PeriodicJobsSurvive, PoolTimeout
<1>5. QED
  BY <1>2, <1>3, <1>4

LEMMA PoolInv == IInv /\ Pool => IInv'
<1>1. SUFFICES ASSUME IInv, Pool PROVE IInv'
  OBVIOUS
<1>2. CASE \E t \in Thread : TakeConnection(t) \/ ReleaseConnection(t)
  BY <1>1, <1>2, ThreadInv
<1>3. CASE DispatchBlocks
  BY <1>1, <1>3, BlockLoopInv DEF DispatchBlocks
<1>4. CASE DispatchUnblocks
  <2>1. TypeOK'
    BY <1>1, <1>4 DEF IInv, TypeOK, heart, DispatchUnblocks
  <2>2. OneCheck' /\ LateInv'
    BY <1>1, <1>4, ChecksKept DEF DispatchUnblocks
  <2>3. JobsInv' /\ HeartInv'
    BY <1>1, <1>4, HeartKept
    DEF IInv, JobsInv, PeriodicJobsSurvive, DispatchUnblocks
  <2>4. QED
    BY <2>1, <2>2, <2>3 DEF IInv
<1>5. CASE PoolTimeout
  BY <1>1, <1>5, PoolTimeoutInv
<1>6. QED
  BY <1>1, <1>2, <1>3, <1>4, <1>5 DEF Pool

LEMMA DeathInv == IInv /\ WorkerDies => IInv'
<1>1. SUFFICES ASSUME IInv, WorkerDies PROVE IInv'
  OBVIOUS
<1> USE DEF IInv
<1>2. faults' \in 0..MaxFaults
  BY <1>1, WorkerAssumption DEF WorkerDies, Fault, TypeOK
<1>3. TypeOK'
  <2>1. age' \in 0..HeartbeatMaxAge /\ missed' \in 0..2
    BY <1>1, WorkerAssumption DEF WorkerDies
  <2>2. QED
    BY <1>1, <1>2, <2>1 DEF TypeOK, WorkerDies, PERIODIC_JOB_IDS
<1>4. OneCheck' /\ LateInv'
  BY <1>1 DEF OneCheck, LateInv, Monitored, WorkerDies
<1>5. JobsInv' /\ HeartInv'
  BY <1>1 DEF JobsInv, PeriodicJobsSurvive, HeartInv, WorkerDies
<1>6. QED
  BY <1>3, <1>4, <1>5

-----------------------------------------------------------------------------

LEMMA Inductive == Spec => []IInv
<1>1. Init => IInv
  BY InitInv
<1>2. IInv /\ [Next]_vars => IInv'
  <2>1. SUFFICES ASSUME IInv, [Next]_vars PROVE IInv'
    OBVIOUS
  <2>2. CASE UNCHANGED vars
    <3>1. UNCHANGED <<row, queued, fetching, late>>
      BY <2>2 DEF vars, process
    <3>2. TypeOK'
      BY <2>1, <2>2 DEF IInv, TypeOK, vars, process, heart
    <3>3. JobsInv' /\ HeartInv'
      BY <2>1, <2>2, HeartKept
      DEF IInv, JobsInv, PeriodicJobsSurvive, vars, process
    <3>4. QED
      BY <2>1, <3>1, <3>2, <3>3, ChecksKept DEF IInv
  <2>3. CASE Next
    BY <2>1, <2>3, RegistryInv, ReconcileInv, SkipInv, ChecksInv, PoolInv, DeathInv
    DEF Next
  <2>4. QED
    BY <2>1, <2>2, <2>3
<1>3. QED
  BY <1>1, <1>2, PTL DEF Spec

(* At most one check of an endpoint holds a connection, so the checks hold *)
(* at most as many as there are endpoints.                                 *)
LEMMA ChecksBounded ==
  ASSUME TypeOK, OneCheck
  PROVE  /\ IsFiniteSet(fetching)
         /\ Cardinality(fetching) <= Cardinality(Endpoint)
<1> DEFINE f == [c \in fetching |-> c[1]]
<1>1. f \in [fetching -> Endpoint]
  BY CheckOfEndpoint DEF TypeOK
<1>2. \A c, d \in fetching : f[c] = f[d] => c = d
  BY DEF OneCheck
<1>3. f \in Injection(fetching, Endpoint)
  BY <1>1, <1>2 DEF Injection, IsInjective
<1>4. QED
  BY <1>3, FS_Injection, WorkerAssumption

-----------------------------------------------------------------------------

(* The state of the worker is well typed, main's start included (runner.py:173). *)
THEOREM WorkerTypeCorrect == Spec => []TypeOK
<1>1. IInv => TypeOK
  BY DEF IInv
<1>2. QED
  BY <1>1, Inductive, PTL

(* With fewer endpoints than connections the loop never waits for itself   *)
(* (runner.py:90).                                                         *)
THEOREM LoopNeverWaitsForItself == Spec => []LoopWaitsOnlyForThreads
<1>1. IInv => LoopWaitsOnlyForThreads
  <2>1. SUFFICES ASSUME IInv, Cardinality(Endpoint) < PoolSize,
                        holding = {}, reconcile # "selecting"
                 PROVE  Free
    BY DEF LoopWaitsOnlyForThreads
  <2>2. /\ IsFiniteSet(fetching)
        /\ Cardinality(fetching) <= Cardinality(Endpoint)
    BY <2>1, ChecksBounded DEF IInv
  <2>3. Cardinality(fetching) \in Nat /\ Cardinality(Endpoint) \in Nat
    BY <2>2, FS_CardinalityType, WorkerAssumption
  <2>4. Cardinality(holding) = 0
    BY <2>1, FS_EmptySet
  <2>5. InUse = Cardinality(fetching)
    BY <2>1, <2>3, <2>4 DEF InUse
  <2>6. PoolSize \in Nat
    BY WorkerAssumption
  <2>7. QED
    BY <2>1, <2>2, <2>3, <2>5, <2>6 DEF Free
<1>2. QED
  BY <1>1, Inductive, PTL

(* At most the check in flight is recorded for an endpoint taken away      *)
(* (runner.py:91).                                                         *)
THEOREM LateChecksBounded == Spec => []AtMostOneLateCheck
<1>1. IInv => AtMostOneLateCheck
  BY DEF IInv, LateInv, AtMostOneLateCheck
<1>2. QED
  BY <1>1, Inductive, PTL

(* reconcile leaves the periodic jobs alone (runner.py:121).               *)
THEOREM PeriodicJobsStay == Spec => []PeriodicJobsSurvive
<1>1. IInv => PeriodicJobsSurvive
  BY DEF IInv, JobsInv
<1>2. QED
  BY <1>1, Inductive, PTL

(* The heartbeat of a running worker is stale only after two reconciles    *)
(* were missed (runner.py:43).                                             *)
THEOREM HiccupsAreTolerated == Spec => []OneHiccupIsTolerated
<1>1. IInv => OneHiccupIsTolerated
  <2>1. SUFFICES ASSUME IInv, started, age = HeartbeatMaxAge, missed < 2
                 PROVE  FALSE
    BY DEF OneHiccupIsTolerated, HeartbeatMayBeStale, IInv, TypeOK
  <2>2. age <= missed + Running
    BY <2>1 DEF IInv, HeartInv
  <2>3. QED
    BY <2>1, <2>2, WorkerAssumption DEF IInv, TypeOK, Running
<1>2. QED
  BY <1>1, Inductive, PTL

=============================================================================

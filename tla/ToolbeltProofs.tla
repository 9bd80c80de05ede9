----------------------------- MODULE ToolbeltProofs ----------------------------
(***************************************************************************)
(* The two observers of the tools engine's jobs, for every value of the    *)
(* constants: the tools field (ToolsStatus) and the GitHub limit reporter  *)
(* (GitHubLimit).  FieldInv and LimitInv are inductive, and the safety     *)
(* properties of the two modules follow, BootGateSpec among them.          *)
(***************************************************************************)
EXTENDS ToolsStatus, GitHubLimit, FiniteSetTheorems, SequenceTheorems, TLAPS

USE JobAssumption DEF AllJobs, NoJob, Settled, States, Verdicts, StartStates,
    RecorderStates, WatcherStates, LockStates

\* A count of missing tools is a count.
LEMMA CountsAre ==
  /\ Unknown \in Counts
  /\ \A o \in SUBSET Tool : Cardinality(o) \in Counts
  <1>1. Cardinality(Tool) \in Nat
    BY FS_CardinalityType
  <1>2. ASSUME NEW o \in SUBSET Tool
        PROVE  Cardinality(o) \in Nat /\ Cardinality(o) <= Cardinality(Tool)
    BY FS_Subset, FS_CardinalityType
  <1>3. QED BY <1>1, <1>2 DEF Counts, Unknown

\* A queued job waits once, the running one settles once, and reports while the
\* lock is held.
JobOrder ==
    /\ \A i \in 1 .. Len(queue) : job[queue[i]] = "queued"
    /\ \A i, j \in 1 .. Len(queue) : queue[i] = queue[j] => i = j
    /\ lock = "free" /\ running # NoJob => job[running] = "running"
    /\ lock # "free" => running # NoJob /\ job[running] \in Settled

TypeInv == TypeOK /\ JobOrder

-----------------------------------------------------------------------------
(* Types.                                                                  *)

LEMMA FlagsInit == Init => FlagsOK
  BY DEF Init, FlagsOK

LEMMA FlagsStep == FlagsOK /\ [Next]_vars => FlagsOK'
  <1> SUFFICES ASSUME FlagsOK, [Next]_vars PROVE FlagsOK'
    OBVIOUS
  <1> USE DEF FlagsOK, fieldVars, bootVars, watcherVars, toolbeltVars
  <1>1. CASE ReconcileEnqueued
    BY <1>1 DEF ReconcileEnqueued, EnqueueJob
  <1>2. CASE ReconcileNotEnqueued
    BY <1>2 DEF ReconcileNotEnqueued
  <1>3. CASE RefreshCatalog
    BY <1>3 DEF RefreshCatalog, EnqueueJob
  <1>4. CASE StartWatcher
    BY <1>4 DEF StartWatcher
  <1>5. CASE WaitReturns
    BY <1>5 DEF WaitReturns, WaitEnds, AfterWait
  <1>6. CASE StoreVerdict
    BY <1>6 DEF StoreVerdict
  <1>7. CASE StoreBooted
    BY <1>7 DEF StoreBooted
  <1>8. CASE BootPokes
    BY <1>8 DEF BootPokes, RequestRecount, CanSend
  <1>9. CASE RunTail
    BY <1>9 DEF RunTail, EnqueueJob
  <1>10. CASE CountMissing
    BY <1>10 DEF CountMissing
  <1>11. CASE StoreCount
    BY <1>11 DEF StoreCount, PokeAfterCount
  <1>12. CASE TakePoke
    BY <1>12 DEF TakePoke
  <1>13. CASE WatcherExits
    BY <1>13 DEF WatcherExits
  <1>14. CASE StartJob
    BY <1>14 DEF StartJob
  <1>15. CASE ChangeTree
    BY <1>15 DEF ChangeTree
  <1>16. CASE CallbackPokes
    BY <1>16 DEF CallbackPokes, RequestRecount, CanSend
  <1>17. CASE CallbackFolds
    BY <1>17 DEF CallbackFolds, Folds, Folded
  <1>18. CASE Stop
    BY <1>18 DEF Stop
  <1>19. CASE CloseEngine
    BY <1>19 DEF CloseEngine
  <1>20. ASSUME NEW j \in Job, Submit(j) PROVE FlagsOK'
    BY <1>20 DEF Submit, EnqueueJob
  <1>21. ASSUME NEW end \in Settled, Settle(end) PROVE FlagsOK'
    BY <1>21 DEF Settle
  <1>22. CASE UNCHANGED vars
    BY <1>22 DEF vars
  <1>23. QED
    BY <1>1, <1>2, <1>3, <1>4, <1>5, <1>6, <1>7, <1>8, <1>9, <1>10, <1>11,
       <1>12, <1>13, <1>14, <1>15, <1>16, <1>17, <1>18, <1>19, <1>20, <1>21,
       <1>22
       DEF Next, StartTools, Recorder, Watcher, Worker

LEMMA TypeInit == Init => TypeInv
  BY FlagsInit, CountsAre DEF Init, TypeInv, TypeOK, JobOrder

\* A job is queued behind the others.
LEMMA EnqueueKeeps ==
  ASSUME TypeInv, NEW j \in AllJobs, EnqueueJob(j), UNCHANGED <<running, lock>>
  PROVE  /\ queue' \in Seq(AllJobs)
         /\ job' \in [AllJobs -> {"new", "queued", "running"} \cup Settled]
         /\ JobOrder'
  BY DEF TypeInv, TypeOK, JobOrder, EnqueueJob

LEMMA TypeStep == TypeInv /\ [Next]_vars => TypeInv'
  <1> SUFFICES ASSUME TypeInv, [Next]_vars PROVE TypeInv'
    OBVIOUS
  <1> USE CountsAre DEF TypeInv, TypeOK, JobOrder, fieldVars, bootVars, watcherVars,
          toolbeltVars
  <1>0. FlagsOK'
    BY FlagsStep
  <1>1. CASE ReconcileEnqueued
    BY <1>0, <1>1, EnqueueKeeps DEF ReconcileEnqueued
  <1>2. CASE ReconcileNotEnqueued
    BY <1>0, <1>2 DEF ReconcileNotEnqueued
  <1>3. CASE RefreshCatalog
    BY <1>0, <1>3, EnqueueKeeps DEF RefreshCatalog
  <1>4. CASE StartWatcher
    BY <1>0, <1>4 DEF StartWatcher
  <1>5. CASE WaitReturns
    BY <1>0, <1>5 DEF WaitReturns, WaitEnds, AfterWait
  <1>6. CASE StoreVerdict
    BY <1>0, <1>6 DEF StoreVerdict
  <1>7. CASE StoreBooted
    BY <1>0, <1>7 DEF StoreBooted
  <1>8. CASE BootPokes
    BY <1>0, <1>8 DEF BootPokes, RequestRecount, CanSend
  <1>9. CASE RunTail
    <2>1. CASE EnqueueJob(Update)
      BY <1>0, <1>9, <2>1, EnqueueKeeps DEF RunTail
    <2>2. CASE UNCHANGED <<queue, job>>
      BY <1>0, <1>9, <2>2 DEF RunTail
    <2>3. QED BY <1>9, <2>1, <2>2 DEF RunTail
  <1>10. CASE CountMissing
    BY <1>0, <1>10 DEF CountMissing
  <1>11. CASE StoreCount
    BY <1>0, <1>11 DEF StoreCount, PokeAfterCount
  <1>12. CASE TakePoke
    BY <1>0, <1>12 DEF TakePoke
  <1>13. CASE WatcherExits
    BY <1>0, <1>13 DEF WatcherExits
  <1>14. CASE StartJob
    BY <1>0, <1>14 DEF StartJob
  <1>15. CASE ChangeTree
    BY <1>0, <1>15 DEF ChangeTree
  <1>16. CASE CallbackPokes
    BY <1>0, <1>16 DEF CallbackPokes, RequestRecount, CanSend
  <1>17. CASE CallbackFolds
    BY <1>0, <1>17 DEF CallbackFolds, Folds, Folded
  <1>18. CASE Stop
    BY <1>0, <1>18 DEF Stop
  <1>19. CASE CloseEngine
    BY <1>0, <1>19 DEF CloseEngine
  <1>20. ASSUME NEW j \in Job, Submit(j) PROVE TypeInv'
    BY <1>0, <1>20, EnqueueKeeps DEF Submit
  <1>21. ASSUME NEW end \in Settled, Settle(end) PROVE TypeInv'
    BY <1>0, <1>21 DEF Settle
  <1>22. CASE UNCHANGED vars
    BY <1>0, <1>22 DEF vars
  <1>23. QED
    BY <1>1, <1>2, <1>3, <1>4, <1>5, <1>6, <1>7, <1>8, <1>9, <1>10, <1>11,
       <1>12, <1>13, <1>14, <1>15, <1>16, <1>17, <1>18, <1>19, <1>20, <1>21,
       <1>22
       DEF Next, StartTools, Recorder, Watcher, Worker

-----------------------------------------------------------------------------
(* The field.                                                              *)

\* recordBoot in order: the verdict is in the field before booted is set, and no
\* job is folded, or counted as the last, before that.
VerdictFirst ==
    /\ start = "reconcile" <=> recorder = "off"
    /\ booted <=> recorder \in {"armed", "tail", "done"}
    /\ recorder \in {"stored", "armed", "tail", "done"} <=> state # "syncing"
    /\ lastSettled # NoJob => booted /\ job[lastSettled] \in {"done", "failed"}

\* While the callback holds the lock: the last settled job is the one it reports,
\* or the field says it already and the report will leave the field alone.
ReportPending ==
    lock # "free" /\ lastSettled # NoJob =>
        IF lastSettled = running THEN running \in Counted
        ELSE /\ state = IF job[lastSettled] = "done" THEN "ok" ELSE "degraded"
             /\ running \in Counted => job[running] = "cancelled"

Fields == VerdictFirst /\ ReportPending /\ FieldFollowsJobs

LEMMA FieldsInit == Init => Fields
  BY DEF Init, Fields, VerdictFirst, ReportPending, FieldFollowsJobs

LEMMA FieldsStep == TypeInv /\ Fields /\ [Next]_vars => Fields'
  <1> SUFFICES ASSUME TypeInv, Fields, [Next]_vars PROVE Fields'
    OBVIOUS
  <1> USE DEF TypeInv, TypeOK, FlagsOK, JobOrder, Fields, VerdictFirst, ReportPending,
              FieldFollowsJobs, fieldVars, bootVars, watcherVars, toolbeltVars
  <1>1. CASE ReconcileEnqueued
    BY <1>1 DEF ReconcileEnqueued, EnqueueJob
  <1>2. CASE ReconcileNotEnqueued
    BY <1>2 DEF ReconcileNotEnqueued
  <1>3. CASE RefreshCatalog
    BY <1>3 DEF RefreshCatalog, EnqueueJob
  <1>4. CASE StartWatcher
    BY <1>4 DEF StartWatcher
  <1>5. CASE WaitReturns
    BY <1>5 DEF WaitReturns, WaitEnds, AfterWait
  <1>6. CASE StoreVerdict
    BY <1>6 DEF StoreVerdict
  <1>7. CASE StoreBooted
    BY <1>7 DEF StoreBooted
  <1>8. CASE BootPokes
    BY <1>8 DEF BootPokes, RequestRecount, CanSend
  <1>9. CASE RunTail
    BY <1>9 DEF RunTail, EnqueueJob
  <1>10. CASE CountMissing
    BY <1>10 DEF CountMissing
  <1>11. CASE StoreCount
    BY <1>11 DEF StoreCount, PokeAfterCount
  <1>12. CASE TakePoke
    BY <1>12 DEF TakePoke
  <1>13. CASE WatcherExits
    BY <1>13 DEF WatcherExits
  <1>14. CASE StartJob
    BY <1>14 DEF StartJob
  <1>15. CASE ChangeTree
    BY <1>15 DEF ChangeTree
  <1>16. CASE CallbackPokes
    BY <1>16 DEF CallbackPokes, RequestRecount, CanSend
  <1>17. CASE CallbackFolds
    BY <1>17 DEF CallbackFolds, Folds, Folded
  <1>18. CASE Stop
    BY <1>18 DEF Stop
  <1>19. CASE CloseEngine
    BY <1>19 DEF CloseEngine
  <1>20. ASSUME NEW j \in Job, Submit(j) PROVE Fields'
    BY <1>20 DEF Submit, EnqueueJob
  <1>21. ASSUME NEW end \in Settled, Settle(end) PROVE Fields'
    BY <1>21 DEF Settle
  <1>22. CASE UNCHANGED vars
    BY <1>22 DEF vars
  <1>23. QED
    BY <1>1, <1>2, <1>3, <1>4, <1>5, <1>6, <1>7, <1>8, <1>9, <1>10, <1>11,
       <1>12, <1>13, <1>14, <1>15, <1>16, <1>17, <1>18, <1>19, <1>20, <1>21,
       <1>22
       DEF Next, StartTools, Recorder, Watcher, Worker

-----------------------------------------------------------------------------
(* The invariant, and what follows.                                        *)

FieldInv == TypeInv /\ Fields

\* FieldInv, the strengthening that the properties need, holds throughout.
THEOREM FieldInductive == Spec => []FieldInv
  <1>1. Init => FieldInv
    BY TypeInit, FieldsInit DEF FieldInv
  <1>2. FieldInv /\ [Next]_vars => FieldInv'
    BY TypeStep, FieldsStep DEF FieldInv
  <1>3. QED BY <1>1, <1>2, PTL DEF Spec

\* Every variable of the tools field keeps its type (toolsStatus).
THEOREM TypeCorrect == Spec => []TypeOK
  <1>1. FieldInv => TypeOK
    BY DEF FieldInv, TypeInv
  <1>2. QED BY <1>1, FieldInductive, PTL

\* Once armed, the field is what the last install or reconcile came to (toolsStatus,
\* observeJob).
THEOREM FieldIsTheLastJobs == Spec => []FieldFollowsJobs
  <1>1. FieldInv => FieldFollowsJobs
    BY DEF FieldInv, Fields
  <1>2. QED BY <1>1, FieldInductive, PTL

\* The field is a boot gate: syncing gives way to the boot verdict, once, whatever
\* jobs settle around it (toolsStatus, recordBoot, observeJob).
THEOREM GateImplemented == Spec => BootGateSpec
  <1> USE DEF Gate!vars, BootVerdict
  <1>1. Init => Gate!Init
    BY DEF Init, Gate!Init
  <1>2. FieldInv /\ [Next]_vars => [Gate!Next]_(Gate!vars)
    <2> SUFFICES ASSUME FieldInv, [Next]_vars PROVE [Gate!Next]_(Gate!vars)
      OBVIOUS
    <2> USE DEF FieldInv, fieldVars
    <2>1. CASE ReconcileNotEnqueued
      BY <2>1 DEF ReconcileNotEnqueued, Gate!Next, Gate!Decide, Fields, VerdictFirst
    <2>2. CASE WaitReturns
      BY <2>2 DEF WaitReturns, AfterWait, Gate!Next, Gate!Decide
    <2>3. CASE StoreVerdict
      BY <2>3 DEF StoreVerdict, Gate!Next, Gate!Lift, Fields, VerdictFirst, TypeInv,
           TypeOK
    <2>4. CASE CallbackFolds
      <3>1. UNCHANGED BootVerdict
        BY <2>4 DEF CallbackFolds, bootVars
      <3>2. CASE ~Folds(running)
        BY <2>4, <3>1, <3>2 DEF CallbackFolds
      <3>3. CASE Folds(running)
        <4>1. state # "syncing"
          BY <3>3 DEF Folds, Fields, VerdictFirst
        <4>2. state' \in Verdicts
          BY <2>4, <3>3, <4>1 DEF CallbackFolds, Folded, TypeInv, TypeOK, JobOrder
        <4>3. QED BY <3>1, <4>1, <4>2 DEF Gate!Next, Gate!Follow
      <3>4. QED BY <3>2, <3>3
    <2>5. ASSUME UNCHANGED <<state, BootVerdict>> PROVE UNCHANGED Gate!vars
      BY <2>5
    <2>6. CASE \/ ReconcileEnqueued \/ RefreshCatalog \/ StartWatcher
               \/ StoreBooted \/ BootPokes \/ RunTail
      BY <2>5, <2>6 DEF ReconcileEnqueued, RefreshCatalog, StartWatcher, StoreBooted,
           BootPokes, RunTail, Fields, VerdictFirst
    <2>7. CASE \/ Watcher \/ ChangeTree \/ Stop \/ CloseEngine
               \/ StartJob \/ CallbackPokes
               \/ \E end \in Settled : Settle(end)
               \/ \E j \in Job : Submit(j)
      BY <2>5, <2>7 DEF Watcher, CountMissing, StoreCount, TakePoke, WatcherExits,
           ChangeTree, Stop, CloseEngine, StartJob, CallbackPokes, Settle, Submit,
           bootVars
    <2>8. CASE UNCHANGED vars
      BY <2>5, <2>8 DEF vars, bootVars
    <2>9. QED
      BY <2>1, <2>2, <2>3, <2>4, <2>6, <2>7, <2>8 DEF Next, StartTools, Recorder, Worker
  <1>3. QED BY <1>1, <1>2, FieldInductive, PTL DEF Spec, BootGateSpec, Gate!Spec

HIDE JobAssumption DEF AllJobs, NoJob, Settled, States, Verdicts, StartStates,
    RecorderStates, WatcherStates, LockStates

-----------------------------------------------------------------------------
(* The invariant.                                                          *)

\* When the engine's hold on a refusal ends.
HoldOf(e) == Later(e.reset, e.at + minRefusalHold)

\* GitHub is not asked again before the hold on its last refusal ended.
Holds ==
    /\ holdEnd = IF Latest = 0 THEN 0 ELSE HoldOf(sent[Latest])
    /\ \A r \in 1 .. Latest :
          /\ sent[r].at <= now
          /\ sent[r].reset = Empty \/ sent[r].at < sent[r].reset
    /\ \A r, s \in 1 .. Latest : r < s => HoldOf(sent[r]) <= sent[s].at

\* What a job fails with, and what the channel holds, is the last refusal, within
\* its hold.
Current ==
    /\ fetch = "refused" => Latest # 0 /\ now < holdEnd
    /\ refusals # Empty => refusals = Latest /\ now < holdEnd

\* A refusal is told within its hold, and the refusals in the order they were sent.
Told ==
    /\ \A i \in 1 .. Len(log) :
          sent[log[i].of].at <= log[i].at /\ log[i].at < HoldOf(sent[log[i].of])
    /\ \A i, j \in 1 .. Len(log) : i < j => log[i].of < log[j].of

\* The reporter's window is that of the last warning.
Window ==
    IF log = <<>> THEN last = Empty
    ELSE /\ last = log[Len(log)].of
         /\ until = Later(sent[last].reset, log[Len(log)].at + minRefusalHold)

\* A refusal that failed a job is waiting to be told, or a warning stands for it.
Failures == \A r \in failed : r = refusals \/ Standing(r)

LimitInv == LimitTypeOK /\ Holds /\ Current /\ Told /\ Window /\ Failures

LEMMA LimitElements ==
  ASSUME LimitTypeOK
  PROVE  /\ now \in Nat /\ minRefusalHold \in Nat \ {0}
         /\ Latest \in Nat /\ Len(log) \in Nat
         /\ \A r \in 1 .. Latest :
               /\ sent[r] \in [at : 0 .. MaxTime, reset : Nat]
               /\ sent[r].at \in Nat /\ sent[r].reset \in Nat /\ HoldOf(sent[r]) \in Nat
               /\ sent[r].reset <= HoldOf(sent[r])
               /\ sent[r].at + minRefusalHold <= HoldOf(sent[r])
         /\ \A i \in 1 .. Len(log) :
               /\ log[i] \in [of : 1 .. Latest, at : 0 .. MaxTime]
               /\ log[i].of \in 1 .. Latest /\ log[i].at \in Nat
  <1>1. /\ now \in Nat /\ minRefusalHold \in Nat \ {0}
        /\ Latest \in Nat /\ Len(log) \in Nat
    BY LimitAssumption, LenProperties DEF LimitTypeOK, Latest
  <1>2. \A r \in 1 .. Latest : sent[r] \in [at : 0 .. MaxTime, reset : Nat]
    BY ElementOfSeq DEF LimitTypeOK, Latest
  <1>3. \A i \in 1 .. Len(log) : log[i] \in [of : 1 .. Latest, at : 0 .. MaxTime]
    BY ElementOfSeq DEF LimitTypeOK
  <1>4. ASSUME NEW r \in 1 .. Latest
        PROVE  /\ sent[r].at \in Nat /\ sent[r].reset \in Nat /\ HoldOf(sent[r]) \in Nat
               /\ sent[r].reset <= HoldOf(sent[r])
               /\ sent[r].at + minRefusalHold <= HoldOf(sent[r])
    <2>1. sent[r].at \in Nat /\ sent[r].reset \in Nat
      BY <1>2
    <2>2. QED BY <1>1, <2>1 DEF HoldOf, Later
  <1>5. ASSUME NEW i \in 1 .. Len(log)
        PROVE  log[i].of \in 1 .. Latest /\ log[i].at \in Nat
    <2>1. log[i].at \in 0 .. MaxTime /\ log[i].of \in 1 .. Latest
      BY <1>3
    <2>2. QED BY <2>1
  <1>6. QED BY <1>1, <1>2, <1>3, <1>4, <1>5

LEMMA LimitInitInv == LimitInit => LimitInv
  <1> SUFFICES ASSUME LimitInit PROVE LimitInv
    OBVIOUS
  <1>1. /\ sent = <<>> /\ log = <<>> /\ Latest = 0 /\ Len(log) = 0
        /\ sent \in Seq([at : 0 .. MaxTime, reset : Nat])
        /\ log \in Seq([of : 1 .. Latest, at : 0 .. MaxTime])
    BY EmptySeq DEF LimitInit, Latest
  <1>2. LimitTypeOK
    <2>1. /\ now \in 0 .. MaxTime /\ holdEnd \in Nat /\ until \in Nat
          /\ refusals \in 0 .. 0 /\ last \in 0 .. 0
      BY LimitAssumption DEF LimitInit, Empty
    <2>2. failed = {} /\ fetch = "idle" /\ stopped = FALSE
      BY DEF LimitInit
    <2>3. QED BY <1>1, <2>1, <2>2 DEF LimitTypeOK
  <1>3. QED
    BY <1>1, <1>2 DEF LimitInit, LimitInv, Holds, Current, Told, Window, Failures, Empty

-----------------------------------------------------------------------------
(* The engine.                                                             *)

\* Nothing is sent and nothing told: the clock does not pass the end of a hold that
\* a job or the channel waits in.
LEMMA QuietInv ==
  ASSUME LimitInv, Tick \/ StartFetch \/ FinishFetch \/ JobHeld \/ StopReporter
                     \/ UNCHANGED limitVars
  PROVE  LimitInv'
  <1>1. /\ UNCHANGED <<sent, holdEnd, refusals, last, until, log, failed>>
        /\ fetch' \in {"idle", "running", "refused"}
        /\ now' = now \/ (now' = now + 1 /\ now < MaxTime)
    BY DEF Tick, StartFetch, FinishFetch, JobHeld, StopReporter, limitVars,
           engineVars, reporterVars, LimitInv, LimitTypeOK
  <1>2. stopped' \in BOOLEAN
    BY DEF Tick, StartFetch, FinishFetch, JobHeld, StopReporter, limitVars,
           engineVars, reporterVars, LimitInv, LimitTypeOK
  <1>3. Latest' = Latest /\ \A r : Standing(r)' <=> Standing(r)
    BY <1>1 DEF Latest, Standing
  <1>4. now' \in 0 .. MaxTime
    BY <1>1, LimitAssumption DEF LimitInv, LimitTypeOK
  <1>5. LimitTypeOK'
    BY <1>1, <1>2, <1>3, <1>4 DEF LimitInv, LimitTypeOK
  <1>6. Holds'
    BY <1>1, <1>3, LimitElements DEF LimitInv, Holds
  <1>7. Current'
    <2>1. CASE Tick
      BY <1>1, <2>1 DEF Tick, engineVars, Current
    <2>2. CASE JobHeld
      BY <1>3, <2>2, LimitElements DEF JobHeld, Current, LimitInv, Holds, reporterVars
    <2>3. CASE StartFetch \/ FinishFetch
      BY <1>3, <2>3 DEF StartFetch, FinishFetch, Current, LimitInv, reporterVars
    <2>4. CASE StopReporter \/ UNCHANGED limitVars
      BY <1>3, <2>4 DEF StopReporter, limitVars, engineVars, reporterVars, Current,
           LimitInv
    <2>5. QED BY <2>1, <2>2, <2>3, <2>4
  <1>8. Told' /\ Window' /\ Failures'
    BY <1>1, <1>3 DEF LimitInv, Told, Window, Failures
  <1>9. QED BY <1>5, <1>6, <1>7, <1>8 DEF LimitInv

\* GitHub refuses once more.
LEMMA RefusedInv ==
  ASSUME LimitInv, AddRefused \/ JobRefused
  PROVE  LimitInv'
  <1>1. /\ now >= holdEnd
        /\ UNCHANGED <<now, refusals, last, until, stopped, log, failed>>
        /\ fetch' = fetch \/ (fetch = "running" /\ fetch' = "refused")
        /\ GitHubRefuses
    BY DEF AddRefused, JobRefused, GitHubRefuses, reporterVars
  <1>2. PICK reset \in {Empty} \cup {now + d : d \in Delays} :
           /\ sent' = Append(sent, [at |-> now, reset |-> reset])
           /\ holdEnd' = Later(reset, now + minRefusalHold)
    BY <1>1 DEF GitHubRefuses
  <1> DEFINE refusal == [at |-> now, reset |-> reset]
  <1>3. /\ now \in Nat /\ now \in 0 .. MaxTime /\ minRefusalHold \in Nat \ {0}
        /\ Latest \in Nat /\ Len(log) \in Nat /\ holdEnd \in Nat
        /\ sent \in Seq([at : 0 .. MaxTime, reset : Nat])
    BY LimitElements DEF LimitInv, LimitTypeOK
  <1>4. reset \in Nat /\ (reset = Empty \/ now < reset)
    BY <1>2, <1>3, LimitAssumption DEF Empty
  <1>5. /\ refusal \in [at : 0 .. MaxTime, reset : Nat]
        /\ refusal.at = now /\ refusal.reset = reset
    BY <1>3, <1>4
  <1> HIDE DEF refusal
  <1>6. /\ sent' \in Seq([at : 0 .. MaxTime, reset : Nat])
        /\ Latest' = Latest + 1
        /\ \A r \in 1 .. Latest : sent'[r] = sent[r]
        /\ sent'[Latest + 1] = refusal
    <2>1. sent' = Append(sent, refusal)
      BY <1>2 DEF refusal
    <2>2. QED BY <1>3, <1>5, <2>1, AppendProperties DEF Latest
  <1>7. /\ \A r \in 1 .. Latest : HoldOf(sent'[r]) = HoldOf(sent[r])
        /\ HoldOf(sent'[Latest + 1]) = Later(reset, now + minRefusalHold)
    BY <1>5, <1>6 DEF HoldOf
  <1>8. /\ refusals = Empty /\ fetch # "refused" /\ holdEnd' > now /\ holdEnd' \in Nat
        /\ holdEnd' = HoldOf(sent'[Latest + 1])
    <2>1. holdEnd' > now /\ holdEnd' \in Nat
      BY <1>2, <1>3, <1>4 DEF Later
    <2>2. ~ (now < holdEnd)
      BY <1>1, <1>3
    <2>3. QED BY <1>2, <1>7, <2>1, <2>2 DEF LimitInv, Current
  <1>9. LimitTypeOK'
    <2>1. log' \in Seq([of : 1 .. Latest', at : 0 .. MaxTime])
      <3>1. [of : 1 .. Latest, at : 0 .. MaxTime]
               \subseteq [of : 1 .. Latest', at : 0 .. MaxTime]
        BY <1>3, <1>6
      <3>2. log \in Seq([of : 1 .. Latest, at : 0 .. MaxTime])
        BY DEF LimitInv, LimitTypeOK
      <3>3. QED BY <1>1, <3>1, <3>2, SeqMonotonic
    <2>2. /\ refusals' \in 0 .. Latest' /\ last' \in 0 .. Latest'
          /\ failed' \subseteq 1 .. Latest'
      BY <1>1, <1>3, <1>6 DEF LimitInv, LimitTypeOK
    <2>3. fetch' \in {"idle", "running", "refused"}
      BY <1>1 DEF LimitInv, LimitTypeOK
    <2>4. QED BY <1>1, <1>6, <1>8, <2>1, <2>2, <2>3 DEF LimitInv, LimitTypeOK
  <1>10. Holds'
    <2>1. holdEnd' = IF Latest' = 0 THEN 0 ELSE HoldOf(sent'[Latest'])
      BY <1>3, <1>6, <1>7, <1>8
    <2>2. ASSUME NEW r \in 1 .. Latest + 1
          PROVE  /\ sent'[r].at <= now
                 /\ sent'[r].reset = Empty \/ sent'[r].at < sent'[r].reset
      <3>1. CASE r \in 1 .. Latest
        BY <1>6, <3>1 DEF LimitInv, Holds
      <3>2. CASE r = Latest + 1
        BY <1>3, <1>4, <1>5, <1>6, <3>2
      <3>3. QED BY <1>3, <3>1, <3>2
    <2>3. ASSUME NEW r \in 1 .. Latest + 1, NEW s \in 1 .. Latest + 1, r < s
          PROVE  HoldOf(sent'[r]) <= sent'[s].at
      <3>1. r \in 1 .. Latest /\ HoldOf(sent'[r]) = HoldOf(sent[r])
        BY <1>3, <1>7, <2>3
      <3>2. CASE s \in 1 .. Latest
        BY <1>6, <2>3, <3>1, <3>2 DEF LimitInv, Holds
      <3>3. CASE s = Latest + 1
        <4>1. HoldOf(sent[r]) <= holdEnd
          <5>1. CASE r = Latest
            BY <1>3, <3>1, <5>1 DEF LimitInv, Holds
          <5>2. CASE r < Latest
            <6>1. /\ HoldOf(sent[r]) <= sent[Latest].at
                  /\ holdEnd = HoldOf(sent[Latest]) /\ Latest \in 1 .. Latest
              <7>1. Latest \in 1 .. Latest /\ Latest # 0
                BY <1>3, <3>1
              <7>2. \A q, s1 \in 1 .. Latest : q < s1 => HoldOf(sent[q]) <= sent[s1].at
                BY DEF LimitInv, Holds
              <7>3. holdEnd = HoldOf(sent[Latest])
                BY <7>1 DEF LimitInv, Holds
              <7>4. QED BY <3>1, <5>2, <7>1, <7>2, <7>3
            <6>2. sent[Latest].at <= HoldOf(sent[Latest])
              BY <1>3, <6>1, LimitElements DEF LimitInv
            <6>3. /\ HoldOf(sent[r]) \in Nat /\ HoldOf(sent[Latest]) \in Nat
                  /\ sent[Latest].at \in Nat
              BY <3>1, <6>1, LimitElements DEF LimitInv
            <6>4. QED BY <6>1, <6>2, <6>3
          <5>3. QED BY <1>3, <3>1, <5>1, <5>2
        <4>2. HoldOf(sent[r]) \in Nat
          BY <3>1, LimitElements DEF LimitInv
        <4>3. sent'[s].at = now /\ holdEnd <= now
          BY <1>1, <1>3, <1>5, <1>6, <3>3
        <4>4. QED BY <1>3, <3>1, <4>1, <4>2, <4>3
      <3>4. QED BY <1>3, <3>2, <3>3
    <2>4. QED BY <1>1, <1>6, <2>1, <2>2, <2>3 DEF Holds
  <1>11. Current'
    BY <1>1, <1>3, <1>6, <1>8 DEF Current
  <1>12. \A i \in 1 .. Len(log) : log[i].of \in 1 .. Latest
    BY LimitElements DEF LimitInv
  <1>13. Told' /\ Window'
    <2>1. Told'
      <3>1. \A i \in 1 .. Len(log) : sent'[log[i].of] = sent[log[i].of]
        BY <1>6, <1>12
      <3>2. QED BY <1>1, <3>1 DEF LimitInv, Told
    <2>2. Window'
      <3>1. CASE log = <<>>
        BY <1>1, <3>1 DEF LimitInv, Window
      <3>2. CASE log # <<>>
        <4>1. Len(log) \in 1 .. Len(log)
          BY <3>2, EmptySeq, <1>3 DEF LimitInv, LimitTypeOK
        <4>2. last = log[Len(log)].of /\ last \in 1 .. Latest
          BY <1>12, <3>2, <4>1 DEF LimitInv, Window
        <4>3. sent'[last] = sent[last]
          BY <1>6, <4>2
        <4>4. QED BY <1>1, <3>2, <4>3 DEF LimitInv, Window
      <3>3. QED BY <3>1, <3>2
    <2>3. QED BY <2>1, <2>2
  <1>14. Failures'
    <2>1. SUFFICES ASSUME NEW r \in failed PROVE r = refusals \/ Standing(r)'
      BY <1>1 DEF Failures
    <2>2. r \in 1 .. Latest /\ (r = refusals \/ Standing(r))
      BY DEF LimitInv, LimitTypeOK, Failures
    <2>3. Standing(r) => Standing(r)'
      BY <1>1, <1>6, <1>12, <2>2 DEF Standing
    <2>4. QED BY <2>2, <2>3
  <1>15. QED BY <1>9, <1>10, <1>11, <1>13, <1>14 DEF LimitInv

-----------------------------------------------------------------------------
(* The reporter.                                                           *)

\* The job hands its refusal over, or the channel holds that one already.
LEMMA JobFailsInv ==
  ASSUME LimitInv, JobFails
  PROVE  LimitInv'
  <1>1. /\ fetch = "refused" /\ fetch' = "idle"
        /\ refusals' = IF refusals = Empty THEN Latest ELSE refusals
        /\ failed' = failed \cup {Latest}
        /\ UNCHANGED <<now, sent, holdEnd, last, until, stopped, log>>
    BY DEF JobFails
  <1>2. Latest' = Latest /\ \A r : Standing(r)' <=> Standing(r)
    BY <1>1 DEF Latest, Standing
  <1>3. /\ Latest \in 1 .. Latest /\ now < holdEnd /\ Latest # Empty
        /\ refusals' = Latest
    BY <1>1, LimitElements DEF LimitInv, Current, Empty
  <1>4. LimitTypeOK'
    <2>1. refusals' \in 0 .. Latest
      BY <1>3, LimitElements DEF LimitInv
    <2>2. failed' \subseteq 1 .. Latest
      BY <1>1, <1>3 DEF LimitInv, LimitTypeOK
    <2>3. QED BY <1>1, <1>2, <2>1, <2>2 DEF LimitInv, LimitTypeOK
  <1>5. Holds' /\ Told' /\ Window'
    BY <1>1, <1>2 DEF LimitInv, Holds, Told, Window
  <1>6. Current'
    BY <1>1, <1>2, <1>3 DEF Current
  <1>7. Failures'
    <2>1. SUFFICES ASSUME NEW r \in failed, r # Latest PROVE Standing(r)
      BY <1>1, <1>2, <1>3 DEF Failures
    <2>2. refusals = Empty \/ refusals = Latest
      BY DEF LimitInv, Current
    <2>3. r # Empty
      BY DEF LimitInv, LimitTypeOK, Empty
    <2>4. QED BY <2>1, <2>2, <2>3 DEF LimitInv, Failures
  <1>8. QED BY <1>4, <1>5, <1>6, <1>7 DEF LimitInv

\* The copy that the window swallows is of the refusal told last, or has its words:
\* then neither named a reset, and less than a minute lies between them.
LEMMA CopyStands ==
  ASSUME LimitInv, refusals # Empty, Copy(refusals)
  PROVE  Standing(refusals)
  <1> DEFINE n == Len(log)
  <1>1. /\ last # Empty /\ sent[refusals].reset = sent[last].reset /\ now < until
        /\ refusals = Latest
    BY DEF Copy, SameWords, LimitInv, Current
  <1>2. log # <<>>
    BY <1>1 DEF LimitInv, Window
  <1>3. n \in 1 .. n /\ n \in Nat
    BY <1>2, EmptySeq, LimitElements DEF LimitInv, LimitTypeOK
  <1>4. /\ last = log[n].of /\ last \in 1 .. Latest /\ Latest \in 1 .. Latest
        /\ until = Later(sent[last].reset, log[n].at + minRefusalHold)
    BY <1>2, <1>3, LimitElements DEF LimitInv, Window
  <1>5. CASE last = Latest
    BY <1>1, <1>3, <1>4, <1>5 DEF Standing
  <1>6. CASE last < Latest
    <2>1. /\ HoldOf(sent[last]) <= sent[Latest].at
          /\ sent[Latest].at <= now
          /\ sent[Latest].reset = 0 \/ sent[Latest].at < sent[Latest].reset
          /\ log[n].at < HoldOf(sent[last])
      BY <1>3, <1>4, <1>6 DEF LimitInv, Holds, Told, Empty
    <2>2. /\ sent[Latest].at \in Nat /\ now \in Nat /\ minRefusalHold \in Nat \ {0}
          /\ sent[last].reset \in Nat /\ HoldOf(sent[last]) \in Nat /\ log[n].at \in Nat
          /\ sent[last].reset <= HoldOf(sent[last])
      BY <1>3, <1>4, LimitElements DEF LimitInv
    <2>3. sent[last].reset = 0
      BY <1>1, <2>1, <2>2
    <2>4. until = log[n].at + minRefusalHold
      BY <1>4, <2>2, <2>3 DEF Later
    <2>5. log[n].at <= sent[Latest].at /\ sent[Latest].at < log[n].at + minRefusalHold
      BY <1>1, <2>1, <2>2, <2>4
    <2>6. QED BY <1>1, <1>3, <1>4, <2>5 DEF Standing
  <1>7. QED BY <1>4, <1>5, <1>6, LimitElements DEF LimitInv

\* A refusal the window lets through is a later one than the last told: the window
\* outlasts the hold on that.
LEMMA ToldIsLater ==
  ASSUME LimitInv, refusals # Empty, ~Copy(refusals), NEW i \in 1 .. Len(log)
  PROVE  log[i].of < refusals
  <1> DEFINE n == Len(log)
  <1>1. log # <<>> /\ n \in Nat /\ n \in 1 .. n
    BY LimitElements, EmptySeq DEF LimitInv, LimitTypeOK
  <1>2. /\ last = log[n].of /\ last \in 1 .. Latest /\ Latest \in Nat
        /\ until = Later(sent[last].reset, log[n].at + minRefusalHold)
        /\ refusals = Latest /\ now < holdEnd
    BY <1>1, LimitElements DEF LimitInv, Window, Current
  <1>3. last # Latest
    <2> SUFFICES ASSUME last = Latest PROVE FALSE
      OBVIOUS
    <2>1. /\ HoldOf(sent[last]) = holdEnd
          /\ sent[last].at <= log[n].at
      BY <1>1, <1>2 DEF LimitInv, Holds, Told
    <2>2. now >= until
      <3>1. now \in Nat /\ until \in Nat
        BY LimitElements DEF LimitInv, LimitTypeOK
      <3>2. ~ (now < until)
        BY <1>2 DEF Copy, SameWords, Empty
      <3>3. QED BY <3>1, <3>2
    <2>3. /\ sent[last].at \in Nat /\ sent[last].reset \in Nat /\ log[n].at \in Nat
          /\ now \in Nat /\ minRefusalHold \in Nat
      BY <1>1, <1>2, LimitElements DEF LimitInv
    <2>4. HoldOf(sent[last]) <= until
      <3> DEFINE told == log[n].at
      <3>1. until = Later(sent[last].reset, told + minRefusalHold)
        BY <1>2
      <3>2. sent[last].at <= told /\ told \in Nat
        BY <2>1, <2>3
      <3> HIDE DEF told, n
      <3>3. QED BY <2>3, <3>1, <3>2 DEF HoldOf, Later
    <2>5. holdEnd \in Nat /\ until \in Nat
      BY DEF LimitInv, LimitTypeOK
    <2> HIDE DEF n
    <2>6. QED BY <1>2, <2>1, <2>2, <2>3, <2>4, <2>5
  <1>4. last < Latest
    BY <1>2, <1>3
  <1>5. CASE i = n
    BY <1>2, <1>4, <1>5
  <1>6. CASE i < n
    <2>1. log[i].of < log[n].of /\ log[i].of \in 1 .. Latest
      BY <1>1, <1>6, LimitElements DEF LimitInv, Told
    <2>2. QED BY <1>2, <1>4, <2>1
  <1>7. QED BY <1>1, <1>5, <1>6

LEMMA ReportInv ==
  ASSUME LimitInv, Report
  PROVE  LimitInv'
  <1>1. /\ refusals # Empty /\ refusals' = Empty
        /\ UNCHANGED <<now, sent, holdEnd, fetch, stopped, failed>>
    BY DEF Report, engineVars
  <1>2. Latest' = Latest
    BY <1>1 DEF Latest
  <1>3. /\ refusals = Latest /\ now < holdEnd /\ Latest \in 1 .. Latest
        /\ holdEnd = HoldOf(sent[Latest])
    BY <1>1, LimitElements DEF LimitInv, LimitTypeOK, Current, Holds, Empty
  <1>4. Holds' /\ Current'
    BY <1>1, <1>2 DEF LimitInv, Holds, Current
  <1>5. CASE Copy(refusals)
    <2>1. UNCHANGED <<last, until, log>>
      BY <1>5 DEF Report
    <2>2. \A r : Standing(r)' <=> Standing(r)
      BY <1>1, <2>1 DEF Standing
    <2>3. LimitTypeOK'
      BY <1>1, <1>2, <2>1, LimitElements DEF LimitInv, LimitTypeOK, Empty
    <2>4. Told' /\ Window'
      BY <1>1, <2>1 DEF LimitInv, Told, Window
    <2>5. Failures'
      BY <1>1, <1>5, <2>2, CopyStands DEF LimitInv, Failures
    <2>6. QED BY <1>4, <2>3, <2>4, <2>5 DEF LimitInv
  <1>6. CASE ~Copy(refusals)
    <2> DEFINE warning == [of |-> Latest, at |-> now]
    <2>1. /\ last' = Latest /\ until' = WindowEnd(Latest) /\ log' = Append(log, warning)
      BY <1>3, <1>6 DEF Report
    <2>2. /\ now \in 0 .. MaxTime /\ now \in Nat /\ Len(log) \in Nat
          /\ log \in Seq([of : 1 .. Latest, at : 0 .. MaxTime])
      BY LimitElements DEF LimitInv, LimitTypeOK
    <2>3. warning \in [of : 1 .. Latest, at : 0 .. MaxTime]
             /\ warning.of = Latest /\ warning.at = now
      BY <1>3, <2>2
    <2> HIDE DEF warning
    <2>4. /\ log' \in Seq([of : 1 .. Latest, at : 0 .. MaxTime])
          /\ Len(log') = Len(log) + 1 /\ log' # <<>>
          /\ \A i \in 1 .. Len(log) : log'[i] = log[i]
          /\ log'[Len(log) + 1] = warning
      BY <2>1, <2>2, <2>3, AppendProperties
    <2>5. until' = Later(sent[Latest].reset, now + minRefusalHold) /\ until' \in Nat
      BY <1>3, <2>1, <2>2, LimitElements DEF WindowEnd, Later, LimitInv
    <2>6. LimitTypeOK'
      <3>1. refusals' \in 0 .. Latest /\ last' \in 0 .. Latest
        BY <1>1, <1>3, <2>1 DEF Empty
      <3>2. QED BY <1>1, <1>2, <2>4, <2>5, <3>1 DEF LimitInv, LimitTypeOK
    <2>7. Told'
      <3>1. ASSUME NEW i \in 1 .. Len(log) + 1
            PROVE  /\ sent[log'[i].of].at <= log'[i].at
                   /\ log'[i].at < HoldOf(sent[log'[i].of])
        <4>1. CASE i \in 1 .. Len(log)
          BY <2>4, <4>1 DEF LimitInv, Told
        <4>2. CASE i = Len(log) + 1
          BY <1>3, <2>3, <2>4, <4>2 DEF LimitInv, Holds
        <4>3. QED BY <2>2, <4>1, <4>2
      <3>2. ASSUME NEW i \in 1 .. Len(log) + 1, NEW j \in 1 .. Len(log) + 1, i < j
            PROVE  log'[i].of < log'[j].of
        <4>1. i \in 1 .. Len(log)
          BY <2>2, <3>2
        <4>2. CASE j \in 1 .. Len(log)
          BY <2>4, <3>2, <4>1, <4>2 DEF LimitInv, Told
        <4>3. CASE j = Len(log) + 1
          BY <1>1, <1>3, <1>6, <2>3, <2>4, <4>1, <4>3, ToldIsLater
        <4>4. QED BY <2>2, <4>2, <4>3
      <3>3. QED BY <1>1, <2>4, <3>1, <3>2 DEF Told
    <2>8. Window'
      BY <1>1, <2>1, <2>3, <2>4, <2>5 DEF Window
    <2>9. Failures'
      <3>1. SUFFICES ASSUME NEW r \in failed PROVE Standing(r)'
        BY <1>1 DEF Failures
      <3>2. CASE r = Latest
        <4>1. Len(log) + 1 \in 1 .. Len(log') /\ log'[Len(log) + 1].of = r
          BY <2>2, <2>3, <2>4, <3>2
        <4>2. QED BY <4>1 DEF Standing
      <3>3. CASE r # Latest
        <4>1. Standing(r)
          BY <1>3, <3>3 DEF LimitInv, Failures
        <4>2. \A i \in 1 .. Len(log) : i \in 1 .. Len(log') /\ log'[i] = log[i]
          BY <2>2, <2>4
        <4>3. QED BY <1>1, <4>1, <4>2 DEF Standing
      <3>4. QED BY <3>2, <3>3
    <2>10. QED BY <1>4, <2>6, <2>7, <2>8, <2>9 DEF LimitInv
  <1>7. QED BY <1>5, <1>6

\* LimitInv, the strengthening that the property needs, holds throughout.
THEOREM LimitInductive == LimitSpec => []LimitInv
  <1>1. LimitInv /\ [LimitNext]_limitVars => LimitInv'
    BY QuietInv, RefusedInv, JobFailsInv, ReportInv DEF LimitNext, Engine
  <1>2. QED BY LimitInitInv, <1>1, PTL DEF LimitSpec

-----------------------------------------------------------------------------
(* What follows.                                                           *)

\* Every variable of the reporter keeps its type (githubLimitReporter).
THEOREM LimitTypeCorrect == LimitSpec => []LimitTypeOK
  <1>1. LimitInv => LimitTypeOK
    BY DEF LimitInv
  <1>2. QED BY <1>1, LimitInductive, PTL

\* No refusal is told twice, and none that failed a job is missed unless a warning
\* in its words was less than a minute old when it was sent (githubLimitReporter).
THEOREM EachRefusalToldOnce == LimitSpec => []OneWarningPerRefusal
  <1>1. LimitInv => NoneToldTwice
    <2> SUFFICES ASSUME LimitInv, NEW i \in 1 .. Len(log), NEW j \in 1 .. Len(log),
                        log[i].of = log[j].of, i # j
                 PROVE  FALSE
      BY DEF NoneToldTwice
    <2>1. log[i].of \in Nat /\ log[j].of \in Nat /\ (i < j \/ j < i)
      BY LimitElements DEF LimitInv
    <2>2. QED BY <2>1 DEF LimitInv, Told
  <1>2. LimitInv => NoneMissed
    <2> SUFFICES ASSUME LimitInv, refusals = Empty, NEW r \in failed PROVE Standing(r)
      BY DEF NoneMissed
    <2>1. r # Empty
      BY DEF LimitInv, LimitTypeOK, Empty
    <2>2. QED BY <2>1 DEF LimitInv, Failures
  <1>3. QED BY <1>1, <1>2, LimitInductive, PTL DEF OneWarningPerRefusal
=============================================================================

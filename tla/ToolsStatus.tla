----------------------------- MODULE ToolsStatus -----------------------------
(***************************************************************************)
(* The tools field of /api/health and the session-create gate derived from *)
(* it: main.go toolsStatus, startTools and awaitBootConvergence.           *)
(*                                                                         *)
(* Four parties touch the cells: startTools and awaitBootConvergence       *)
(* (through recordBoot), toolbelt's job worker (through observeJob, called *)
(* under the job queue's lock), and the convergence watcher, whose count   *)
(* takes that same lock.  Every atomic load, store and channel operation   *)
(* that another party can come between is a step of its own.               *)
(*                                                                         *)
(* toolbelt is external: a single-flight queue of jobs, whose effect on    *)
(* the tree is arbitrary, and a lock.  The runtime without an engine       *)
(* (config directory absent or refused) has constant answers and is left   *)
(* out.                                                                    *)
(***************************************************************************)
EXTENDS Integers, FiniteSets, Sequences

CONSTANTS
    Job,            \* the jobs an operator submits through /api/tools
    Boot,           \* the boot reconcile
    Refresh,        \* the boot catalog refresh
    Update,         \* the update pass after the boot convergence
    Counted,        \* toolsStatusCounts: the installs and reconciles
    Tool,           \* enabled manifest entries
    WaitErrors      \* Wait can fail for a reason other than shutdown

AllJobs == Job \cup {Boot, Refresh, Update}

ASSUME JobAssumption ==
    /\ {Boot, Refresh, Update} \cap Job = {}
    /\ Boot # Refresh /\ Boot # Update /\ Refresh # Update
    /\ Boot \in Counted /\ Counted \subseteq Job \cup {Boot}
    /\ <<>> \notin AllJobs                 \* NoJob
    /\ IsFiniteSet(Tool)
    /\ WaitErrors \in BOOLEAN

VARIABLES
    (* toolsStatus *)
    state,          \* syncing | ok | degraded
    booted,
    missing,        \* -1: not counted
    poke,           \* the token in the channel of depth 1
    (* startTools, and recordBoot as run by it or by awaitBootConvergence *)
    start,          \* startTools' position
    recorder,       \* recordBoot's caller and position
    verdict,        \* the verdict it is recording
    tail,           \* the post-convergence tail follows
    (* watchConvergence *)
    watcher, counted,
    (* toolbelt *)
    queue, job, running, outstanding, lock, closed,
    (* the process context *)
    stopping,
    (* history, read by no action *)
    lastSettled     \* the counted job that settled last once booted was set

fieldVars    == <<state, booted, missing, poke>>
bootVars     == <<start, recorder, verdict, tail>>
watcherVars  == <<watcher, counted>>
toolbeltVars == <<queue, job, running, outstanding, lock, closed>>

vars == <<fieldVars, bootVars, watcherVars, toolbeltVars, stopping, lastSettled>>

States   == {"syncing", "ok", "degraded"}
Verdicts == {"ok", "degraded"}
Settled  == {"done", "failed", "cancelled"}
NoJob    == <<>>
Unknown  == -1

StartStates    == {"reconcile", "inline", "refresh", "watch", "serving"}
RecorderStates == {"off", "waiting", "decided", "stored", "armed", "tail", "done"}
WatcherStates  == {"off", "count", "store", "wait", "exited"}
LockStates     == {"free", "poke", "fold"}

Counts == Unknown .. Cardinality(Tool)

FlagsOK ==
    /\ booted \in BOOLEAN /\ poke \in BOOLEAN /\ tail \in BOOLEAN
    /\ closed \in BOOLEAN /\ stopping \in BOOLEAN

TypeOK ==
    /\ FlagsOK
    /\ state \in States /\ missing \in Counts
    /\ start \in StartStates /\ recorder \in RecorderStates
    /\ verdict \in Verdicts
    /\ watcher \in WatcherStates /\ counted \in Counts
    /\ queue \in Seq(AllJobs)
    /\ job \in [AllJobs -> {"new", "queued", "running"} \cup Settled]
    /\ running \in AllJobs \cup {NoJob}
    /\ outstanding \subseteq Tool
    /\ lock \in LockStates
    /\ lastSettled \in AllJobs \cup {NoJob}

Init ==
    /\ state = "syncing" /\ booted = FALSE /\ missing = Unknown /\ poke = FALSE
    /\ start = "reconcile" /\ recorder = "off" /\ verdict = "ok" /\ tail = FALSE
    /\ watcher = "off" /\ counted = Unknown
    /\ queue = <<>> /\ job = [j \in AllJobs |-> "new"] /\ running = NoJob
    /\ outstanding \in SUBSET Tool
    /\ lock = "free" /\ closed = FALSE /\ stopping = FALSE
    /\ lastSettled = NoJob

-----------------------------------------------------------------------------
(* The poke channel.                                                       *)

\* Fault: an ordinary send, which waits while a token is pending.
SendWaits == ~poke

\* requestRecount: the send has a default arm.
CanSend == TRUE

RequestRecount == CanSend /\ poke' = TRUE

-----------------------------------------------------------------------------
(* startTools.                                                             *)

EnqueueJob(j) ==
    /\ lock = "free" /\ ~closed
    /\ job[j] = "new"
    /\ queue' = Append(queue, j)
    /\ job'   = [job EXCEPT ![j] = "queued"]

ReconcileEnqueued ==
    /\ start = "reconcile"
    /\ EnqueueJob(Boot)
    /\ start' = "refresh" /\ recorder' = "waiting"
    /\ UNCHANGED <<fieldVars, verdict, tail, watcherVars, running, outstanding,
                   lock, closed, stopping, lastSettled>>

\* Refused (degraded), or nothing to converge (ok): startTools records at once.
ReconcileNotEnqueued ==
    /\ start = "reconcile"
    /\ \E v \in Verdicts : verdict' = v
    /\ start' = "inline" /\ recorder' = "decided" /\ tail' = FALSE
    /\ UNCHANGED <<fieldVars, watcherVars, toolbeltVars, stopping, lastSettled>>

RefreshCatalog ==
    /\ start = "refresh" \/ (start = "inline" /\ recorder = "done")
    /\ start' = "watch"
    /\ EnqueueJob(Refresh) \/ UNCHANGED <<queue, job>>
    /\ UNCHANGED <<fieldVars, recorder, verdict, tail, watcherVars, running,
                   outstanding, lock, closed, stopping, lastSettled>>

StartWatcher ==
    /\ start = "watch"
    /\ start' = "serving" /\ watcher' = "count"
    /\ UNCHANGED <<fieldVars, recorder, verdict, tail, counted, toolbeltVars,
                   stopping, lastSettled>>

-----------------------------------------------------------------------------
(* awaitBootConvergence and recordBoot.                                    *)

\* How Wait can come back: with the job once it settled, with the context's
\* error once the process stops, or with an error of its own.
WaitEnds == {end \in Settled : job[Boot] = end}
                \cup {end \in {"abandoned"} : stopping}
                \cup {end \in {"error"} : WaitErrors}

\* Fault: the two arms that are no tool failure return without recording.
AfterWaitSilent(end) ==
    IF end \in {"cancelled", "abandoned"} THEN "done" ELSE "decided"

AfterWait(end) == "decided"

WaitReturns ==
    /\ recorder = "waiting"
    /\ lock = "free"
    /\ \E end \in WaitEnds :
          /\ verdict'  = IF end = "done" THEN "ok" ELSE "degraded"
          /\ tail'     = (end \notin {"cancelled", "abandoned"})
          /\ recorder' = AfterWait(end)
    /\ UNCHANGED <<fieldVars, start, watcherVars, toolbeltVars, stopping,
                   lastSettled>>

StoreVerdict ==
    /\ recorder = "decided"
    /\ recorder' = "stored"
    /\ state'    = verdict
    /\ UNCHANGED <<booted, missing, poke, start, verdict, tail, watcherVars,
                   toolbeltVars, stopping, lastSettled>>

StoreBooted ==
    /\ recorder = "stored"
    /\ recorder' = "armed"
    /\ booted'   = TRUE
    /\ UNCHANGED <<state, missing, poke, start, verdict, tail, watcherVars,
                   toolbeltVars, stopping, lastSettled>>

BootPokes ==
    /\ recorder = "armed"
    /\ recorder' = "tail"
    /\ RequestRecount
    /\ UNCHANGED <<state, booted, missing, start, verdict, tail, watcherVars,
                   toolbeltVars, stopping, lastSettled>>

\* The freshness pass for unpinned entries; an enqueue can be refused.
RunTail ==
    /\ recorder = "tail"
    /\ recorder' = "done"
    /\ (tail /\ EnqueueJob(Update)) \/ UNCHANGED <<queue, job>>
    /\ UNCHANGED <<fieldVars, start, verdict, tail, watcherVars, running,
                   outstanding, lock, closed, stopping, lastSettled>>

-----------------------------------------------------------------------------
(* watchConvergence.                                                       *)

\* Inventory, under the queue lock; it fails on an unreadable manifest.
CountMissing ==
    /\ watcher = "count"
    /\ lock = "free"
    /\ watcher' = "store"
    /\ counted' \in {Unknown, Cardinality(outstanding)}
    /\ UNCHANGED <<fieldVars, bootVars, toolbeltVars, stopping, lastSettled>>

\* Fault: the token is taken once the count is stored, not before it starts.
PokeDrained == FALSE

PokeAfterCount == poke

StoreCount ==
    /\ watcher = "store"
    /\ watcher' = "wait"
    /\ missing' = counted
    /\ poke'    = PokeAfterCount
    /\ UNCHANGED <<state, booted, bootVars, counted, toolbeltVars, stopping,
                   lastSettled>>

TakePoke ==
    /\ watcher = "wait"
    /\ poke
    /\ watcher' = "count"
    /\ poke'    = FALSE
    /\ UNCHANGED <<state, booted, missing, bootVars, counted, toolbeltVars,
                   stopping, lastSettled>>

WatcherExits ==
    /\ watcher = "wait"
    /\ stopping
    /\ watcher' = "exited"
    /\ UNCHANGED <<fieldVars, bootVars, counted, toolbeltVars, stopping,
                   lastSettled>>

-----------------------------------------------------------------------------
(* toolbelt, and observeJob in its callback.                               *)

Submit(j) ==
    /\ start = "serving"
    /\ EnqueueJob(j)
    /\ UNCHANGED <<fieldVars, bootVars, watcherVars, running, outstanding, lock,
                   closed, stopping, lastSettled>>

StartJob ==
    /\ running = NoJob /\ queue # <<>>
    /\ lock = "free" /\ ~closed
    /\ running' = Head(queue)
    /\ queue'   = Tail(queue)
    /\ job'     = [job EXCEPT ![Head(queue)] = "running"]
    /\ UNCHANGED <<fieldVars, bootVars, watcherVars, outstanding, lock, closed,
                   stopping, lastSettled>>

\* A running job installs, removes or half-updates tools.
ChangeTree ==
    /\ running \notin {NoJob, Refresh}
    /\ job[running] = "running"
    /\ \E o \in SUBSET Tool \ {outstanding} : outstanding' = o
    /\ UNCHANGED <<fieldVars, bootVars, watcherVars, queue, job, running, lock,
                   closed, stopping, lastSettled>>

\* The job's last state is set and reported with the queue lock held.
Settle(end) ==
    /\ running # NoJob /\ lock = "free"
    /\ lock' = "poke"
    /\ job'  = [job EXCEPT ![running] = end]
    /\ lastSettled' = IF booted /\ running \in Counted /\ end # "cancelled"
                      THEN running ELSE lastSettled
    /\ UNCHANGED <<fieldVars, bootVars, watcherVars, queue, running,
                   outstanding, closed, stopping>>

CallbackPokes ==
    /\ lock = "poke"
    /\ lock' = "fold"
    /\ RequestRecount
    /\ UNCHANGED <<state, booted, missing, bootVars, watcherVars, queue, job,
                   running, outstanding, closed, stopping, lastSettled>>

\* Fault: the boot verdict is not waited for.
FoldsAnyCounted(j) == j \in Counted

Folds(j) == j \in Counted /\ booted

\* Fault: a failure sticks.
FoldedWorse(end) == IF end = "failed" THEN "degraded" ELSE state

Folded(end) == CASE end = "done"      -> "ok"
                 [] end = "failed"    -> "degraded"
                 [] end = "cancelled" -> state

CallbackFolds ==
    /\ lock = "fold"
    /\ lock'    = "free"
    /\ running' = NoJob
    /\ state'   = IF Folds(running) THEN Folded(job[running]) ELSE state
    /\ UNCHANGED <<booted, missing, poke, bootVars, watcherVars, queue, job,
                   outstanding, closed, stopping, lastSettled>>

\* The pre-drain hook cancels the context; the teardown closes the engine later.
Stop ==
    /\ start = "serving" /\ ~stopping
    /\ stopping' = TRUE
    /\ UNCHANGED <<fieldVars, bootVars, watcherVars, toolbeltVars, lastSettled>>

CloseEngine ==
    /\ stopping /\ ~closed
    /\ lock = "free"
    /\ closed' = TRUE
    /\ UNCHANGED <<fieldVars, bootVars, watcherVars, queue, job, running,
                   outstanding, lock, stopping, lastSettled>>

-----------------------------------------------------------------------------
StartTools == ReconcileEnqueued \/ ReconcileNotEnqueued \/ RefreshCatalog
                \/ StartWatcher

Recorder == WaitReturns \/ StoreVerdict \/ StoreBooted \/ BootPokes \/ RunTail

Watcher == CountMissing \/ StoreCount \/ TakePoke \/ WatcherExits

Worker == \/ StartJob \/ CallbackPokes \/ CallbackFolds
          \/ \E end \in Settled : Settle(end)

Next ==
    \/ StartTools \/ Recorder \/ Watcher \/ Worker
    \/ ChangeTree
    \/ \E j \in Job : Submit(j)
    \/ Stop \/ CloseEngine

Spec == Init /\ [][Next]_vars

\* The goroutines are scheduled and a running job ends.
FairSpec == /\ Spec
            /\ WF_vars(StartTools) /\ WF_vars(Recorder)
            /\ WF_vars(Watcher) /\ WF_vars(Worker)

-----------------------------------------------------------------------------
(* Properties.                                                             *)

\* What the create gate may rely on: syncing gives way to the verdict awaitBoot-
\* Convergence or startTools came to and to nothing else, neither to the boot job's
\* own callback nor to an operator's job, and is never said again (toolsStatus:
\* "the only one never re-entered"; recordBoot: "state first, then booted").
BootVerdict == IF recorder \in {"off", "waiting"} THEN "none" ELSE verdict

Gate == INSTANCE BootGate WITH
            field <- state, verdict <- BootVerdict, Undecided <- "none"

BootGateSpec == Gate!Spec

\* The gate lifts whatever becomes of the boot pass (startTools: degraded, not
\* dead; every arm of awaitBootConvergence records).
GateLifts == <>(state # "syncing")

\* Once the boot verdict is armed the field is what the last install or reconcile
\* came to, so a repair heals it without a restart and no store of the boot's
\* overwrites it (toolsStatus; recordBoot: "state first, then booted").
FieldFollowsJobs ==
    lastSettled # NoJob /\ lock = "free" =>
        state = IF job[lastSettled] = "done" THEN "ok" ELSE "degraded"

\* A callback under the queue lock never waits for the watcher, which needs that
\* lock to count (requestRecount).
QueueAdvances == (lock # "free") ~> (lock = "free")

\* The published count is never wrong for good: once the tree stays as it is,
\* tools_missing is its count or is withheld (watchConvergence).
CountSettles ==
    \A o \in SUBSET Tool :
        <>[](outstanding = o /\ ~stopping)
            => <>[](missing \in {Unknown, Cardinality(o)})
=============================================================================

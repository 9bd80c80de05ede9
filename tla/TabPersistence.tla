--------------------------- MODULE TabPersistence ---------------------------
(***************************************************************************)
(* The life of the saved tab set: tabs.json under /config, the process     *)
(* that reads it once at boot, the restorer that brings its tabs back, the *)
(* poller that saves the live set, and the shutdown that empties the       *)
(* session manager under both of them.                                     *)
(*                                                                         *)
(*   tabstate.go        tabStore: load, moveAside, arm, persist,           *)
(*                      recordWrite                                        *)
(*   tabrestore.go      tabRestorer.run, waitReady                         *)
(*   sessionpollers.go  the tick that reaches persist                      *)
(*   sessionshutdown.go cancel first, then empty the manager               *)
(*   main.go            the order of all of the above                      *)
(*                                                                         *)
(* Three goroutines meet here (the poller, the restorer, the shutdown) and *)
(* HTTP requests create and close tabs beside them.  Each is split where   *)
(* another can run in between: the capture, the context check and the      *)
(* rename of a save are three steps.  The process can die at any of them.  *)
(*                                                                         *)
(* A tab is a model value that keeps its identity across restarts (in the  *)
(* code: the entry's kiro session id or alias).  What one entry comes back *)
(* as is the business of TabRestorePlan; here it starts or it fails.       *)
(***************************************************************************)
CONSTANTS
    Tab,            \* the tabs a user can have, each with one conversation
    NoFile,         \* "there is no such file", distinct from every saved set
    RestoreErrors   \* whether the engine may refuse the restore of an open
                    \* manager: the err branch of tabRestorer.run

ASSUME TabAssumption ==
    /\ \A s \in SUBSET Tab : s # NoFile
    /\ RestoreErrors \in BOOLEAN

VARIABLES
    (* durable: the files under /config *)
    file,           \* tabs.json: a set of tabs, or NoFile
    aside,          \* tabs.json.unreadable: the same
    (* the process and its session manager *)
    phase,          \* how far run() is, and whether the manager is closed
    cancelled,      \* baseCtx is cancelled
    ready,          \* kiro-cli is usable and the tools are not syncing
    pending,        \* restorePending: the create gate's verdict
    live,           \* the tabs the session manager lists
    (* tabStore *)
    armed, keepFile,
    last,           \* the set last written or read, NoFile before either
    (* the restorer goroutine *)
    restorer,       \* where it is
    todo,           \* entries of the loaded set not handled yet
    restored,       \* entries whose session started
    failed,         \* entries whose session did not start
    (* the poller goroutine *)
    poller,         \* where it is
    shot,           \* the set its current save captured
    (* history, read by no action *)
    owed,           \* tabs that were saved and that nothing gave up since
    gone            \* tabs the user closed in this run and did not reopen

durableVars  == <<file, aside>>
processVars  == <<phase, cancelled, ready, pending, live>>
storeVars    == <<armed, keepFile, last>>
restorerVars == <<restorer, todo, restored, failed>>
pollerVars   == <<poller, shot>>
historyVars  == <<owed, gone>>

vars == <<durableVars, processVars, storeVars, restorerVars, pollerVars,
          historyVars>>

SavedSet == {NoFile} \cup SUBSET Tab

\* The tabs a file would bring back.
Entries(f) == IF f = NoFile THEN {} ELSE f

-----------------------------------------------------------------------------
(* Phases of one run of the process, in order.                             *)
(*   down      not running                                                 *)
(*   starting  tabs.json was loaded, nothing serves yet                    *)
(*   serving   requests are answered                                       *)
(*   draining  baseCtx cancelled, the manager still whole                  *)
(*   closing   mgr.Shutdown refuses sessions and tears them down           *)
Phases         == {"down", "starting", "serving", "draining", "closing"}
Open           == phase \in {"serving", "draining"}   \* the manager takes tabs
Running        == phase \in {"serving", "draining", "closing"}
RestorerStates == {"none", "waiting", "restoring", "arming", "clearing", "done"}
PollerStates   == {"idle", "captured", "writing"}

TypeOK ==
    /\ file \in SavedSet /\ aside \in SavedSet
    /\ phase \in Phases
    /\ cancelled \in BOOLEAN /\ ready \in BOOLEAN /\ pending \in BOOLEAN
    /\ live \in SUBSET Tab
    /\ armed \in BOOLEAN /\ keepFile \in BOOLEAN
    /\ last \in SavedSet
    /\ restorer \in RestorerStates
    /\ todo \in SUBSET Tab /\ restored \in SUBSET Tab /\ failed \in SUBSET Tab
    /\ poller \in PollerStates
    /\ shot \in SUBSET Tab
    /\ owed \in SUBSET Tab /\ gone \in SUBSET Tab

Init ==
    /\ file = NoFile /\ aside = NoFile
    /\ phase = "down"
    /\ cancelled = FALSE /\ ready = FALSE /\ pending = FALSE /\ live = {}
    /\ armed = FALSE /\ keepFile = FALSE /\ last = NoFile
    /\ restorer = "none" /\ todo = {} /\ restored = {} /\ failed = {}
    /\ poller = "idle" /\ shot = {}
    /\ owed = {} /\ gone = {}

-----------------------------------------------------------------------------
(* Boot: newTabStore and load, before anything can save.                   *)

\* The file parsed: it is the set to restore and the set last written.
LoadFile ==
    /\ phase = "down"
    /\ file # NoFile
    /\ phase'   = "starting"
    /\ todo'    = file
    /\ last'    = file
    /\ pending' = (file # {})
    /\ UNCHANGED <<durableVars, cancelled, ready, live, armed, keepFile,
                   restorer, restored, failed, pollerVars, historyVars>>

LoadNothing ==
    /\ phase = "down"
    /\ file = NoFile
    /\ phase' = "starting"
    /\ UNCHANGED <<durableVars, cancelled, ready, pending, live, storeVars,
                   restorerVars, pollerVars, historyVars>>

\* moveAside, the rename landing: tabs.json could not be read or parsed.
LoadUnreadable ==
    /\ phase = "down"
    /\ file # NoFile
    /\ phase' = "starting"
    /\ aside' = file
    /\ file'  = NoFile
    /\ owed'  = {}
    /\ UNCHANGED <<cancelled, ready, pending, live, storeVars, restorerVars,
                   pollerVars, gone>>

\* moveAside, the rename failing: the file stays and the store never arms.
LoadStuck ==
    /\ phase = "down"
    /\ file # NoFile
    /\ phase'    = "starting"
    /\ keepFile' = TRUE
    /\ UNCHANGED <<durableVars, cancelled, ready, pending, live, armed, last,
                   restorerVars, pollerVars, historyVars>>

\* tabStore.arm: a no-op for a file that could not be moved aside.
ArmedAlways   == TRUE                   \* fault: arm ignores keepFile
ArmedAfterArm == armed \/ ~keepFile

ArmAtOnce       == TRUE                 \* fault: armed before the restore
NothingToRestore == ~pending

\* main.run starts the goroutines, and arms at once with nothing to restore.
Serve ==
    /\ phase = "starting"
    /\ phase'    = "serving"
    /\ restorer' = IF pending THEN "waiting" ELSE "none"
    /\ armed'    = IF NothingToRestore THEN ArmedAfterArm ELSE armed
    /\ UNCHANGED <<durableVars, cancelled, ready, pending, live, keepFile, last,
                   todo, restored, failed, pollerVars, historyVars>>

\* The install and the tools converge, or no longer do: kiro.ready is asked at
\* every poll and every create, and either answer can follow the other.
ReadinessChanges ==
    /\ Running
    /\ ready' = ~ready
    /\ UNCHANGED <<durableVars, phase, cancelled, pending, live, storeVars,
                   restorerVars, pollerVars, historyVars>>

-----------------------------------------------------------------------------
(* Requests.                                                               *)

\* composeGate: kiro-cli, the tools, then the restore.
GateWithoutRestore == ready             \* fault: restorePendingGate left out
CreateGateOpen     == ready /\ ~pending

\* POST /api/sessions.
CreateTab(t) ==
    /\ Open
    /\ CreateGateOpen
    /\ t \notin live
    /\ live' = live \cup {t}
    /\ gone' = gone \ {t}
    /\ UNCHANGED <<durableVars, phase, cancelled, ready, pending, storeVars,
                   restorerVars, pollerVars, owed>>

\* A tab closed, or its program ended; no gate holds this back.
CloseTab(t) ==
    /\ Open
    /\ t \in live
    /\ live' = live \ {t}
    /\ gone' = gone \cup {t}
    /\ owed' = owed \ {t}
    /\ UNCHANGED <<durableVars, phase, cancelled, ready, pending, storeVars,
                   restorerVars, pollerVars>>

-----------------------------------------------------------------------------
(* The restorer: tabRestorer.run.                                          *)

RestorerStopped ==
    /\ restorer' = "done"
    /\ UNCHANGED <<durableVars, processVars, storeVars, todo, restored, failed,
                   pollerVars, historyVars>>

\* waitReady: a ready tick can win the select against a cancelled context.
RestorerProceeds ==
    /\ restorer = "waiting"
    /\ Running
    /\ ready
    /\ restorer' = "restoring"
    /\ UNCHANGED <<durableVars, processVars, storeVars, todo, restored, failed,
                   pollerVars, historyVars>>

RestorerGivesUp ==
    /\ restorer = "waiting"
    /\ cancelled
    /\ RestorerStopped

\* RestoreSessionSet, one entry: the manager lists the tab as it starts.
RestoreEntry(t) ==
    /\ restorer = "restoring"
    /\ Open
    /\ t \in todo
    /\ todo' = todo \ {t}
    /\ \/ /\ live'     = live \cup {t}
          /\ restored' = restored \cup {t}
          /\ UNCHANGED failed
       \/ /\ failed'   = failed \cup {t}
          /\ UNCHANGED <<live, restored>>
    /\ UNCHANGED <<durableVars, phase, cancelled, ready, pending, storeVars,
                   restorer, pollerVars, historyVars>>

\* The manager closed, or the context ended under the call: return at once.
RestoreInterrupted ==
    /\ restorer = "restoring"
    /\ cancelled
    /\ RestorerStopped

\* The call returned, with every entry handled or with an error that is not
\* ErrManagerClosed (res is then empty), and the context check passed.
RestoreReturns ==
    /\ restorer = "restoring"
    /\ Open /\ ~cancelled
    /\ \/ todo = {}
       \/ RestoreErrors /\ restored = {} /\ failed = {}
    /\ restorer' = "arming"
    /\ UNCHANGED <<durableVars, processVars, storeVars, todo, restored, failed,
                   pollerVars, historyVars>>

NothingStarted == restored = {} /\ failed # {}

\* The arming decision.  An entry whose session failed beside others that
\* started is given up: the next save leaves it out.
ArmAfterRestore ==
    /\ restorer = "arming"
    /\ restorer' = "clearing"
    /\ IF NothingStarted
       THEN UNCHANGED <<armed, owed>>
       ELSE /\ armed' = ArmedAfterArm
            /\ owed'  = owed \ failed
    /\ UNCHANGED <<durableVars, processVars, keepFile, last, todo, restored,
                   failed, pollerVars, gone>>

\* fault: pending is cleared only by a restore that armed the store.
ClearPendingIfArmed ==
    /\ restorer = "clearing"
    /\ armed
    /\ restorer' = "done"
    /\ pending'  = FALSE
    /\ UNCHANGED <<durableVars, phase, cancelled, ready, live, storeVars, todo,
                   restored, failed, pollerVars, historyVars>>

ClearPending ==
    /\ restorer = "clearing"
    /\ restorer' = "done"
    /\ pending'  = FALSE
    /\ UNCHANGED <<durableVars, phase, cancelled, ready, live, storeVars, todo,
                   restored, failed, pollerVars, historyVars>>

-----------------------------------------------------------------------------
(* The poller: tabStore.persist at the end of a tick.                      *)

\* CaptureSessionSet.  A tick can still win the select after the cancel.
Capture ==
    /\ Running
    /\ poller = "idle"
    /\ armed
    /\ poller' = "captured"
    /\ shot'   = live
    /\ UNCHANGED <<durableVars, processVars, storeVars, restorerVars,
                   historyVars>>

\* The context check after the capture, or bytes equal to the last ones.
DropCapture ==
    /\ poller = "captured"
    /\ cancelled \/ shot = last
    /\ poller' = "idle"
    /\ shot'   = {}
    /\ UNCHANGED <<durableVars, processVars, storeVars, restorerVars,
                   historyVars>>

CaptureUnchecked  == TRUE               \* fault: no check after the capture
CaptureStillValid == ~cancelled

BeginWrite ==
    /\ poller = "captured"
    /\ CaptureStillValid
    /\ shot # last
    /\ poller' = "writing"
    /\ UNCHANGED <<durableVars, processVars, storeVars, restorerVars, shot,
                   historyVars>>

\* The rename of filesafe.WriteFile, and recordWrite on success.
CommitWrite ==
    /\ poller = "writing"
    /\ poller' = "idle"
    /\ shot'   = {}
    /\ file'   = shot
    /\ last'   = shot
    /\ owed'   = owed \cup (shot \ gone)
    /\ UNCHANGED <<aside, processVars, armed, keepFile, restorerVars, gone>>

LastMarkedSaved  == shot                \* fault: a failed write counts as saved
LastAfterFailure == last

\* WriteFile failed, or its context ended: last stays, the next pass retries.
FailWrite ==
    /\ poller = "writing"
    /\ poller' = "idle"
    /\ shot'   = {}
    /\ last'   = LastAfterFailure
    /\ UNCHANGED <<durableVars, processVars, armed, keepFile, restorerVars,
                   historyVars>>

-----------------------------------------------------------------------------
(* Shutdown: the pre-drain hook or newSessionShutdown cancels, then the    *)
(* manager is emptied.  The file is left to whatever a save already wrote. *)

CancelBase ==
    /\ phase = "serving"
    /\ phase'     = "draining"
    /\ cancelled' = TRUE
    /\ UNCHANGED <<durableVars, ready, pending, live, storeVars, restorerVars,
                   pollerVars, historyVars>>

CloseManager ==
    /\ phase = "draining"
    /\ phase' = "closing"
    /\ UNCHANGED <<durableVars, cancelled, ready, pending, live, storeVars,
                   restorerVars, pollerVars, historyVars>>

TearDown(t) ==
    /\ phase = "closing"
    /\ t \in live
    /\ live' = live \ {t}
    /\ UNCHANGED <<durableVars, phase, cancelled, ready, pending, storeVars,
                   restorerVars, pollerVars, historyVars>>

\* The process ends: a finished or overrun shutdown, a SIGKILL, a failed
\* listen.  A write under way is lost with its temporary file.
Die ==
    /\ phase # "down"
    /\ phase' = "down"
    /\ cancelled' = FALSE /\ ready' = FALSE /\ pending' = FALSE /\ live' = {}
    /\ armed' = FALSE /\ keepFile' = FALSE /\ last' = NoFile
    /\ restorer' = "none" /\ todo' = {} /\ restored' = {} /\ failed' = {}
    /\ poller' = "idle" /\ shot' = {}
    /\ gone' = {}
    /\ UNCHANGED <<durableVars, owed>>

-----------------------------------------------------------------------------
Restorer ==
    \/ RestorerProceeds \/ RestorerGivesUp
    \/ \E t \in Tab : RestoreEntry(t)
    \/ RestoreInterrupted \/ RestoreReturns
    \/ ArmAfterRestore \/ ClearPending

Poller ==
    \/ Capture \/ DropCapture \/ BeginWrite \/ CommitWrite \/ FailWrite

Next ==
    \/ LoadFile \/ LoadNothing \/ LoadUnreadable \/ LoadStuck
    \/ Serve \/ ReadinessChanges
    \/ \E t \in Tab : CreateTab(t) \/ CloseTab(t) \/ TearDown(t)
    \/ Restorer
    \/ Poller
    \/ CancelBase \/ CloseManager
    \/ Die

Spec == Init /\ [][Next]_vars

\* The restorer's goroutine is scheduled; the ticker fires; a write that is
\* retried for ever lands some time.  Nothing is assumed of the user, of the
\* install (ReadinessChanges), or of the process staying up.
Fairness ==
    /\ WF_vars(Restorer)
    /\ WF_vars(Capture) /\ WF_vars(DropCapture) /\ WF_vars(BeginWrite)
    /\ SF_vars(CommitWrite)

FairSpec == Spec /\ Fairness

-----------------------------------------------------------------------------
(* The promise.  The open set is settled while the server serves and the   *)
(* restore, if any, handled every entry; whether the store is armed is not *)
(* asked.  A capture taken while the context was live is a snapshot; one   *)
(* that finds the context cancelled is nothing.                            *)

Settled ==
    /\ phase = "serving"
    /\ restorer \notin {"waiting", "restoring", "arming"}

Ledger == INSTANCE TabLedger WITH
    Nothing  <- NoFile,
    ledger   <- file,
    settled  <- Settled,
    open     <- live,
    snapshot <- IF poller = "writing" \/ (poller = "captured" /\ ~cancelled)
                THEN shot ELSE NoFile

LedgerSpec == Ledger!LedgerSpec

\* The gate on creation, and what the restorer brings back behind it.
Gate == INSTANCE RestoreGate WITH open <- live

RestoreGateSpec == Gate!RestoreGateSpec

-----------------------------------------------------------------------------
(* Properties.                                                             *)

\* A tab that was ever saved, that the user did not close, that did not fail
\* to restart beside others and whose file was not set aside, is in tabs.json
\* whatever is interrupted: boot, restore, a save, shutdown (tabstate.go
\* "the shutdown guarantee"; tabrestore.go run).
OwedTabsAreSaved == owed \subseteq Entries(file)

\* Until the restore finished no page can add a tab beside what it brings
\* back (main.go, restorePending; routes.go, restorePendingGate).
NoTabBesideRestore == pending => live \subseteq Entries(last)

\* The state of affairs that makes the two above inductive, by part.

\* The context is cancelled exactly from the drain on, so an emptied manager is
\* never seen under a live one; nothing runs and nothing is armed before Serve.
ShutdownOrder ==
    /\ cancelled <=> phase \in {"draining", "closing"}
    /\ ~Running => /\ poller = "idle" /\ restorer = "none" /\ ~armed
                   /\ live = {} /\ failed = {} /\ restored = {}
    /\ phase = "down" => todo = {} /\ ~pending /\ ~keepFile

\* Only a store whose file it may replace is armed, only an armed one saves,
\* and the gate is shut until ClearPending.
ArmingOrder ==
    /\ armed \/ pending => ~keepFile
    /\ poller # "idle" => armed
    /\ armed /\ pending => restorer = "clearing"
    /\ restorer \in {"waiting", "restoring", "arming", "clearing"} => pending

\* The entries to restore are those of the file that was read.
TodoFromFile ==
    /\ phase = "starting" /\ pending => todo \subseteq Entries(last)
    /\ restorer \in {"waiting", "restoring"} => todo \subseteq Entries(last)

\* Before the store arms, an owed tab is live, still to be restored or failed, and
\* the gate lifts when no entry is left.
OwedWhileRestoring ==
    /\ ~pending \/ restorer \in {"arming", "clearing"} => todo = {}
    /\ (phase = "starting" \/ Open) /\ ~keepFile =>
          owed \subseteq live \cup todo \cup failed

\* Once it is armed, an owed tab is live, and the set on its way to disk holds
\* every owed tab and no tab that is not live but for those the user closed.
OwedWhileSaving ==
    /\ armed /\ Open => owed \subseteq live
    /\ poller = "writing" \/ (poller = "captured" /\ ~cancelled) =>
          owed \subseteq shot
    /\ poller # "idle" /\ Open => shot \ gone \subseteq live

\* What the store believes is on disk is on disk, so skipping a save of equal
\* bytes loses nothing, and the restore compares with the file it came from.
LastIsFile ==
    /\ phase = "down" => last = NoFile
    /\ phase # "down" /\ ~keepFile => last = file

\* A save under way while the gate is shut holds all that is live.
ShutGateSave == pending /\ poller # "idle" => live \subseteq shot

\* What holds whatever the engine reports, and what an error of its own breaks.
ServingInv ==
    /\ TypeOK /\ NoTabBesideRestore
    /\ ShutdownOrder /\ ArmingOrder /\ TodoFromFile /\ LastIsFile /\ ShutGateSave

OwedInv == OwedTabsAreSaved /\ OwedWhileRestoring /\ OwedWhileSaving

TabInv == ServingInv /\ OwedInv

\* Whatever tabs.json holds when the store could not move it aside is there
\* until the process ends (tabstate.go, keepFile).
StuckFileIsKept == [][keepFile /\ keepFile' => file' = file]_vars

\* Creation opens for good once kiro-cli stays usable under a server that stays
\* up, however often it was withdrawn before; and a restore that saw it usable
\* once ends whatever becomes of it, unless the process goes down
\* (tabrestore.go waitReady, run; the create gate waits on pending).
RestoreEnds ==
    /\ <>[](ready /\ phase = "serving") => <>[](~pending)
    /\ restorer \in {"restoring", "arming", "clearing"} ~> (~pending \/ cancelled)

\* A live set that stays as it is gets saved (sessionpollers.go; recordWrite
\* leaves last alone on a failure so that the next pass retries).
StableSetIsSaved ==
    \A s \in SUBSET Tab :
        <>[](armed /\ phase = "serving" /\ live = s) => <>[](file = s)
=============================================================================

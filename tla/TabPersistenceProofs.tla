------------------------ MODULE TabPersistenceProofs ------------------------
(***************************************************************************)
(* TabPersistence for every set of tabs, in two layers.  ServingInv, what  *)
(* the files, the phases and the goroutines keep whatever the engine       *)
(* reports, is inductive by itself.  OwedInv, that an owed tab is always   *)
(* held somewhere, is inductive on top of it when no restore of an open    *)
(* manager ends in an error: one that does breaks it (run                  *)
(* tab_persistence_errors), so the theorems that rest on OwedInv carry the *)
(* hypothesis ~RestoreErrors.                                              *)
(***************************************************************************)
EXTENDS TabPersistence, TLAPS

USE TabAssumption DEF SavedSet, Entries, Phases, Open, Running,
        RestorerStates, PollerStates, durableVars, processVars, storeVars,
        restorerVars, pollerVars, historyVars, NothingToRestore, CreateGateOpen,
        CaptureStillValid, LastAfterFailure

-----------------------------------------------------------------------------
(* What holds whatever the engine reports.                                 *)

LEMMA InitInv == Init => ServingInv /\ OwedInv
  BY DEF Init, ServingInv, TypeOK, NoTabBesideRestore, ShutdownOrder, ArmingOrder,
         TodoFromFile, LastIsFile, ShutGateSave, OwedInv, OwedTabsAreSaved,
         OwedWhileRestoring, OwedWhileSaving

\* Boot: the set to restore, the set last written and the verdict come from one file.
LEMMA BootServingInv ==
  ASSUME ServingInv,
         \/ LoadFile \/ LoadNothing \/ LoadUnreadable \/ LoadStuck
         \/ Serve \/ ReadinessChanges
  PROVE  ServingInv'
  <1> USE DEF ServingInv, TypeOK, NoTabBesideRestore, ShutdownOrder, ArmingOrder,
              TodoFromFile, LastIsFile, ShutGateSave
  <1>1. CASE LoadFile       BY <1>1 DEF LoadFile
  <1>2. CASE LoadNothing    BY <1>2 DEF LoadNothing
  <1>3. CASE LoadUnreadable BY <1>3 DEF LoadUnreadable
  <1>4. CASE LoadStuck      BY <1>4 DEF LoadStuck
  <1>5. CASE Serve          BY <1>5 DEF Serve, ArmedAfterArm
  <1>6. CASE ReadinessChanges BY <1>6 DEF ReadinessChanges
  <1>7. QED BY <1>1, <1>2, <1>3, <1>4, <1>5, <1>6

\* Requests: nothing is created before the gate opens.
LEMMA RequestServingInv ==
  ASSUME ServingInv, NEW t \in Tab, CreateTab(t) \/ CloseTab(t)
  PROVE  ServingInv'
  <1> USE DEF ServingInv, TypeOK, NoTabBesideRestore, ShutdownOrder, ArmingOrder,
              TodoFromFile, LastIsFile, ShutGateSave
  <1>1. CASE CreateTab(t) BY <1>1 DEF CreateTab
  <1>2. CASE CloseTab(t)  BY <1>2 DEF CloseTab
  <1>3. QED BY <1>1, <1>2

\* The restorer: only entries of the file join the live ones.
LEMMA RestorerServingInv ==
  ASSUME ServingInv, Restorer
  PROVE  ServingInv'
  <1> USE DEF ServingInv, TypeOK, NoTabBesideRestore, ShutdownOrder, ArmingOrder,
              TodoFromFile, LastIsFile, ShutGateSave
  <1>1. CASE RestorerProceeds  BY <1>1 DEF RestorerProceeds
  <1>2. CASE RestorerGivesUp   BY <1>2 DEF RestorerGivesUp, RestorerStopped
  <1>3. ASSUME NEW t \in Tab, RestoreEntry(t) PROVE ServingInv'
    BY <1>3 DEF RestoreEntry
  <1>4. CASE RestoreInterrupted
    BY <1>4 DEF RestoreInterrupted, RestorerStopped
  <1>5. CASE RestoreReturns    BY <1>5 DEF RestoreReturns
  <1>6. CASE ArmAfterRestore
    BY <1>6 DEF ArmAfterRestore, NothingStarted, ArmedAfterArm
  <1>7. CASE ClearPending      BY <1>7 DEF ClearPending
  <1>8. QED BY <1>1, <1>2, <1>3, <1>4, <1>5, <1>6, <1>7 DEF Restorer

\* The poller: what is written while the gate is shut holds all that is live.
LEMMA PollerServingInv ==
  ASSUME ServingInv, Poller
  PROVE  ServingInv'
  <1> USE DEF ServingInv, TypeOK, NoTabBesideRestore, ShutdownOrder, ArmingOrder,
              TodoFromFile, LastIsFile, ShutGateSave
  <1>1. CASE Capture     BY <1>1 DEF Capture
  <1>2. CASE DropCapture BY <1>2 DEF DropCapture
  <1>3. CASE BeginWrite  BY <1>3 DEF BeginWrite
  <1>4. CASE CommitWrite BY <1>4 DEF CommitWrite
  <1>5. CASE FailWrite   BY <1>5 DEF FailWrite
  <1>6. QED BY <1>1, <1>2, <1>3, <1>4, <1>5 DEF Poller

\* Shutdown: the manager is emptied only under a cancelled context.
LEMMA ShutdownServingInv ==
  ASSUME ServingInv, CancelBase \/ CloseManager \/ (\E t \in Tab : TearDown(t)) \/ Die
  PROVE  ServingInv'
  <1> USE DEF ServingInv, TypeOK, NoTabBesideRestore, ShutdownOrder, ArmingOrder,
              TodoFromFile, LastIsFile, ShutGateSave
  <1>1. CASE CancelBase   BY <1>1 DEF CancelBase
  <1>2. CASE CloseManager BY <1>2 DEF CloseManager
  <1>3. ASSUME NEW t \in Tab, TearDown(t) PROVE ServingInv'
    BY <1>3 DEF TearDown
  <1>4. CASE Die          BY <1>4 DEF Die
  <1>5. QED BY <1>1, <1>2, <1>3, <1>4

LEMMA NextServingInv ==
  ASSUME ServingInv, [Next]_vars
  PROVE  ServingInv'
  <1>1. CASE Next
    BY <1>1, BootServingInv, RequestServingInv, RestorerServingInv, PollerServingInv,
       ShutdownServingInv
       DEF Next
  <1>2. CASE UNCHANGED vars
    BY <1>2 DEF vars, ServingInv, TypeOK, NoTabBesideRestore, ShutdownOrder,
                ArmingOrder, TodoFromFile, LastIsFile, ShutGateSave
  <1>3. QED BY <1>1, <1>2

THEOREM ServingInductive == Spec => []ServingInv
  <1>1. ServingInv /\ [Next]_vars => ServingInv'
    BY NextServingInv
  <1>2. QED BY InitInv, <1>1, PTL DEF Spec

-----------------------------------------------------------------------------
(* Every owed tab is held somewhere, while no restore ends in an error.    *)

\* Boot: what an owed tab is owed by moves from the file to todo.
LEMMA BootOwedInv ==
  ASSUME ServingInv, ServingInv', OwedInv,
         \/ LoadFile \/ LoadNothing \/ LoadUnreadable \/ LoadStuck
         \/ Serve \/ ReadinessChanges
  PROVE  OwedInv'
  <1> USE DEF ServingInv, TypeOK, NoTabBesideRestore, ShutdownOrder, ArmingOrder,
              TodoFromFile, LastIsFile, ShutGateSave
  <1> USE DEF OwedInv, OwedTabsAreSaved, OwedWhileRestoring, OwedWhileSaving
  <1>1. CASE LoadFile       BY <1>1 DEF LoadFile
  <1>2. CASE LoadNothing    BY <1>2 DEF LoadNothing
  <1>3. CASE LoadUnreadable BY <1>3 DEF LoadUnreadable
  <1>4. CASE LoadStuck      BY <1>4 DEF LoadStuck
  <1>5. CASE Serve          BY <1>5 DEF Serve, ArmedAfterArm
  <1>6. CASE ReadinessChanges BY <1>6 DEF ReadinessChanges
  <1>7. QED BY <1>1, <1>2, <1>3, <1>4, <1>5, <1>6

\* Requests: a closed tab is owed no more, a created one is not owed yet.
LEMMA RequestOwedInv ==
  ASSUME ServingInv, ServingInv', OwedInv, NEW t \in Tab, CreateTab(t) \/ CloseTab(t)
  PROVE  OwedInv'
  <1> USE DEF ServingInv, TypeOK, NoTabBesideRestore, ShutdownOrder, ArmingOrder,
              TodoFromFile, LastIsFile, ShutGateSave
  <1> USE DEF OwedInv, OwedTabsAreSaved, OwedWhileRestoring, OwedWhileSaving
  <1>1. CASE CreateTab(t) BY <1>1 DEF CreateTab
  <1>2. CASE CloseTab(t)  BY <1>2 DEF CloseTab
  <1>3. QED BY <1>1, <1>2

\* The restorer: a tab leaves todo for live or for failed, and the arming
\* decision gives up the failed ones only when others started.
LEMMA RestorerOwedInv ==
  ASSUME ServingInv, ServingInv', OwedInv, ~RestoreErrors, Restorer
  PROVE  OwedInv'
  <1> USE DEF ServingInv, TypeOK, NoTabBesideRestore, ShutdownOrder, ArmingOrder,
              TodoFromFile, LastIsFile, ShutGateSave
  <1> USE DEF OwedInv, OwedTabsAreSaved, OwedWhileRestoring, OwedWhileSaving
  <1>1. CASE RestorerProceeds  BY <1>1 DEF RestorerProceeds
  <1>2. CASE RestorerGivesUp   BY <1>2 DEF RestorerGivesUp, RestorerStopped
  <1>3. ASSUME NEW t \in Tab, RestoreEntry(t) PROVE OwedInv'
    BY <1>3 DEF RestoreEntry
  <1>4. CASE RestoreInterrupted
    BY <1>4 DEF RestoreInterrupted, RestorerStopped
  <1>5. CASE RestoreReturns    BY <1>5 DEF RestoreReturns
  <1>6. CASE ArmAfterRestore
    BY <1>6 DEF ArmAfterRestore, NothingStarted, ArmedAfterArm
  <1>7. CASE ClearPending      BY <1>7 DEF ClearPending
  <1>8. QED BY <1>1, <1>2, <1>3, <1>4, <1>5, <1>6, <1>7 DEF Restorer

\* The poller: what reaches the disk holds every owed tab, because a capture
\* that could miss one is dropped at the context check.
LEMMA PollerOwedInv ==
  ASSUME ServingInv, ServingInv', OwedInv, Poller
  PROVE  OwedInv'
  <1> USE DEF ServingInv, TypeOK, NoTabBesideRestore, ShutdownOrder, ArmingOrder,
              TodoFromFile, LastIsFile, ShutGateSave
  <1> USE DEF OwedInv, OwedTabsAreSaved, OwedWhileRestoring, OwedWhileSaving
  <1>1. CASE Capture     BY <1>1 DEF Capture
  <1>2. CASE DropCapture BY <1>2 DEF DropCapture
  <1>3. CASE BeginWrite  BY <1>3 DEF BeginWrite
  <1>4. CASE CommitWrite BY <1>4 DEF CommitWrite
  <1>5. CASE FailWrite   BY <1>5 DEF FailWrite
  <1>6. QED BY <1>1, <1>2, <1>3, <1>4, <1>5 DEF Poller

\* Shutdown: the owed tabs are in the file, and a capture of an emptied manager
\* is worth nothing.
LEMMA ShutdownOwedInv ==
  ASSUME ServingInv, ServingInv', OwedInv,
         CancelBase \/ CloseManager \/ (\E t \in Tab : TearDown(t)) \/ Die
  PROVE  OwedInv'
  <1> USE DEF ServingInv, TypeOK, NoTabBesideRestore, ShutdownOrder, ArmingOrder,
              TodoFromFile, LastIsFile, ShutGateSave
  <1> USE DEF OwedInv, OwedTabsAreSaved, OwedWhileRestoring, OwedWhileSaving
  <1>1. CASE CancelBase   BY <1>1 DEF CancelBase
  <1>2. CASE CloseManager BY <1>2 DEF CloseManager
  <1>3. ASSUME NEW t \in Tab, TearDown(t) PROVE OwedInv'
    BY <1>3 DEF TearDown
  <1>4. CASE Die          BY <1>4 DEF Die
  <1>5. QED BY <1>1, <1>2, <1>3, <1>4

LEMMA NextOwedInv ==
  ASSUME ServingInv, ServingInv', OwedInv, ~RestoreErrors, [Next]_vars
  PROVE  OwedInv'
  <1>1. CASE Next
    BY <1>1, BootOwedInv, RequestOwedInv, RestorerOwedInv, PollerOwedInv,
       ShutdownOwedInv
       DEF Next
  <1>2. CASE UNCHANGED vars
    BY <1>2 DEF vars, ServingInv, TypeOK, NoTabBesideRestore, ShutdownOrder,
                ArmingOrder, TodoFromFile, LastIsFile, ShutGateSave,
                OwedInv, OwedTabsAreSaved, OwedWhileRestoring, OwedWhileSaving
  <1>3. QED BY <1>1, <1>2

THEOREM Invariance ==
  ASSUME ~RestoreErrors
  PROVE  Spec => []TabInv
  <1>1. ServingInv /\ ServingInv' /\ OwedInv /\ [Next]_vars => OwedInv'
    BY NextOwedInv
  <1>2. Spec => []OwedInv
    BY InitInv, <1>1, ServingInductive, PTL DEF Spec
  <1>3. QED BY <1>2, ServingInductive, PTL DEF TabInv

-----------------------------------------------------------------------------
(* The properties.                                                         *)

\* Every variable keeps its type, whatever the engine reports.
THEOREM TypeCorrect == Spec => []TypeOK
  <1>1. ServingInv => TypeOK
    BY DEF ServingInv
  <1>2. QED BY ServingInductive, <1>1, PTL

\* No interruption of a boot, a restore, a save or a shutdown loses a tab that
\* tabs.json held.
THEOREM SavedTabsSurvive ==
  ASSUME ~RestoreErrors
  PROVE  Spec => []OwedTabsAreSaved
  <1>1. TabInv => OwedTabsAreSaved
    BY DEF TabInv, OwedInv
  <1>2. QED BY Invariance, <1>1, PTL

\* No tab joins the restored ones before the restore finished,
\* whatever the engine reports.
THEOREM RestoreIsAlone == Spec => []NoTabBesideRestore
  <1>1. ServingInv => NoTabBesideRestore
    BY DEF ServingInv
  <1>2. QED BY ServingInductive, <1>1, PTL

\* A file that could not be moved aside is not written while the run lasts,
\* whatever the engine reports.
THEOREM StuckFileSafe == Spec => StuckFileIsKept
  <1>1. ServingInv /\ [Next]_vars => [keepFile /\ keepFile' => file' = file]_vars
    <2> SUFFICES ASSUME ServingInv, Next, keepFile, keepFile'
                 PROVE  file' = file
      BY DEF vars
    <2>1. phase # "down" /\ poller = "idle"
      BY DEF ServingInv, ShutdownOrder, ArmingOrder
    <2>2. QED
      BY <2>1 DEF Next, LoadFile, LoadNothing, LoadUnreadable, LoadStuck, Serve,
             ReadinessChanges, CreateTab, CloseTab, TearDown, Restorer,
             RestorerProceeds, RestorerGivesUp, RestoreEntry,
             RestoreInterrupted, RestoreReturns, ArmAfterRestore, ClearPending,
             RestorerStopped, Poller, Capture, DropCapture, BeginWrite,
             CommitWrite, FailWrite, CancelBase, CloseManager, Die
  <1>2. QED BY <1>1, ServingInductive, PTL DEF Spec, StuckFileIsKept

-----------------------------------------------------------------------------
(* The refinement: the ledger is written only with a set that was wholly   *)
(* the user's.  Each step is a step of TabLedger or leaves it alone.       *)

LEMMA LedgerInitial == Init => Ledger!LedgerInit
  BY DEF Init, Ledger!LedgerInit, Settled

LEMMA LedgerStep ==
  ASSUME ServingInv, [Next]_vars
  PROVE  [Ledger!LedgerNext]_(Ledger!ledgerVars)
  <1> USE DEF Ledger!LedgerNext, Ledger!ledgerVars, Settled
  <1> USE DEF ServingInv, TypeOK, ShutdownOrder, ArmingOrder, LastIsFile,
              NoTabBesideRestore
  <1>1. CASE LoadFile       BY <1>1 DEF LoadFile
  <1>2. CASE LoadNothing    BY <1>2 DEF LoadNothing
  <1>3. CASE LoadUnreadable BY <1>3 DEF LoadUnreadable, Ledger!SetAside
  <1>4. CASE LoadStuck      BY <1>4 DEF LoadStuck
  <1>5. CASE Serve          BY <1>5 DEF Serve, ArmedAfterArm, Ledger!Settle
  <1>6. CASE ReadinessChanges BY <1>6 DEF ReadinessChanges
  <1>7. ASSUME NEW t \in Tab, CreateTab(t) \/ CloseTab(t) \/ TearDown(t)
        PROVE  [Ledger!LedgerNext]_(Ledger!ledgerVars)
    BY <1>7 DEF CreateTab, CloseTab, TearDown, Ledger!Move
  <1>8. ASSUME NEW t \in Tab, RestoreEntry(t)
        PROVE  [Ledger!LedgerNext]_(Ledger!ledgerVars)
    BY <1>8 DEF RestoreEntry, Ledger!Move
  <1>9. CASE RestorerProceeds \/ RestorerGivesUp \/ RestoreInterrupted
    BY <1>9 DEF RestorerProceeds, RestorerGivesUp, RestoreInterrupted,
                RestorerStopped
  <1>10. CASE RestoreReturns BY <1>10 DEF RestoreReturns
  <1>11. CASE ArmAfterRestore
    BY <1>11 DEF ArmAfterRestore, ArmedAfterArm, Ledger!Settle
  <1>12. CASE ClearPending  BY <1>12 DEF ClearPending
  <1>13. CASE Capture       BY <1>13 DEF Capture, Ledger!Snapshot
  <1>14. CASE DropCapture   BY <1>14 DEF DropCapture, Ledger!Forget
  <1>15. CASE BeginWrite    BY <1>15 DEF BeginWrite
  <1>16. CASE CommitWrite   BY <1>16 DEF CommitWrite, Ledger!Record
  <1>17. CASE FailWrite     BY <1>17 DEF FailWrite, Ledger!Forget
  <1>18. CASE CancelBase    BY <1>18 DEF CancelBase, Ledger!Unsettle
  <1>19. CASE CloseManager  BY <1>19 DEF CloseManager
  <1>20. CASE Die           BY <1>20 DEF Die, Ledger!Unsettle
  <1>21. CASE UNCHANGED vars BY <1>21 DEF vars
  <1>22. QED
    BY <1>1, <1>2, <1>3, <1>4, <1>5, <1>6, <1>7, <1>8, <1>9, <1>10, <1>11,
       <1>12, <1>13, <1>14, <1>15, <1>16, <1>17, <1>18, <1>19, <1>20, <1>21
       DEF Next, Restorer, Poller

\* Every save is a snapshot of a settled set, and a run settles only on tabs
\* the file itself brought back, whatever the engine reports.
THEOREM ImplementsLedger == Spec => LedgerSpec
  <1>1. ServingInv /\ [Next]_vars => [Ledger!LedgerNext]_(Ledger!ledgerVars)
    BY LedgerStep
  <1>2. QED
    BY LedgerInitial, <1>1, ServingInductive, PTL
       DEF Spec, LedgerSpec, Ledger!LedgerSpec
-----------------------------------------------------------------------------
(* The refinement: the restore is over when every entry was handled, and    *)
(* until then nothing but its entries opens.                               *)

\* An entry is handled before it is live.
LiveWasHandled == live \cap todo = {}

LEMMA LiveWasHandledStep ==
  ASSUME TabInv, LiveWasHandled, ~RestoreErrors, [Next]_vars
  PROVE  LiveWasHandled'
  <1> USE DEF LiveWasHandled, TabInv, ServingInv, OwedInv, TypeOK,
              ShutdownOrder, ArmingOrder, OwedWhileRestoring
  <1>1. CASE LoadFile       BY <1>1 DEF LoadFile
  <1>2. CASE LoadNothing \/ LoadUnreadable \/ LoadStuck
    BY <1>2 DEF LoadNothing, LoadUnreadable, LoadStuck
  <1>3. CASE Serve \/ ReadinessChanges
    BY <1>3 DEF Serve, ReadinessChanges
  <1>4. ASSUME NEW t \in Tab, CreateTab(t) \/ CloseTab(t) \/ TearDown(t)
        PROVE  LiveWasHandled'
    BY <1>4 DEF CreateTab, CloseTab, TearDown
  <1>5. ASSUME NEW t \in Tab, RestoreEntry(t) PROVE LiveWasHandled'
    BY <1>5 DEF RestoreEntry
  <1>6. CASE RestorerProceeds \/ RestorerGivesUp \/ RestoreInterrupted
    BY <1>6 DEF RestorerProceeds, RestorerGivesUp, RestoreInterrupted, RestorerStopped
  <1>7. CASE RestoreReturns  BY <1>7 DEF RestoreReturns
  <1>8. CASE ArmAfterRestore BY <1>8 DEF ArmAfterRestore
  <1>9. CASE ClearPending    BY <1>9 DEF ClearPending
  <1>10. CASE Poller
    BY <1>10 DEF Poller, Capture, DropCapture, BeginWrite, CommitWrite, FailWrite
  <1>11. CASE CancelBase \/ CloseManager
    BY <1>11 DEF CancelBase, CloseManager
  <1>12. CASE Die            BY <1>12 DEF Die
  <1>13. CASE UNCHANGED vars BY <1>13 DEF vars
  <1>14. QED
    BY <1>1, <1>2, <1>3, <1>4, <1>5, <1>6, <1>7, <1>8, <1>9, <1>10, <1>11, <1>12,
       <1>13
       DEF Next, Restorer

LEMMA GateInitial == Init => Gate!GateInit /\ LiveWasHandled
  BY DEF Init, Gate!GateInit, LiveWasHandled

LEMMA GateStep ==
  ASSUME TabInv, LiveWasHandled, [Next]_vars
  PROVE  [Gate!GateNext]_(Gate!gateVars)
  <1> USE DEF Gate!GateNext, Gate!gateVars
  <1> USE DEF LiveWasHandled, TabInv, ServingInv, OwedInv, TypeOK,
              ShutdownOrder, ArmingOrder, OwedWhileRestoring
  <1>1. CASE LoadFile
    <2>1. Gate!Reboot
      BY <1>1 DEF LoadFile, Gate!Reboot
    <2>2. QED BY <2>1
  <1>2. CASE Die
    <2>1. Gate!Reboot
      BY <1>2 DEF Die, Gate!Reboot
    <2>2. QED BY <2>1
  <1>3. ASSUME NEW t \in Tab, CreateTab(t) PROVE Gate!OpenNew(t)
    BY <1>3 DEF CreateTab, Gate!OpenNew
  <1>4. ASSUME NEW t \in Tab, CloseTab(t) \/ TearDown(t) PROVE Gate!Close(t)
    BY <1>4 DEF CloseTab, TearDown, Gate!Close
  <1>5. ASSUME NEW t \in Tab, RestoreEntry(t) PROVE Gate!Restore(t)
    BY <1>5 DEF RestoreEntry, Gate!Restore
  <1>6. CASE ClearPending
    <2>1. Gate!Lift
      BY <1>6 DEF ClearPending, Gate!Lift
    <2>2. QED BY <2>1
  <1>7. CASE \/ LoadNothing \/ LoadUnreadable \/ LoadStuck \/ Serve \/ ReadinessChanges
             \/ CancelBase \/ CloseManager
    BY <1>7 DEF LoadNothing, LoadUnreadable, LoadStuck, Serve, ReadinessChanges,
         CancelBase, CloseManager
  <1>8. CASE \/ RestorerProceeds \/ RestorerGivesUp \/ RestoreInterrupted
             \/ RestoreReturns \/ ArmAfterRestore
    BY <1>8 DEF RestorerProceeds, RestorerGivesUp, RestoreInterrupted, RestorerStopped,
         RestoreReturns, ArmAfterRestore
  <1>9. CASE Poller
    BY <1>9 DEF Poller, Capture, DropCapture, BeginWrite, CommitWrite, FailWrite
  <1>10. CASE UNCHANGED vars
    BY <1>10 DEF vars
  <1>11. QED
    BY <1>1, <1>2, <1>3, <1>4, <1>5, <1>6, <1>7, <1>8, <1>9, <1>10 DEF Next, Restorer

\* What the restorer and the requests do to the tabs is what the gate promises: while
\* the restore is pending only its entries open, each once (tabRestorer.run,
\* restorePendingGate).
THEOREM ImplementsGate ==
  ASSUME ~RestoreErrors
  PROVE  Spec => RestoreGateSpec
  <1>1. TabInv /\ LiveWasHandled /\ [Next]_vars => LiveWasHandled'
    BY LiveWasHandledStep
  <1>2. TabInv /\ LiveWasHandled /\ [Next]_vars => [Gate!GateNext]_(Gate!gateVars)
    BY GateStep
  <1>3. QED
    BY GateInitial, <1>1, <1>2, Invariance, PTL
       DEF Spec, RestoreGateSpec, Gate!RestoreGateSpec
=============================================================================

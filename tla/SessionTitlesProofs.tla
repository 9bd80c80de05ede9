-------------------------- MODULE SessionTitlesProofs --------------------------
(***************************************************************************)
(* SessionTitles for every set of tabs and sessions, with and without file *)
(* errors: SyncInv is inductive, and the type invariant and the four       *)
(* safety properties follow from it.                                       *)
(***************************************************************************)
EXTENDS SessionTitles, TLAPS

USE SessionAssumption DEF Session, OptSession, NoSessions

\* A pass past the directory is at a tab, or between tabs.
PassOrder ==
    /\ pass = "alias" => current \in TabId /\ pairs[current] # None
    /\ pass = "idle" => pairs = NoSessions

\* The tabs the pass has read of and not settled yet.
UnderWay == todo \cup {t \in TabId : pass = "alias" /\ t = current}

\* What is on record of a tab - a file, a hook, a seed, a directory entry, a memo -
\* is of a tab that was opened, and a tab is opened once.
OpenedOnce ==
    \A t \in TabId :
        held[t] = {} =>
            /\ t \notin listed /\ t \notin UnderWay
            /\ mapping[t] = None /\ hook[t] = None /\ seeds[t] = None
            /\ pushed[t] = None /\ aliased[t] = None /\ pairs[t] = None
            /\ title[t] = None /\ alias[t] = None

\* The liveness snapshot is younger than the entries it judges.
SnapshotCovers ==
    pass \in {"sync", "alias"} => listed \cap UnderWay \subseteq snap

\* A tab in the making has its handle, a listed one keeps it.
HandleKept ==
    /\ listed \subseteq minted
    /\ \A t \in built : held[t] = {} => t \in minted

Handles == PassOrder /\ OpenedOnce /\ SnapshotCovers /\ HandleKept

\* A session on record of a tab was its own; a step comes with its launcher.
OwnSessions ==
    \A t \in TabId :
        /\ {holds[t], mapping[t], hook[t], seeds[t], pairs[t], mapped[t], alias[t]}
               \subseteq held[t] \cup {None}
        /\ \A s \in held[t] \cap Step : Launcher[s] \in held[t]

\* The memos of a listed tab are what the manager has.
MemosHonest ==
    \A t \in listed :
        /\ pushed[t] = title[t]
        /\ aliased[t] \in {None, alias[t]}
        /\ pairs[t] # None => title[t] \in {None, pairs[t]}

Records == OwnSessions /\ MemosHonest /\ TitleMatchesPairing

-----------------------------------------------------------------------------
(* Types.                                                                  *)

LEMMA FlagsInit == Init => FlagsOK
  BY DEF Init, FlagsOK

LEMMA FlagsStep == FlagsOK /\ [Next]_vars => FlagsOK'
  BY DEF FlagsOK, Next, vars, dirVars, restoreVars, Pass, User, Kiro, Restore,
         ReadStateDir, StateDirUnreadable, TakeSnapshot, ForgetEntry, EntryUnread,
         SyncOne, SyncAlias, Publish, BuildTab, ListTab, CloseTab,
         SwitchConversation, HookFires, HookWrites, DirVanishes, Seed, EndRestore

LEMMA TypeInit == Init => TypeOK
  <1> SUFFICES ASSUME Init PROVE TypeOK
    OBVIOUS
  <1>1. PICK r \in SUBSET TabId, c \in [TabId -> Conv] :
           /\ built = r /\ listed = r /\ minted = r
           /\ holds = [t \in TabId |-> IF t \in r THEN c[t] ELSE None]
           /\ alias = holds /\ seeds = holds
           /\ held  = [t \in TabId |-> IF t \in r THEN {c[t]} ELSE {}]
    BY DEF Init
  <1>2. holds \in [TabId -> OptSession] /\ held \in [TabId -> SUBSET Session]
    BY <1>1
  <1>3. QED BY <1>1, <1>2, FlagsInit DEF Init, TypeOK, PassStates

\* What the record of a tab resolves to.
LEMMA ResolvedType ==
  ASSUME NEW s \in Session
  PROVE  Resolved(s) \subseteq Session /\ TitlesOf(s) \subseteq OptSession
  BY DEF Resolved, TitlesOf

LEMMA TypeStep == TypeOK /\ [Next]_vars => TypeOK'
  <1> SUFFICES ASSUME TypeOK, [Next]_vars PROVE TypeOK'
    OBVIOUS
  <1> USE DEF TypeOK, PassStates, dirVars, kiroVars, syncVars, managerVars,
              restoreVars, passVars
  <1>0. FlagsOK'
    BY FlagsStep
  <1>1. CASE ReadStateDir
    BY <1>0, <1>1 DEF ReadStateDir, DirEntries
  <1>2. CASE StateDirUnreadable \/ TakeSnapshot
    BY <1>0, <1>2 DEF StateDirUnreadable, TakeSnapshot
  <1>3. ASSUME NEW t \in TabId, ForgetEntry(t) \/ EntryUnread(t) PROVE TypeOK'
    BY <1>0, <1>3 DEF ForgetEntry, EntryUnread, Forget
  <1>4. ASSUME NEW t \in TabId, SyncOne(t) PROVE TypeOK'
    BY <1>0, <1>4, ResolvedType DEF SyncOne, PushTitle, Forget
  <1>5. CASE SyncAlias
    BY <1>0, <1>5 DEF SyncAlias, AliasMemo
  <1>6. CASE Publish
    BY <1>0, <1>6 DEF Publish, PrunedAliases
  <1>7. ASSUME NEW t \in TabId, BuildTab(t) \/ ListTab(t) \/ CloseTab(t)
        PROVE  TypeOK'
    BY <1>0, <1>7 DEF BuildTab, ListTab, CloseTab
  <1>8. ASSUME NEW t \in TabId, NEW c \in Conv, SwitchConversation(t, c)
        PROVE  TypeOK'
    BY <1>0, <1>8 DEF SwitchConversation
  <1>9. ASSUME NEW t \in TabId, NEW s \in Session, HookFires(t, s) PROVE TypeOK'
    BY <1>0, <1>9 DEF HookFires
  <1>10. ASSUME NEW t \in TabId, HookWrites(t) \/ Seed(t) PROVE TypeOK'
    BY <1>0, <1>10 DEF HookWrites, Seed
  <1>11. CASE DirVanishes \/ EndRestore
    BY <1>0, <1>11 DEF DirVanishes, EndRestore
  <1>12. CASE UNCHANGED vars
    BY <1>0, <1>12 DEF vars
  <1>13. QED
    BY <1>1, <1>2, <1>3, <1>4, <1>5, <1>6, <1>7, <1>8, <1>9, <1>10, <1>11, <1>12
       DEF Next, Pass, User, Kiro, Restore

-----------------------------------------------------------------------------
(* Handles.                                                                *)

LEMMA RestoredInit ==
  ASSUME Init
  PROVE  /\ built = listed /\ minted = listed
         /\ alias = holds /\ seeds = holds
         /\ \A t \in TabId :
               \/ t \notin listed /\ holds[t] = None /\ held[t] = {}
               \/ t \in listed /\ holds[t] \in Conv /\ held[t] = {holds[t]}
  <1>1. PICK r \in SUBSET TabId, c \in [TabId -> Conv] :
           /\ built = r /\ listed = r /\ minted = r
           /\ holds = [t \in TabId |-> IF t \in r THEN c[t] ELSE None]
           /\ alias = holds /\ seeds = holds
           /\ held  = [t \in TabId |-> IF t \in r THEN {c[t]} ELSE {}]
    BY DEF Init
  <1>2. QED BY <1>1

LEMMA HandlesInit == Init => Handles
  <1> SUFFICES ASSUME Init PROVE Handles
    OBVIOUS
  <1>1. PassOrder /\ SnapshotCovers /\ HandleKept
    BY RestoredInit DEF Init, PassOrder, SnapshotCovers, HandleKept
  <1>2. OpenedOnce
    BY RestoredInit DEF Init, OpenedOnce, UnderWay
  <1>3. QED BY <1>1, <1>2 DEF Handles

LEMMA HandlesStep == TypeOK /\ Handles /\ [Next]_vars => Handles'
  <1> SUFFICES ASSUME TypeOK, Handles, [Next]_vars PROVE Handles'
    OBVIOUS
  <1> USE DEF TypeOK, PassStates, Handles, PassOrder, OpenedOnce, SnapshotCovers,
              UnderWay, HandleKept, dirVars, kiroVars, syncVars, managerVars,
              restoreVars, passVars
  <1>1. CASE ReadStateDir
    BY <1>1 DEF ReadStateDir, DirEntries
  <1>2. CASE StateDirUnreadable
    BY <1>2 DEF StateDirUnreadable
  <1>3. CASE TakeSnapshot
    BY <1>3 DEF TakeSnapshot
  <1>4. ASSUME NEW t \in TabId, ForgetEntry(t) PROVE Handles'
    BY <1>4 DEF ForgetEntry, MustForget, Forget
  <1>5. ASSUME NEW t \in TabId, EntryUnread(t) PROVE Handles'
    BY <1>5 DEF EntryUnread
  <1>6. ASSUME NEW t \in TabId, SyncOne(t) PROVE Handles'
    BY <1>6, ResolvedType DEF SyncOne, PushTitle, Forget, MustForget
  <1>7. CASE SyncAlias
    BY <1>7 DEF SyncAlias, AliasMemo, AliasFree
  <1>8. CASE Publish
    BY <1>8 DEF Publish, PrunedAliases
  <1>9. ASSUME NEW t \in TabId, BuildTab(t) PROVE Handles'
    BY <1>9 DEF BuildTab
  <1>10. ASSUME NEW t \in TabId, ListTab(t) PROVE Handles'
    <2>1. held'[t] # {} /\ \A u \in TabId \ {t} : held'[u] = held[u]
      BY <1>10 DEF ListTab
    <2>2. PassOrder'
      BY <1>10 DEF ListTab
    <2>3. OpenedOnce'
      BY <1>10, <2>1 DEF ListTab
    <2>4. SnapshotCovers'
      BY <1>10 DEF ListTab
    <2>5. HandleKept'
      BY <1>10, <2>1 DEF ListTab
    <2>6. QED BY <2>2, <2>3, <2>4, <2>5
  <1>11. ASSUME NEW t \in TabId, CloseTab(t) PROVE Handles'
    BY <1>11 DEF CloseTab
  <1>12. ASSUME NEW t \in TabId, NEW c \in Conv, SwitchConversation(t, c)
         PROVE  Handles'
    BY <1>12 DEF SwitchConversation
  <1>13. ASSUME NEW t \in TabId, NEW s \in Session, HookFires(t, s) PROVE Handles'
    BY <1>13 DEF HookFires
  <1>14. ASSUME NEW t \in TabId, HookWrites(t) PROVE Handles'
    BY <1>14 DEF HookWrites
  <1>15. ASSUME NEW t \in TabId, Seed(t) PROVE Handles'
    BY <1>15 DEF Seed
  <1>16. CASE DirVanishes \/ EndRestore
    BY <1>16 DEF DirVanishes, EndRestore
  <1>17. CASE UNCHANGED vars
    BY <1>17 DEF vars
  <1>18. QED
    BY <1>1, <1>2, <1>3, <1>4, <1>5, <1>6, <1>7, <1>8, <1>9, <1>10, <1>11, <1>12,
       <1>13, <1>14, <1>15, <1>16, <1>17 DEF Next, Pass, User, Kiro, Restore

-----------------------------------------------------------------------------
(* Sessions, titles and aliases.                                           *)

LEMMA RecordsInit == Init => Records
  <1> SUFFICES ASSUME Init PROVE Records
    OBVIOUS
  <1>1. OwnSessions
    <2> SUFFICES ASSUME NEW t \in TabId
                 PROVE  /\ {holds[t], mapping[t], hook[t], seeds[t], pairs[t],
                            mapped[t], alias[t]} \subseteq held[t] \cup {None}
                        /\ \A s \in held[t] \cap Step : Launcher[s] \in held[t]
      BY Zenon DEF OwnSessions
    <2>1. /\ mapping[t] = None /\ hook[t] = None /\ pairs[t] = None
          /\ mapped[t] = None
      BY DEF Init
    <2>2. seeds[t] = holds[t] /\ alias[t] = holds[t]
      BY RestoredInit
    <2>3. QED BY <2>1, <2>2, RestoredInit
  <1>2. MemosHonest /\ TitleMatchesPairing
    BY TypeInit DEF Init, TypeOK, MemosHonest, TitleMatchesPairing
  <1>3. QED BY <1>1, <1>2 DEF Records

LEMMA RecordsStep ==
  TypeOK /\ Handles /\ Records /\ [Next]_vars => Records'
  <1> SUFFICES ASSUME TypeOK, Handles, Records, [Next]_vars PROVE Records'
    OBVIOUS
  <1> USE DEF TypeOK, PassStates, Handles, PassOrder, OpenedOnce, SnapshotCovers,
              UnderWay, HandleKept, Records, OwnSessions, MemosHonest,
              TitleMatchesPairing, dirVars, kiroVars, syncVars, managerVars,
              restoreVars, passVars
  <1>1. CASE ReadStateDir
    BY <1>1 DEF ReadStateDir, DirEntries
  <1>2. CASE StateDirUnreadable
    BY <1>2 DEF StateDirUnreadable
  <1>3. CASE TakeSnapshot
    BY <1>3 DEF TakeSnapshot
  <1>4. ASSUME NEW t \in TabId, ForgetEntry(t) PROVE Records'
    BY <1>4 DEF ForgetEntry, MustForget, Forget
  <1>5. ASSUME NEW t \in TabId, EntryUnread(t) PROVE Records'
    BY <1>5 DEF EntryUnread
  <1>6. ASSUME NEW t \in TabId, SyncOne(t) PROVE Records'
    <2>1. PICK s \in Resolved(mapping[t]) : \E ti \in TitlesOf(s) :
             /\ IF NothingToPush(t, s, ti)
                THEN UNCHANGED <<title, pushed, minted, mapping>>
                ELSE PushTitle(t, ti)
             /\ pairs' = [pairs EXCEPT ![t] = s]
      BY <1>6 DEF SyncOne
    <2>2. PICK ti \in TitlesOf(s) :
             /\ IF NothingToPush(t, s, ti)
                THEN UNCHANGED <<title, pushed, minted, mapping>>
                ELSE PushTitle(t, ti)
             /\ pairs' = [pairs EXCEPT ![t] = s]
      BY <2>1
    <2>3. /\ mapping[t] # None /\ mapping[t] \in held[t]
          /\ s \in Session /\ s \in held[t] /\ ti \in {None, s}
      BY <1>6 DEF SyncOne, Resolved, TitlesOf
    <2>4. pass' = "alias"
      BY <1>6 DEF SyncOne
    <2>5. /\ UNCHANGED <<hook, holds, seeds, mapped, alias, held, listed, aliased>>
          /\ \A u \in TabId : mapping'[u] \in {None, mapping[u]}
      BY <1>6, <2>2 DEF SyncOne, PushTitle, Forget
    <2>6. OwnSessions'
      BY <2>2, <2>3, <2>5
    <2>7. MemosHonest'
      BY <2>2, <2>3, <2>5 DEF NothingToPush, PushTitle
    <2>8. QED BY <2>4, <2>6, <2>7
  <1>7. CASE SyncAlias
    BY <1>7 DEF SyncAlias, AliasMemo, AliasFree
  <1>8. CASE Publish
    BY <1>8 DEF Publish, PrunedAliases
  <1>9. ASSUME NEW t \in TabId, BuildTab(t) PROVE Records'
    BY <1>9 DEF BuildTab
  <1>10. ASSUME NEW t \in TabId, ListTab(t) PROVE Records'
    BY <1>10 DEF ListTab
  <1>11. ASSUME NEW t \in TabId, CloseTab(t) PROVE Records'
    BY <1>11 DEF CloseTab
  <1>12. ASSUME NEW t \in TabId, NEW c \in Conv, SwitchConversation(t, c)
         PROVE  Records'
    BY <1>12 DEF SwitchConversation
  <1>13. ASSUME NEW t \in TabId, NEW s \in Session, HookFires(t, s) PROVE Records'
    BY <1>13 DEF HookFires
  <1>14. ASSUME NEW t \in TabId, HookWrites(t) PROVE Records'
    BY <1>14 DEF HookWrites
  <1>15. ASSUME NEW t \in TabId, Seed(t) PROVE Records'
    BY <1>15 DEF Seed
  <1>16. CASE DirVanishes \/ EndRestore
    BY <1>16 DEF DirVanishes, EndRestore
  <1>17. CASE UNCHANGED vars
    BY <1>17 DEF vars
  <1>18. QED
    BY <1>1, <1>2, <1>3, <1>4, <1>5, <1>6, <1>7, <1>8, <1>9, <1>10, <1>11, <1>12,
       <1>13, <1>14, <1>15, <1>16, <1>17 DEF Next, Pass, User, Kiro, Restore

-----------------------------------------------------------------------------
(* The invariant, and what follows.                                        *)

SyncInv == TypeOK /\ Handles /\ Records

\* SyncInv, the strengthening that the properties need, holds throughout.
THEOREM SyncInductive == Spec => []SyncInv
  <1>1. Init => SyncInv
    BY TypeInit, HandlesInit, RecordsInit DEF SyncInv
  <1>2. SyncInv /\ [Next]_vars => SyncInv'
    BY TypeStep, HandlesStep, RecordsStep DEF SyncInv
  <1>3. QED BY <1>1, <1>2, PTL DEF Spec

\* Every variable of the title sync keeps its type (sessiontitle.go).
THEOREM TypeCorrect == Spec => []TypeOK
  BY SyncInductive, PTL DEF SyncInv

\* No pass takes a live tab's handle from it, whatever opens, closes or writes
\* between its reads (sessionTitleSync.pass).
THEOREM HandleOutlivesPass == Spec => []LiveHandleKept
  <1>1. SyncInv => LiveHandleKept
    BY DEF SyncInv, Handles, HandleKept, LiveHandleKept
  <1>2. QED BY <1>1, SyncInductive, PTL

\* What a tab would be saved to resume is a session its own kiro-cli was in
\* (tabstate.go persist; tabSession).
THEOREM SavedResumeIsOwn == Spec => []ResumesOwnSession
  <1>1. SyncInv => ResumesOwnSession
    BY DEF SyncInv, TypeOK, Records, OwnSessions, ResumesOwnSession, ResumeOf
  <1>2. QED BY <1>1, SyncInductive, PTL

\* Between passes no paired tab shows another session's title (syncOne).
THEOREM TitleIsThePairings == Spec => []TitleMatchesPairing
  <1>1. SyncInv => TitleMatchesPairing
    BY DEF SyncInv, Records
  <1>2. QED BY <1>1, SyncInductive, PTL

\* The alias memo is the manager's alias, or none (syncAlias).
THEOREM MemoIsTheAlias == Spec => []AliasMemoHonest
  <1>1. SyncInv => AliasMemoHonest
    BY DEF SyncInv, Records, MemosHonest, AliasMemoHonest
  <1>2. QED BY <1>1, SyncInductive, PTL
=============================================================================

---------------------------- MODULE SessionTitles ----------------------------
(***************************************************************************)
(* How a tab learns which kiro-cli conversation it holds, and what follows *)
(* from it: the tab's title, its URL alias, the published pairing and the  *)
(* conversation the saved tab set resumes.                                 *)
(*                                                                         *)
(*   sessiontitle.go        sessionTitleSync: titleHandle, seedMapping,    *)
(*                          pass, syncOne, syncAlias, tabSession, forget   *)
(*   hooks/session-title.sh the writer of the mapping files                *)
(*   tabstate.go persist    the Resume a captured tab is saved with        *)
(*                                                                         *)
(* Four parties share the state directory and the session manager: the     *)
(* hooks of every tab's kiro-cli, the poller's pass, the restorer seeding  *)
(* the tabs it brought back, and the user who opens, closes and re-points  *)
(* tabs.  The pass reads the directory, then the list of sessions, then    *)
(* each file: anything can move in between, so these are separate steps.   *)
(*                                                                         *)
(* A tab's handle is as good as the tab (titleHandle mints one per tab,    *)
(* once), so the mapping file of t's handle is mapping[t].  A title is the *)
(* session it belongs to; wording and length are left out.                 *)
(***************************************************************************)
CONSTANTS
    TabId,          \* the tabs of one run; an id is never used twice
    Conv,           \* conversations (kiro sessions a user can hold)
    Step,           \* workflow step sessions, run inside the launcher's tab
    Launcher,       \* Launcher[s]: the conversation that launched step s
    None,           \* no session: no file, no title, no alias of this kind
    FileErrors      \* reading or removing a mapping file can fail

Session == Conv \cup Step
OptSession == {None} \cup Session

ASSUME SessionAssumption ==
    /\ Conv \cap Step = {}
    /\ Launcher \in [Step -> Conv]
    /\ \A s \in Session : s # None
    /\ FileErrors \in BOOLEAN

VARIABLES
    (* the state directory *)
    dirExists,      \* the state directory exists
    mapping,        \* mapping[t]: the session in the file of t's handle
    (* kiro-cli *)
    holds,          \* holds[t]: the conversation t's kiro-cli is in
    hook,           \* hook[t]: the session a running hook of t will write
    (* sessionTitleSync *)
    minted,         \* the tabs whose handle is in both indexes
    pushed,         \* pushed[t]: the session whose title was last pushed
    aliased,        \* aliased[t]: the alias last applied
    mapped,         \* the published pairing: mapped[t], None when absent
    (* the session manager *)
    built,          \* tabs whose environment was built
    listed,         \* tabs the manager lists
    title, alias,   \* per tab; an alias of None is a minted one
    (* the restorer *)
    seeds,          \* seeds[t]: the mapping still to be seeded for t
    restoring,      \* pages are held: nobody has reached a restored tab yet
    (* the pass *)
    pass,           \* where the poller is
    todo,           \* directory entries read and not handled yet
    snap,           \* the liveness snapshot
    pairs,          \* the pairing under construction
    current,        \* the tab between syncOne and syncAlias
    (* history, read by no action *)
    held            \* held[t]: every session t's kiro-cli was ever in

dirVars     == <<dirExists, mapping>>
kiroVars    == <<holds, hook>>
syncVars    == <<minted, pushed, aliased, mapped>>
managerVars == <<built, listed, title, alias>>
restoreVars == <<seeds, restoring>>
passVars    == <<pass, todo, snap, pairs, current>>

vars == <<dirVars, kiroVars, syncVars, managerVars, restoreVars, passVars,
          held>>

NoSessions == [t \in TabId |-> None]
PassStates == {"idle", "read", "sync", "alias"}

FlagsOK == dirExists \in BOOLEAN /\ restoring \in BOOLEAN

TypeOK ==
    /\ FlagsOK
    /\ mapping \in [TabId -> OptSession] /\ hook \in [TabId -> OptSession]
    /\ holds \in [TabId -> OptSession]
    /\ pushed \in [TabId -> OptSession] /\ aliased \in [TabId -> OptSession]
    /\ mapped \in [TabId -> OptSession] /\ pairs \in [TabId -> OptSession]
    /\ title \in [TabId -> OptSession] /\ alias \in [TabId -> OptSession]
    /\ minted \subseteq TabId /\ built \subseteq TabId /\ listed \subseteq TabId
    /\ seeds \in [TabId -> OptSession] /\ todo \subseteq TabId /\ snap \subseteq TabId
    /\ pass \in PassStates
    /\ current \in TabId \cup {None}
    /\ held \in [TabId -> SUBSET Session]

-----------------------------------------------------------------------------
(* What sessionTitleSync reads.                                            *)

\* Fault: rootConversationId is followed from any record, step or not.
ResolvedByRoot(s) == {s} \cup Conv

\* tabSession: readSmallFile can fail on a record that is there (recordUnknown),
\* so a step can resolve to itself; a conversation always does.
Resolved(s) == IF s \in Step THEN {s, Launcher[s]} ELSE {s}

\* titleFromRecord: a record that is not written, not titled or not readable
\* yet gives none; a step's own record is only met when it cannot be read.
TitlesOf(s) == {None} \cup ({s} \cap Conv)

\* SetSessionAlias: refused for a tab that is gone or a name another tab has.
AliasFree(t, s) ==
    /\ t \in listed
    /\ \A u \in listed \ {t} : alias[u] # s

\* The Resume persist saves a listed tab with.
ResumeOf(t) ==
    IF mapped[t] # None THEN mapped[t] ELSE alias[t]

-----------------------------------------------------------------------------
(* A boot: some tabs were restored, each under its conversation's alias    *)
(* and with its mapping still to be seeded; the others are not built yet.  *)
Init ==
    /\ dirExists = TRUE
    /\ \E r \in SUBSET TabId, c \in [TabId -> Conv] :
          /\ \A t, u \in r : c[t] = c[u] => t = u     \* plan: one owner each
          /\ built = r /\ listed = r /\ minted = r
          /\ restoring = (r # {})
          /\ holds = [t \in TabId |-> IF t \in r THEN c[t] ELSE None]
          /\ alias = holds /\ seeds = holds
          /\ held  = [t \in TabId |-> IF t \in r THEN {c[t]} ELSE {}]
    /\ mapping = NoSessions /\ hook = NoSessions
    /\ pushed = NoSessions /\ aliased = NoSessions /\ mapped = NoSessions
    /\ title = NoSessions
    /\ pass = "idle" /\ todo = {} /\ snap = {} /\ pairs = NoSessions
    /\ current = None

-----------------------------------------------------------------------------
(* The user and kiro-cli.                                                  *)

\* newSessionFactory builds the environment, minting the handle, before the
\* manager lists the session and its program starts.
BuildTab(t) ==
    /\ ~restoring
    /\ t \notin built
    /\ built'  = built \cup {t}
    /\ minted' = minted \cup {t}
    /\ UNCHANGED <<dirVars, kiroVars, pushed, aliased, mapped, listed, title,
                   alias, restoreVars, passVars, held>>

ListTab(t) ==
    /\ t \in built
    /\ t \notin listed
    /\ held[t] = {} /\ holds[t] = None
    /\ listed' = listed \cup {t}
    /\ \E c \in Conv :
          /\ holds' = [holds EXCEPT ![t] = c]
          /\ held'  = [held EXCEPT ![t] = {c}]
    /\ UNCHANGED <<dirVars, hook, syncVars, built, title, alias,
                   restoreVars, passVars>>

\* The manager forgets the tab, its title and its alias.
CloseTab(t) ==
    /\ t \in listed
    /\ listed' = listed \ {t}
    /\ holds'  = [holds EXCEPT ![t] = None]
    /\ title'  = [title EXCEPT ![t] = None]
    /\ alias'  = [alias EXCEPT ![t] = None]
    /\ UNCHANGED <<dirVars, hook, syncVars, built, restoreVars,
                   passVars, held>>

\* The user moves a tab to another conversation, new or existing.
SwitchConversation(t, c) ==
    /\ ~restoring
    /\ t \in listed
    /\ holds[t] # c
    /\ holds' = [holds EXCEPT ![t] = c]
    /\ held'  = [held EXCEPT ![t] = @ \cup {c}]
    /\ UNCHANGED <<dirVars, hook, syncVars, managerVars, restoreVars,
                   passVars>>

\* SessionStart or UserPromptSubmit fires, for the conversation or for one of
\* its workflow steps; the hook has parsed the session id and writes its temp.
HookFires(t, s) ==
    /\ ~restoring
    /\ t \in listed
    /\ hook[t] = None
    /\ s = holds[t] \/ (s \in Step /\ Launcher[s] = holds[t])
    /\ hook' = [hook EXCEPT ![t] = s]
    /\ held' = [held EXCEPT ![t] = @ \cup {s}]
    /\ UNCHANGED <<dirVars, holds, syncVars, managerVars, restoreVars,
                   passVars>>

\* mkdir -p, then the rename: also when the tab has closed meanwhile.
HookWrites(t) ==
    /\ hook[t] # None
    /\ dirExists' = TRUE
    /\ mapping' = [mapping EXCEPT ![t] = hook[t]]
    /\ hook'    = [hook EXCEPT ![t] = None]
    /\ UNCHANGED <<holds, syncVars, managerVars, restoreVars, passVars,
                   held>>

\* Something in /tmp removes the directory under the server.
DirVanishes ==
    /\ dirExists
    /\ dirExists' = FALSE
    /\ mapping'   = NoSessions
    /\ UNCHANGED <<kiroVars, syncVars, managerVars, restoreVars, passVars,
                   held>>

-----------------------------------------------------------------------------
(* The restorer, after RestoreSessionSet: one seedMapping per resumed tab, *)
(* then pending clears and pages reach the tabs.                           *)

Seed(t) ==
    /\ seeds[t] # None
    /\ seeds' = [seeds EXCEPT ![t] = None]
    /\ \/ /\ t \in minted /\ dirExists
          /\ mapping' = [mapping EXCEPT ![t] = seeds[t]]
       \/ (t \notin minted \/ ~dirExists \/ FileErrors) /\ UNCHANGED mapping
    /\ UNCHANGED <<dirExists, kiroVars, syncVars, managerVars, restoring,
                   passVars, held>>

SeedsLeft       == seeds # NoSessions

EndRestore ==
    /\ restoring
    /\ ~SeedsLeft
    /\ restoring' = FALSE
    /\ UNCHANGED <<dirVars, kiroVars, syncVars, managerVars, seeds, passVars,
                   held>>

-----------------------------------------------------------------------------
(* The pass.                                                               *)

\* Fault: the handle index is swept too, not only the files.
EntriesAndHandles == {t \in TabId : mapping[t] # None} \cup minted

DirEntries == {t \in TabId : mapping[t] # None}

\* os.ReadDir: the names of the mapping files, or nothing to map any more.
ReadStateDir ==
    /\ pass = "idle"
    /\ dirExists
    /\ pass' = "read"
    /\ todo' = DirEntries
    /\ UNCHANGED <<dirVars, kiroVars, syncVars, managerVars, restoreVars, snap,
                   pairs, current, held>>

StateDirUnreadable ==
    /\ pass = "idle"
    /\ ~dirExists
    /\ mapped' = NoSessions
    /\ UNCHANGED <<dirVars, kiroVars, minted, pushed, aliased, managerVars,
                   restoreVars, passVars, held>>

\* mgr.List: the one picture every mapping is judged against.
TakeSnapshot ==
    /\ pass = "read"
    /\ pass'  = "sync"
    /\ snap'  = listed
    /\ UNCHANGED <<dirVars, kiroVars, syncVars, managerVars, restoreVars, todo,
                   pairs, current, held>>

\* forget: the handle leaves both indexes and the file is removed; a file that
\* could not be is an unknown handle's for the next pass.
Forget(t) ==
    /\ minted' = minted \ {t}
    /\ \/ mapping' = [mapping EXCEPT ![t] = None]
       \/ FileErrors /\ UNCHANGED mapping

\* Fault: a handle this process does not know is left alone.
MustForgetKnown(t) == t \in minted \ snap

MustForget(t) == t \notin minted \/ t \notin snap

\* A file of a handle that is unknown, or whose tab was gone at the snapshot.
ForgetEntry(t) ==
    /\ pass = "sync"
    /\ t \in todo
    /\ MustForget(t)
    /\ todo' = todo \ {t}
    /\ Forget(t)
    /\ pushed' = IF t \in minted THEN [pushed EXCEPT ![t] = None] ELSE pushed
    /\ UNCHANGED <<dirExists, kiroVars, aliased, mapped, managerVars,
                   restoreVars, pass, snap, pairs, current, held>>

\* readMapping found no file after all, or could not read it.
EntryUnread(t) ==
    /\ pass = "sync"
    /\ t \in todo
    /\ ~MustForget(t)
    /\ mapping[t] = None \/ FileErrors
    /\ todo' = todo \ {t}
    /\ UNCHANGED <<dirVars, kiroVars, syncVars, managerVars, restoreVars, pass,
                   snap, pairs, current, held>>

\* SetSessionTitle accepted by a tab that is still there, or the tab forgotten.
PushTitle(t, ti) ==
    IF t \in listed
    THEN /\ title'  = [title EXCEPT ![t] = ti]
         /\ pushed' = [pushed EXCEPT ![t] = ti]
         /\ UNCHANGED <<minted, mapping>>
    ELSE /\ pushed' = [pushed EXCEPT ![t] = None]
         /\ Forget(t)
         /\ UNCHANGED title

\* Fault: a re-pointed tab keeps the previous session's title.
NothingToPushOrClear(t, s, ti) == ti = None \/ pushed[t] = s

\* Nothing to push: no title and no earlier session to clear, or the same one.
NothingToPush(t, s, ti) == \/ ti = None /\ pushed[t] \in {None, s}
                           \/ ti # None /\ pushed[t] = s

\* syncOne: the tab's session, its record, its title.
SyncOne(t) ==
    /\ pass = "sync"
    /\ t \in todo
    /\ ~MustForget(t)
    /\ mapping[t] # None
    /\ \E s \in Resolved(mapping[t]) : \E ti \in TitlesOf(s) :
          /\ IF NothingToPush(t, s, ti)
             THEN UNCHANGED <<title, pushed, minted, mapping>>
             ELSE PushTitle(t, ti)
          /\ pairs' = [pairs EXCEPT ![t] = s]
    /\ pass'    = "alias"
    /\ current' = t
    /\ todo'    = todo \ {t}
    /\ UNCHANGED <<dirExists, kiroVars, aliased, mapped, built, listed, alias,
                   restoreVars, snap, held>>

\* Fault: a refused alias is remembered like an applied one.
AliasMemoEither(t, s, applied) == s

AliasMemo(t, s, applied) == IF applied THEN s ELSE aliased[t]

\* syncAlias: what was applied is remembered, what was refused is retried.
SyncAlias ==
    /\ pass = "alias"
    /\ LET s       == pairs[current]
           applied == AliasFree(current, s)
       IN  IF aliased[current] = s
           THEN UNCHANGED <<alias, aliased>>
           ELSE /\ alias'   = IF applied THEN [alias EXCEPT ![current] = s] ELSE alias
                /\ aliased' = [aliased EXCEPT ![current] = AliasMemo(current, s, applied)]
    /\ pass'    = "sync"
    /\ current' = None
    /\ UNCHANGED <<dirVars, kiroVars, minted, pushed, mapped, built, listed,
                   title, restoreVars, todo, snap, pairs, held>>

PrunedAliases(live) == [t \in TabId |-> IF t \in live THEN aliased[t] ELSE None]

\* The pairing is published and the aliases of tabs that are gone forgotten.
Publish ==
    /\ pass = "sync"
    /\ todo = {}
    /\ pass'    = "idle"
    /\ mapped'  = pairs
    /\ aliased' = PrunedAliases(snap)
    /\ snap' = {} /\ pairs' = NoSessions      \* locals of the pass
    /\ UNCHANGED <<dirVars, kiroVars, minted, pushed, managerVars, restoreVars,
                   todo, current, held>>

-----------------------------------------------------------------------------
Pass ==
    \/ ReadStateDir \/ StateDirUnreadable \/ TakeSnapshot
    \/ \E t \in TabId : ForgetEntry(t) \/ EntryUnread(t) \/ SyncOne(t)
    \/ SyncAlias \/ Publish

User ==
    \/ \E t \in TabId : BuildTab(t) \/ ListTab(t) \/ CloseTab(t)
    \/ \E t \in TabId, c \in Conv : SwitchConversation(t, c)

Kiro ==
    \/ \E t \in TabId, s \in Session : HookFires(t, s)
    \/ \E t \in TabId : HookWrites(t)
    \/ DirVanishes

Restore == (\E t \in TabId : Seed(t)) \/ EndRestore

Next == Pass \/ User \/ Kiro \/ Restore

Spec == Init /\ [][Next]_vars

\* Only the poller's goroutine is assumed to be scheduled.
FairSpec == Spec /\ WF_vars(Pass)

-----------------------------------------------------------------------------
(* Properties.                                                             *)

\* A live tab never loses its handle: the hook could map it no more, and the
\* tab would keep the automatic name for good (sessiontitle.go, the comment on
\* handleByTab; pass reads the directory before the list of sessions).
LiveHandleKept == listed \subseteq minted

\* A tab is never saved to resume a conversation its own kiro-cli was not in,
\* whichever of the pairing and the alias the save falls back on.
ResumesOwnSession == \A t \in listed : ResumeOf(t) \in held[t] \cup {None}

\* Between passes a paired tab shows its own session's title or none: a title
\* is cleared when the tab moves to a session that has none yet (syncOne).
TitleMatchesPairing ==
    pass = "idle" =>
      \A t \in listed : mapped[t] # None => title[t] \in {None, mapped[t]}

\* The alias memo is what the manager has, so a skipped SetSessionAlias was not
\* needed (syncAlias).
AliasMemoHonest == \A t \in listed : aliased[t] \in {None, alias[t]}

\* No mapping file outlives its tab for ever (pass, forget).
Departed(t) == t \notin listed /\ held[t] # {} /\ hook[t] = None /\ seeds[t] = None
DepartedReclaimed == \A t \in TabId : Departed(t) ~> mapping[t] = None

\* A tab that stays on a conversation whose name no other tab holds gets that
\* name, however often it was refused before (syncAlias: a refusal is retried).
Holds(t, c) ==
    /\ t \in listed
    /\ mapping[t] = c
    /\ \A u \in listed \ {t} : alias[u] # c
AliasTakenOver ==
    \A t \in TabId, c \in Conv : <>[]Holds(t, c) => <>[](alias[t] = c)
=============================================================================

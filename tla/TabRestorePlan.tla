---------------------------- MODULE TabRestorePlan ---------------------------
(***************************************************************************)
(* What each saved tab comes back as: tabrestore.go resumeOwners,          *)
(* adoptLaunchingSessions and plan, over sets that tabstate.go persist can *)
(* have saved, through any number of boots.                                *)
(*                                                                         *)
(* A kiro session is a conversation, a workflow step of one, or an id that *)
(* cannot be passed to --resume-id (Malformed).  An alias is a session's   *)
(* id or an address of another shape (Address); a minted alias is such an  *)
(* address too.  A record on disk can be missing, can be there and not be  *)
(* its session's, and can fail to be read, at one read and not at the      *)
(* next.  When the restore runs and when a save lands is TabPersistence's  *)
(* subject; the pairing and alias a live tab ends up with is               *)
(* SessionTitles'.                                                         *)
(***************************************************************************)
EXTENDS Naturals, Sequences, FiniteSets

CONSTANTS
    Conv, Step, Malformed,
    Launcher,       \* Launcher[s]: the conversation that launched step s
    None,           \* no session
    Address,        \* an alias that is no session id
    MaxTabs         \* bound of the number of tabs

Resumable == Conv \cup Step                 \* validKiroResumeID
Session   == Resumable \cup Malformed

ASSUME PlanAssumption ==
    /\ Conv \cap Step = {} /\ Resumable \cap Malformed = {}
    /\ Launcher \in [Step -> Conv]
    /\ \A s \in Session : s # None /\ s # Address
    /\ None # Address
    /\ MaxTabs \in Nat

VARIABLES
    records,        \* the sessions whose session.json is on disk
    damaged,        \* those of them whose file does not decode, or has another id
    phase,          \* live | adopt | plan | restored
    set,            \* the stored set, as adoptLaunchingSessions re-points it
    owner,          \* resumeOwners of the set
    next,           \* the entry to adopt or to plan next
    restored,       \* the tabs RestoreSessionSet brought back, in order
    tabs            \* the live tabs, in order

restorerVars == <<set, owner, next, restored>>

diskVars == <<records, damaged>>

vars == <<diskVars, phase, restorerVars, tabs>>

Entry == [resume : {None} \cup Session, alias : {Address} \cup Session]
\* from: the entry; resumes: the session its kiro-cli was told to resume.
Back  == [from : Nat, resumes : {None} \cup Resumable, alias : {Address} \cup Session]
\* mapped: the pairing the title sweep published for the tab.
Live  == [mapped : {None} \cup Session, alias : {Address} \cup Session]

TypeOK ==
    /\ records \subseteq Resumable /\ damaged \subseteq records
    /\ phase \in {"live", "adopt", "plan", "restored"}
    /\ set \in Seq(Entry) /\ Len(set) <= MaxTabs
    /\ owner \in [Resumable -> 0 .. MaxTabs]
    /\ next \in 1 .. MaxTabs + 1
    /\ restored \in Seq(Back)
    /\ tabs \in Seq(Live) /\ Len(tabs) <= MaxTabs

NoOwner == [s \in Resumable |-> 0]

Init ==
    /\ records = {} /\ damaged = {}
    /\ phase = "live"
    /\ set = <<>> /\ owner = NoOwner /\ next = 1
    /\ restored = <<>> /\ tabs = <<>>

-----------------------------------------------------------------------------
(* Who may resume a session.                                               *)

Indices(es) == 1 .. Len(es)

Naming(es, s)    == {i \in Indices(es) : es[i].resume = s}
Bookmarks(es, s) == {i \in Naming(es, s) : es[i].alias = s}

Least(S)    == CHOOSE i \in S : \A j \in S : i <= j
Greatest(S) == CHOOSE i \in S : \A j \in S : i >= j

\* Fault: the earliest entry owns the session, whatever the addresses say.
OwnersByOrder(es) ==
    [s \in Resumable |-> IF Naming(es, s) = {} THEN 0 ELSE Least(Naming(es, s))]

\* The last entry whose address names the session, then the earliest.
ResumeOwners(es) ==
    [s \in Resumable |->
        IF Bookmarks(es, s) # {} THEN Greatest(Bookmarks(es, s))
        ELSE IF Naming(es, s) # {} THEN Least(Naming(es, s))
        ELSE 0]

-----------------------------------------------------------------------------
(* Running: the tabs the next save captures.                               *)

OpenTab ==
    /\ phase = "live"
    /\ Len(tabs) < MaxTabs
    /\ tabs' = Append(tabs, [mapped |-> None, alias |-> Address])
    /\ UNCHANGED <<diskVars, phase, restorerVars>>

CloseTab(k) ==
    /\ phase = "live"
    /\ k \in Indices(tabs)
    /\ tabs' = SubSeq(tabs, 1, k - 1) \o SubSeq(tabs, k + 1, Len(tabs))
    /\ UNCHANGED <<diskVars, phase, restorerVars>>

\* A prompt: the tab's hook maps it to the session it holds, or to a step that
\* this conversation runs; kiro-cli writes the records of both.
Prompt(k, s, m) ==
    /\ phase = "live"
    /\ k \in Indices(tabs)
    /\ s \in Session \ Step
    /\ m = s \/ (m \in Step /\ Launcher[m] = s)
    /\ tabs'    = [tabs EXCEPT ![k].mapped = m]
    /\ records' = records \cup ({s, m} \cap Resumable)
    /\ damaged' = damaged \ {s, m}
    /\ UNCHANGED <<phase, restorerVars>>

\* syncAlias: unless another live tab has the name.
AliasTab(k) ==
    /\ phase = "live"
    /\ k \in Indices(tabs)
    /\ tabs[k].mapped # None
    /\ \A j \in Indices(tabs) : tabs[j].alias # tabs[k].mapped
    /\ tabs' = [tabs EXCEPT ![k].alias = tabs[k].mapped]
    /\ UNCHANGED <<diskVars, phase, restorerVars>>

\* The title sweep could not read the mapping, or the state directory is gone.
UnpairTab(k) ==
    /\ phase = "live"
    /\ k \in Indices(tabs)
    /\ tabs[k].mapped # None
    /\ tabs' = [tabs EXCEPT ![k].mapped = None]
    /\ UNCHANGED <<diskVars, phase, restorerVars>>

\* The user deletes a conversation or a run.
RemoveRecord(s) ==
    /\ phase = "live"
    /\ s \in records
    /\ records' = records \ {s}
    /\ damaged' = damaged \ {s}
    /\ UNCHANGED <<phase, restorerVars, tabs>>

\* A write of the record is cut short, or another session's takes its place.
DamageRecord(s) ==
    /\ phase = "live"
    /\ s \in records
    /\ damaged' = damaged \cup {s}
    /\ UNCHANGED <<records, phase, restorerVars, tabs>>

\* Fault: a tab the sweep has not paired is saved without a session.
SavedUnpaired(t) == [resume |-> t.mapped, alias |-> t.alias]

\* persist: the pairing, or an alias that is a resumable id.
SavedEntry(t) ==
    [resume |-> IF t.mapped # None THEN t.mapped
                ELSE IF t.alias \in Resumable THEN t.alias ELSE None,
     alias  |-> t.alias]

\* The set was saved, and the process starts again.
Reboot ==
    /\ phase = "live"
    /\ tabs # <<>>
    /\ phase'  = "adopt"
    /\ set'    = [k \in Indices(tabs) |-> SavedEntry(tabs[k])]
    /\ owner'  = ResumeOwners(set')
    /\ tabs'   = <<>>
    /\ UNCHANGED <<diskVars, next, restored>>

-----------------------------------------------------------------------------
(* The restore.                                                            *)

\* What decodes and carries its own id, as stepOwner and sessionRecord ask.
Intact == records \ damaged

\* tabSession: a step whose record can be read stands for its launcher.
Resolved(s) ==
    {s} \cup {Launcher[t] : t \in {s} \cap Step \cap Intact}

Adopt ==
    /\ phase = "adopt" /\ next <= Len(set)
    /\ \E s \in IF set[next].resume \in Resumable
                THEN Resolved(set[next].resume) ELSE {set[next].resume} :
          set' = [set EXCEPT ![next].resume = s]
    /\ next' = next + 1
    /\ UNCHANGED <<diskVars, phase, owner, restored, tabs>>

\* Fault: the owners claimed before the adoption stay.
OwnersKept == owner

OwnersAfterAdoption == ResumeOwners(set)

ClaimOwners ==
    /\ phase = "adopt" /\ next > Len(set)
    /\ owner' = OwnersAfterAdoption
    /\ phase' = "plan" /\ next' = 1
    /\ UNCHANGED <<diskVars, set, restored, tabs>>

\* sessionRecord: what the store answers for a session.  A record that is read and
\* is not the session's own counts as missing.
RecordStates(s) == {"unknown", IF s \in Intact THEN "present" ELSE "missing"}

\* Fault: a record that could not be read counts as missing.
ResumesPresent(state) == state = "present"

Resumes(state) == state # "missing"

Restored(resumes, alias) ==
    restored' = Append(restored, [from |-> next, resumes |-> resumes, alias |-> alias])

\* Fault: every entry resumes the session it names.
AnyEntry(s, i) == TRUE

IsOwner(s, i) == owner[s] = i

\* A tab never prompted keeps its address.
PlanUnprompted(e) ==
    /\ e.resume = None
    /\ Restored(None, e.alias)

PlanMalformed(e) ==
    /\ e.resume \in Malformed
    /\ Restored(None, Address)

PlanDuplicate(e) ==
    /\ e.resume \in Resumable /\ ~IsOwner(e.resume, next)
    /\ UNCHANGED restored

\* The owner resumes, or starts afresh under a minted alias.
PlanOwner(e) ==
    /\ e.resume \in Resumable /\ IsOwner(e.resume, next)
    /\ \E state \in RecordStates(e.resume) :
          IF Resumes(state) THEN Restored(e.resume, e.resume)
          ELSE Restored(None, Address)

Plan ==
    /\ phase = "plan" /\ next <= Len(set)
    /\ LET e == set[next]
       IN  PlanUnprompted(e) \/ PlanMalformed(e) \/ PlanDuplicate(e) \/ PlanOwner(e)
    /\ next' = next + 1
    /\ UNCHANGED <<diskVars, phase, set, owner, tabs>>

FinishPlan ==
    /\ phase = "plan" /\ next > Len(set)
    /\ phase' = "restored"
    /\ UNCHANGED <<diskVars, restorerVars, tabs>>

\* A resumed tab is paired by its seed; one whose seed could not be written is
\* not paired before its next prompt.
Paired(b) == [mapped |-> b.resumes, alias |-> b.alias]
Unpaired(b) == [mapped |-> None, alias |-> b.alias]

\* The seeds are written and the restorer returns.
Seed ==
    /\ phase = "restored"
    /\ phase' = "live"
    /\ \E seeded \in SUBSET Indices(restored) :
          tabs' = [k \in Indices(restored) |->
                     IF k \in seeded THEN Paired(restored[k]) ELSE Unpaired(restored[k])]
    /\ set' = <<>> /\ owner' = NoOwner /\ next' = 1
    /\ restored' = <<>>
    /\ UNCHANGED diskVars

-----------------------------------------------------------------------------
Restore == Adopt \/ ClaimOwners \/ Plan \/ FinishPlan \/ Seed

User ==
    \/ OpenTab \/ Reboot
    \/ \E k \in 1 .. MaxTabs : CloseTab(k) \/ AliasTab(k) \/ UnpairTab(k)
    \/ \E k \in 1 .. MaxTabs, s, m \in Session : Prompt(k, s, m)
    \/ \E s \in Session : RemoveRecord(s) \/ DamageRecord(s)

Next == Restore \/ User

Spec == Init /\ [][Next]_vars

-----------------------------------------------------------------------------
(* Properties, of a restore whose plan is complete.                        *)

\* Two restored tabs never resume one conversation, however the two entries
\* named it, and never have one address (plan: the second would block on the
\* first one's lock for good).
OneTabPerConversation ==
    \A j, k \in Indices(restored) :
        j # k =>
            /\ restored[j].resumes # None => restored[j].resumes # restored[k].resumes
            /\ restored[j].alias # Address => restored[j].alias # restored[k].alias

\* A conversation that some entry's address named comes back in such a tab: an
\* old bookmark finds it (resumeOwners).
BookmarkKept ==
    phase = "restored" =>
        \A k \in Indices(restored) : \A i \in Indices(set) :
            LET c == restored[k].resumes
            IN  c # None /\ set[i].resume = c /\ set[i].alias = c
                  => set[restored[k].from].alias = c

\* A conversation the set names, a step's launcher included, whose record is there
\* and is its own, is named by the next save as well, whichever reads and seeds
\* failed (plan: "a transient EACCES must not turn every conversation into a fresh
\* chat and then save that").
Names(es, s) == \E i \in Indices(es) : es[i].resume = s
ConversationsKept ==
    phase = "restored" =>
        LET saved == [k \in Indices(restored) |-> SavedEntry(Unpaired(restored[k]))]
        IN  \A s \in Conv \cap Intact : Names(set, s) => Names(saved, s)

\* A restored tab's address never names a conversation the tab was not told to
\* resume, a fresh chat's least of all (plan, persist).
NoStaleAddress ==
    \A k \in Indices(restored) :
        restored[k].alias \in Resumable => restored[k].alias = restored[k].resumes
=============================================================================

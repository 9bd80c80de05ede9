---------------------------- MODULE WorkflowMarks ----------------------------
(***************************************************************************)
(* The secondary mark of a tab: what the workflow runs launched in it are  *)
(* doing, as workflowmark.go's poller reads it off kiro-cli's run records. *)
(*                                                                         *)
(* A record is rewritten in place while the poller stats it, reads it and  *)
(* reads its beat, so these are three steps, and the verdict is cached     *)
(* under the identity (mtime and size) that the stat saw.  A record is     *)
(* half-written between BeginWrite and EndWrite; its writer can die there. *)
(*                                                                         *)
(* The clock is the file system's.  Two whole writes of one record never   *)
(* fall into one tick: the identity could not tell them apart.  A record's *)
(* text is its status and the sessions it names; its size tells only a     *)
(* half-written record from a whole one.                                   *)
(***************************************************************************)
EXTENDS Naturals

CONSTANTS
    Tab, Run,
    Session,        \* kiro sessions
    Launching,      \* Launching[r]: the session that launched run r
    None,
    Recorded,       \* the statuses kiro-cli records in this instance
    MaxClock,       \* bound of the clock
    MaxFailures     \* bound of the reads that fail although the file is there

\* "ended": a terminal status or one this build does not know.
Statuses   == {"running", "paused", "need_input", "ended"}
MarkStates == {"working", "waiting", "input"}
Times      == 0 .. MaxClock

\* The identity the cache keys on, and a verdict under it; an empty state
\* lights nothing.
Identity == Times \X {"torn", "whole"}
Reading  == [state : MarkStates \cup {None}, owners : SUBSET Session]
Verdict  == [id : Identity, state : MarkStates \cup {None}, owners : SUBSET Session]

ASSUME WorkflowAssumption ==
    /\ Launching \in [Run -> Session]
    /\ None \notin Session /\ None \notin Verdict
    /\ Recorded \subseteq Statuses
    /\ MaxClock \in Nat /\ MaxFailures \in Nat

VARIABLES
    clock,
    (* the records, and the processes that write them *)
    status,         \* status[r]: what the file says; absent; torn
    own,            \* own[r]: the sessions the record names
    written,        \* written[r]: its mtime
    alive,          \* the runs whose writer lives
    beat,           \* the runs with a run.beat
    (* the tabs and what the title sweep paired them with *)
    opened,         \* opened[t]: when t started, None while it is not live
    mapping,
    (* workflowWatch *)
    verdicts,       \* the cache
    lit,            \* published: lit[t][r] is r's contribution to t's mark
    (* the pass *)
    pass, todo,
    snap,           \* the liveness snapshot
    seen,           \* the cache under construction
    seenId,         \* the run being judged, and the identity its stat saw
    text,           \* what its record came to
    admitted,
    failures,       \* reads that failed so far
    (* history, read by no action *)
    measured        \* what the last whole text read of each record came to

recordVars == <<status, own, written, alive, beat>>
tabVars    == <<opened, mapping>>
watchVars  == <<verdicts, lit>>
passVars   == <<pass, todo, snap, seen, seenId, text, admitted,
                failures>>

vars == <<clock, recordVars, tabVars, watchVars, passVars, measured>>

TypeOK ==
    /\ clock \in Times
    /\ status \in [Run -> Statuses \cup {"absent", "torn"}]
    /\ own \in [Run -> SUBSET Session] /\ written \in [Run -> Times]
    /\ alive \subseteq Run /\ beat \subseteq Run
    /\ opened \in [Tab -> {None} \cup Times] /\ mapping \in [Tab -> {None} \cup Session]
    /\ verdicts \in [Run -> {None} \cup Verdict] /\ seen \in [Run -> {None} \cup Verdict]
    /\ lit \in [Tab -> [Run -> {None} \cup MarkStates]]
    /\ admitted \in [Tab -> [Run -> {None} \cup MarkStates]]
    /\ pass \in {"idle", "sweep", "read", "judge"}
    /\ todo \subseteq Run
    /\ snap \in [Tab -> {None} \cup Times]
    /\ seenId \in {None} \cup (Run \X Identity)
    /\ failures \in 0 .. MaxFailures
    /\ text \in {None} \cup Reading
    /\ measured \in [Run -> {None} \cup Reading]

NoVerdicts == [r \in Run |-> None]
NoTabs     == [t \in Tab |-> None]
Dark       == [t \in Tab |-> [r \in Run |-> None]]

Init ==
    /\ clock = 0
    /\ status = [r \in Run |-> "absent"] /\ written = [r \in Run |-> 0]
    /\ own = [r \in Run |-> {Launching[r]}]
    /\ alive = Run /\ beat \in SUBSET Run
    /\ opened \in [Tab -> {None, 0}] /\ mapping = NoTabs
    /\ verdicts = NoVerdicts /\ lit = Dark
    /\ pass = "idle" /\ todo = {} /\ snap = NoTabs
    /\ seen = NoVerdicts /\ seenId = None /\ text = None /\ admitted = Dark
    /\ failures = 0 /\ measured = NoVerdicts

-----------------------------------------------------------------------------
(* What the watcher makes of a record.                                     *)

IdOf(r) == <<written[r], IF status[r] = "torn" THEN "torn" ELSE "whole">>

\* classifyWorkflowState: terminal and unknown records contribute nothing.
MarkOf(s) == CASE s = "running"    -> "working"
               [] s = "paused"     -> "waiting"
               [] s = "need_input" -> "input"
               [] OTHER            -> None

\* Fault: only the launching session owns a run.
LaunchingSession(r) == {Launching[r]}

\* runSessionIDs: the launching session and every step the record names.
RunSessions(r) == own[r]

ReadingOf(v) == [state |-> v.state, owners |-> v.owners]

\* Fault: a record that cannot be decoded is classified as contributing nothing.
Emptied(previous) == [state |-> None, owners |-> {}]

\* classify, on a record that cannot be decoded: the previous verdict.
Carried(previous) ==
    IF previous = None THEN [state |-> None, owners |-> {}]
    ELSE ReadingOf(previous)

Classified(r) ==
    IF status[r] = "torn" THEN Carried(verdicts[r])
    ELSE IF MarkOf(status[r]) = None THEN [state |-> None, owners |-> {}]
    ELSE [state |-> MarkOf(status[r]), owners |-> RunSessions(r)]

VerdictUnder(c, id) == [id |-> id, state |-> c.state, owners |-> c.owners]

\* statePaths
Present == {r \in Run : status[r] # "absent"}

\* The live tabs paired with one of a run's sessions (tabsByKiroSession).
TabsOf(owners) == {t \in Tab : snap[t] # None /\ mapping[t] \in owners}

-----------------------------------------------------------------------------
(* kiro-cli and the tabs.                                                  *)

Tick ==
    /\ clock < MaxClock
    /\ clock' = clock + 1
    /\ UNCHANGED <<recordVars, tabVars, watchVars, passVars, measured>>

\* KAS rewrites a record in place: the old text goes first.
BeginWrite(r) ==
    /\ r \in alive
    /\ status[r] # "torn"
    /\ status[r] = "absent" \/ written[r] < clock
    /\ status'  = [status EXCEPT ![r] = "torn"]
    /\ written' = [written EXCEPT ![r] = clock]
    /\ UNCHANGED <<clock, own, alive, beat, tabVars, watchVars, passVars, measured>>

\* A step's session is recorded from its start, and stays in the record.
EndWrite(r) ==
    /\ r \in alive
    /\ status[r] = "torn"
    /\ \E s \in Recorded, o \in SUBSET Session :
          /\ own[r] \subseteq o
          /\ status' = [status EXCEPT ![r] = s]
          /\ own'    = [own EXCEPT ![r] = o]
    /\ written' = [written EXCEPT ![r] = clock]
    /\ UNCHANGED <<clock, alive, beat, tabVars, watchVars, passVars, measured>>

WriterDies(r) ==
    /\ r \in alive
    /\ alive' = alive \ {r}
    /\ UNCHANGED <<clock, status, own, written, beat, tabVars, watchVars, passVars,
                   measured>>

RemoveRun(r) ==
    /\ status[r] # "absent" /\ r \notin alive
    /\ status' = [status EXCEPT ![r] = "absent"]
    /\ measured' = [measured EXCEPT ![r] = None]
    /\ UNCHANGED <<clock, own, written, alive, beat, tabVars, watchVars, passVars>>

\* A tab starts, or ends for good.
OpenTab(t) ==
    /\ opened[t] = None /\ mapping[t] = None
    /\ opened' = [opened EXCEPT ![t] = clock]
    /\ UNCHANGED <<clock, recordVars, mapping, watchVars, passVars, measured>>

CloseTab(t) ==
    /\ opened[t] # None /\ mapping[t] # None
    /\ opened' = [opened EXCEPT ![t] = None]
    /\ UNCHANGED <<clock, recordVars, mapping, watchVars, passVars, measured>>

\* The title sweep of the same tick publishes the pairing before this pass.
MapTab(t, s) ==
    /\ pass = "idle"
    /\ opened[t] # None /\ mapping[t] # s
    /\ mapping' = [mapping EXCEPT ![t] = s]
    /\ UNCHANGED <<clock, recordVars, opened, watchVars, passVars, measured>>

-----------------------------------------------------------------------------
(* The pass.                                                               *)

\* List, then the state paths: a directory that cannot be listed hides its runs.
BeginPass ==
    /\ pass = "idle"
    /\ pass' = "sweep"
    /\ snap' = opened
    /\ \/ todo' = Present /\ UNCHANGED failures
       \/ /\ failures < MaxFailures /\ failures' = failures + 1
          /\ todo' \in SUBSET Present
    /\ UNCHANGED <<clock, recordVars, tabVars, watchVars, seen, seenId, text,
                   admitted, measured>>

\* The record went away, or the stat failed: it drops out of the cache.
StatFails(r) ==
    /\ pass = "sweep"
    /\ r \in todo
    /\ \/ status[r] = "absent" /\ UNCHANGED failures
       \/ failures < MaxFailures /\ failures' = failures + 1
    /\ todo' = todo \ {r}
    /\ UNCHANGED <<clock, recordVars, tabVars, watchVars, pass, snap, seen,
                   seenId, text, admitted, measured>>

\* Lstat: the identity first.  A cached verdict under it is the answer.
Stat(r) ==
    /\ pass = "sweep"
    /\ r \in todo
    /\ status[r] # "absent"
    /\ seenId' = <<r, IdOf(r)>>
    /\ IF verdicts[r] # None /\ verdicts[r].id = IdOf(r)
       THEN text' = ReadingOf(verdicts[r]) /\ pass' = "judge"
       ELSE text' = None /\ pass' = "read"
    /\ todo' = todo \ {r}
    /\ UNCHANGED <<clock, recordVars, tabVars, watchVars, snap, seen, admitted,
                   failures, measured>>

ReadRecord ==
    /\ pass = "read"
    /\ LET r == seenId[1]
       IN  /\ status[r] # "absent"
           /\ text' = Classified(r)
           /\ measured' = IF status[r] = "torn" THEN measured
                          ELSE [measured EXCEPT ![r] = Classified(r)]
    /\ pass' = "judge"
    /\ UNCHANGED <<clock, recordVars, tabVars, watchVars, todo, snap, seen,
                   seenId, admitted, failures>>

\* Fault: the failed read is stamped like a measured one.
FailedStamped(r) == VerdictUnder(Carried(verdicts[r]), seenId[2])

\* Nothing was measured: the run is neither cached nor admitted.
FailedVerdict(r) == None

ReadFails ==
    /\ pass = "read"
    /\ LET r == seenId[1]
       IN  /\ \/ status[r] = "absent" /\ UNCHANGED failures
              \/ failures < MaxFailures /\ failures' = failures + 1
           /\ seen' = [seen EXCEPT ![r] = FailedVerdict(r)]
    /\ pass' = "sweep" /\ seenId' = None
    /\ UNCHANGED <<clock, recordVars, tabVars, watchVars, todo, snap, text, admitted,
                   measured>>

\* Fault: the record is stamped with the identity it has once it was read.
IdAfterRead(r, id) == IdOf(r)

StampOf(r, id) == id

\* Fault: the beat is not consulted.
AssumedAlive(r) == FALSE

\* writerIsDead: an existing beat names a pid the kernel no longer has.
WriterIsDead(r) == r \in beat /\ r \notin alive

\* Fault: an older record lights a younger tab.
AnyAge(at, t) == TRUE

\* admitRun: not written before the tab started.
NotBefore(at, t) == at >= snap[t]

Judge ==
    /\ pass = "judge"
    /\ LET r  == seenId[1]
           at == seenId[2][1]
       IN  /\ seen' = [seen EXCEPT ![r] = VerdictUnder(text, StampOf(r, seenId[2]))]
           /\ \E unread \in BOOLEAN :      \* the beat could not be read
               /\ unread => r \in beat /\ failures < MaxFailures
               /\ failures' = IF unread THEN failures + 1 ELSE failures
               /\ admitted' =
                    IF text.state = None \/ (WriterIsDead(r) /\ ~unread) THEN admitted
                    ELSE [t \in Tab |->
                            IF t \in TabsOf(text.owners) /\ NotBefore(at, t)
                            THEN [admitted[t] EXCEPT ![r] = text.state]
                            ELSE admitted[t]]
    /\ pass' = "sweep" /\ seenId' = None /\ text' = None
    /\ UNCHANGED <<clock, recordVars, tabVars, watchVars, todo, snap, measured>>

\* The cache is what this pass saw; the marks replace the published ones.
Publish ==
    /\ pass = "sweep"
    /\ todo = {}
    /\ pass'     = "idle"
    /\ verdicts' = seen
    /\ lit'      = admitted
    /\ seen' = NoVerdicts /\ admitted' = Dark /\ snap' = NoTabs    \* locals
    /\ UNCHANGED <<clock, recordVars, tabVars, todo, seenId, text, failures,
                   measured>>

\* foldWorkflowMarks, through sessionActivity: of several runs in one tab the most
\* pressing is shown.
Shows(t, mark) == \E r \in Run : lit[t][r] = mark

Activity(t) ==
    IF Shows(t, "input") THEN "input"
    ELSE IF Shows(t, "waiting") THEN "waiting"
    ELSE IF Shows(t, "working") THEN "working"
    ELSE None

-----------------------------------------------------------------------------
Pass ==
    \/ BeginPass \/ ReadRecord \/ ReadFails \/ Judge \/ Publish
    \/ \E r \in Run : StatFails(r) \/ Stat(r)

Kiro ==
    \/ \E r \in Run : BeginWrite(r) \/ EndWrite(r) \/ WriterDies(r) \/ RemoveRun(r)
    \/ \E t \in Tab : OpenTab(t) \/ CloseTab(t)
    \/ \E t \in Tab, s \in Session : MapTab(t, s)

Next == Tick \/ Pass \/ Kiro

Spec == Init /\ [][Next]_vars

\* Only the poller is assumed to be scheduled.
FairSpec == Spec /\ WF_vars(Pass)

-----------------------------------------------------------------------------
(* Properties.                                                             *)

\* A cached verdict that the file's identity vouches for is the verdict of what
\* the file says: the cache never has to be invalidated (verdictFor, classify:
\* the identity precedes the read, and a failed read stamps nothing).
CacheSound ==
    \A r \in Run :
        /\ verdicts[r] # None /\ status[r] \notin {"absent", "torn"}
        /\ verdicts[r].id = IdOf(r)
        => /\ verdicts[r].state = MarkOf(status[r])
           /\ verdicts[r].state # None => verdicts[r].owners = RunSessions(r)

\* A run abandoned before a tab started never lights that tab (admitRun).
AbandonedStaysDark ==
    \A t \in Tab, r \in Run :
        lit[t][r] # None /\ opened[t] # None => written[r] >= opened[t]

\* While no read fails, the verdict in use is that of the last whole text the
\* poller read, however often it has caught the record half written since: the
\* mark holds steady across a torn write, one torn for good included (classify).
LastWholeVerdict ==
    failures = 0 /\ pass = "idle" =>
        \A r \in Run :
            status[r] # "absent" /\ measured[r] # None =>
                /\ verdicts[r] # None
                /\ verdicts[r].state = measured[r].state
                /\ verdicts[r].owners = measured[r].owners

\* A run that stays as it is lights its tab, by whichever of its sessions the tab
\* is paired with, and one failed read does not freeze the mark (runSessionIDs,
\* verdictFor).
Settled(t, r, s) ==
    /\ status[r] = s
    /\ r \in alive
    /\ opened[t] # None /\ mapping[t] \in own[r]
    /\ written[r] >= opened[t]
MarkAppears ==
    \A t \in Tab, r \in Run, s \in {"running", "paused", "need_input"} :
        <>[]Settled(t, r, s) =>
            <>[](lit[t][r] = MarkOf(s))

\* A run whose writer died with a beat behind it goes dark (writerIsDead).
DeadGoesDark ==
    \A r \in Run :
        (r \notin alive /\ r \in beat) ~> [](\A t \in Tab : lit[t][r] = None)
=============================================================================

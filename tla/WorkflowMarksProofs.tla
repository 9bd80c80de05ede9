-------------------------- MODULE WorkflowMarksProofs --------------------------
(***************************************************************************)
(* WorkflowMarks for every set of tabs, runs and sessions, every clock and *)
(* any number of failed reads: WatchInv is inductive, and the type         *)
(* invariant and the three safety properties follow from it.               *)
(***************************************************************************)
EXTENDS WorkflowMarks, TLAPS

USE WorkflowAssumption DEF Statuses, MarkStates, Times

\* A run under judgement has an identity, a judged one a reading.
PassShape ==
    /\ pass \in {"read", "judge"} =>
          seenId \in Run \X Identity /\ seenId[1] \notin todo
    /\ pass = "judge" => text \in Reading

WatchTypes == TypeOK /\ PassShape

-----------------------------------------------------------------------------
(* Types.                                                                  *)

LEMMA TypesInit == Init => WatchTypes
  BY DEF Init, WatchTypes, TypeOK, PassShape, NoVerdicts, NoTabs, Dark

\* What the watcher makes of a record is a reading.
LEMMA ReadingTypes ==
  ASSUME TypeOK, NEW r \in Run
  PROVE  /\ IdOf(r) \in Identity
         /\ \A v \in Verdict : ReadingOf(v) \in Reading
         /\ Carried(verdicts[r]) \in Reading
         /\ Classified(r) \in Reading
         /\ \A c \in Reading, id \in Identity : VerdictUnder(c, id) \in Verdict
  <1>1. IdOf(r) \in Identity
    BY DEF IdOf, Identity, TypeOK
  <1>2. \A v \in Verdict : ReadingOf(v) \in Reading
    BY DEF ReadingOf, Verdict, Reading
  <1>3. Carried(verdicts[r]) \in Reading
    BY <1>2 DEF Carried, Reading, TypeOK
  <1>4. Classified(r) \in Reading
    <2>1. MarkOf(status[r]) \in MarkStates \cup {None}
      BY DEF MarkOf
    <2>2. own[r] \in SUBSET Session
      BY DEF TypeOK
    <2>3. QED BY <1>3, <2>1, <2>2 DEF Classified, RunSessions, Reading
  <1>5. \A c \in Reading, id \in Identity : VerdictUnder(c, id) \in Verdict
    BY DEF VerdictUnder, Verdict, Reading
  <1>6. QED BY <1>1, <1>2, <1>3, <1>4, <1>5

LEMMA TypesStep == WatchTypes /\ [Next]_vars => WatchTypes'
  <1> SUFFICES ASSUME WatchTypes, [Next]_vars PROVE WatchTypes'
    OBVIOUS
  <1> USE ReadingTypes DEF WatchTypes, TypeOK, PassShape, NoVerdicts, NoTabs, Dark,
          recordVars, tabVars, watchVars, passVars
  <1>1. CASE Tick
    BY <1>1 DEF Tick
  <1>2. CASE BeginPass
    <2>1. todo' \subseteq Run /\ failures' \in 0 .. MaxFailures
      BY <1>2 DEF BeginPass, Present
    <2>2. QED BY <1>2, <2>1 DEF BeginPass
  <1>3. CASE ReadRecord
    BY <1>3 DEF ReadRecord, Classified, Carried, RunSessions, ReadingOf
  <1>4. CASE ReadFails
    BY <1>4 DEF ReadFails, FailedVerdict
  <1>5. CASE Judge
    <2> DEFINE r == seenId[1]
    <2>1. r \in Run /\ seenId[2] \in Identity /\ text \in Reading
      BY <1>5 DEF Judge
    <2>2. seen' \in [Run -> {None} \cup Verdict]
      <3>1. VerdictUnder(text, seenId[2]) \in Verdict
        BY <2>1
      <3>2. seen' = [seen EXCEPT ![r] = VerdictUnder(text, seenId[2])]
        BY <1>5 DEF Judge, StampOf
      <3>3. QED BY <2>1, <3>1, <3>2
    <2>3. text.state \in MarkStates \cup {None}
      BY <2>1 DEF Reading
    <2>4. admitted' \in [Tab -> [Run -> {None} \cup MarkStates]]
      BY <1>5, <2>1, <2>3 DEF Judge
    <2>5. failures' \in 0 .. MaxFailures
      BY <1>5 DEF Judge
    <2>6. QED BY <1>5, <2>2, <2>4, <2>5 DEF Judge
  <1>6. CASE Publish
    BY <1>6 DEF Publish
  <1>7. ASSUME NEW r \in Run, StatFails(r) PROVE WatchTypes'
    BY <1>7 DEF StatFails
  <1>8. ASSUME NEW r \in Run, Stat(r) PROVE WatchTypes'
    BY <1>8 DEF Stat
  <1>9. ASSUME NEW r \in Run, BeginWrite(r) PROVE WatchTypes'
    BY <1>9 DEF BeginWrite
  <1>10. ASSUME NEW r \in Run, EndWrite(r) PROVE WatchTypes'
    BY <1>10 DEF EndWrite
  <1>11. ASSUME NEW r \in Run, WriterDies(r) PROVE WatchTypes'
    BY <1>11 DEF WriterDies
  <1>12. ASSUME NEW r \in Run, RemoveRun(r) PROVE WatchTypes'
    BY <1>12 DEF RemoveRun
  <1>13. ASSUME NEW t \in Tab, OpenTab(t) PROVE WatchTypes'
    BY <1>13 DEF OpenTab
  <1>14. ASSUME NEW t \in Tab, CloseTab(t) PROVE WatchTypes'
    BY <1>14 DEF CloseTab
  <1>15. ASSUME NEW t \in Tab, NEW s \in Session, MapTab(t, s) PROVE WatchTypes'
    BY <1>15 DEF MapTab
  <1>16. CASE UNCHANGED vars
    BY <1>16 DEF vars
  <1>17. QED
    BY <1>1, <1>2, <1>3, <1>4, <1>5, <1>6, <1>7, <1>8, <1>9, <1>10, <1>11, <1>12,
       <1>13, <1>14, <1>15, <1>16 DEF Next, Pass, Kiro

-----------------------------------------------------------------------------
(* The cache.                                                              *)

\* The pass is at r.
At(r) == pass \in {"read", "judge"} /\ seenId[1] = r

\* An identity seen of r is of the text that is there, or of an older one: a record
\* being rewritten is younger than every whole text the poller met.
Past(r, id) ==
    /\ id[1] <= written[r]
    /\ id[2] = "whole" /\ status[r] = "torn" => id[1] < written[r]

IdentitiesOf(r) ==
    /\ written[r] <= clock
    /\ verdicts[r] # None => Past(r, verdicts[r].id)
    /\ seen[r] # None => Past(r, seen[r].id)
    /\ At(r) => Past(r, seenId[2])
    /\ status[r] = "absent" /\ r \in alive =>
          verdicts[r] = None /\ seen[r] = None /\ ~At(r)

Identities == \A r \in Run : IdentitiesOf(r)

\* A reading under an identity is the reading of the text that still has it.
Vouched(r, id, c) ==
    status[r] \notin {"absent", "torn"} /\ id = IdOf(r) =>
        /\ c.state = MarkOf(status[r])
        /\ c.state # None => c.owners = RunSessions(r)

Readings ==
    \A r \in Run :
        /\ verdicts[r] # None => Vouched(r, verdicts[r].id, verdicts[r])
        /\ seen[r] # None => Vouched(r, seen[r].id, seen[r])
        /\ pass = "judge" /\ At(r) => Vouched(r, seenId[2], text)

LEMMA IdentitiesInit == Init => Identities /\ Readings
  BY DEF Init, Identities, IdentitiesOf, Readings, NoVerdicts, At

\* A write leaves every identity seen before it behind.
LEMMA PastAhead ==
  ASSUME NEW r \in Run, NEW id \in Identity, Past(r, id),
         written[r] \in Nat, written'[r] \in Nat,
         \/ written'[r] > written[r]
         \/ written'[r] >= written[r] /\ status'[r] # "torn"
  PROVE  Past(r, id)'
  <1>1. id[1] \in Nat
    BY DEF Identity
  <1>2. QED BY <1>1 DEF Past

LEMMA IdentitiesStep == WatchTypes /\ Identities /\ [Next]_vars => Identities'
  <1> SUFFICES ASSUME WatchTypes, Identities, [Next]_vars
               PROVE  Identities'
    OBVIOUS
  <1> USE DEF WatchTypes, TypeOK, PassShape, Verdict, Reading,
              recordVars, tabVars, watchVars, passVars, NoVerdicts, NoTabs, Dark,
              Identities, IdentitiesOf, Past, At
  <1>1. CASE Tick
    BY <1>1 DEF Tick
  <1>2. CASE BeginPass
    BY <1>2 DEF BeginPass
  <1>3. CASE ReadRecord
    BY <1>3 DEF ReadRecord, Classified
  <1>4. CASE ReadFails
    BY <1>4 DEF ReadFails, FailedVerdict
  <1>5. CASE Judge
    BY <1>5 DEF Judge, VerdictUnder, StampOf, TabsOf, NotBefore
  <1>6. CASE Publish
    BY <1>6 DEF Publish
  <1>7. ASSUME NEW r \in Run, StatFails(r) PROVE Identities'
    BY <1>7 DEF StatFails
  <1>8. ASSUME NEW r \in Run, Stat(r) PROVE Identities'
    BY <1>8 DEF Stat, IdOf, ReadingOf
  <1>9. ASSUME NEW r \in Run, BeginWrite(r) PROVE Identities'
    <2>1. written'[r] = clock /\ \A q \in Run \ {r} : written'[q] = written[q]
      BY <1>9 DEF BeginWrite
    <2>2. \A q \in Run \ {r} : status'[q] = status[q]
      BY <1>9 DEF BeginWrite
    <2>3. status'[r] = "torn"
      BY <1>9 DEF BeginWrite
    <2>4. (status[r] = "absent" /\ r \in alive) \/ written[r] < clock
      BY <1>9 DEF BeginWrite
    <2>5. UNCHANGED <<clock, verdicts, seen, seenId, pass, alive>>
      BY <1>9 DEF BeginWrite
    <2>6. IdentitiesOf(r)'
      <3>1. CASE status[r] = "absent" /\ r \in alive
        BY <2>1, <2>3, <2>5, <3>1
      <3>2. CASE written[r] < clock
        <4> HIDE DEF Past
        <4>1. \A id \in Identity : Past(r, id) => Past(r, id)'
          BY <2>1, <2>5, <3>2, PastAhead
        <4>2. QED BY <2>1, <2>3, <2>5, <4>1
      <3>3. QED BY <2>4, <3>1, <3>2
    <2>7. ASSUME NEW q \in Run \ {r} PROVE IdentitiesOf(q)'
      BY <2>1, <2>2, <2>3, <2>4, <2>5
    <2>8. QED BY <2>6, <2>7 DEF Identities
  <1>10. ASSUME NEW r \in Run, EndWrite(r) PROVE Identities'
    <2>1. written'[r] = clock /\ \A q \in Run \ {r} : written'[q] = written[q]
      BY <1>10 DEF EndWrite
    <2>2. \A q \in Run \ {r} : status'[q] = status[q]
      BY <1>10 DEF EndWrite
    <2>3. status'[r] \notin {"absent", "torn"}
      BY <1>10 DEF EndWrite
    <2>4. UNCHANGED <<clock, verdicts, seen, seenId, pass, alive>>
      BY <1>10 DEF EndWrite
    <2>5. IdentitiesOf(r)'
      <3> HIDE DEF Past
      <3>1. \A id \in Identity : Past(r, id) => Past(r, id)'
        BY <2>1, <2>3, <2>4, PastAhead
      <3>2. QED BY <2>1, <2>3, <2>4, <3>1
    <2>6. ASSUME NEW q \in Run \ {r} PROVE IdentitiesOf(q)'
      BY <2>1, <2>2, <2>3, <2>4
    <2>7. QED BY <2>5, <2>6 DEF Identities
  <1>11. ASSUME NEW r \in Run, WriterDies(r) PROVE Identities'
    BY <1>11 DEF WriterDies
  <1>12. ASSUME NEW r \in Run, RemoveRun(r) PROVE Identities'
    BY <1>12 DEF RemoveRun
  <1>13. ASSUME NEW t \in Tab, OpenTab(t) PROVE Identities'
    BY <1>13 DEF OpenTab
  <1>14. ASSUME NEW t \in Tab, CloseTab(t) PROVE Identities'
    BY <1>14 DEF CloseTab
  <1>15. ASSUME NEW t \in Tab, NEW s \in Session, MapTab(t, s) PROVE Identities'
    BY <1>15 DEF MapTab
  <1>16. CASE UNCHANGED vars
    BY <1>16 DEF vars
  <1>17. QED
    BY <1>1, <1>2, <1>3, <1>4, <1>5, <1>6, <1>7, <1>8, <1>9, <1>10, <1>11, <1>12,
       <1>13, <1>14, <1>15, <1>16 DEF Next, Pass, Kiro

LEMMA ReadingsStep == WatchTypes /\ Identities /\ Readings /\ [Next]_vars => Readings'
  <1> SUFFICES ASSUME WatchTypes, Identities, Readings, [Next]_vars
               PROVE  Readings'
    OBVIOUS
  <1> USE DEF WatchTypes, TypeOK, PassShape, Verdict, Reading,
              recordVars, tabVars, watchVars, passVars, NoVerdicts, NoTabs, Dark,
              Identities, IdentitiesOf, Past, At, Readings, Vouched, IdOf, RunSessions
  <1>1. CASE Tick
    BY <1>1 DEF Tick
  <1>2. CASE BeginPass
    BY <1>2 DEF BeginPass
  <1>3. CASE ReadRecord
    BY <1>3 DEF ReadRecord, Classified, Carried, RunSessions, ReadingOf
  <1>4. CASE ReadFails
    BY <1>4 DEF ReadFails, FailedVerdict
  <1>5. CASE Judge
    BY <1>5 DEF Judge, VerdictUnder, StampOf, TabsOf, NotBefore
  <1>6. CASE Publish
    BY <1>6 DEF Publish
  <1>7. ASSUME NEW r \in Run, StatFails(r) PROVE Readings'
    BY <1>7 DEF StatFails
  <1>8. ASSUME NEW r \in Run, Stat(r) PROVE Readings'
    BY <1>8 DEF Stat, IdOf, ReadingOf
  <1>9. ASSUME NEW r \in Run, BeginWrite(r) PROVE Readings'
    BY <1>9 DEF BeginWrite
  <1>10. ASSUME NEW r \in Run, EndWrite(r) PROVE Readings'
    BY <1>10 DEF EndWrite
  <1>11. ASSUME NEW r \in Run, WriterDies(r) PROVE Readings'
    BY <1>11 DEF WriterDies
  <1>12. ASSUME NEW r \in Run, RemoveRun(r) PROVE Readings'
    BY <1>12 DEF RemoveRun
  <1>13. ASSUME NEW t \in Tab, OpenTab(t) PROVE Readings'
    BY <1>13 DEF OpenTab
  <1>14. ASSUME NEW t \in Tab, CloseTab(t) PROVE Readings'
    BY <1>14 DEF CloseTab
  <1>15. ASSUME NEW t \in Tab, NEW s \in Session, MapTab(t, s) PROVE Readings'
    BY <1>15 DEF MapTab
  <1>16. CASE UNCHANGED vars
    BY <1>16 DEF vars
  <1>17. QED
    BY <1>1, <1>2, <1>3, <1>4, <1>5, <1>6, <1>7, <1>8, <1>9, <1>10, <1>11, <1>12,
       <1>13, <1>14, <1>15, <1>16 DEF Next, Pass, Kiro

-----------------------------------------------------------------------------
(* The age of a mark.                                                      *)

\* A tab opens once, so a live tab the pass knows is the one it listed.
SnapshotTrue ==
    \A t \in Tab :
        snap[t] # None => \/ opened[t] = snap[t]
                          \/ opened[t] = None /\ mapping[t] # None

\* A mark is of a paired tab, no older than its record.
OldEnough(t, r) ==
    mapping[t] # None /\ (opened[t] # None => written[r] >= opened[t])

Ages ==
    /\ SnapshotTrue
    /\ \A t \in Tab, r \in Run :
          /\ admitted[t][r] # None => OldEnough(t, r)
          /\ lit[t][r] # None => OldEnough(t, r)

LEMMA AgesInit == Init => Ages
  BY DEF Init, Ages, SnapshotTrue, NoTabs, Dark

LEMMA AgesStep == WatchTypes /\ Identities /\ Ages /\ [Next]_vars => Ages'
  <1> SUFFICES ASSUME WatchTypes, Identities, Ages, [Next]_vars
               PROVE  Ages'
    OBVIOUS
  <1> USE DEF WatchTypes, TypeOK, PassShape, Verdict, Reading,
              recordVars, tabVars, watchVars, passVars, NoVerdicts, NoTabs, Dark,
              Identities, IdentitiesOf, Past, At, Ages, SnapshotTrue, OldEnough
  <1>1. CASE Tick
    BY <1>1 DEF Tick
  <1>2. CASE BeginPass
    BY <1>2 DEF BeginPass
  <1>3. CASE ReadRecord
    BY <1>3 DEF ReadRecord, Classified, Carried, RunSessions, ReadingOf
  <1>4. CASE ReadFails
    BY <1>4 DEF ReadFails, FailedVerdict
  <1>5. CASE Judge
    <2> DEFINE r == seenId[1]
    <2>1. /\ r \in Run /\ seenId[2] \in Identity /\ seenId[2][1] <= written[r]
          /\ text \in Reading
      BY <1>5 DEF Judge
    <2>2. UNCHANGED <<written, opened, mapping, snap, lit>>
      BY <1>5 DEF Judge
    <2>3. ASSUME NEW t \in Tab, NEW q \in Run, admitted'[t][q] # None
          PROVE  OldEnough(t, q)
      <3>1. CASE admitted'[t][q] = admitted[t][q]
        BY <2>3, <3>1
      <3>2. CASE admitted'[t][q] # admitted[t][q]
        <4>1. q = r /\ t \in TabsOf(text.owners) /\ NotBefore(seenId[2][1], t)
          BY <1>5, <3>2 DEF Judge
        <4>2. /\ snap[t] # None /\ mapping[t] \in text.owners
              /\ seenId[2][1] >= snap[t]
          BY <4>1 DEF TabsOf, NotBefore
        <4>3. mapping[t] # None
          BY <2>1, <4>2
        <4>4. opened[t] # None => opened[t] = snap[t] /\ opened[t] \in Times
          BY <4>2
        <4>5. QED BY <2>1, <4>1, <4>2, <4>3, <4>4 DEF Identity
      <3>3. QED BY <3>1, <3>2
    <2>4. QED BY <2>2, <2>3
  <1>6. CASE Publish
    BY <1>6 DEF Publish
  <1>7. ASSUME NEW r \in Run, StatFails(r) PROVE Ages'
    BY <1>7 DEF StatFails
  <1>8. ASSUME NEW r \in Run, Stat(r) PROVE Ages'
    BY <1>8 DEF Stat, IdOf, ReadingOf
  <1>9. ASSUME NEW r \in Run, BeginWrite(r) PROVE Ages'
    BY <1>9 DEF BeginWrite
  <1>10. ASSUME NEW r \in Run, EndWrite(r) PROVE Ages'
    BY <1>10 DEF EndWrite
  <1>11. ASSUME NEW r \in Run, WriterDies(r) PROVE Ages'
    BY <1>11 DEF WriterDies
  <1>12. ASSUME NEW r \in Run, RemoveRun(r) PROVE Ages'
    BY <1>12 DEF RemoveRun
  <1>13. ASSUME NEW t \in Tab, OpenTab(t) PROVE Ages'
    BY <1>13 DEF OpenTab
  <1>14. ASSUME NEW t \in Tab, CloseTab(t) PROVE Ages'
    BY <1>14 DEF CloseTab
  <1>15. ASSUME NEW t \in Tab, NEW s \in Session, MapTab(t, s) PROVE Ages'
    BY <1>15 DEF MapTab
  <1>16. CASE UNCHANGED vars
    BY <1>16 DEF vars
  <1>17. QED
    BY <1>1, <1>2, <1>3, <1>4, <1>5, <1>6, <1>7, <1>8, <1>9, <1>10, <1>11, <1>12,
       <1>13, <1>14, <1>15, <1>16 DEF Next, Pass, Kiro

-----------------------------------------------------------------------------
(* The verdict in use.                                                     *)

\* c is what the last whole text read of r came to.
IsMeasured(r, c) == c.state = measured[r].state /\ c.owners = measured[r].owners

\* While no read failed: a run the pass has not come to has the verdict of its last
\* whole text in the cache, one it is at in hand, one it is through with in seen.
Carrying ==
    /\ \A r \in Run : status[r] = "absent" => measured[r] = None
    /\ failures = 0 =>
        \A r \in Run : measured[r] # None =>
            IF pass = "idle" \/ r \in todo \/ (pass = "read" /\ At(r))
            THEN verdicts[r] # None /\ IsMeasured(r, verdicts[r])
            ELSE IF At(r) THEN IsMeasured(r, text)
            ELSE seen[r] # None /\ IsMeasured(r, seen[r])

LEMMA CarryingInit == Init => Carrying
  BY DEF Init, Carrying, NoVerdicts

LEMMA CarryingStep == WatchTypes /\ Carrying /\ [Next]_vars => Carrying'
  <1> SUFFICES ASSUME WatchTypes, Carrying, [Next]_vars
               PROVE  Carrying'
    OBVIOUS
  <1> USE DEF WatchTypes, TypeOK, PassShape, Verdict, Reading,
              recordVars, tabVars, watchVars, passVars, NoVerdicts, NoTabs, Dark,
              At, Carrying, IsMeasured
  <1>1. CASE Tick
    BY <1>1 DEF Tick
  <1>2. CASE BeginPass
    <2>1. CASE todo' = Present /\ UNCHANGED failures
      BY <1>2, <2>1 DEF BeginPass, Present
    <2>2. CASE failures' = failures + 1
      <3>1. failures' # 0 /\ UNCHANGED <<status, measured>>
        BY <1>2, <2>2 DEF BeginPass
      <3>2. QED BY <3>1
    <2>3. QED BY <1>2, <2>1, <2>2 DEF BeginPass
  <1>3. CASE ReadRecord
    <2> DEFINE r == seenId[1]
    <2>1. /\ r \in Run /\ At(r) /\ pass = "read" /\ pass' = "judge"
          /\ status[r] # "absent" /\ text' = Classified(r)
      BY <1>3 DEF ReadRecord
    <2>2. /\ UNCHANGED <<status, failures, todo, verdicts, seen, seenId>>
          /\ \A q \in Run \ {r} : measured'[q] = measured[q]
      BY <1>3 DEF ReadRecord
    <2>3. CASE status[r] = "torn"
      <3>1. measured'[r] = measured[r]
        BY <1>3, <2>3 DEF ReadRecord
      <3>2. verdicts[r] # None => text' = ReadingOf(verdicts[r])
        BY <2>1, <2>3 DEF Classified, Carried
      <3>3. QED BY <2>1, <2>2, <3>1, <3>2 DEF ReadingOf
    <2>4. CASE status[r] # "torn"
      <3>1. measured'[r] = text'
        BY <1>3, <2>1, <2>4 DEF ReadRecord
      <3>2. QED BY <2>1, <2>2, <3>1
    <2>5. QED BY <2>3, <2>4
  <1>4. CASE ReadFails
    BY <1>4 DEF ReadFails, FailedVerdict
  <1>5. CASE Judge
    BY <1>5 DEF Judge, VerdictUnder, StampOf, TabsOf, NotBefore
  <1>6. CASE Publish
    BY <1>6 DEF Publish
  <1>7. ASSUME NEW r \in Run, StatFails(r) PROVE Carrying'
    BY <1>7 DEF StatFails
  <1>8. ASSUME NEW r \in Run, Stat(r) PROVE Carrying'
    BY <1>8 DEF Stat, IdOf, ReadingOf
  <1>9. ASSUME NEW r \in Run, BeginWrite(r) PROVE Carrying'
    BY <1>9 DEF BeginWrite
  <1>10. ASSUME NEW r \in Run, EndWrite(r) PROVE Carrying'
    <2>1. /\ UNCHANGED <<verdicts, pass, todo, seen, seenId, text, failures, measured>>
          /\ \A q \in Run : status'[q] = "absent" => status[q] = "absent"
      <3>1. UNCHANGED <<verdicts, pass, todo, seen, seenId, text, failures, measured>>
        BY <1>10 DEF EndWrite
      <3>2. PICK s \in Recorded : status' = [status EXCEPT ![r] = s]
        BY <1>10 DEF EndWrite
      <3>3. s # "absent"
        OBVIOUS
      <3>4. QED BY <3>1, <3>2, <3>3
    <2>2. QED BY <2>1
  <1>11. ASSUME NEW r \in Run, WriterDies(r) PROVE Carrying'
    BY <1>11 DEF WriterDies
  <1>12. ASSUME NEW r \in Run, RemoveRun(r) PROVE Carrying'
    BY <1>12 DEF RemoveRun
  <1>13. ASSUME NEW t \in Tab, OpenTab(t) PROVE Carrying'
    BY <1>13 DEF OpenTab
  <1>14. ASSUME NEW t \in Tab, CloseTab(t) PROVE Carrying'
    BY <1>14 DEF CloseTab
  <1>15. ASSUME NEW t \in Tab, NEW s \in Session, MapTab(t, s) PROVE Carrying'
    BY <1>15 DEF MapTab
  <1>16. CASE UNCHANGED vars
    BY <1>16 DEF vars
  <1>17. QED
    BY <1>1, <1>2, <1>3, <1>4, <1>5, <1>6, <1>7, <1>8, <1>9, <1>10, <1>11, <1>12,
       <1>13, <1>14, <1>15, <1>16 DEF Next, Pass, Kiro

-----------------------------------------------------------------------------
(* The invariant, and what follows.                                        *)

WatchInv == WatchTypes /\ Identities /\ Readings /\ Ages /\ Carrying

\* WatchInv, the strengthening that the properties need, holds throughout.
THEOREM WatchInductive == Spec => []WatchInv
  <1>1. Init => WatchInv
    BY TypesInit, IdentitiesInit, AgesInit, CarryingInit DEF WatchInv
  <1>2. WatchInv /\ [Next]_vars => WatchInv'
    BY TypesStep, IdentitiesStep, ReadingsStep, AgesStep, CarryingStep DEF WatchInv
  <1>3. QED BY <1>1, <1>2, PTL DEF Spec

\* Every variable of the watcher keeps its type (workflowmark.go).
THEOREM TypeCorrect == Spec => []TypeOK
  <1>1. WatchInv => TypeOK
    BY DEF WatchInv, WatchTypes
  <1>2. QED BY <1>1, WatchInductive, PTL

\* A verdict cached under an identity is that of the text that has it, however the
\* write and the poller's stat and read interleave (verdictFor, classify).
THEOREM CacheNeedsNoFlush == Spec => []CacheSound
  <1>1. WatchInv => CacheSound
    BY DEF WatchInv, Readings, Vouched, CacheSound
  <1>2. QED BY <1>1, WatchInductive, PTL

\* No tab is lit by a record older than itself (admitRun).
THEOREM OlderRecordsStayDark == Spec => []AbandonedStaysDark
  <1>1. WatchInv => AbandonedStaysDark
    BY DEF WatchInv, Ages, OldEnough, AbandonedStaysDark
  <1>2. QED BY <1>1, WatchInductive, PTL

\* The engine is told of a tab the mark of a run that is not older than it, and of
\* several runs none less pressing than any of theirs (foldWorkflowMarks, admitRun).
AsPressing(mark) ==
    CASE mark = "working" -> MarkStates
      [] mark = "waiting" -> {"waiting", "input"}
      [] OTHER            -> {"input"}

ActivityOfARun ==
    \A t \in Tab :
        /\ Activity(t) # None /\ opened[t] # None =>
              \E r \in Run : lit[t][r] = Activity(t) /\ written[r] >= opened[t]
        /\ \A r \in Run : lit[t][r] # None => Activity(t) \in AsPressing(lit[t][r])

THEOREM MostPressingIsTold == Spec => []ActivityOfARun
  <1>1. WatchInv => ActivityOfARun
    <2> SUFFICES ASSUME WatchInv, NEW t \in Tab
                 PROVE  /\ Activity(t) # None /\ opened[t] # None =>
                              \E r \in Run : /\ lit[t][r] = Activity(t)
                                            /\ written[r] >= opened[t]
                        /\ \A r \in Run :
                              lit[t][r] # None => Activity(t) \in AsPressing(lit[t][r])
      BY DEF ActivityOfARun
    <2>1. \A r \in Run : /\ lit[t][r] \in {None} \cup MarkStates
                         /\ lit[t][r] # None => OldEnough(t, r)
      BY DEF WatchInv, WatchTypes, TypeOK, Ages
    <2>2. Activity(t) # None => Shows(t, Activity(t))
      BY DEF Activity
    <2>3. ASSUME Activity(t) # None, opened[t] # None
          PROVE  \E r \in Run : lit[t][r] = Activity(t) /\ written[r] >= opened[t]
      BY <2>1, <2>2, <2>3 DEF Shows, OldEnough
    <2>4. ASSUME NEW r \in Run, lit[t][r] # None
          PROVE  Activity(t) \in AsPressing(lit[t][r])
      <3>1. Shows(t, lit[t][r]) /\ lit[t][r] \in MarkStates
        BY <2>1, <2>4 DEF Shows
      <3>2. QED BY <3>1 DEF Activity, AsPressing, MarkStates
    <2>5. QED BY <2>3, <2>4
  <1>2. QED BY <1>1, WatchInductive, PTL

\* A torn record keeps the mark of the last whole one (classify).
THEOREM TornKeepsTheMark == Spec => []LastWholeVerdict
  <1>1. WatchInv => LastWholeVerdict
    BY DEF WatchInv, Carrying, IsMeasured, LastWholeVerdict
  <1>2. QED BY <1>1, WatchInductive, PTL
=============================================================================

--------------------------- MODULE ImagePasteProofs ----------------------------
(***************************************************************************)
(* ImagePaste for every number of pastes, panes, tabs and files, and every *)
(* clock: PasteInv is inductive, and the type invariant,                   *)
(* TypedWhereItWasAimed and PathsHoldTheirImages follow from it.           *)
(***************************************************************************)
EXTENDS ImagePaste, TLAPS

USE PasteAssumption DEF None, Seconds, Places, Image, Name, Chains, Requests

\* A paste sends its first images, MaxFiles of them at most.
LEMMA SentType ==
  ASSUME NEW p \in Paste
  PROVE  Sent(p) \in Places
  BY DEF Sent

\* Where a chain stands, and what has been fixed by then: its pane, its tab, its
\* request.
ChainOrder ==
    \A p \in Paste :
        /\ pane[p] = None <=> chain[p] = "new"
        /\ aimed[p] = None <=> chain[p] = "new"
        /\ chain[p] \in {"prepare", "upload", "answer"} => session[p] # None
        /\ chain[p] \in {"new", "clipboard"} => session[p] = None
        /\ chain[p] \in {"new", "clipboard", "prepare", "upload"} =>
              request[p] = "absent"
        /\ chain[p] # "done" => typed[p] = None
        /\ request[p] # "absent" => session[p] # None
        /\ written[p] # 0 => request[p] # "absent"
        /\ p \notin Keys => chain[p] # "clipboard"

PasteTypes == TypeOK /\ ChainOrder

-----------------------------------------------------------------------------
(* Types.                                                                  *)

LEMMA TypesInit == Init => PasteTypes
  BY DEF Init, PasteTypes, TypeOK, ChainOrder

LEMMA TypesStep == PasteTypes /\ [Next]_vars => PasteTypes'
  <1> SUFFICES ASSUME PasteTypes, [Next]_vars PROVE PasteTypes'
    OBVIOUS
  <1> USE SentType DEF PasteTypes, TypeOK, ChainOrder, pageVars, chainVars, serverVars,
          historyVars
  <1>1. CASE Tick
    BY <1>1 DEF Tick
  <1>2. ASSUME NEW n \in Pane, Release(n) PROVE PasteTypes'
    BY <1>2 DEF Release
  <1>3. ASSUME NEW n \in Pane, NEW s \in Session, ShowTab(n, s) PROVE PasteTypes'
    BY <1>3 DEF ShowTab
  <1>4. ASSUME NEW p \in Paste, NEW n \in Pane, PasteInto(p, n) PROVE PasteTypes'
    <2>1. CASE p \in Keys
      <3>1. TypeOK'
        BY <1>4, <2>1 DEF PasteInto, Goto
      <3>2. ChainOrder'
        BY <1>4, <2>1 DEF PasteInto, Goto
      <3>3. QED BY <3>1, <3>2
    <2>2. CASE p \notin Keys
      <3>1. InsertImages(p, n)
        BY <1>4, <2>2 DEF PasteInto
      <3>2. chain' \in [Paste -> Chains]
        BY <3>1 DEF InsertImages, Goto
      <3>3. stamp' \in [Paste -> Seconds]
        BY <3>1 DEF InsertImages
      <3>4. session' \in [Paste -> {None} \cup Session]
        BY <3>1 DEF InsertImages, CapturedSession
      <3>5. /\ pane' \in [Paste -> {None} \cup Pane]
            /\ aimed' \in [Paste -> {None} \cup Session]
        BY <1>4 DEF PasteInto
      <3>6. TypeOK'
        BY <1>4, <3>2, <3>3, <3>4, <3>5 DEF PasteInto
      <3>7. ChainOrder'
        BY <1>4, <2>2, <3>1 DEF PasteInto, InsertImages, CapturedSession, Goto
      <3>8. QED BY <3>6, <3>7
    <2>3. QED BY <2>1, <2>2
  <1>5. ASSUME NEW p \in Paste, ClipboardAnswers(p) PROVE PasteTypes'
    <2>1. CASE InsertImages(p, pane[p])
      <3>1. TypeOK'
        BY <1>5, <2>1 DEF ClipboardAnswers, InsertImages, CapturedSession, Goto
      <3>2. ChainOrder'
        BY <1>5, <2>1 DEF ClipboardAnswers, InsertImages, CapturedSession, Goto
      <3>3. QED BY <3>1, <3>2
    <2>2. CASE Goto(p, "done") /\ UNCHANGED <<session, stamp>>
      BY <1>5, <2>2 DEF ClipboardAnswers, Goto
    <2>3. QED BY <1>5, <2>1, <2>2 DEF ClipboardAnswers
  <1>6. ASSUME NEW p \in Paste, Prepare(p) PROVE PasteTypes'
    <2>1. TypeOK'
      <3>1. chain' \in [Paste -> Chains]
        BY <1>6 DEF Prepare, Goto
      <3>2. QED BY <1>6, <3>1 DEF Prepare
    <2>2. ChainOrder'
      BY <1>6 DEF Prepare, Goto
    <2>3. QED BY <2>1, <2>2
  <1>7. ASSUME NEW p \in Paste, Post(p) PROVE PasteTypes'
    <2>1. TypeOK'
      <3>1. chain' \in [Paste -> Chains]
        BY <1>7 DEF Post, Goto
      <3>2. request' \in [Paste -> Requests]
        BY <1>7 DEF Post
      <3>3. QED BY <1>7, <3>1, <3>2 DEF Post
    <2>2. ChainOrder'
      BY <1>7 DEF Post, Goto
    <2>3. QED BY <2>1, <2>2
  <1>8. ASSUME NEW p \in Paste, AbortFetch(p) PROVE PasteTypes'
    <2>1. TypeOK'
      <3>1. chain' \in [Paste -> Chains]
        BY <1>8 DEF AbortFetch, Goto
      <3>2. request' \in [Paste -> Requests]
        BY <1>8 DEF AbortFetch
      <3>3. QED BY <1>8, <3>1, <3>2 DEF AbortFetch
    <2>2. ChainOrder'
      BY <1>8 DEF AbortFetch, Goto
    <2>3. QED BY <2>1, <2>2
  <1>9. ASSUME NEW p \in Paste, UploadFails(p) PROVE PasteTypes'
    <2>1. TypeOK'
      <3>1. chain' \in [Paste -> Chains]
        BY <1>9 DEF UploadFails, Goto
      <3>2. QED BY <1>9, <3>1 DEF UploadFails
    <2>2. ChainOrder'
      BY <1>9 DEF UploadFails, Goto
    <2>3. QED BY <2>1, <2>2
  <1>10. ASSUME NEW p \in Paste, TypePaths(p) PROVE PasteTypes'
    <2>1. Names(p) \in Seq(Name)
      <3>1. \A i \in 1 .. Sent(p) : NameOf(p, i) \in Name
        BY DEF NameOf
      <3>2. Sent(p) \in Nat
        OBVIOUS
      <3>3. QED BY ONLY <3>1, <3>2, SMT DEF Names
    <2>2. pane[p] \in Pane
      BY <1>10 DEF TypePaths
    <2>3. TypeOK'
      BY <1>10, <2>1, <2>2 DEF TypePaths, Goto
    <2>4. ChainOrder'
      BY <1>10 DEF TypePaths, Goto
    <2>5. QED BY <2>3, <2>4
  <1>11. ASSUME NEW p \in Paste, WritePart(p) PROVE PasteTypes'
    <2>1. written' \in [Paste -> 0 .. MaxFiles]
      BY <1>11 DEF WritePart
    <2>2. files' \in [Name -> {None} \cup Image]
      BY <1>11 DEF WritePart, NameOf
    <2>3. TypeOK'
      BY <1>11, <2>1, <2>2 DEF WritePart
    <2>4. ChainOrder'
      BY <1>11 DEF WritePart
    <2>5. QED BY <2>3, <2>4
  <1>12. ASSUME NEW p \in Paste, RefusePart(p) PROVE PasteTypes'
    BY <1>12 DEF RefusePart
  <1>13. ASSUME NEW p \in Paste, AnswerPaths(p) PROVE PasteTypes'
    BY <1>13 DEF AnswerPaths, AllWritten
  <1>14. CASE UNCHANGED vars
    BY <1>14 DEF vars
  <1>15. QED
    BY <1>1, <1>2, <1>3, <1>4, <1>5, <1>6, <1>7, <1>8, <1>9, <1>10, <1>11, <1>12,
       <1>13, <1>14 DEF Next, User, Page, Server

-----------------------------------------------------------------------------
(* Where a path is typed.                                                  *)

\* A paste event's tab is captured with the paste.
AimTaken ==
    \A p \in Paste \ Keys :
        /\ session[p] = aimed[p]
        /\ typed[p] # None => typed[p][1] = aimed[p]

LEMMA AimInit == Init => AimTaken
  BY DEF Init, AimTaken

LEMMA AimStep == PasteTypes /\ AimTaken /\ [Next]_vars => AimTaken'
  <1> SUFFICES ASSUME PasteTypes, AimTaken, [Next]_vars PROVE AimTaken'
    OBVIOUS
  <1> USE DEF PasteTypes, TypeOK, ChainOrder, AimTaken, pageVars, chainVars, serverVars,
          historyVars
  <1>1. CASE Tick
    BY <1>1 DEF Tick
  <1>2. ASSUME NEW n \in Pane, Release(n) PROVE AimTaken'
    BY <1>2 DEF Release
  <1>3. ASSUME NEW n \in Pane, NEW s \in Session, ShowTab(n, s) PROVE AimTaken'
    BY <1>3 DEF ShowTab
  <1>4. ASSUME NEW p \in Paste, NEW n \in Pane, PasteInto(p, n) PROVE AimTaken'
    BY <1>4 DEF PasteInto, InsertImages, CapturedSession, Goto
  <1>5. ASSUME NEW p \in Paste, ClipboardAnswers(p) PROVE AimTaken'
    BY <1>5 DEF ClipboardAnswers, InsertImages, CapturedSession, Goto
  <1>6. ASSUME NEW p \in Paste, Prepare(p) PROVE AimTaken'
    BY <1>6 DEF Prepare, Goto
  <1>7. ASSUME NEW p \in Paste, Post(p) PROVE AimTaken'
    BY <1>7 DEF Post, Goto
  <1>8. ASSUME NEW p \in Paste, AbortFetch(p) PROVE AimTaken'
    BY <1>8 DEF AbortFetch, Goto
  <1>9. ASSUME NEW p \in Paste, UploadFails(p) PROVE AimTaken'
    BY <1>9 DEF UploadFails, Goto
  <1>10. ASSUME NEW p \in Paste, TypePaths(p) PROVE AimTaken'
    BY <1>10 DEF TypePaths, Goto, StillThere, Unmoved
  <1>11. ASSUME NEW p \in Paste, WritePart(p) PROVE AimTaken'
    BY <1>11 DEF WritePart, NameOf
  <1>12. ASSUME NEW p \in Paste, RefusePart(p) PROVE AimTaken'
    BY <1>12 DEF RefusePart
  <1>13. ASSUME NEW p \in Paste, AnswerPaths(p) PROVE AimTaken'
    BY <1>13 DEF AnswerPaths, AllWritten
  <1>14. CASE UNCHANGED vars
    BY <1>14 DEF vars
  <1>15. QED
    BY <1>1, <1>2, <1>3, <1>4, <1>5, <1>6, <1>7, <1>8, <1>9, <1>10, <1>11, <1>12,
       <1>13, <1>14 DEF Next, User, Page, Server

-----------------------------------------------------------------------------
(* What the files hold.                                                    *)

\* What a request has written so far is there, or a namesake's image of its place is;
\* all of it once it is answered; and the paths typed are its files'.
FilesKept ==
    \A p \in Paste :
        /\ written[p] <= Sent(p)
        /\ \A i \in 1 .. written[p] :
              \E q \in Namesakes(p) : files[NameOf(p, i)] = <<q, i>>
        /\ request[p] = "ok" => written[p] = Sent(p)
        /\ typed[p] # None => request[p] = "ok" /\ typed[p][2] = Names(p)

LEMMA FilesInit == Init => FilesKept
  <1> SUFFICES ASSUME Init, NEW p \in Paste
               PROVE  /\ written[p] <= Sent(p)
                      /\ \A i \in 1 .. written[p] :
                            \E q \in Namesakes(p) : files[NameOf(p, i)] = <<q, i>>
                      /\ request[p] = "ok" => written[p] = Sent(p)
                      /\ typed[p] # None =>
                            request[p] = "ok" /\ typed[p][2] = Names(p)
    BY Zenon DEF FilesKept
  <1>1. written[p] = 0 /\ request[p] = "absent" /\ typed[p] = None
    BY DEF Init
  <1>2. Sent(p) \in Nat
    BY SentType
  <1>3. QED BY <1>1, <1>2

\* A step that writes, renames and types nothing, and answers nothing.
LEMMA FilesSame ==
  ASSUME FilesKept, UNCHANGED <<written, files, session, stamp, typed>>,
         \A p \in Paste : request'[p] = "ok" <=> request[p] = "ok"
  PROVE  FilesKept'
  BY DEF FilesKept, NameOf, Names, Namesakes

\* A paste is named once, before it has written anything, and keeps its namesakes.
LEMMA FilesNamed ==
  ASSUME PasteTypes, FilesKept, NEW p \in Paste, session[p] = None,
         UNCHANGED <<written, files, request, typed>>,
         NEW s \in Session, session' = [session EXCEPT ![p] = s],
         stamp' = [stamp EXCEPT ![p] = second]
  PROVE  FilesKept'
  <1>1. written[p] = 0 /\ request[p] = "absent" /\ typed[p] = None
    BY DEF PasteTypes, TypeOK, ChainOrder, FilesKept
  <1>2. \A q \in Paste \ {p} : stamp'[q] = stamp[q] /\ session'[q] = session[q]
    BY DEF PasteTypes, TypeOK
  <1>3. \A q \in Paste \ {p} : Namesakes(q) \subseteq Namesakes(q)'
    BY <1>2 DEF Namesakes
  <1>4. \A q \in Paste \ {p} : /\ Names(q)' = Names(q)
                                /\ \A i : NameOf(q, i)' = NameOf(q, i)
    BY <1>2 DEF Names, NameOf
  <1>5. SUFFICES ASSUME NEW q \in Paste
                 PROVE  /\ written[q] <= Sent(q)
                        /\ \A i \in 1 .. written[q] :
                              \E o \in Namesakes(q)' : files[NameOf(q, i)'] = <<o, i>>
                        /\ request[q] = "ok" => written[q] = Sent(q)
                        /\ typed[q] # None =>
                              request[q] = "ok" /\ typed[q][2] = Names(q)'
    BY DEF FilesKept
  <1>6. CASE q = p
    BY <1>1, <1>6, SentType DEF FilesKept
  <1>7. CASE q # p
    BY <1>3, <1>4, <1>7 DEF FilesKept
  <1>8. QED BY <1>6, <1>7

LEMMA FilesStep == PasteTypes /\ FilesKept /\ [Next]_vars => FilesKept'
  <1> SUFFICES ASSUME PasteTypes, FilesKept, [Next]_vars PROVE FilesKept'
    OBVIOUS
  <1> USE SentType DEF PasteTypes, TypeOK, ChainOrder, FilesKept, NameOf, Names,
          pageVars, chainVars, serverVars, historyVars
  <1>1. CASE Tick
    BY <1>1, FilesSame DEF Tick
  <1>2. ASSUME NEW n \in Pane, Release(n) PROVE FilesKept'
    BY <1>2, FilesSame DEF Release
  <1>3. ASSUME NEW n \in Pane, NEW s \in Session, ShowTab(n, s) PROVE FilesKept'
    BY <1>3, FilesSame DEF ShowTab
  <1>4. ASSUME NEW p \in Paste, NEW n \in Pane, PasteInto(p, n) PROVE FilesKept'
    <2>1. UNCHANGED <<session, stamp>> \/ InsertImages(p, n)
      BY <1>4 DEF PasteInto
    <2>2. session[p] = None /\ UNCHANGED <<written, files, request, typed>>
      BY <1>4 DEF PasteInto
    <2>3. shown[n] \in Session
      OBVIOUS
    <2>4. QED
      BY <2>1, <2>2, <2>3, FilesNamed, FilesSame DEF InsertImages, CapturedSession
  <1>5. ASSUME NEW p \in Paste, ClipboardAnswers(p) PROVE FilesKept'
    <2>1. UNCHANGED <<session, stamp>> \/ InsertImages(p, pane[p])
      BY <1>5 DEF ClipboardAnswers
    <2>2. session[p] = None /\ UNCHANGED <<written, files, request, typed>>
      BY <1>5 DEF ClipboardAnswers
    <2>3. shown[pane[p]] \in Session
      BY <1>5 DEF ClipboardAnswers
    <2>4. QED
      BY <2>1, <2>2, <2>3, FilesNamed, FilesSame DEF InsertImages, CapturedSession
  <1>6. ASSUME NEW p \in Paste, Prepare(p) PROVE FilesKept'
    BY <1>6, FilesSame DEF Prepare
  <1>7. ASSUME NEW p \in Paste, Post(p) PROVE FilesKept'
    <2>1. \A q \in Paste : request'[q] = "ok" <=> request[q] = "ok"
      BY <1>7 DEF Post
    <2>2. QED BY <1>7, <2>1, FilesSame DEF Post
  <1>8. ASSUME NEW p \in Paste, AbortFetch(p) PROVE FilesKept'
    <2>1. \A q \in Paste : request'[q] = "ok" <=> request[q] = "ok"
      BY <1>8 DEF AbortFetch
    <2>2. QED BY <1>8, <2>1, FilesSame DEF AbortFetch
  <1>9. ASSUME NEW p \in Paste, UploadFails(p) PROVE FilesKept'
    BY <1>9, FilesSame DEF UploadFails
  <1>10. ASSUME NEW p \in Paste, TypePaths(p) PROVE FilesKept'
    <2>1. request[p] = "ok" /\ UNCHANGED <<request, written, files, session, stamp>>
      BY <1>10 DEF TypePaths
    <2> HIDE DEF Names, NameOf
    <2>2. typed' \in {typed, [typed EXCEPT ![p] = <<shown[pane[p]], Names(p)>>]}
      BY <1>10 DEF TypePaths
    <2>3. \A q \in Paste :
             typed'[q] = typed[q] \/ (q = p /\ typed'[q][2] = Names(p))
      BY <2>2
    <2>4. /\ UNCHANGED <<request, written, files>>
          /\ \A q \in Paste : /\ Names(q)' = Names(q)
                              /\ Namesakes(q)' = Namesakes(q)
                              /\ \A i : NameOf(q, i)' = NameOf(q, i)
      BY <2>1 DEF Names, NameOf, Namesakes
    <2>5. QED BY <2>1, <2>3, <2>4
  <1>11. ASSUME NEW p \in Paste, WritePart(p) PROVE FilesKept'
    <2> DEFINE i == written[p] + 1
    <2>1. /\ request[p] = "open" /\ written[p] < Sent(p) /\ i \in Places
          /\ files' = [files EXCEPT ![NameOf(p, i)] = <<p, i>>]
          /\ written' = [written EXCEPT ![p] = i]
          /\ UNCHANGED <<request, session, stamp, typed>>
          /\ session[p] # None
      BY <1>11 DEF WritePart
    <2>2. ASSUME NEW q \in Paste, NEW k \in 1 .. written'[q]
          PROVE  \E o \in Namesakes(q)' : files'[NameOf(q, k)'] = <<o, k>>
      <3>1. Namesakes(q)' = Namesakes(q) /\ NameOf(q, k)' = NameOf(q, k)
        BY <2>1 DEF Namesakes
      <3>2. CASE stamp[q] = stamp[p] /\ k = i
        <4>1. p \in Namesakes(q) /\ NameOf(q, k) = NameOf(p, i) /\ NameOf(p, i) \in Name
          BY <2>1, <3>2 DEF Namesakes
        <4>2. files'[NameOf(q, k)] = <<p, k>>
          BY <2>1, <3>2, <4>1
        <4>3. QED BY <3>1, <4>1, <4>2
      <3>3. CASE stamp[q] # stamp[p] \/ k # i
        <4>1. k \in 1 .. written[q]
          BY <2>1, <3>3
        <4>2. PICK o \in Namesakes(q) : files[NameOf(q, k)] = <<o, k>>
          BY <4>1
        <4>3. NameOf(q, k) # NameOf(p, i)
          BY <3>3
        <4>4. files'[NameOf(q, k)] = files[NameOf(q, k)]
          <5>1. NameOf(q, k) \in Name
            BY <4>1
          <5>2. QED BY <2>1, <4>3, <5>1
        <4>5. QED BY <3>1, <4>2, <4>4
      <3>4. QED BY <3>2, <3>3
    <2>3. ASSUME NEW q \in Paste
          PROVE  /\ written'[q] <= Sent(q)
                 /\ request'[q] = "ok" => written'[q] = Sent(q)
      <3>1. CASE q = p
        <4>1. written'[p] = i /\ request'[p] # "ok"
          BY <2>1
        <4>2. i <= Sent(p)
          BY <2>1
        <4> HIDE DEF i
        <4>3. QED BY <3>1, <4>1, <4>2
      <3>2. CASE q # p
        BY <2>1, <3>2
      <3>3. QED BY <3>1, <3>2
    <2>4. /\ typed' = typed /\ request' = request
          /\ \A q \in Paste : Names(q)' = Names(q)
      BY <2>1
    <2> HIDE DEF i, NameOf, Names
    <2>5. QED BY ONLY FilesKept, <2>2, <2>3, <2>4 DEF FilesKept, Sent
  <1>12. ASSUME NEW p \in Paste, RefusePart(p) PROVE FilesKept'
    <2>1. \A q \in Paste : request'[q] = "ok" <=> request[q] = "ok"
      BY <1>12 DEF RefusePart
    <2>2. QED BY <1>12, <2>1, FilesSame DEF RefusePart
  <1>13. ASSUME NEW p \in Paste, AnswerPaths(p) PROVE FilesKept'
    <2>1. /\ UNCHANGED <<written, files, session, stamp, typed>>
          /\ request' = [request EXCEPT ![p] = "ok"] /\ written[p] = Sent(p)
      BY <1>13 DEF AnswerPaths, AllWritten
    <2>2. \A q \in Paste : /\ Names(q)' = Names(q) /\ Namesakes(q)' = Namesakes(q)
                           /\ \A k : NameOf(q, k)' = NameOf(q, k)
      BY <2>1 DEF Namesakes
    <2>3. \A q \in Paste : request'[q] = "ok" => q = p \/ request[q] = "ok"
      BY <2>1
    <2>4. \A q \in Paste : request[q] = "ok" => request'[q] = "ok"
      BY <2>1
    <2> HIDE DEF Names, NameOf
    <2>5. QED BY <2>1, <2>2, <2>3, <2>4
  <1>14. CASE UNCHANGED vars
    BY <1>14 DEF vars, Namesakes
  <1>15. QED
    BY <1>1, <1>2, <1>3, <1>4, <1>5, <1>6, <1>7, <1>8, <1>9, <1>10, <1>11, <1>12,
       <1>13, <1>14 DEF Next, User, Page, Server

-----------------------------------------------------------------------------
(* The invariant, and what follows.                                        *)

PasteInv == PasteTypes /\ AimTaken /\ FilesKept

\* PasteInv, the strengthening that the properties need, holds throughout.
THEOREM PasteInductive == Spec => []PasteInv
  <1>1. Init => PasteInv
    BY TypesInit, AimInit, FilesInit DEF PasteInv
  <1>2. PasteInv /\ [Next]_vars => PasteInv'
    BY TypesStep, AimStep, FilesStep DEF PasteInv
  <1>3. QED BY <1>1, <1>2, PTL DEF Spec

\* Every variable of the paste and of the upload keeps its type (image-paste.ts,
\* upload.go).
THEOREM TypeCorrect == Spec => []TypeOK
  <1>1. PasteInv => TypeOK
    BY DEF PasteInv, PasteTypes
  <1>2. QED BY <1>1, PasteInductive, PTL

\* However long the conversion and the upload take, a pasted image's path is typed
\* into the tab that was shown at the paste (insertImages).
THEOREM TypedInItsTab == Spec => []TypedWhereItWasAimed
  <1>1. PasteInv => TypedWhereItWasAimed
    BY DEF PasteInv, AimTaken, TypedWhereItWasAimed
  <1>2. QED BY <1>1, PasteInductive, PTL

\* Whatever fails half-way and whoever uploads beside it, a typed path names the image
\* of its place in a paste of its second, its own where no other was named in it
\* (pastedImageName, writeUploads).
THEOREM PathsKeepTheirImages == Spec => []PathsHoldTheirImages
  <1>1. PasteInv => PathsHoldTheirImages
    <2> SUFFICES ASSUME PasteInv, NEW p \in Paste, typed[p] # None,
                        NEW i \in 1 .. Len(typed[p][2])
                 PROVE  \E q \in Namesakes(p) : files[typed[p][2][i]] = <<q, i>>
      BY DEF PathsHoldTheirImages
    <2>1. Sent(p) \in Nat
      BY SentType
    <2>2. typed[p][2] = Names(p) /\ written[p] = Sent(p)
      BY DEF PasteInv, FilesKept
    <2>3. i \in 1 .. written[p] /\ Names(p)[i] = NameOf(p, i)
      BY <2>1, <2>2 DEF Names
    <2>4. QED BY <2>2, <2>3 DEF PasteInv, FilesKept
  <1>2. QED BY <1>1, PasteInductive, PTL
=============================================================================

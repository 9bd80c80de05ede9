------------------------------ MODULE ImagePaste ------------------------------
(***************************************************************************)
(* Pasting images into a tab: image-paste.ts in the page, upload.go behind *)
(* /api/uploads, and the uploads directory every page shares.              *)
(*                                                                         *)
(* A paste is a chain of awaits: the clipboard (for Ctrl+Shift+V), the     *)
(* conversion, the upload, the answer.  Between any two of them the user   *)
(* can show another tab in the pane, close the pane, or paste again, and   *)
(* another page can upload.  The server writes a request's parts one by    *)
(* one, so a request can fail with some of its files written.              *)
(*                                                                         *)
(* A file's name is the second its paste was prepared in and the image's   *)
(* place in the paste: two pastes of one second share their names, and the *)
(* later file replaces the earlier.  The extension is left out, as if all  *)
(* images were of one type, and so are pixels and sizes.  An image is      *)
(* <<paste, place>>.                                                       *)
(***************************************************************************)
EXTENDS Naturals, Sequences

CONSTANTS
    Paste,          \* pastes, each made once
    Pane,           \* terminals, on any number of pages
    Session,        \* the tabs a pane can show
    Keys,           \* the pastes made with Ctrl+Shift+V
    Images,         \* Images[p]: how many images p carries
    MaxFiles,       \* MAX_UPLOAD_FILES and maxUploadFiles, which are equal
    MaxSecond       \* bound of the clock

ASSUME PasteAssumption ==
    /\ Keys \subseteq Paste
    /\ <<>> \notin Session /\ <<>> \notin Pane       \* None
    /\ MaxFiles \in Nat \ {0} /\ MaxSecond \in Nat
    /\ Images \in [Paste -> Nat \ {0}]

VARIABLES
    second,         \* the wall clock
    shown,          \* shown[n]: the tab pane n shows (ctx.session.id)
    released,       \* the panes torn down
    (* image-paste.ts, one chain per paste *)
    chain,          \* chain[p]: where it is
    pane,           \* pane[p]: the pane pasted into, None before
    session,        \* session[p]: the tab insertImages captured, None before
    stamp,          \* stamp[p]: the second its files are named after
    (* upload.go, at most one request per paste *)
    request,        \* request[p]: absent | open | ok | refused | dropped
    written,        \* written[p]: parts written so far
    files,          \* files[name]: the image a file holds, None without one
    (* what came of it *)
    typed,          \* typed[p]: <<tab, names>> sent to a prompt, None before
    (* history, read by no action *)
    aimed           \* aimed[p]: the tab its pane showed at the user's paste

pageVars    == <<shown, released>>
chainVars   == <<chain, pane, session, stamp>>
serverVars  == <<request, written, files>>
historyVars == <<typed, aimed>>

vars == <<second, pageVars, chainVars, serverVars, historyVars>>

None    == <<>>
Seconds == 0 .. MaxSecond
Places  == 1 .. MaxFiles
Image   == Paste \X Places
Name    == Seconds \X Places

Chains   == {"new", "clipboard", "prepare", "upload", "answer", "done"}
Requests == {"absent", "open", "ok", "refused", "dropped"}

TypeOK ==
    /\ second \in Seconds
    /\ shown \in [Pane -> Session] /\ released \subseteq Pane
    /\ chain \in [Paste -> Chains]
    /\ pane \in [Paste -> {None} \cup Pane]
    /\ session \in [Paste -> {None} \cup Session]
    /\ stamp \in [Paste -> Seconds]
    /\ request \in [Paste -> Requests]
    /\ written \in [Paste -> 0 .. MaxFiles]
    /\ files \in [Name -> {None} \cup Image]
    /\ typed \in [Paste -> {None} \cup (Session \X Seq(Name))]
    /\ aimed \in [Paste -> {None} \cup Session]

Init ==
    /\ second = 0
    /\ shown \in [Pane -> Session] /\ released = {}
    /\ chain = [p \in Paste |-> "new"] /\ pane = [p \in Paste |-> None]
    /\ session = [p \in Paste |-> None] /\ stamp = [p \in Paste |-> 0]
    /\ request = [p \in Paste |-> "absent"] /\ written = [p \in Paste |-> 0]
    /\ files = [n \in Name |-> None]
    /\ typed = [p \in Paste |-> None] /\ aimed = [p \in Paste |-> None]

\* The page's listeners are gone and its signal aborted.
Aborted(p) == pane[p] \in released

-----------------------------------------------------------------------------
(* The clock and the user.                                                 *)

Tick ==
    /\ second < MaxSecond
    /\ second' = second + 1
    /\ UNCHANGED <<pageVars, chainVars, serverVars, historyVars>>

ShowTab(n, s) ==
    /\ n \notin released
    /\ shown[n] # s
    /\ shown' = [shown EXCEPT ![n] = s]
    /\ UNCHANGED <<second, released, chainVars, serverVars, historyVars>>

\* The pane closes, or the page does: setup's defer aborts what is under way.
Release(n) ==
    /\ n \notin released
    /\ released' = released \cup {n}
    /\ UNCHANGED <<second, shown, chainVars, serverVars, historyVars>>

Goto(p, next) == chain' = [chain EXCEPT ![p] = next]

\* Fault: the tab is looked up when the path is about to be typed.
LookedUpLate(n) == None

CapturedSession(n) == shown[n]

\* insertImages up to its first await: the tab, and the second of the names.
InsertImages(p, n) ==
    /\ session' = [session EXCEPT ![p] = CapturedSession(n)]
    /\ stamp'   = [stamp EXCEPT ![p] = second]
    /\ Goto(p, "prepare")

\* The paste event carries its images; Ctrl+Shift+V has to ask the clipboard.
PasteInto(p, n) ==
    /\ chain[p] = "new"
    /\ n \notin released
    /\ pane'  = [pane EXCEPT ![p] = n]
    /\ aimed' = [aimed EXCEPT ![p] = shown[n]]
    /\ IF p \in Keys THEN Goto(p, "clipboard") /\ UNCHANGED <<session, stamp>>
                     ELSE InsertImages(p, n)
    /\ UNCHANGED <<second, pageVars, serverVars, typed>>

-----------------------------------------------------------------------------
(* image-paste.ts.                                                         *)

\* pasteFromClipboard: read and getType resolve with images; or with none, or
\* fail, and then the text alone is pasted.
ClipboardAnswers(p) ==
    /\ chain[p] = "clipboard"
    /\ InsertImages(p, pane[p]) \/ (Goto(p, "done") /\ UNCHANGED <<session, stamp>>)
    /\ UNCHANGED <<second, pageVars, pane, serverVars, historyVars>>

\* prepareForUpload: an image that no kept type comes out of ends the paste.
Prepare(p) ==
    /\ chain[p] = "prepare"
    /\ Goto(p, "upload") \/ Goto(p, "done")
    /\ UNCHANGED <<second, pageVars, pane, session, stamp, serverVars, historyVars>>

\* images.slice(0, MAX_UPLOAD_FILES)
Sent(p) == IF Images[p] > MaxFiles THEN MaxFiles ELSE Images[p]

\* Fault: every image of a paste is named after the second alone.
StampOnly(p, i) == <<stamp[p], 1>>

\* pastedImageName.
NameOf(p, i) == <<stamp[p], i>>

\* uploadImages: refused in the page when too large or released, or posted.
Post(p) ==
    /\ chain[p] = "upload"
    /\ \/ ~Aborted(p) /\ Goto(p, "answer") /\ request' = [request EXCEPT ![p] = "open"]
       \/ Goto(p, "done") /\ UNCHANGED request
    /\ UNCHANGED <<second, pageVars, pane, session, stamp, written, files, historyVars>>

\* Fault: no timeout, so only the release aborts the fetch.
AbortedOnly(p) == Aborted(p)

AbortsFetch(p) == TRUE

\* The release or the two minutes abort the fetch; the server may notice.
AbortFetch(p) ==
    /\ chain[p] = "answer"
    /\ AbortsFetch(p)
    /\ Goto(p, "done")
    /\ \/ request[p] = "open" /\ request' = [request EXCEPT ![p] = "dropped"]
       \/ UNCHANGED request
    /\ UNCHANGED <<second, pageVars, pane, session, stamp, written, files, historyVars>>

\* A refusal, a failed connection or a malformed answer: a toast, nothing typed.
UploadFails(p) ==
    /\ chain[p] = "answer"
    /\ request[p] = "refused"
    /\ Goto(p, "done")
    /\ UNCHANGED <<second, pageVars, pane, session, stamp, serverVars, historyVars>>

StillThere(p) == ~Aborted(p)

Unmoved(p) == session[p] \in {None, shown[pane[p]]}

Names(p) == [i \in 1 .. Sent(p) |-> NameOf(p, i)]

\* The answer: typed at the prompt the pane shows, if that is still the tab.
TypePaths(p) ==
    /\ chain[p] = "answer"
    /\ request[p] = "ok"
    /\ Goto(p, "done")
    /\ typed' = IF StillThere(p) /\ Unmoved(p)
                THEN [typed EXCEPT ![p] = <<shown[pane[p]], Names(p)>>]
                ELSE typed
    /\ UNCHANGED <<second, pageVars, pane, session, stamp, serverVars, aimed>>

-----------------------------------------------------------------------------
(* upload.go.                                                              *)

\* writeUploads, one part: the file appears whole, and replaces its namesake.
WritePart(p) ==
    /\ request[p] = "open"
    /\ written[p] < Sent(p)
    /\ LET i == written[p] + 1
       IN  /\ files'   = [files EXCEPT ![NameOf(p, i)] = <<p, i>>]
           /\ written' = [written EXCEPT ![p] = i]
    /\ UNCHANGED <<second, pageVars, chainVars, request, historyVars>>

\* Fault: a part that could not be written is passed over, and its path answered.
PassOverPart(p) ==
    /\ request[p] = "open"
    /\ written[p] < Sent(p)
    /\ written' = [written EXCEPT ![p] = @ + 1]
    /\ UNCHANGED <<second, pageVars, chainVars, request, files, historyVars>>

\* A part that could not be read or written: what was written before stays.
RefusePart(p) ==
    /\ request[p] = "open"
    /\ written[p] < Sent(p)
    /\ request' = [request EXCEPT ![p] = "refused"]
    /\ UNCHANGED <<second, pageVars, chainVars, written, files, historyVars>>

AllWritten(p) == written[p] = Sent(p)

AnswerPaths(p) ==
    /\ request[p] = "open"
    /\ AllWritten(p)
    /\ request' = [request EXCEPT ![p] = "ok"]
    /\ UNCHANGED <<second, pageVars, chainVars, written, files, historyVars>>

-----------------------------------------------------------------------------
Page(p) ==
    \/ ClipboardAnswers(p) \/ Prepare(p) \/ Post(p)
    \/ AbortFetch(p) \/ UploadFails(p) \/ TypePaths(p)

Server(p) == WritePart(p) \/ RefusePart(p) \/ AnswerPaths(p)

User ==
    \/ Tick
    \/ \E n \in Pane : Release(n) \/ \E s \in Session : ShowTab(n, s)
    \/ \E p \in Paste, n \in Pane : PasteInto(p, n)

Next == User \/ \E p \in Paste : Page(p) \/ Server(p)

Spec == Init /\ [][Next]_vars

\* The page's promises settle, the fetch at its own timeout at the latest.  The
\* server may hang.
FairSpec == Spec /\ \A p \in Paste : WF_vars(Page(p))

-----------------------------------------------------------------------------
(* Properties.                                                             *)

\* Paths are typed into the tab that was shown when the user pasted, or nowhere
\* (insertImages; "Image uploaded but not inserted: the tab changed").  A paste by
\* key asks the clipboard first, and its tab is captured only then.
TypedWhereItWasAimed ==
    \A p \in Paste \ Keys : typed[p] # None => typed[p][1] = aimed[p]

\* The pastes whose files are named after the second that p's are.
Namesakes(p) == {q \in Paste : session[q] # None /\ stamp[q] = stamp[p]}

\* Every typed path names a file, from then on: it holds the image of that place in
\* the paste or, where another paste was named in the same second, in one of them.
\* Never a missing file, another place or another second, whatever fails half-way
\* (pastedImageName; writeUploads answers only when every part is written).
PathsHoldTheirImages ==
    \A p \in Paste : typed[p] # None =>
        \A i \in 1 .. Len(typed[p][2]) :
            \E q \in Namesakes(p) : files[typed[p][2][i]] = <<q, i>>

\* A paste comes to an end, whatever the server answers.
PasteEnds == \A p \in Paste : (chain[p] # "new") ~> (chain[p] = "done")
=============================================================================

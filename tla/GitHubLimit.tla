----------------------------- MODULE GitHubLimit ------------------------------
(***************************************************************************)
(* How GitHub's rate-limit refusals reach the log (githubtoken.go).        *)
(*                                                                         *)
(* The tools engine holds a refused credential: for a minute at least, and *)
(* until the reset GitHub named, it answers requests with copies of the    *)
(* refusal instead of sending them.  A job such a request belongs to fails *)
(* with it.  The reporter is handed failures only, cannot tell a copy from *)
(* a refusal, and keeps a window of its own by a clock that starts when it *)
(* hears of one: the request may have been an operator's add, of which no  *)
(* job fails, so the first it hears of can be a copy, late in the hold.    *)
(*                                                                         *)
(* The engine, external here, has one credential for the process.  What a  *)
(* refusal says apart from its reset time is taken to be the same always,  *)
(* which is what makes two refusals hard to tell apart.  Jobs and the      *)
(* reporter are fast against the clock: a refused job fails, and a pending *)
(* refusal is taken, before the clock moves.                               *)
(***************************************************************************)
EXTENDS Naturals, Sequences

CONSTANTS
    minRefusalHold, \* a minute, in ticks
    Delays,         \* how far off a reset can be that GitHub names
    MaxTime         \* bound of the clock

ASSUME LimitAssumption ==
    /\ minRefusalHold \in Nat \ {0}
    /\ Delays \subseteq Nat \ {0}
    /\ MaxTime \in Nat

VARIABLES
    now,
    (* the engine *)
    sent,           \* the refusals GitHub sent: when, and the reset named
    holdEnd,        \* when the hold on the last of them ends
    fetch,          \* a job that asks GitHub: idle | running | refused
    (* githubLimitReporter *)
    refusals,       \* the channel of depth 1: a refusal, by its place in sent
    last, until,    \* the refusal told last, and the end of the window
    stopped,
    (* history, read by no action *)
    log,            \* the warnings: of which refusal, when
    failed          \* the refusals a job failed with

engineVars   == <<sent, holdEnd, fetch>>
reporterVars == <<refusals, last, until, stopped>>

limitVars == <<now, engineVars, reporterVars, log, failed>>

Empty  == 0         \* no refusal; GitHub named no reset
Latest == Len(sent)

Later(s, t) == IF s > t THEN s ELSE t

LimitTypeOK ==
    /\ now \in 0 .. MaxTime
    /\ sent \in Seq([at : 0 .. MaxTime, reset : Nat]) /\ holdEnd \in Nat
    /\ fetch \in {"idle", "running", "refused"}
    /\ refusals \in 0 .. Latest /\ last \in 0 .. Latest /\ until \in Nat
    /\ stopped \in BOOLEAN
    /\ log \in Seq([of : 1 .. Latest, at : 0 .. MaxTime])
    /\ failed \subseteq 1 .. Latest

LimitInit ==
    /\ now = 0
    /\ sent = <<>> /\ holdEnd = 0 /\ fetch = "idle"
    /\ refusals = Empty /\ last = Empty /\ until = 0 /\ stopped = FALSE
    /\ log = <<>> /\ failed = {}

-----------------------------------------------------------------------------
(* The engine.                                                             *)

Tick ==
    /\ now < MaxTime
    /\ fetch # "refused" /\ refusals = Empty
    /\ now' = now + 1
    /\ UNCHANGED <<engineVars, reporterVars, log, failed>>

StartFetch ==
    /\ fetch = "idle"
    /\ fetch' = "running"
    /\ UNCHANGED <<now, sent, holdEnd, reporterVars, log, failed>>

FinishFetch ==
    /\ fetch = "running"
    /\ fetch' = "idle"
    /\ UNCHANGED <<now, sent, holdEnd, reporterVars, log, failed>>

\* Past the hold, a request is sent and GitHub refuses it.
GitHubRefuses ==
    /\ now >= holdEnd
    /\ \E reset \in {Empty} \cup {now + d : d \in Delays} :
          /\ sent'    = Append(sent, [at |-> now, reset |-> reset])
          /\ holdEnd' = Later(reset, now + minRefusalHold)

\* An operator's add asks GitHub on its own; it is answered 503.
AddRefused ==
    /\ GitHubRefuses
    /\ UNCHANGED <<now, fetch, reporterVars, log, failed>>

JobRefused ==
    /\ fetch = "running"
    /\ fetch' = "refused"
    /\ GitHubRefuses
    /\ UNCHANGED <<now, reporterVars, log, failed>>

\* Within it, the engine answers with its copy.
JobHeld ==
    /\ fetch = "running"
    /\ now < holdEnd
    /\ fetch' = "refused"
    /\ UNCHANGED <<now, sent, holdEnd, reporterVars, log, failed>>

-----------------------------------------------------------------------------
(* The reporter.                                                           *)

\* observe, under the queue lock: a send that would block is dropped.
JobFails ==
    /\ fetch = "refused"
    /\ fetch'    = "idle"
    /\ refusals' = IF refusals = Empty THEN Latest ELSE refusals
    /\ failed'   = failed \cup {Latest}
    /\ UNCHANGED <<now, sent, holdEnd, last, until, stopped, log>>

\* rl == r.last
SameWords(r) == last # Empty /\ sent[r].reset = sent[last].reset

Copy(r) == SameWords(r) /\ now < until

\* Fault: without a reset there is no window.
UntilReset(r) == Later(sent[r].reset, now)

\* Until the reset, and for at least minRefusalHold.
WindowEnd(r) == Later(sent[r].reset, now + minRefusalHold)

Report ==
    /\ ~stopped
    /\ refusals # Empty
    /\ refusals' = Empty
    /\ IF Copy(refusals)
         THEN UNCHANGED <<last, until, log>>
         ELSE /\ last'  = refusals
              /\ until' = WindowEnd(refusals)
              /\ log'   = Append(log, [of |-> refusals, at |-> now])
    /\ UNCHANGED <<now, engineVars, stopped, failed>>

StopReporter ==
    /\ ~stopped
    /\ stopped' = TRUE
    /\ UNCHANGED <<now, engineVars, refusals, last, until, log, failed>>

-----------------------------------------------------------------------------
Engine == Tick \/ StartFetch \/ FinishFetch \/ AddRefused \/ JobRefused \/ JobHeld

LimitNext == Engine \/ JobFails \/ Report \/ StopReporter

LimitSpec == LimitInit /\ [][LimitNext]_limitVars

-----------------------------------------------------------------------------
(* Properties.                                                             *)

\* However late in the engine's hold the reporter first hears of a refusal, its
\* window outlasts the hold: no copy is told as a refusal of its own (report).
NoneToldTwice ==
    \A i, j \in 1 .. Len(log) : log[i].of = log[j].of => i = j

\* A refusal that failed a job is in the log once the channel is empty, or a
\* warning in the same words is, less than a minute old when GitHub sent it: the
\* window is the longer one, by as much as the reporter heard late.
Standing(r) ==
    \E i \in 1 .. Len(log) :
        \/ log[i].of = r
        \/ /\ sent[log[i].of].reset = sent[r].reset
           /\ log[i].at <= sent[r].at /\ sent[r].at < log[i].at + minRefusalHold
NoneMissed == refusals = Empty => \A r \in failed : Standing(r)

\* At most one warning per refusal, and one for each that failed a job, but for those
\* that find a warning in their words less than a minute old (githubLimitReporter).
OneWarningPerRefusal == NoneToldTwice /\ NoneMissed
=============================================================================

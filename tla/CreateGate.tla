------------------------------ MODULE CreateGate ------------------------------
(***************************************************************************)
(* From the bound listener to a running program: what holds a page back    *)
(* while the server boots, what starts the programs, and what is said of   *)
(* one that dies young.                                                    *)
(*                                                                         *)
(*   routes.go      the layers of the create gate, the held layout read,   *)
(*                  newSessionFactory and its exit hook                    *)
(*   tabrestore.go  waitReady, which polls two of the layers               *)
(*   main.go        when readiness is set and cleared, and the shutdown    *)
(*                                                                         *)
(* Each layer reads a cell that others write, so a request crosses them    *)
(* one step at a time and can meet four different moments.  A page waits   *)
(* on the layout, reads the list and asks for one tab, again and again.    *)
(* The verdict on kiro-cli is the install manager's: it can come and go.   *)
(* The tools field lifts as BootGate lets it, which ToolsStatus implements *)
(* (a gate tells its verdicts apart from syncing, not from one another).   *)
(***************************************************************************)
EXTENDS Naturals, Sequences, FiniteSets

CONSTANTS
    Page,           \* pages, each wanting a tab of its own
    Saved,          \* the tabs to restore
    Unready,        \* the reasons the install manager can withhold it for
    Burst           \* session creations admitted at once (6 in the code)

ASSUME GateAssumption ==
    /\ Page \cap Saved = {}
    /\ IsFiniteSet(Page)
    /\ "installing" \in Unready
    /\ Unready \subseteq {"installing", "retrying", "unavailable", "assertion"}
    /\ Burst \in Nat \ {0}

VARIABLES
    kiro,           \* the install manager's reason
    tools,          \* the tools field: syncing, or a verdict
    tokens,         \* the rate limiter's
    ready,          \* httpserver.Ready
    phase,          \* boot | serving | draining | teardown
    (* the restorer *)
    restorer,       \* waiting | asked | restoring | done; pending until done
    todo,           \* saved tabs not handled yet
    (* the pages *)
    at,             \* at[p]: what the page asks for
    layer,          \* layer[p]: the layer its request has reached
    told,           \* told[p]: the layer that answered last
    seen,           \* seen[p]: the list it read with the layout
    (* the programs, one per page and one per saved tab *)
    proc,           \* proc[x]: absent | running | exited | asked | gone
    killed,         \* the programs the shutdown ended
    warned,         \* the programs a fast death was logged for
    (* history, read by no action *)
    installed       \* kiro-cli has been ready

bootVars    == <<kiro, tools, installed>>
serverVars  == <<ready, phase>>
restoreVars == <<restorer, todo>>
pageVars    == <<at, layer, told, seen>>
procVars    == <<proc, killed, warned>>

vars == <<bootVars, tokens, serverVars, restoreVars, pageVars, procVars>>

Program == Page \cup Saved

Reasons == {"ready"} \cup Unready

\* Fault: the rate limit outermost, where every poll of a booting server pays.
LimitFirst == <<"limit", "kiro", "tools", "restore">>

\* registerRoutes, outermost first.
Layers == <<"kiro", "tools", "restore", "limit">>
Inside == Len(Layers) + 1

\* A held layout read: the restore, then firstBlocked of the outer checks.
LayoutChecks == <<"restore", "kiro", "tools">>

Told == {"kiro", "tools", "restore", "limit", "nothing"}

FlagsOK ==
    /\ installed \in BOOLEAN
    /\ ready \in BOOLEAN

TypeOK ==
    /\ FlagsOK
    /\ kiro \in Reasons /\ tools \in {"syncing", "ok"}
    /\ tokens \in 0 .. Burst
    /\ phase \in {"boot", "serving", "draining", "teardown"}
    /\ restorer \in {"waiting", "asked", "restoring", "done"}
    /\ todo \subseteq Saved
    /\ at \in [Page -> {"layout", "list", "create", "done"}]
    /\ layer \in [Page -> 1 .. Inside]
    /\ told \in [Page -> Told]
    /\ seen \in [Page -> SUBSET Program]
    /\ proc \in [Program -> {"absent", "running", "exited", "asked", "gone"}]
    /\ killed \subseteq Program /\ warned \subseteq Program

Init ==
    /\ kiro = "installing" /\ tools = "syncing" /\ installed = FALSE
    /\ tokens = Burst
    /\ ready = FALSE /\ phase = "boot"
    /\ restorer = (IF Saved = {} THEN "done" ELSE "waiting") /\ todo = Saved
    /\ at = [p \in Page |-> "layout"] /\ layer = [p \in Page |-> 1]
    /\ told = [p \in Page |-> "nothing"] /\ seen = [p \in Page |-> {}]
    /\ proc = [x \in Program |-> "absent"] /\ killed = {} /\ warned = {}

Pending == restorer # "done"
Served  == phase \in {"serving", "draining"}        \* requests are answered
Running == {x \in Program : proc[x] = "running"}

-----------------------------------------------------------------------------
(* The cells the gate reads.                                               *)

\* EnsureWithRetry and Rescan: the manager's verdict moves between its reasons.
Install(why) ==
    /\ why # kiro
    /\ kiro'      = why
    /\ installed' = (installed \/ why = "ready")
    /\ UNCHANGED <<tools, tokens, serverVars, restoreVars, pageVars, procVars>>

Tools == INSTANCE BootGate WITH
             field <- tools, verdict <- "ok", Verdicts <- {"ok"}, Undecided <- "none"

\* The boot pass is over: degraded or not, the gate lifts.
ToolsConverge ==
    /\ Tools!Lift
    /\ UNCHANGED <<kiro, installed, tokens, serverVars, restoreVars, pageVars,
                   procVars>>

Refill ==
    /\ tokens < Burst
    /\ tokens' = tokens + 1
    /\ UNCHANGED <<bootVars, serverVars, restoreVars, pageVars, procVars>>

-----------------------------------------------------------------------------
(* The restorer.                                                           *)

\* Fault: it waits for the whole create gate, whose one layer is itself.
RestorerAwaitsGate(kiroOK) == kiroOK /\ ~Pending

RestorerAsks(kiroOK) == kiroOK

\* waitReady's check reads the two cells one after the other.
AskKiro ==
    /\ restorer = "waiting"
    /\ RestorerAsks(kiro = "ready")
    /\ restorer' = "asked"
    /\ UNCHANGED <<bootVars, tokens, serverVars, todo, pageVars, procVars>>

\* Fault: only kiro-cli is asked for.
ToolsIgnored == TRUE

ToolsAnswered == tools # "syncing"

AskTools ==
    /\ restorer = "asked"
    /\ restorer' = IF ToolsAnswered THEN "restoring" ELSE "waiting"
    /\ UNCHANGED <<bootVars, tokens, serverVars, todo, pageVars, procVars>>

\* RestoreSessionSet, one tab: its program starts or does not.
RestoreTab(t) ==
    /\ restorer = "restoring" /\ phase # "teardown"
    /\ t \in todo
    /\ todo' = todo \ {t}
    /\ \E end \in {"running", "gone"} : proc' = [proc EXCEPT ![t] = end]
    /\ UNCHANGED <<bootVars, tokens, serverVars, restorer, pageVars, killed, warned>>

\* The set is handled, or the shutdown ended the wait or the call.  An ended
\* run leaves pending as it is.
EndRestore ==
    /\ restorer = "restoring" /\ todo = {}
    /\ phase \in {"boot", "serving"}
    /\ restorer' = "done"
    /\ UNCHANGED <<bootVars, tokens, serverVars, todo, pageVars, procVars>>

-----------------------------------------------------------------------------
(* A page's requests.                                                      *)

Blocks(check) ==
    CASE check = "kiro"    -> kiro # "ready"
      [] check = "tools"   -> tools = "syncing"
      [] check = "restore" -> Pending
      [] check = "limit"   -> tokens = 0

\* Fault: only session creation is held, the layout read is not.
CreateHeldOnly == FALSE

LayoutHeld == Pending

ServeLayout(p) ==
    /\ Served
    /\ at[p] = "layout" /\ layer[p] = 1
    /\ ~LayoutHeld
    /\ at' = [at EXCEPT ![p] = "list"]
    /\ UNCHANGED <<bootVars, tokens, serverVars, restoreVars, layer, told, seen,
                   procVars>>

HoldLayout(p) ==
    /\ Served
    /\ at[p] = "layout" /\ layer[p] = 1
    /\ LayoutHeld
    /\ layer' = [layer EXCEPT ![p] = 2]
    /\ UNCHANGED <<bootVars, tokens, serverVars, restoreVars, at, told, seen,
                   procVars>>

\* 503: the page waits and asks again from the start.
Answer(p, check) ==
    /\ told'  = [told EXCEPT ![p] = check]
    /\ layer' = [layer EXCEPT ![p] = 1]

\* firstBlocked, one outer check: it names the wait, or the next one is asked.
ExplainHold(p) ==
    /\ Served
    /\ at[p] = "layout" /\ layer[p] > 1
    /\ LET check == LayoutChecks[layer[p]]
       IN  IF Blocks(check) THEN Answer(p, check)
           ELSE IF layer[p] = Len(LayoutChecks) THEN Answer(p, "restore")
           ELSE layer' = [layer EXCEPT ![p] = @ + 1] /\ UNCHANGED told
    /\ UNCHANGED <<bootVars, tokens, serverVars, restoreVars, at, seen, procVars>>

\* GET /api/sessions passes every layer.
ReadList(p) ==
    /\ Served
    /\ at[p] = "list"
    /\ at'   = [at EXCEPT ![p] = "create"]
    /\ seen' = [seen EXCEPT ![p] = Running]
    /\ UNCHANGED <<bootVars, tokens, serverVars, restoreVars, layer, told, procVars>>

\* POST /api/sessions, at a layer that refuses it: 503, or 429.
Refuse(p) ==
    /\ Served
    /\ at[p] = "create" /\ layer[p] < Inside
    /\ Blocks(Layers[layer[p]])
    /\ Answer(p, Layers[layer[p]])
    /\ UNCHANGED <<bootVars, tokens, serverVars, restoreVars, at, seen, procVars>>

\* The rate limiter spends one on what it lets through.
TokensLeft(check) == IF check = "limit" THEN tokens - 1 ELSE tokens

\* At one that lets it through.
Pass(p) ==
    /\ Served
    /\ at[p] = "create" /\ layer[p] < Inside
    /\ ~Blocks(Layers[layer[p]])
    /\ tokens' = TokensLeft(Layers[layer[p]])
    /\ layer'  = [layer EXCEPT ![p] = @ + 1]
    /\ UNCHANGED <<bootVars, serverVars, restoreVars, at, told, seen, procVars>>

\* The factory, and the manager starting its program.
Create(p) ==
    /\ Served
    /\ at[p] = "create" /\ layer[p] = Inside
    /\ at'   = [at EXCEPT ![p] = "done"]
    /\ proc' = [proc EXCEPT ![p] = "running"]
    /\ UNCHANGED <<bootVars, tokens, serverVars, restoreVars, layer, told, seen,
                   killed, warned>>

-----------------------------------------------------------------------------
(* A program's end, and newSessionFactory's hook on it.                    *)

\* Of itself, or closed by the user.
Exit(x) ==
    /\ proc[x] = "running"
    /\ proc' = [proc EXCEPT ![x] = "exited"]
    /\ UNCHANGED <<bootVars, tokens, serverVars, restoreVars, pageVars, killed,
                   warned>>

\* The hook reads the install's verdict first ...
HookAsksKiro(x) ==
    /\ proc[x] = "exited"
    /\ proc' = [proc EXCEPT ![x] = IF kiro = "ready" THEN "asked" ELSE "gone"]
    /\ UNCHANGED <<bootVars, tokens, serverVars, restoreVars, pageVars, killed,
                   warned>>

\* ... then readiness and the program's age, which can be either side of ten
\* seconds; an exit without error warns of nothing either.
HookWarns(x) ==
    /\ proc[x] = "asked"
    /\ proc' = [proc EXCEPT ![x] = "gone"]
    /\ warned' \in {warned} \cup {w \in {warned \cup {x}} : ready}
    /\ UNCHANGED <<bootVars, tokens, serverVars, restoreVars, pageVars, killed>>

-----------------------------------------------------------------------------
(* run: the listener serves, drains and takes its programs down.           *)

Serve ==
    /\ phase = "boot"
    /\ phase' = "serving" /\ ready' = TRUE
    /\ UNCHANGED <<bootVars, tokens, restoreVars, pageVars, procVars>>

\* Fault: readiness outlives the serving, as on a fatal path that forgets it.
StillReady == ready

ReadyInDrain == FALSE

\* The pre-drain hook, or the fatal path: readiness goes first.
Drain ==
    /\ phase = "serving"
    /\ phase' = "draining"
    /\ ready' = ReadyInDrain
    /\ UNCHANGED <<bootVars, tokens, restoreVars, pageVars, procVars>>

\* mgr.Shutdown refuses sessions from here on.
TearDown ==
    /\ phase = "draining"
    /\ phase' = "teardown"
    /\ UNCHANGED <<bootVars, tokens, ready, restoreVars, pageVars, procVars>>

Kill(x) ==
    /\ phase = "teardown"
    /\ proc[x] = "running"
    /\ proc'   = [proc EXCEPT ![x] = "exited"]
    /\ killed' = killed \cup {x}
    /\ UNCHANGED <<bootVars, tokens, serverVars, restoreVars, pageVars, warned>>

-----------------------------------------------------------------------------
Restorer == AskKiro \/ AskTools \/ EndRestore \/ \E t \in Saved : RestoreTab(t)

PageStep(p) ==
    \/ ServeLayout(p) \/ HoldLayout(p) \/ ExplainHold(p) \/ ReadList(p)
    \/ Refuse(p) \/ Pass(p) \/ Create(p)

Next ==
    \/ \E why \in Reasons : Install(why)
    \/ ToolsConverge \/ Refill
    \/ Restorer
    \/ \E p \in Page : PageStep(p)
    \/ \E x \in Program : Exit(x) \/ HookAsksKiro(x) \/ HookWarns(x) \/ Kill(x)
    \/ Serve \/ Drain \/ TearDown

Spec == Init /\ [][Next]_vars

\* Pages ask again, the restorer's ticker fires, tokens come back, the server
\* serves, and the tools field lifts (ToolsStatus, GateLifts).  Nothing is assumed
\* of the install.
FairSpec ==
    /\ Spec
    /\ WF_vars(Restorer) /\ WF_vars(Refill) /\ WF_vars(ToolsConverge)
    /\ WF_vars(Serve)
    /\ \A p \in Page : WF_vars(PageStep(p))

-----------------------------------------------------------------------------
(* The promise: what the restore layer holds back, seen by the programs.    *)

Gate == INSTANCE RestoreGate WITH
            Tab <- Program, pending <- Pending, open <- Running

RestoreGateSpec == Gate!RestoreGateSpec

-----------------------------------------------------------------------------
(* Properties.                                                             *)

\* No kiro-cli starts before an install was ready and the manifest's tools were
\* on PATH, by a page's request or by the restore (composeGate; waitReady).
NothingStartsEarly ==
    \A x \in Program : proc[x] # "absent" => installed /\ tools # "syncing"

\* A page that was served the layout read every restored tab that still runs:
\* the layout of a complete set never meets a partial list (restorePendingGate).
WholeSetSeen ==
    \A p \in Page : at[p] \in {"create", "done"} => Running \cap Saved \subseteq seen[p]

\* Waiting is free: a page is told to slow down only once a burst of requests
\* went through to a program of their own (registerRoutes: the limit is innermost).
Admitted == {p \in Page : at[p] = "done" \/ (at[p] = "create" /\ layer[p] = Inside)}
PollsAreFree ==
    (\E p \in Page : told[p] = "limit") => Cardinality(Admitted) >= Burst

\* A program the shutdown ends is never reported as a broken install
\* (newSessionFactory; run clears readiness before the teardown on both paths).
NoFalseAlarm == warned \cap killed = {}

\* With the install there to stay, every page gets its tab: the restorer does
\* not wait for what waits for it, and the limit starves nobody.
CreateGetsThrough ==
    \A p \in Page : <>[](kiro = "ready" /\ phase = "serving") => <>(at[p] = "done")
=============================================================================

--------------------------- MODULE CreateGateProofs ----------------------------
(***************************************************************************)
(* CreateGate for every number of pages and saved tabs and every burst:    *)
(* GateInv is inductive, and the type invariant and the four safety        *)
(* properties of the gate follow from it.                                  *)
(***************************************************************************)
EXTENDS CreateGate, FiniteSetTheorems, TLAPS

USE GateAssumption DEF Reasons, Program

\* The gate's layers, and the place behind them.
LEMMA GateLayers ==
  /\ Inside = 5
  /\ Layers[1] = "kiro" /\ Layers[2] = "tools"
  /\ Layers[3] = "restore" /\ Layers[4] = "limit"
  BY DEF Inside, Layers

LEMMA HeldChecks ==
  /\ Len(LayoutChecks) = 3
  /\ LayoutChecks[2] = "kiro" /\ LayoutChecks[3] = "tools"
  BY DEF LayoutChecks

\* What a check can answer.
LEMMA Answers ==
  /\ \A i \in 1 .. 4 : Layers[i] \in Told
  /\ \A i \in 2 .. 3 : LayoutChecks[i] \in Told
  BY GateLayers, HeldChecks DEF Told

\* A held layout read stands at one of its checks, a creation begins outermost.
TypeInv ==
    /\ TypeOK
    /\ \A p \in Page : /\ at[p] = "layout" => layer[p] <= 3
                       /\ at[p] = "list" => layer[p] = 1

\* A request inside a layer, or a restorer past its check, has seen the cell that
\* layer reads; and the tools never sync again.
CellsCrossed ==
    /\ kiro = "ready" => installed
    /\ restorer = "asked" => installed
    /\ restorer = "restoring" => installed /\ tools # "syncing"
    /\ \A p \in Page :
        /\ at[p] = "create" /\ layer[p] >= 2 => installed
        /\ at[p] = "create" /\ layer[p] >= 3 => tools # "syncing"

\* A program starts once: a saved tab when it leaves todo, a page's at its creation.
StartsOnce ==
    /\ \A t \in todo : proc[t] = "absent"
    /\ \A p \in Page : at[p] # "done" => proc[p] = "absent"

\* Past the layout, the restore is over.
RestoreOver ==
    /\ restorer = "done" => todo = {}
    /\ \A p \in Page : at[p] \in {"list", "create", "done"} => restorer = "done"

\* Readiness goes before the programs do.
ReadyFirst ==
    /\ phase \in {"draining", "teardown"} => ~ready
    /\ killed # {} => phase = "teardown"
    /\ \A x \in warned : proc[x] = "gone"

\* Every token missing from the burst let a page through.
TokensAccounted == tokens + Cardinality(Admitted) >= Burst

-----------------------------------------------------------------------------
(* Types.                                                                  *)

LEMMA FlagsInit == Init => FlagsOK
  BY DEF Init, FlagsOK

LEMMA FlagsStep == FlagsOK /\ [Next]_vars => FlagsOK'
  <1> SUFFICES ASSUME FlagsOK, [Next]_vars PROVE FlagsOK'
    OBVIOUS
  <1> USE DEF FlagsOK, bootVars, serverVars, restoreVars, pageVars, procVars
  <1>1. ASSUME NEW why \in Reasons, Install(why) PROVE FlagsOK'
    BY <1>1 DEF Install
  <1>2. ASSUME NEW p \in Page, PageStep(p) PROVE FlagsOK'
    BY <1>2 DEF PageStep, ServeLayout, HoldLayout, ExplainHold, ReadList, Refuse,
                Pass, Create
  <1>3. ASSUME NEW x \in Program,
               Exit(x) \/ HookAsksKiro(x) \/ HookWarns(x) \/ Kill(x)
        PROVE  FlagsOK'
    BY <1>3 DEF Exit, HookAsksKiro, HookWarns, Kill
  <1>4. CASE ToolsConverge \/ Refill \/ Restorer
    BY <1>4 DEF ToolsConverge, Tools!Lift, Refill, Restorer, AskKiro, AskTools,
                EndRestore, RestoreTab
  <1>5. CASE Serve \/ Drain \/ TearDown
    BY <1>5 DEF Serve, Drain, ReadyInDrain, TearDown
  <1>6. CASE UNCHANGED vars
    BY <1>6 DEF vars
  <1>7. QED
    BY <1>1, <1>2, <1>3, <1>4, <1>5, <1>6 DEF Next

LEMMA TypeInit == Init => TypeInv
  BY FlagsInit, GateLayers DEF Init, TypeInv, TypeOK, Told

LEMMA TypeStep == TypeInv /\ [Next]_vars => TypeInv'
  <1> SUFFICES ASSUME TypeInv, [Next]_vars PROVE TypeInv'
    OBVIOUS
  <1> USE GateLayers, HeldChecks DEF TypeInv, TypeOK, bootVars, serverVars, restoreVars,
          pageVars, procVars
  <1>0. FlagsOK'
    BY FlagsStep
  <1>1. ASSUME NEW why \in Reasons, Install(why) PROVE TypeInv'
    BY <1>0, <1>1 DEF Install
  <1>2. CASE ToolsConverge \/ Refill
    BY <1>0, <1>2 DEF ToolsConverge, Tools!Lift, Refill
  <1>3. CASE AskKiro \/ AskTools \/ EndRestore
    BY <1>0, <1>3 DEF AskKiro, AskTools, EndRestore
  <1>4. ASSUME NEW t \in Saved, RestoreTab(t) PROVE TypeInv'
    BY <1>0, <1>4 DEF RestoreTab
  <1>5. ASSUME NEW p \in Page, PageStep(p) PROVE TypeInv'
    <2>1. CASE ServeLayout(p) BY <1>0, <2>1 DEF ServeLayout
    <2>2. CASE HoldLayout(p)  BY <1>0, <2>2 DEF HoldLayout
    <2>3. CASE ExplainHold(p)
      BY <1>0, <2>3, Answers DEF ExplainHold, Answer, Told
    <2>4. CASE ReadList(p)    BY <1>0, <2>4 DEF ReadList, Running
    <2>5. CASE Refuse(p)      BY <1>0, <2>5, Answers DEF Refuse, Answer, Told
    <2>6. CASE Pass(p)
      <3>1. TokensLeft(Layers[layer[p]]) \in 0 .. Burst
        <4>1. CASE Layers[layer[p]] = "limit"
          <5>1. ~Blocks("limit")
            BY <2>6, <4>1 DEF Pass
          <5>2. QED BY <5>1, <4>1 DEF TokensLeft, Blocks
        <4>2. CASE Layers[layer[p]] # "limit"
          BY <4>2 DEF TokensLeft
        <4>3. QED BY <4>1, <4>2
      <3>2. QED BY <1>0, <2>6, <3>1 DEF Pass
    <2>7. CASE Create(p)      BY <1>0, <2>7 DEF Create
    <2>8. QED BY <1>5, <2>1, <2>2, <2>3, <2>4, <2>5, <2>6, <2>7 DEF PageStep
  <1>6. ASSUME NEW x \in Program,
               Exit(x) \/ HookAsksKiro(x) \/ HookWarns(x) \/ Kill(x)
        PROVE  TypeInv'
    BY <1>0, <1>6 DEF Exit, HookAsksKiro, HookWarns, Kill
  <1>7. CASE Serve \/ Drain \/ TearDown
    BY <1>0, <1>7 DEF Serve, Drain, ReadyInDrain, TearDown
  <1>8. CASE UNCHANGED vars
    BY <1>0, <1>8 DEF vars
  <1>9. QED
    BY <1>1, <1>2, <1>3, <1>4, <1>5, <1>6, <1>7, <1>8 DEF Next, Restorer

-----------------------------------------------------------------------------
(* What a program starts behind.                                           *)

Crossed == CellsCrossed /\ NothingStartsEarly

LEMMA CrossedInit == Init => Crossed
  BY DEF Init, Crossed, CellsCrossed, NothingStartsEarly

LEMMA CrossedStep == TypeInv /\ Crossed /\ [Next]_vars => Crossed'
  <1> SUFFICES ASSUME TypeInv, Crossed, [Next]_vars PROVE Crossed'
    OBVIOUS
  <1> USE GateLayers DEF TypeInv, TypeOK, FlagsOK, Crossed, CellsCrossed,
          NothingStartsEarly, bootVars, serverVars, restoreVars, pageVars, procVars
  <1>1. ASSUME NEW why \in Reasons, Install(why) PROVE Crossed'
    BY <1>1 DEF Install
  <1>2. CASE ToolsConverge \/ Refill
    BY <1>2 DEF ToolsConverge, Tools!Lift, Refill
  <1>3. CASE AskKiro \/ AskTools \/ EndRestore
    BY <1>3 DEF AskKiro, AskTools, EndRestore, RestorerAsks, ToolsAnswered
  <1>4. ASSUME NEW t \in Saved, RestoreTab(t) PROVE Crossed'
    BY <1>4 DEF RestoreTab
  <1>5. ASSUME NEW p \in Page, PageStep(p) PROVE Crossed'
    <2>1. CASE ServeLayout(p) BY <2>1 DEF ServeLayout
    <2>2. CASE HoldLayout(p)  BY <2>2 DEF HoldLayout
    <2>3. CASE ExplainHold(p) BY <2>3 DEF ExplainHold, Answer
    <2>4. CASE ReadList(p)    BY <2>4 DEF ReadList
    <2>5. CASE Refuse(p)      BY <2>5 DEF Refuse, Answer
    <2>6. CASE Pass(p)
      <3>1. layer[p] = 1 => kiro = "ready"
        BY <2>6 DEF Pass, Blocks
      <3>2. layer[p] = 2 => tools # "syncing"
        BY <2>6 DEF Pass, Blocks
      <3>3. QED BY <2>6, <3>1, <3>2 DEF Pass
    <2>7. CASE Create(p)      BY <2>7 DEF Create
    <2>8. QED BY <1>5, <2>1, <2>2, <2>3, <2>4, <2>5, <2>6, <2>7 DEF PageStep
  <1>6. ASSUME NEW x \in Program,
               Exit(x) \/ HookAsksKiro(x) \/ HookWarns(x) \/ Kill(x)
        PROVE  Crossed'
    BY <1>6 DEF Exit, HookAsksKiro, HookWarns, Kill
  <1>7. CASE Serve \/ Drain \/ TearDown
    BY <1>7 DEF Serve, Drain, TearDown
  <1>8. CASE UNCHANGED vars
    BY <1>8 DEF vars
  <1>9. QED
    BY <1>1, <1>2, <1>3, <1>4, <1>5, <1>6, <1>7, <1>8 DEF Next, Restorer

-----------------------------------------------------------------------------
(* What a page sees of the restore, and what is said of a program.         *)

Lifecycle == StartsOnce /\ RestoreOver /\ ReadyFirst /\ WholeSetSeen /\ NoFalseAlarm

LEMMA LifecycleInit == Init => Lifecycle
  BY DEF Init, Lifecycle, StartsOnce, RestoreOver, ReadyFirst, WholeSetSeen,
         NoFalseAlarm

LEMMA LifecycleStep == TypeInv /\ Lifecycle /\ [Next]_vars => Lifecycle'
  <1> SUFFICES ASSUME TypeInv, Lifecycle, [Next]_vars PROVE Lifecycle'
    OBVIOUS
  <1> USE GateLayers DEF TypeInv, TypeOK, FlagsOK, Lifecycle, StartsOnce,
          RestoreOver, ReadyFirst, WholeSetSeen, NoFalseAlarm, Running, bootVars,
          serverVars, restoreVars, pageVars, procVars
  <1>1. ASSUME NEW why \in Reasons, Install(why) PROVE Lifecycle'
    BY <1>1 DEF Install
  <1>2. CASE ToolsConverge \/ Refill
    BY <1>2 DEF ToolsConverge, Tools!Lift, Refill
  <1>3. CASE AskKiro \/ AskTools \/ EndRestore
    BY <1>3 DEF AskKiro, AskTools, EndRestore
  <1>4. ASSUME NEW t \in Saved, RestoreTab(t) PROVE Lifecycle'
    BY <1>4 DEF RestoreTab
  <1>5. ASSUME NEW p \in Page, PageStep(p) PROVE Lifecycle'
    <2>1. CASE ServeLayout(p) BY <2>1 DEF ServeLayout, LayoutHeld, Pending
    <2>2. CASE HoldLayout(p)  BY <2>2 DEF HoldLayout
    <2>3. CASE ExplainHold(p) BY <2>3 DEF ExplainHold
    <2>4. CASE ReadList(p)    BY <2>4 DEF ReadList
    <2>5. CASE Refuse(p)      BY <2>5 DEF Refuse
    <2>6. CASE Pass(p)        BY <2>6 DEF Pass
    <2>7. CASE Create(p)      BY <2>7 DEF Create
    <2>8. QED BY <1>5, <2>1, <2>2, <2>3, <2>4, <2>5, <2>6, <2>7 DEF PageStep
  <1>6. ASSUME NEW x \in Program,
               Exit(x) \/ HookAsksKiro(x) \/ HookWarns(x) \/ Kill(x)
        PROVE  Lifecycle'
    <2>1. CASE Exit(x)         BY <2>1 DEF Exit
    <2>2. CASE HookAsksKiro(x) BY <2>2 DEF HookAsksKiro
    <2>3. CASE HookWarns(x)    BY <2>3 DEF HookWarns
    <2>4. CASE Kill(x)         BY <2>4 DEF Kill
    <2>5. QED BY <1>6, <2>1, <2>2, <2>3, <2>4
  <1>7. CASE Serve \/ Drain \/ TearDown
    BY <1>7 DEF Serve, Drain, ReadyInDrain, TearDown
  <1>8. CASE UNCHANGED vars
    BY <1>8 DEF vars
  <1>9. QED
    BY <1>1, <1>2, <1>3, <1>4, <1>5, <1>6, <1>7, <1>8 DEF Next, Restorer

-----------------------------------------------------------------------------
(* What the burst let through.                                             *)

\* Tokens a request took are pages admitted, and a refusal met an empty bucket.
Limited == TokensAccounted /\ PollsAreFree

LEMMA AdmittedFinite == IsFiniteSet(Admitted) /\ Cardinality(Admitted) \in Nat
  BY FS_Subset, FS_CardinalityType DEF Admitted

\* A step that leaves the tokens and who is admitted alone.
LEMMA LimitKept ==
  ASSUME TypeInv, Limited, tokens' \in Nat, tokens' >= tokens, Admitted' = Admitted,
         \A p \in Page : told'[p] = "limit" => told[p] = "limit"
  PROVE  Limited'
  BY AdmittedFinite DEF Limited, TokensAccounted, PollsAreFree, TypeInv, TypeOK

LEMMA LimitInit == Init => Limited
  <1> SUFFICES ASSUME Init PROVE Limited
    OBVIOUS
  <1>1. Admitted = {} /\ tokens = Burst /\ \A p \in Page : told[p] = "nothing"
    BY DEF Init, Admitted
  <1>2. QED BY <1>1, FS_EmptySet DEF Limited, TokensAccounted, PollsAreFree

LEMMA LimitStep == TypeInv /\ TypeInv' /\ Limited /\ [Next]_vars => Limited'
  <1> SUFFICES ASSUME TypeInv, TypeInv', Limited, [Next]_vars PROVE Limited'
    OBVIOUS
  <1> USE GateLayers DEF TypeInv, TypeOK, Admitted, bootVars, serverVars, restoreVars,
          pageVars, procVars
  <1>1. ASSUME UNCHANGED pageVars, tokens' >= tokens PROVE Limited'
    BY <1>1, LimitKept
  <1>2. ASSUME NEW p \in Page, PageStep(p) PROVE Limited'
    <2>1. CASE ServeLayout(p) BY <2>1, LimitKept DEF ServeLayout
    <2>2. CASE HoldLayout(p)  BY <2>2, LimitKept DEF HoldLayout
    <2>3. CASE ExplainHold(p)
      BY <2>3, LimitKept, HeldChecks DEF ExplainHold, Answer
    <2>4. CASE ReadList(p)    BY <2>4, LimitKept DEF ReadList
    <2>5. CASE Refuse(p)
      <3>1. CASE Layers[layer[p]] = "limit"
        <4>1. tokens = 0
          BY <2>5, <3>1 DEF Refuse, Blocks
        <4>2. Cardinality(Admitted) >= Burst
          BY <4>1, AdmittedFinite DEF Limited, TokensAccounted
        <4>3. tokens' = tokens /\ Admitted' = Admitted
          BY <2>5 DEF Refuse, Answer
        <4>4. QED
          BY <4>2, <4>3, AdmittedFinite DEF Limited, TokensAccounted, PollsAreFree
      <3>2. CASE Layers[layer[p]] # "limit"
        BY <2>5, <3>2, LimitKept DEF Refuse, Answer
      <3>3. QED BY <3>1, <3>2
    <2>6. CASE Pass(p)
      <3>1. CASE layer[p] = 4
        <4>1. Admitted' = Admitted \cup {p} /\ p \notin Admitted
          BY <2>6, <3>1 DEF Pass
        <4>2. tokens' = tokens - 1
          BY <2>6, <3>1 DEF Pass, TokensLeft
        <4> HIDE DEF Admitted
        <4>3. Cardinality(Admitted') = Cardinality(Admitted) + 1
          BY <4>1, AdmittedFinite, FS_AddElement
        <4>4. told' = told
          BY <2>6 DEF Pass
        <4>5. QED
          BY <4>2, <4>3, <4>4, AdmittedFinite
             DEF Limited, TokensAccounted, PollsAreFree
      <3>2. CASE layer[p] # 4
        <4>1. tokens' = tokens
          BY <2>6, <3>2 DEF Pass, TokensLeft
        <4>2. Admitted' = Admitted
          BY <2>6, <3>2 DEF Pass
        <4>3. QED BY <2>6, <4>1, <4>2, LimitKept DEF Pass
      <3>3. QED BY <3>1, <3>2
    <2>7. CASE Create(p)      BY <2>7, LimitKept DEF Create
    <2>8. QED BY <1>2, <2>1, <2>2, <2>3, <2>4, <2>5, <2>6, <2>7 DEF PageStep
  <1>3. CASE Refill
    BY <1>1, <1>3 DEF Refill
  <1>4. CASE \/ \E why \in Reasons : Install(why)
             \/ ToolsConverge \/ Restorer
    BY <1>1, <1>4 DEF Install, ToolsConverge, Tools!Lift, Restorer, AskKiro, AskTools,
                      EndRestore, RestoreTab
  <1>5. CASE \/ \E x \in Program : Exit(x) \/ HookAsksKiro(x) \/ HookWarns(x) \/ Kill(x)
             \/ Serve \/ Drain \/ TearDown
    BY <1>1, <1>5 DEF Exit, HookAsksKiro, HookWarns, Kill, Serve, Drain, TearDown
  <1>6. CASE UNCHANGED vars
    BY <1>1, <1>6 DEF vars
  <1>7. QED
    BY <1>2, <1>3, <1>4, <1>5, <1>6 DEF Next

-----------------------------------------------------------------------------
(* The invariant, and what follows.                                        *)

GateInv == TypeInv /\ Crossed /\ Lifecycle /\ Limited

\* GateInv, the strengthening that the properties need, holds throughout.
THEOREM GateInductive == Spec => []GateInv
  <1>1. Init => GateInv
    BY TypeInit, CrossedInit, LifecycleInit, LimitInit DEF GateInv
  <1>2. GateInv /\ [Next]_vars => GateInv'
    BY TypeStep, CrossedStep, LifecycleStep, LimitStep DEF GateInv
  <1>3. QED BY <1>1, <1>2, PTL DEF Spec

\* Every variable of the gate keeps its type (routes.go, tabrestore.go, main.go).
THEOREM TypeCorrect == Spec => []TypeOK
  <1>1. GateInv => TypeOK
    BY DEF GateInv, TypeInv
  <1>2. QED BY <1>1, GateInductive, PTL

\* No program starts before an install was ready and the manifest's tools were on
\* PATH, by either way in (composeGate, waitReady).
THEOREM StartsBehindTheGate == Spec => []NothingStartsEarly
  <1>1. GateInv => NothingStartsEarly
    BY DEF GateInv, Crossed
  <1>2. QED BY <1>1, GateInductive, PTL

\* A served layout is followed by a list with every restored tab that still runs
\* (restorePendingGate).
THEOREM LayoutMeetsWholeSet == Spec => []WholeSetSeen
  <1>1. GateInv => WholeSetSeen
    BY DEF GateInv, Lifecycle
  <1>2. QED BY <1>1, GateInductive, PTL

\* Only a burst of admitted creations makes a 429 (registerRoutes).
THEOREM LimitIsInnermost == Spec => []PollsAreFree
  <1>1. GateInv => PollsAreFree
    BY DEF GateInv, Limited
  <1>2. QED BY <1>1, GateInductive, PTL

\* What the shutdown ends is not reported as a broken install (newSessionFactory).
THEOREM TeardownIsQuiet == Spec => []NoFalseAlarm
  <1>1. GateInv => NoFalseAlarm
    BY DEF GateInv, Lifecycle
  <1>2. QED BY <1>1, GateInductive, PTL
-----------------------------------------------------------------------------
(* The refinement: of the programs, the saved tabs' start first.           *)

LEMMA GateInitial == Init => Gate!GateInit
  BY DEF Init, Gate!GateInit, Pending, Running, Program

LEMMA GateStep == GateInv /\ [Next]_vars => [Gate!GateNext]_(Gate!gateVars)
  <1> SUFFICES ASSUME GateInv, [Next]_vars PROVE [Gate!GateNext]_(Gate!gateVars)
    OBVIOUS
  <1> USE DEF GateInv, TypeInv, TypeOK, Lifecycle, StartsOnce, RestoreOver, Pending,
          bootVars, serverVars, restoreVars, pageVars, procVars
  <1>1. ASSUME UNCHANGED <<restorer, todo, proc>> PROVE UNCHANGED Gate!gateVars
    BY <1>1 DEF Gate!gateVars, Running
  <1>2. ASSUME NEW t \in Saved, RestoreTab(t) PROVE Gate!GateNext
    <2>1. t \in Program /\ Pending /\ t \in todo /\ t \notin Running
      BY <1>2 DEF RestoreTab, Program, Running
    <2>2. Running' \in {Running, Running \cup {t}}
      BY <1>2, <2>1 DEF RestoreTab, Running
    <2>3. todo' = todo \ {t} /\ UNCHANGED restorer
      BY <1>2 DEF RestoreTab
    <2>4. Gate!Restore(t)
      BY <2>1, <2>2, <2>3 DEF Gate!Restore
    <2>5. QED BY <2>1, <2>4 DEF Gate!GateNext
  <1>3. CASE EndRestore
    <2>1. Gate!Lift
      BY <1>3 DEF EndRestore, Gate!Lift, Running
    <2>2. QED BY <2>1 DEF Gate!GateNext
  <1>4. ASSUME NEW p \in Page, Create(p) PROVE Gate!GateNext
    <2>1. p \in Program /\ ~Pending
      BY <1>4 DEF Create, Program
    <2>2. Running' = Running \cup {p} /\ UNCHANGED <<restorer, todo>>
      BY <1>4, <2>1 DEF Create, Running
    <2>3. Gate!OpenNew(p)
      BY <2>1, <2>2 DEF Gate!OpenNew
    <2>4. QED BY <2>1, <2>3 DEF Gate!GateNext
  <1>5. ASSUME NEW x \in Program,
               Exit(x) \/ HookAsksKiro(x) \/ HookWarns(x) \/ Kill(x)
        PROVE  [Gate!GateNext]_(Gate!gateVars)
    <2>1. UNCHANGED <<restorer, todo>>
      BY <1>5 DEF Exit, HookAsksKiro, HookWarns, Kill
    <2>2. CASE Exit(x) \/ Kill(x)
      <3>1. Running' = Running \ {x}
        BY <2>2 DEF Exit, Kill, Running
      <3>2. Gate!Close(x)
        BY <2>1, <3>1 DEF Gate!Close
      <3>3. QED BY <3>2 DEF Gate!GateNext
    <2>3. CASE HookAsksKiro(x) \/ HookWarns(x)
      <3>1. Running' = Running
        BY <2>3 DEF HookAsksKiro, HookWarns, Running
      <3>2. QED BY <2>1, <3>1 DEF Gate!gateVars
    <2>4. QED BY <1>5, <2>2, <2>3
  <1>6. CASE AskKiro \/ AskTools
    BY <1>6 DEF AskKiro, AskTools, Gate!gateVars, Running
  <1>7. ASSUME NEW p \in Page, PageStep(p), ~Create(p) PROVE UNCHANGED Gate!gateVars
    BY <1>1, <1>7 DEF PageStep, ServeLayout, HoldLayout, ExplainHold, ReadList, Refuse,
                      Pass
  <1>8. CASE (\E why \in Reasons : Install(why)) \/ ToolsConverge \/ Refill
    BY <1>1, <1>8 DEF Install, ToolsConverge, Refill
  <1>9. CASE Serve \/ Drain \/ TearDown \/ UNCHANGED vars
    BY <1>1, <1>9 DEF Serve, Drain, TearDown, vars
  <1>10. QED
    BY <1>2, <1>3, <1>4, <1>5, <1>6, <1>7, <1>8, <1>9 DEF Next, Restorer

\* The programs run as the gate promises: while the restore is pending only saved tabs'
\* start, each once, whatever layers the pages' requests stand at (restorePendingGate,
\* composeGate).
THEOREM ImplementsGate == Spec => RestoreGateSpec
  <1>1. QED
    BY GateInitial, GateStep, GateInductive, PTL
       DEF Spec, RestoreGateSpec, Gate!RestoreGateSpec
=============================================================================

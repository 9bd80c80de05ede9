-------------------------- MODULE EngineTuningProofs --------------------------
(***************************************************************************)
(* EngineTuning for every set of versions and tabs and every bound: a      *)
(* cached yes is true of the files of now, and a cached no is too, unless  *)
(* its check failed.  TuningInv follows a check through its reads: as long *)
(* as the identity it took still holds, what it has established of the     *)
(* files still does.                                                       *)
(***************************************************************************)
EXTENDS EngineTuning, TLAPS

USE TuningAssumption DEF Keys, NoKey, Checking, Decided, Unpacking, Running

\* What the running check has established, unless a file was rewritten since.
CheckTrue ==
    \A t \in Tab :
        at[t] \in Checking /\ call.same =>
            /\ call.engine \in Engine
            /\ at[t] # "sum" => want = sum
            /\ at[t] \in {"search", "version"} => node = want
            /\ at[t] = "version" => want = call.engine

\* What a cached yes says, unless a file was rewritten since.
VerdictTrue ==
    key.same /\ verdict =>
        key.engine \in Validated /\ node = key.engine /\ sum = key.engine

\* What a cached no says, unless a file was rewritten since or its check failed.
RefusalTrue ==
    ~failed /\ key.same /\ ~verdict =>
        ~(key.engine \in Validated /\ node = key.engine /\ sum = key.engine)

TuningInv == TypeOK /\ CheckTrue /\ VerdictTrue /\ RefusalTrue

-----------------------------------------------------------------------------
(* TuningInv is inductive.                                                 *)

\* The bounds only count what happened.
LEMMA BoundsInit == Init => BoundsOK
  BY DEF Init, BoundsOK

LEMMA BoundsInv == BoundsOK /\ [Next]_vars => BoundsOK'
  <1>1. ASSUME BoundsOK, NEW t \in Tab, Env(t) \/ Check(t) \/ Run(t) \/ Killed(t)
        PROVE  BoundsOK'
    BY <1>1 DEF BoundsOK, boundVars, Env, EnvUnready, EnvCached, EnvCheck, Check,
         ReadSum, HashNode, SearchEngine, ProbeVersion, CheckFails, Step, Settle,
         NoFault, Run, Launch, ExecNode, Unpack, UnpackBegins, UnpackWrites,
         UnpackSeals, Killed
  <1>2. ASSUME BoundsOK, NEW e \in Engine \cup {None}, Activate(e)
        PROVE  BoundsOK'
    BY <1>2 DEF BoundsOK, boundVars, Activate
  <1>3. BoundsOK /\ UNCHANGED vars => BoundsOK'
    BY DEF BoundsOK, vars, boundVars
  <1>4. QED BY <1>1, <1>2, <1>3 DEF Next

LEMMA InitInv == Init => TuningInv
  <1>1. Init => TypeOK
    <2> SUFFICES ASSUME Init PROVE TypeOK
      OBVIOUS
    <2>1. (verdict \in BOOLEAN) /\ (failed \in BOOLEAN)
      BY Zenon DEF Init
    <2>2. call \in Keys /\ key \in Keys
      BY Zenon DEF Init
    <2>3. at \in [Tab -> {"idle"} \cup Checking \cup Decided \cup Running]
      BY Zenon DEF Init
    <2>4. of \in [Tab -> Engine \cup {None}]
      BY Zenon DEF Init
    <2>5. \A t, u \in Tab : at[t] \in Checking /\ at[u] \in Checking => t = u
      BY DEF Init
    <2>6. BoundsOK
      BY BoundsInit
    <2>7. engine \in Engine \cup {None} /\ node \in Engine \cup {None, Partial}
          /\ sum \in Engine \cup {None} /\ want \in Engine \cup {None}
          /\ last \in {"none", "stock", "tuned", "mixed"}
      BY Zenon DEF Init
    <2>8. QED BY <2>1, <2>2, <2>3, <2>4, <2>5, <2>6, <2>7, Zenon DEF TypeOK
  <1>2. Init => CheckTrue
    BY DEF Init, CheckTrue
  <1>3. Init => VerdictTrue
    BY DEF Init, VerdictTrue
  <1>4. Init => RefusalTrue
    BY DEF Init, RefusalTrue
  <1>5. QED BY <1>1, <1>2, <1>3, <1>4 DEF TuningInv

\* env up to its first read: the identity is fresh, and nothing is established.
LEMMA EnvInv ==
  ASSUME TuningInv, BoundsOK', NEW t \in Tab, Env(t)
  PROVE  TuningInv'
  <1> USE DEF TuningInv, TypeOK, CheckTrue, VerdictTrue, RefusalTrue, Decide, boundVars,
              Unlocked
  <1>1. CASE EnvUnready(t) BY <1>1 DEF EnvUnready
  <1>2. CASE EnvCached(t)  BY <1>2 DEF EnvCached
  <1>3. CASE EnvCheck(t)   BY <1>3 DEF EnvCheck
  <1>4. QED BY <1>1, <1>2, <1>3 DEF Env

\* A check that ends with a no has seen why, or has failed.
LEMMA NoInv ==
  ASSUME TuningInv, BoundsOK', NEW t \in Tab, at[t] \in Checking, Settle(t, FALSE),
         failed' \in BOOLEAN,
         \/ failed'
         \/ call.same =>
              ~(call.engine \in Validated /\ node = call.engine /\ sum = call.engine)
  PROVE  TuningInv'
  <1> USE DEF TuningInv, Settle, Decide, KeyOfTheCall
  <1>1. TypeOK'      BY DEF TypeOK
  <1>2. CheckTrue'   BY DEF TypeOK, CheckTrue
  <1>3. VerdictTrue' BY DEF VerdictTrue
  <1>4. RefusalTrue' BY DEF RefusalTrue
  <1>5. QED BY <1>1, <1>2, <1>3, <1>4

\* The check: each read adds to what is established, and a yes settles on all of
\* it, with the version asked of the file that was hashed.
LEMMA CheckInv ==
  ASSUME TuningInv, BoundsOK', NEW t \in Tab, Check(t)
  PROVE  TuningInv'
  <1> USE DEF TuningInv
  <1>1. CASE ReadSum(t)
    BY <1>1 DEF ReadSum, Step, boundVars, TypeOK, CheckTrue, VerdictTrue, RefusalTrue
  <1>2. CASE HashNode(t)
    <2>1. CASE Settle(t, FALSE)
      <3>1. at[t] = "hash" /\ node # want
        BY <1>2, <2>1 DEF HashNode, Settle, Step, Decide, TypeOK
      <3>2. call.same => node # sum
        BY <3>1 DEF CheckTrue
      <3>3. failed' \in BOOLEAN
        BY <1>2, <2>1, <3>1 DEF HashNode, NoFault
      <3>4. QED BY <2>1, <3>1, <3>2, <3>3, NoInv
    <2>2. CASE at[t] \in Checking /\ node = want /\ Step(t, "search") /\ UNCHANGED want
      BY <1>2, <2>2 DEF HashNode, Step, boundVars, TypeOK, CheckTrue, VerdictTrue,
                          RefusalTrue
    <2>3. QED BY <1>2, <2>1, <2>2 DEF HashNode
  <1>3. CASE SearchEngine(t)
    <2>1. CASE Settle(t, FALSE)
      <3>1. at[t] = "search" /\ want # call.engine
        BY <1>3, <2>1 DEF SearchEngine, Settle, Step, Decide, TypeOK
      <3>2. call.same => sum # call.engine
        BY <3>1 DEF CheckTrue
      <3>3. failed' \in BOOLEAN
        BY <1>3, <2>1, <3>1 DEF SearchEngine, NoFault
      <3>4. QED BY <2>1, <3>1, <3>2, <3>3, NoInv
    <2>2. CASE at[t] \in Checking /\ want = call.engine /\ Step(t, "version") /\ UNCHANGED want
      BY <1>3, <2>2 DEF SearchEngine, Step, boundVars, TypeOK, CheckTrue, VerdictTrue,
                          RefusalTrue
    <2>3. QED BY <1>3, <2>1, <2>2 DEF SearchEngine
  <1>4. CASE ProbeVersion(t)
    <2> USE DEF ProbeVersion, NoFault, Settle, Decide, KeyOfTheCall, Measured
    <2>1. TypeOK'
      <3>1. verdict' \in BOOLEAN
        BY <1>4
      <3>2. failed' \in BOOLEAN
        BY <1>4
      <3>3. QED BY <1>4, <3>1, <3>2 DEF TypeOK
    <2>2. CheckTrue'   BY <1>4 DEF TypeOK, CheckTrue
    <2>3. VerdictTrue' BY <1>4 DEF TypeOK, CheckTrue, VerdictTrue
    <2>4. RefusalTrue' BY <1>4 DEF TypeOK, CheckTrue, RefusalTrue
    <2>5. QED BY <2>1, <2>2, <2>3, <2>4
  <1>5. CASE CheckFails(t)
    BY <1>5, NoInv DEF CheckFails
  <1>6. QED BY <1>1, <1>2, <1>3, <1>4, <1>5 DEF Check

\* kiro-cli and the install manager: a rewritten file ends both identities, and
\* a version change is in neither of them.
LEMMA OutsideInv ==
  ASSUME TuningInv, BoundsOK',
         \/ \E t \in Tab : Run(t) \/ Killed(t)
         \/ \E e \in Engine \cup {None} : Activate(e)
  PROVE  TuningInv'
  <1> USE DEF TuningInv, TypeOK, CheckTrue, VerdictTrue, RefusalTrue, boundVars, Rewritten
  <1>1. ASSUME NEW t \in Tab, UnpackBegins(t) PROVE TuningInv'
    <2>1. CASE node = of[t] /\ sum = of[t]
      BY <1>1, <2>1 DEF UnpackBegins
    <2>2. CASE ~(node = of[t] /\ sum = of[t])
      <3>1. /\ at' = [at EXCEPT ![t] = "write"] /\ node' = Partial /\ Rewritten
            /\ at[t] = "begin"
            /\ UNCHANGED <<engine, sum, of, want, verdict, last, kills, faults, failed>>
        BY <1>1, <2>2 DEF UnpackBegins
      <3>2. TypeOK'
        BY <3>1
      <3>3. \A u \in Tab : at'[u] \in Checking => at[u] = at'[u]
        BY <3>1
      <3>4. CheckTrue'
        BY <3>1, <3>3
      <3>5. VerdictTrue' /\ RefusalTrue'
        BY <3>1
      <3>6. QED BY <3>2, <3>4, <3>5
    <2>3. QED BY <2>1, <2>2
  <1>2. ASSUME NEW t \in Tab, UnpackWrites(t) PROVE TuningInv'
    BY <1>2 DEF UnpackWrites
  <1>3. ASSUME NEW t \in Tab, UnpackSeals(t) PROVE TuningInv'
    BY <1>3 DEF UnpackSeals
  <1>4. ASSUME NEW t \in Tab, Killed(t) PROVE TuningInv'
    BY <1>4 DEF Killed
  <1>5. ASSUME NEW e \in Engine \cup {None}, Activate(e) PROVE TuningInv'
    BY <1>5 DEF Activate
  <1>6. ASSUME NEW t \in Tab, Launch(t) PROVE TuningInv'
    BY <1>6 DEF Launch
  <1>7. ASSUME NEW t \in Tab, ExecNode(t) PROVE TuningInv'
    BY <1>7 DEF ExecNode
  <1>8. QED BY <1>1, <1>2, <1>3, <1>4, <1>5, <1>6, <1>7 DEF Run, Unpack

LEMMA StutterInv == TuningInv /\ UNCHANGED vars => TuningInv'
  BY DEF TuningInv, TypeOK, BoundsOK, CheckTrue, VerdictTrue, RefusalTrue, vars, boundVars

\* TuningInv, the strengthening YesIsTrue and NoIsTrue need, holds throughout.
THEOREM TuningInductive == Spec => []TuningInv
  <1>1. TuningInv /\ [Next]_vars => TuningInv'
    <2> SUFFICES ASSUME TuningInv, [Next]_vars PROVE TuningInv'
      OBVIOUS
    <2>1. BoundsOK'
      BY BoundsInv DEF TuningInv, TypeOK
    <2>2. QED
      BY <2>1, EnvInv, CheckInv, OutsideInv, StutterInv DEF Next
  <1>2. QED BY InitInv, <1>1, PTL DEF Spec

-----------------------------------------------------------------------------
(* What follows.                                                           *)

\* Every variable keeps its type, and at most one tab is in a check: env holds
\* its mutex over all of it.
THEOREM TypeCorrect == Spec => []TypeOK
  BY TuningInductive, PTL DEF TuningInv

\* A cached yes that would be used for the files of now is true of them, however
\* checks, unpacks, kills, failed reads and version changes interleave (env).
THEOREM YesHolds == Spec => []YesIsTrue
  <1>1. TuningInv => YesIsTrue
    BY DEF TuningInv, TypeOK, VerdictTrue, YesIsTrue, Hit, Sound, Whole
  <1>2. QED BY <1>1, TuningInductive, PTL

\* A cached no that would be used for the files of now is true of them too, unless
\* its check failed for a moment: a file rewritten in the middle of a check never
\* leaves a refusal behind that the check did not see the reason of (env).
THEOREM NoHolds == Spec => []NoIsTrue
  <1>1. TuningInv => NoIsTrue
    BY DEF TuningInv, TypeOK, RefusalTrue, NoIsTrue, Hit, Sound, Whole
  <1>2. QED BY <1>1, TuningInductive, PTL
=============================================================================

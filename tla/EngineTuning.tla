---------------------------- MODULE EngineTuning -----------------------------
(***************************************************************************)
(* Whether a tab's agent engine starts with the high-throughput flags      *)
(* (enginetuning.go): on kiro-cli's unpacked Node.js, when that file is    *)
(* whole, is the one the active kiro-cli embeds, and is the version the    *)
(* flags were measured on.                                                 *)
(*                                                                         *)
(* The verdict is cached under the identity of the files it came from.     *)
(* Files are read one after the other while kiro-cli, in tabs that start   *)
(* stock, unpacks them, and while the active kiro-cli changes.  A tab with *)
(* the flags unpacks nothing, so a wrong yes would never be repaired.      *)
(*                                                                         *)
(* A tab's environment is built before its argv, and its engine starts     *)
(* when the user has signed in: the verdict, the kiro-cli the tab runs and *)
(* the Node.js the launcher executes are of three different moments.       *)
(***************************************************************************)
EXTENDS Naturals

CONSTANTS
    Engine,         \* kiro-cli versions; each embeds a Node.js of its own
    None,           \* no active kiro-cli; no file
    Partial,        \* a Node.js file half written
    Validated,      \* the versions whose Node.js is the validated one
    Tab,            \* tabs that can be starting at a time
    MaxKills,       \* bound on the tabs that end while they unpack
    MaxFaults       \* bound on the reads, hashes and probes that fail for a moment

ASSUME TuningAssumption ==
    /\ None \notin Engine /\ Partial \notin Engine /\ None # Partial
    /\ Validated \subseteq Engine
    /\ MaxKills \in Nat /\ MaxFaults \in Nat

VARIABLES
    engine,         \* engineBinary: the active kiro-cli
    node, sum,      \* the unpacked Node.js and its node.sha256: whose they are
    at,             \* at[t]: where the start of tab t is
    of,             \* of[t]: the kiro-cli in tab t's argv
    call,           \* what env, under its mutex, holds: the key it took ...
    want,           \* ... and the hash it read
    key, verdict,   \* the cached verdict and the identity it is for
    last,           \* what the last tab's engine started on
    (* counted for the bounds *)
    kills, faults,
    (* history, read by no action *)
    failed          \* the cached no is of a check that failed for a moment

boundVars == <<kills, faults, failed>>

vars == <<engine, node, sum, at, of, call, want, key, verdict, last, boundVars>>

\* An identity is a kiro-cli path, and whether the two files are still those
\* that were looked at: a rewritten file never has an old identity again.
Keys  == [engine : Engine \cup {None}, same : BOOLEAN]
NoKey == [engine |-> None, same |-> FALSE]

Checking  == {"sum", "hash", "search", "version"}
Decided   == {"stock", "tuned"}
Unpacking == {"begin", "write", "seal"}
Running   == Unpacking \cup {"exec"}

BoundsOK == kills \in 0 .. MaxKills /\ faults \in 0 .. MaxFaults

TypeOK ==
    /\ engine \in Engine \cup {None}
    /\ node \in Engine \cup {None, Partial} /\ sum \in Engine \cup {None}
    /\ at \in [Tab -> {"idle"} \cup Checking \cup Decided \cup Running]
    /\ of \in [Tab -> Engine \cup {None}]
    /\ \A t, u \in Tab : at[t] \in Checking /\ at[u] \in Checking => t = u
    /\ call \in Keys /\ key \in Keys
    /\ want \in Engine \cup {None}
    /\ verdict \in BOOLEAN /\ failed \in BOOLEAN
    /\ last \in {"none", "stock", "tuned", "mixed"}
    /\ BoundsOK

\* A server over whatever earlier boots left unpacked.
Init ==
    /\ engine = None
    /\ node \in Engine \cup {None, Partial} /\ sum \in Engine \cup {None}
    /\ at = [t \in Tab |-> "idle"] /\ of = [t \in Tab |-> None]
    /\ call = NoKey /\ want = None
    /\ key = NoKey /\ verdict = FALSE
    /\ last = "none" /\ kills = 0 /\ faults = 0 /\ failed = FALSE

\* What the flags ask for.
Whole == engine # None /\ node = engine /\ sum = engine
Sound == Whole /\ engine \in Validated

-----------------------------------------------------------------------------
(* env, one tab at a time under the mutex.                                 *)

Unlocked == \A t \in Tab : at[t] \notin Checking

\* Fault: the path of the kiro-cli is not part of the identity.
FilesMatch == key.same

\* nodeCheckKey.same against the files of now
Hit == key.same /\ key.engine = engine

Decide(t, how) == at' = [at EXCEPT ![t] = how]

\* stat finds no kiro-cli or a file missing: stock, and nothing is cached.
EnvUnready(t) ==
    /\ Unlocked /\ at[t] = "idle"
    /\ engine = None \/ node = None \/ sum = None
    /\ Decide(t, "stock")
    /\ UNCHANGED <<engine, node, sum, of, call, want, key, verdict, last, boundVars>>

EnvCached(t) ==
    /\ Unlocked /\ at[t] = "idle"
    /\ engine # None /\ node # None /\ sum # None
    /\ Hit
    /\ Decide(t, IF verdict THEN "tuned" ELSE "stock")
    /\ UNCHANGED <<engine, node, sum, of, call, want, key, verdict, last, boundVars>>

\* The identity is taken before anything is read.
EnvCheck(t) ==
    /\ Unlocked /\ at[t] = "idle"
    /\ engine # None /\ node # None /\ sum # None
    /\ ~Hit
    /\ call' = [engine |-> engine, same |-> TRUE]
    /\ at'   = [at EXCEPT ![t] = "sum"]
    /\ UNCHANGED <<engine, node, sum, of, want, key, verdict, last, boundVars>>

\* Fault: the identity is taken when the check is over.
KeyOfTheEnd == [call EXCEPT !.same = TRUE]

\* The verdict is for the files as they were when the call began.
KeyOfTheCall == call

Settle(t, yes) ==
    /\ key' = KeyOfTheCall /\ verdict' = yes
    /\ call' = NoKey /\ want' = None
    /\ Decide(t, IF yes THEN "tuned" ELSE "stock")
    /\ UNCHANGED <<engine, node, sum, of, last, kills>>

Step(t, next) ==
    /\ at' = [at EXCEPT ![t] = next]
    /\ UNCHANGED <<engine, node, sum, of, call, key, verdict, last, boundVars>>

NoFault == UNCHANGED faults /\ failed' = FALSE

ReadSum(t) ==
    /\ at[t] = "sum"
    /\ want' = sum
    /\ Step(t, "hash")

\* fileSHA256, against node.sha256
HashNode(t) ==
    /\ at[t] = "hash"
    /\ \/ node = want /\ Step(t, "search") /\ UNCHANGED want
       \/ node # want /\ Settle(t, FALSE) /\ NoFault

\* fileContains, in the kiro-cli the identity names
SearchEngine(t) ==
    /\ at[t] = "search"
    /\ \/ want = call.engine /\ Step(t, "version") /\ UNCHANGED want
       \/ want # call.engine /\ Settle(t, FALSE) /\ NoFault

\* Fault: the version is not asked for.
AnyVersion(n) == n \in Engine

Measured(n) == n \in Validated

\* node --version, of the file as it is by now
ProbeVersion(t) ==
    /\ at[t] = "version"
    /\ Settle(t, Measured(node))
    /\ NoFault

\* A read or a hash fails, or the probe outlasts nodeVersionTimeout.
CheckFails(t) ==
    /\ faults < MaxFaults
    /\ at[t] \in Checking
    /\ faults' = faults + 1 /\ failed' = TRUE
    /\ Settle(t, FALSE)

-----------------------------------------------------------------------------
(* The tab's program.                                                      *)

\* sessionCommand takes the active kiro-cli of now; with none the tab ends.
Launch(t) ==
    /\ at[t] \in Decided
    /\ of' = [of EXCEPT ![t] = engine]
    /\ at' = [at EXCEPT ![t] = IF engine = None THEN "idle"
                              ELSE IF at[t] = "tuned" THEN "exec" ELSE "begin"]
    /\ last' = IF at[t] = "stock" /\ engine # None THEN "stock" ELSE last
    /\ UNCHANGED <<engine, node, sum, call, want, key, verdict, boundVars>>

\* execKasNode: whatever is under the path by now, with the flags.
ExecNode(t) ==
    /\ at[t] = "exec"
    /\ at' = [at EXCEPT ![t] = "idle"]
    /\ last' = IF node = of[t] /\ node \in Validated THEN "tuned" ELSE "mixed"
    /\ UNCHANGED <<engine, node, sum, of, call, want, key, verdict, boundVars>>

\* kiro-cli, in a tab that started stock.

Rewritten == call' = [call EXCEPT !.same = FALSE] /\ key' = [key EXCEPT !.same = FALSE]

\* The files are the ones it embeds, or it begins to write them.
UnpackBegins(t) ==
    /\ at[t] = "begin"
    /\ IF node = of[t] /\ sum = of[t]
         THEN at' = [at EXCEPT ![t] = "idle"] /\ UNCHANGED <<node, call, key>>
         ELSE at' = [at EXCEPT ![t] = "write"] /\ node' = Partial /\ Rewritten
    /\ UNCHANGED <<engine, sum, of, want, verdict, last, boundVars>>

UnpackWrites(t) ==
    /\ at[t] = "write"
    /\ at' = [at EXCEPT ![t] = "seal"]
    /\ node' = of[t] /\ Rewritten
    /\ UNCHANGED <<engine, sum, of, want, verdict, last, boundVars>>

UnpackSeals(t) ==
    /\ at[t] = "seal"
    /\ at' = [at EXCEPT ![t] = "idle"]
    /\ sum' = of[t] /\ Rewritten
    /\ UNCHANGED <<engine, node, of, want, verdict, last, boundVars>>

\* The tab is closed over it, or before its engine starts.
Killed(t) ==
    /\ at[t] \in Running
    /\ kills < MaxKills
    /\ kills' = kills + 1
    /\ at' = [at EXCEPT ![t] = "idle"]
    /\ UNCHANGED <<engine, node, sum, of, call, want, key, verdict, last, faults, failed>>

\* The install manager activates another version, or withdraws the active one.
Activate(e) ==
    /\ e # engine
    /\ engine' = e
    /\ UNCHANGED <<node, sum, at, of, call, want, key, verdict, last, boundVars>>

-----------------------------------------------------------------------------
Env(t)    == EnvUnready(t) \/ EnvCached(t) \/ EnvCheck(t)
Check(t)  ==
    \/ ReadSum(t) \/ HashNode(t) \/ SearchEngine(t) \/ ProbeVersion(t)
    \/ CheckFails(t)
Unpack(t) == UnpackBegins(t) \/ UnpackWrites(t) \/ UnpackSeals(t)
Run(t)    == Launch(t) \/ ExecNode(t) \/ Unpack(t)

Next ==
    \/ \E t \in Tab : Env(t) \/ Check(t) \/ Run(t) \/ Killed(t)
    \/ \E e \in Engine \cup {None} : Activate(e)

Spec == Init /\ [][Next]_vars

\* Tabs keep being opened, a check returns (every read is local and the probe
\* is bounded), users sign in, and kiro-cli finishes what it unpacks unless it
\* is killed.
LiveSpec == Spec /\ \A t \in Tab : WF_vars(Env(t)) /\ WF_vars(Check(t)) /\ WF_vars(Run(t))

-----------------------------------------------------------------------------
(* Properties.                                                             *)

\* A cached yes that would be used for the files of now is true of them, through
\* unpacks and version changes in the middle of a check (env and nodeCheckKey).
YesIsTrue == Hit /\ verdict => Sound

\* So is a cached no, unless its check failed for a moment: no tab is refused the
\* flags for files that deserve them, and a failure leaves no other no in doubt (env).
NoIsTrue == Hit /\ ~verdict /\ ~failed => ~Sound

Settles(e) == <>[](engine = e)

\* Once the active kiro-cli stays one whose Node.js is validated, engines come to
\* start with the flags, on its Node.js and no other, and keep doing so: a stock
\* start repairs the files for the next one (the comment on env), and no pair of a
\* verdict and an argv of two moments, nor an unpack between a verdict and the
\* launcher's exec, has a lasting effect.  A check that failed for a moment has one
\* only while the files it was for are in use: that no is cached like any other.
TunedInTheEnd ==
    (\E e \in Validated : Settles(e)) /\ <>[]~(failed /\ Hit) => <>[](last = "tuned")
=============================================================================

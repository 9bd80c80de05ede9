------------------------------ MODULE KiroLocks -------------------------------
(***************************************************************************)
(* The sweep of kiro-cli's session locks at boot (kirolocksweep.go) beside *)
(* the programs that write them.                                           *)
(*                                                                         *)
(* kiro-cli locks a conversation by a file that carries the time it was    *)
(* written and a pid.  A stopped container leaves its locks behind; to a   *)
(* later kiro-cli such a lock is dead, or alive when the pid is in use     *)
(* again.  The sweep reads a lock and removes it in two steps, once per    *)
(* boot, before the restore; a page waits for the restore, but only when   *)
(* there is one.                                                           *)
(***************************************************************************)
EXTENDS Naturals

CONSTANTS
    Conversation,           \* conversations, each with one lock file
    MaxClock        \* bound of the clock

ASSUME LockAssumption == MaxClock \in Nat

VARIABLES
    clock,
    up,             \* the container runs
    boot,           \* bootTime
    restoring,      \* this boot has a set to restore, and pages wait for it
    lock,           \* lock[c]: the file
    writers,        \* writers[c]: the programs that hold c open
    sweep,          \* locks not looked at yet
    stale,          \* stale[c]: the sweep read c's lock and will remove it
    left,           \* locks the sweep could not remove
    (* history, read by no action *)
    crossed         \* conversations opened between the sweep's two steps

lockVars == <<clock, up, boot, restoring, lock, writers, sweep, stale, left, crossed>>

NoLock  == [kind |-> "none", at |-> 0]
Garbled == [kind |-> "garbled", at |-> 0]       \* undecodable, a symlink, too big
Locks   == {NoLock, Garbled} \cup [kind : {"lock"}, at : 0 .. MaxClock]

LocksFlagsOK == up \in BOOLEAN /\ restoring \in BOOLEAN

LocksTypeOK ==
    /\ LocksFlagsOK
    /\ clock \in 0 .. MaxClock /\ boot \in 0 .. MaxClock
    /\ lock \in [Conversation -> Locks]
    /\ writers \in [Conversation -> 0 .. 2]
    /\ sweep \subseteq Conversation /\ stale \subseteq Conversation
    /\ left \subseteq Conversation
    /\ sweep \cap stale = {} /\ left \cap (sweep \cup stale) = {}
    /\ crossed \subseteq Conversation

\* Whatever an earlier boot, or something else in the store, left behind.
LocksInit ==
    /\ clock = 0 /\ up = FALSE /\ boot = 0 /\ restoring = FALSE
    /\ lock \in [Conversation -> Locks]
    /\ \A c \in Conversation : lock[c].at = 0
    /\ writers = [c \in Conversation |-> 0]
    /\ sweep = {} /\ stale = {} /\ left = {} /\ crossed = {}

Swept == up /\ sweep = {} /\ stale = {}

-----------------------------------------------------------------------------
(* The container.                                                          *)

Tick ==
    /\ clock < MaxClock
    /\ clock' = clock + 1
    /\ UNCHANGED <<up, boot, restoring, lock, writers, sweep, stale, left, crossed>>

\* run takes bootTime first; a new container starts later than the last one
\* wrote anything.
Boot ==
    /\ ~up
    /\ \A c \in Conversation : lock[c].kind = "lock" => lock[c].at < clock
    /\ up' = TRUE /\ boot' = clock
    /\ restoring' \in BOOLEAN
    /\ sweep' = Conversation /\ stale' = {} /\ left' = {}
    /\ UNCHANGED <<clock, lock, writers, crossed>>

\* Every program goes with the container, and its lock stays.
Stop ==
    /\ up
    /\ up' = FALSE
    /\ writers' = [c \in Conversation |-> 0]
    /\ sweep' = {} /\ stale' = {} /\ left' = {} /\ crossed' = {}
    /\ UNCHANGED <<clock, boot, restoring, lock>>

-----------------------------------------------------------------------------
(* sweepStaleKiroLocks, a lock at a time.                                  *)

\* Fault: one of the very instant of the boot is older.
StrictlyYounger(l) == l.kind = "lock" /\ l.at > boot

\* lockFromThisBoot
FromThisBoot(l) == l.kind = "lock" /\ l.at >= boot

\* Fault: what cannot be decoded is left alone.
KeepsGarbled(l) == l.kind = "garbled" \/ FromThisBoot(l)

Kept(l) == FromThisBoot(l)

ReadLock(c) ==
    /\ up
    /\ c \in sweep
    /\ sweep' = sweep \ {c}
    /\ stale' = IF lock[c].kind = "none" \/ Kept(lock[c]) THEN stale ELSE stale \cup {c}
    /\ UNCHANGED <<clock, up, boot, restoring, lock, writers, left, crossed>>

\* Its directory cannot be read: the lock stays, uninspected.
CannotList(c) ==
    /\ up
    /\ c \in sweep
    /\ sweep' = sweep \ {c}
    /\ left' = left \cup {c}
    /\ UNCHANGED <<clock, up, boot, restoring, lock, writers, stale, crossed>>

\* os.Remove, of whatever has the name by now; it can fail.
RemoveLock(c) ==
    /\ up
    /\ c \in stale
    /\ stale' = stale \ {c}
    /\ \/ lock' = [lock EXCEPT ![c] = NoLock] /\ UNCHANGED left
       \/ left' = left \cup {c} /\ UNCHANGED lock
    /\ UNCHANGED <<clock, up, boot, restoring, writers, sweep, crossed>>

-----------------------------------------------------------------------------
(* kiro-cli, in a restored tab or a page's.                                *)

\* Fault: the restorer does not wait for the sweep.
StartsBesideSweep == up

\* The sweep and the restore share a goroutine, and pages wait for the restore.
MayStart == up /\ (restoring => Swept)

\* A lock whose pid is in use, by its program or again, refuses it; one kiro-cli
\* takes for dead is replaced.
OpenConversation(c) ==
    /\ MayStart
    /\ writers[c] < 2
    /\ lock[c].kind = "lock" => writers[c] = 0
    /\ lock'    = [lock EXCEPT ![c] = [kind |-> "lock", at |-> clock]]
    /\ writers' = [writers EXCEPT ![c] = @ + 1]
    /\ crossed' = IF c \in stale THEN crossed \cup {c} ELSE crossed
    /\ UNCHANGED <<clock, up, boot, restoring, sweep, stale, left>>

\* It ends and removes its lock, or is killed and leaves it.
CloseConversation(c) ==
    /\ writers[c] > 0
    /\ writers' = [writers EXCEPT ![c] = @ - 1]
    /\ lock' \in {lock, [lock EXCEPT ![c] = NoLock]}
    /\ UNCHANGED <<clock, up, boot, restoring, sweep, stale, left, crossed>>

-----------------------------------------------------------------------------
LocksNext ==
    \/ Tick \/ Boot \/ Stop
    \/ \E c \in Conversation :
          \/ ReadLock(c) \/ CannotList(c) \/ RemoveLock(c)
          \/ OpenConversation(c) \/ CloseConversation(c)

LocksSpec == LocksInit /\ [][LocksNext]_lockVars

-----------------------------------------------------------------------------
(* Properties.                                                             *)

\* Two programs never write one conversation at a time: no sweep opens the way
\* for the second, whether it runs before every program (run) or beside those of
\* pages that wait for no restore (lockFromThisBoot keeps the locks of this
\* boot).  The sweep removes by name what it judged a moment ago, so a program
\* that replaces a dead lock in that moment is not protected.
OneWriter == \A c \in Conversation \ crossed : writers[c] <= 1

\* A restored tab never finds a lock of an earlier boot, or one nobody can read,
\* unless it could not be removed (run: "the sweep goes first").
NoStaleLockLeft ==
    restoring /\ MayStart =>
        \A c \in Conversation \ left : lock[c].kind = "none" \/ FromThisBoot(lock[c])
=============================================================================

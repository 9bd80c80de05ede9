# Verification of web-terminal-kiro

web-terminal-kiro serves kiro-cli chats as tabs in a browser. One Go process owns
a session manager (a library), a kiro-cli install, a tools engine (a library) and
the files that let a container restart bring the tabs back; a page of TypeScript
pastes images into them; a shell hook that kiro-cli runs tells the server which
conversation a tab holds.

This directory models the parts of it where several actors share state, checks
them with TLC on small instances, and proves with TLAPS, for every instance, every
safety and refinement property of theirs; liveness is TLC's alone. Paths are relative
to the repository's root (`src/` in the project's map).

- [What the system is made of](#what-the-system-is-made-of)
- [Modules](#modules)
- [Runs](#runs)
- [Fairness](#fairness)
- [Proofs](#proofs)
- [Where code and comments disagree](#where-code-and-comments-disagree)
- [What is not modelled](#what-is-not-modelled)
- [Plan](#plan)

## What the system is made of

| Component | State it keeps | Operations | Meets |
|---|---|---|---|
| Saved tab set (`tabstate.go`, `tabrestore.go`) | `/config/.../tabs.json`, `armed`, `keepFile`, `last`; the restorer's progress | load or move aside at boot, restore, arm, save each pass | session manager, pollers, shutdown, create gate |
| Restore plan (`tabrestore.go`) | none: a function of the file and kiro-cli's records | resumeOwners, adoptLaunchingSessions, plan | kiro-cli's session records |
| Pollers and shutdown (`sessionpollers.go`, `sessionshutdown.go`) | the base context | one tick for titles, marks, save; cancel, then empty the manager | everything that polls |
| Session titles (`sessiontitle.go`, `hooks/session-title.sh`) | handles by tab, mapping files, alias memo, pairings | mint, hook write, seed, pass, forget | hooks of every tab, manager, saved set |
| Workflow marks (`workflowmark.go`) | verdict cache keyed by mtime and size | discover, stat, read, beat, fold | kiro-cli's run records, pairings |
| Tools status (`main.go`) | `state`, `booted`, `missing`, a recount channel of one | recordBoot, observeJob, watch, await | the engine's job queue and its lock |
| Create gate and programs (`routes.go`, `main.go`) | readiness, restorePending, the rate limiter | four layers, the held layout read, the exit hook | install manager, tools status, restorer, shutdown |
| Lock sweep (`kirolocksweep.go`) | none beyond the boot time | read a lock, judge it, remove it | kiro-cli's lock files |
| Engine tuning (`enginetuning.go`) | one cached verdict and the file identities it is for | stat, four reads, settle; argv and exec of a tab | kiro-cli unpacking its Node.js, version changes |
| Image paste (`static-src/image-paste.ts`, `upload.go`) | captured tab, abort signals; the uploads directory | paste, upload, insert | tab switches, pane teardown, other pages |
| GitHub limit reporter (`githubtoken.go`) | a channel of one, the last refusal told and the end of its window | observe, report | failed jobs under the engine's queue lock, the engine's hold |
| Sandbox, entry point, configuration, guards | files and environment, once at start | probes, modes, parsing | kernel, container |

What is hard here is not any one of these but where they meet:

- **The same set under three goroutines.** The restorer adds tabs, the poller
  saves the tabs that are there, the shutdown takes them all away. A save of a
  set that is half restored, or half shut down, loses tabs for good.
- **Files that another program rewrites while they are read**: mapping files,
  run records, locks, an unpacked Node.js. The code takes an identity, reads,
  and caches; the order decides whether the cache can be trusted.
- **Callbacks under someone else's lock.** The tools engine calls back under its
  queue lock, and counting needs that lock.
- **Gates that wait for each other.** Creation waits for the install, the tools
  and the restore; the restore waits for the first two.
- **Death at any step.** A container stop leaves a file half replaced, a lock
  nobody holds, a record half written.
- **Awaits in a page**: what was focused when the user pasted is not what is
  focused when the upload is answered.

For each component, what makes it correct:

- Saved tab set: a tab that was saved and that nobody gave up is in the file,
  whatever is interrupted; nothing is added beside a restore; a file that could
  not be moved aside is kept; what stays open reaches the disk.
- Restore plan: one tab per conversation, the bookmarked one; no conversation with a
  record is forgotten because that was unreadable for a moment; no stale address.
- Titles: a live tab keeps its handle; it resumes only a conversation it was in;
  the alias memo is honest; files of closed tabs are reclaimed.
- Marks: a cached verdict is that of the file it is for; a torn record keeps its
  mark; an abandoned run goes dark; the most pressing run of a tab is shown.
- Tools status: the gate lifts exactly once, always, and only by the boot's
  verdict; the queue never waits for the watcher; the published count settles.
- Create gate: nothing starts early; waiting is free; no partial list is taken
  for the whole; a deploy raises no false alarm; creation gets through.
- Lock sweep: no stale lock meets a restored tab, no removal of a lock judged rightly
  lets two programs write one conversation.
- Engine tuning: a yes is true of the files of now; a no is not kept without
  reason; stale files are repaired, and no start pairs the flags with a stale file
  for good.
- GitHub limit: each refusal is told once, unless a warning in its words is fresh; its
  copies never.
- Image paste: paths are typed where the paste was aimed or nowhere, and name files
  that were written in full; a paste ends.

## Modules

Every module is parameterised by CONSTANTS; the `MC…` module beside it names the
values TLC uses. Definitions keep the source's names. Alternatives introduced by
a comment that starts with "Fault:" are ways the code could be wrong; no run uses
them as they stand, they show that each property can fail.

**TabLedger** is the abstract specification of the saved set: a ledger changes
when a snapshot of a *settled* set is recorded, or by being set aside before a
run begins. **TabPersistence** is the protocol: `file` and `aside` are `tabs.json`
and its moved-aside copy; `phase`, `cancelled`, `pending`, `live` the process and
its manager; `armed`, `keepFile`, `last` the store; `restorer`, `todo` the restore
goroutine; `poller`, `shot` a save in its three steps (capture; context check;
rename). `ready` is what `kiro.ready()` and the tools field answer, and comes and
goes (`ReadinessChanges`); `waitReady` needs it at one poll. `Die` can happen anywhere. `owed` and `gone` are history. The instance
`Ledger` maps the ledger to the file and "settled" to a serving process whose
restorer is past restoring and arming.

**RestoreGate** is the abstract specification of a boot's restore: while it is
pending a tab opens only because it was saved, each one once, and the gate lifts when
every saved tab was handled. TabPersistence, which has the restorer and the saves,
and CreateGate, which has the requests and the programs they start, both implement
it (`RestoreGateSpec`).

**TabRestorePlan** computes what each entry comes back as, over every set the
saves can produce, with reads that fail at one look and not the next, and with records
that do not decode or carry another id, which answer as if they were missing. It is
separate because `TabPersistence` needs only whether an entry starts.

**SessionTitles** has the four parties of the state directory. The pass reads the
directory, then the list of sessions, then each file: one step each. A tab's
handle is as good as the tab, so the mapping file of a handle is `mapping[t]`.

**WorkflowMarks** has a record written in two steps (`BeginWrite`, `EndWrite`),
and a poller that stats, reads and looks at the beat in three. `lit[t][r]` is what
run r contributes to tab t, and `Activity(t)` what the engine is told of the tab.

**BootGate** is the abstract specification of the tools field: "syncing" until the
boot's verdict, and once lifted never down again.

**ToolsStatus** has every atomic load, store and channel operation that another
party can come between as a step, and the engine's single-flight queue with its
lock as the environment. It implements BootGate (`BootGateSpec`).

**CreateGate** composes what the above decide (install verdict, tools syncing,
restore pending) into the request path: a page crosses the layers one step at a
time, so it can meet four different moments; the restorer polls two of them; the
shutdown takes both of its ways out. Its tools layer is BootGate's, an instance
whose one step is `ToolsConverge`.

**KiroLocks** has one lock per conversation, whatever the directory layout, and a
sweep that reads in one step and removes in another while kiro-cli writes. Its
specification is `LocksSpec`, and GitHubLimit's `LimitSpec`: each shares a proofs
module with another component, and the names keep them apart.

**EngineTuning** has the mutex, the cached verdict, the four reads of a check and
a kiro-cli that unpacks in three steps and can be killed in each. A tab's verdict,
its argv (`Launch`) and the launcher's exec (`ExecNode`) are of three moments, with
a sign-in of any length before the last. An identity is the kiro-cli path and
whether the two files are still the ones looked at: a rewritten file never has an
old identity again.

**ImagePaste** has the paste from the event (or key) through clipboard, upload,
answer and insertion, tab switches and releases between any two awaits, and a
server that writes file by file and can stop at each. A file's name is the second its
paste was prepared in and the image's place in it, so two pastes of one second, of two
panes or two pages, write the same names and the later file replaces the earlier.

**GitHubLimit** has the engine's hold on a refused credential, an operator's add
that meets a refusal no job fails with, jobs that fail with the refusal or a copy
of it, and the reporter with its channel of one and its window. What two refusals
say differs in the reset they name, or not at all.

The modules meet through a few cells: `pending` of TabPersistence is the restore
layer of CreateGate, and both modules implement RestoreGate with it; `state =
"syncing"` of ToolsStatus is CreateGate's tools layer, and both are tied to
BootGate, ToolsStatus by a refinement and CreateGate by its instance; `Resume` of a
saved tab in TabPersistence is `ResumeOf` in SessionTitles and an entry of
TabRestorePlan; the sweep of KiroLocks precedes TabPersistence's restore. But for
these two gates they are checked apart, each with the others as its environment: the
cell is free to change wherever the other module could change it.

## Runs

The type invariants are theorems (see [Proofs](#proofs)) and no run checks them. All
runs are on model values, without symmetry except for
`kiro_locks`, which states no liveness and whose actions name no conversation.
Deadlock is checked unless the system really may stop (a shutdown, a bounded clock,
all work done).

| Run | Instance | Shows |
|---|---|---|
| `tab_persistence` | 2 tabs | no saved tab is lost; a stuck file is kept; the protocol implements TabLedger and RestoreGate; the restore ends and opens creation, once the install stays ready; a stable set is saved, failed writes included |
| `tab_persistence_errors` | the same, the engine may refuse a restore | *violation*: see below |
| `tab_restore_plan` | 2 conversations, 1 step, 1 bad id, 3 entries | one tab per conversation, the bookmarked one; no conversation with an intact record forgotten; no stale address |
| `session_titles` | 1 tab, 2 conversations, 1 step, failing reads | the live handle is kept; the tab resumes only what it held; no title of a conversation it left |
| `session_titles_live` | 2 tabs, 1 conversation | alias memo honest; files of closed tabs go; a name moves to the tab that is left |
| `workflow_marks` | 1 tab, 1 run, 2 sessions, 3 clock values, 1 failed read | the cache is sound; a torn text keeps the last whole one's mark; abandoned runs stay dark; a settled run that works or waits for input lights its tab; a dead writer's goes dark |
| `tools_status` | 1 operator job beside the boot's 3, 1 tool, Wait may fail | the protocol implements BootGate: only the boot verdict lifts the gate, once, and it always does; later jobs are what the field shows; the queue advances; the count settles |
| `create_gate` | 2 pages, 1 saved tab, burst 1 | nothing early; whole set seen; polls free; no false alarm; every page gets its tab |
| `kiro_locks` | 2 conversations, 4 clock values | no stale lock meets a restore; one writer, on either side of the boot's instant |
| `engine_tuning` | 2 versions (1 validated), 2 tabs, 1 kill, 1 failed read | a cached yes is true, a cached no is unless its check failed; every engine ends up tuned, on its own Node.js |
| `image_paste` | 2 pastes (3 images, and 1 by key; 2 per upload), 2 panes, 2 tabs, 2 seconds | aimed; never a missing file, another place or another second, two pastes of one second included; a paste ends |
| `github_limit` | a minute of 3 ticks, resets after 2 and 4, 11 moments | one warning per refusal, a fresh one in its words excepted; copies told by none |

Some properties carry a condition, because the code does not keep them without it:

- `LastWholeVerdict` (WorkflowMarks) speaks of runs in which no read failed.
  `admit` rebuilds the cache from what the pass could read, so one failed read
  forgets a verdict, and a record torn for good then has no mark, although
  `classify` says it "keeps its last mark for as long as it exists".
- `FieldFollowsJobs` (ToolsStatus) speaks of jobs that settle once `booted` is set.
  A repair that finishes between the boot job's end and that store is folded
  nowhere, although the comment on `toolsStatus` says a repair heals the field.
- `OneWriter` (KiroLocks) leaves out a conversation opened in the moment between
  the sweep's look at its lock and its removal. The removal goes by name, so it
  takes the new lock, and a second program can open the conversation.
- `ConversationsKept` (TabRestorePlan) speaks of conversations whose record is there,
  decodes and carries its own id. `sessionRecord` answers `recordMissing` for a damaged
  one as for none, `plan` then starts a fresh chat, and the next save forgets the
  conversation; a test wants that of another id (tabrestore_test.go:85).
- `PathsHoldTheirImages` (ImagePaste) lets a typed path's file hold the image in the
  same place of another paste named in the same second: `pastedImageName` has nothing
  finer, and the upload replaces what has the name.
- `TypedWhereItWasAimed` (ImagePaste) speaks of paste events. Ctrl+Shift+V captures
  the tab only after the clipboard was read.
- `NoIsTrue` (EngineTuning) leaves out the no of a check that itself failed for a
  moment (a read error, or `node --version` outlasting its deadline), and
  `TunedInTheEnd` the runs that come to rest on one. It is cached like any other:
  nothing rewrites files that are intact, so no later tab gets the flags until the
  server restarts or the active version changes, although `env` gives the launcher
  "when kiro-cli's unpacked Node.js is intact, is the one the active kiro-cli
  embeds, and is the validated version" (enginetuning.go:153).
- `OneWarningPerRefusal` (GitHubLimit) takes a refusal for told when a warning in
  the same words was less than a minute old as GitHub sent it. The reporter counts
  from when it hears of a refusal, which after an operator's add is late in the
  hold; its window then outlasts the hold, and the next refusal, where it says the
  same, is taken for a copy, although the comment on the reporter promises "one Warn
  per refusal GitHub sent" (githubtoken.go:46).

Why the bounds are enough:

- Two tabs are the least that can disagree (one restored and one failed, one
  holding an alias and one refused it). Nothing else in TabPersistence is bounded,
  and its theorems hold for any set of tabs.
- SessionTitles is checked in two instances because they ask different things: a
  tab that moves needs two conversations and a step, tabs that contend need one
  conversation and each other.
- One workflow run is enough because runs contribute independently and share only
  the clock. Three clock values separate "before" and "after" a tab's opening and
  let a record be rewritten around a read; one failed read is the least that
  freezes or forgets a verdict.
- Jobs run once each; one counted job beside the three the boot submits is the
  least that races with the boot verdict.
- A burst of one makes the second creation meet an empty bucket (six in the code);
  two pages are the least of which one can be refused because of the other. One
  reason of the install being unready stands for all of them.
- A boot needs a clock later than every lock; four values give a previous boot,
  this one, and later ones.
- `need_input` and `running` stand for the three states of a run that light a tab:
  `paused` takes the same way. With one run no mark can hide another; that the most
  pressing one is told is proved, for any number of runs (`MostPressingIsTold`).
- Two seconds let the two pastes share one, or not.
- A minute of three ticks tells a reset within it from one beyond it; eleven
  moments hold three refusals, the third one after a window that was opened late.
- Two kiro-cli versions are the least with which the active one changes and comes
  back; two tabs the least with which one unpacks while another's check reads.
- Three images and an upload of two are the least that needs the limit (the code
  has its own maximum); one image is the paste beside it.

## Fairness

Safety needs none. What the liveness properties assume:

- TabPersistence: the restorer's and the poller's goroutines are scheduled, a
  ticker fires, and a write that is retried is not refused for ever. Nothing is
  assumed of the user, of readiness, which comes and goes, or of the process staying
  up; the properties are conditional on those. A restore ends if readiness, from some
  time on, stays: `waitReady` looks every half second and can miss one that does not.
- SessionTitles and WorkflowMarks: the poller runs. Hooks and users owe nothing.
- ToolsStatus: the goroutines are scheduled and a running job ends; the engine
  bounds its jobs.
- CreateGate: pages ask again, the restorer's ticker fires, tokens come back, the
  tools converge (which ToolsStatus shows). The install owes nothing; the property
  is about the case that it stays ready.
- EngineTuning: tabs keep being opened, users sign in, a check returns (its reads
  are local, its probe has a deadline), and kiro-cli finishes an unpack it is not killed over.
- ImagePaste: the page's promises settle, the request at its own deadline at the
  latest. The server may hang.

## Proofs

Each concrete module has its theorems in a `…Proofs` module beside it, but for two pairs:
RestoreProofs holds those of TabRestorePlan and of KiroLocks, which a boot's restore
rests on both, and ToolbeltProofs those of ToolsStatus and of GitHubLimit, which are
the two that listen to the tools engine's jobs. For every value of the constants:

| Module | Proved, beside the type invariant | The invariant adds |
|---|---|---|
| TabPersistence | `OwedTabsAreSaved`, `NoTabBesideRestore`, `StuckFileIsKept`, `LedgerSpec`, `RestoreGateSpec` | see below |
| TabRestorePlan | `OneTabPerConversation`, `BookmarkKept`, `ConversationsKept`, `NoStaleAddress` | see below |
| SessionTitles | `LiveHandleKept`, `ResumesOwnSession`, `TitleMatchesPairing`, `AliasMemoHonest` | what is on record of a tab is of a tab that was opened, and a tab is opened once; the snapshot covers the entries it judges; every session on record was the tab's own, a step's launcher included; `pushed` is the title |
| WorkflowMarks | `CacheSound`, `AbandonedStaysDark`, `LastWholeVerdict`; and `MostPressingIsTold` of several runs | an identity seen is never ahead of the record, and behind every text being written; a verdict in the cache, in `seen` or in hand is that of the text its identity still has; where the pass carries the last whole verdict of each run |
| ToolsStatus | `FieldFollowsJobs`, `BootGateSpec` | a queued job waits once and settles once; `booted` is set after the verdict; while a callback holds the lock, the field says what the last settled job came to or is about to |
| CreateGate | `NothingStartsEarly`, `WholeSetSeen`, `PollsAreFree`, `NoFalseAlarm`, `RestoreGateSpec` | a request inside a layer has seen its cell; a program starts once; past the layout the restore is over; readiness goes before the programs; tokens and admitted pages add up to the burst |
| KiroLocks | `OneWriter`, `NoStaleLockLeft` | a program's lock is of this boot and not judged stale; what the sweep is through with is of this boot |
| EngineTuning | `YesIsTrue`, `NoIsTrue` | what a check in progress has established still holds of files that were not rewritten; so does what the cached verdict says, a no of a failed check apart |
| ImagePaste | `TypedWhereItWasAimed`, `PathsHoldTheirImages` | where a chain stands fixes its pane, tab and request; what a request wrote is there for good, or in its place what a paste of the same second wrote |
| GitHubLimit | `OneWarningPerRefusal` | GitHub is not asked again within a hold; what is waiting, or failing a job, is the last refusal, within its hold; a refusal is told within its hold, and in the order sent; the window is that of the last warning; a refusal that failed a job waits in the channel or a warning stands for it |

No property in the second column is inductive as it stands: it speaks of what a
step leaves, and the step that would break it relies on what an earlier step, often
another actor's, has seen. The third column is what had to be added; each part is
a definition of its own with a comment, in the proofs module.

The proofs have one shape: the parts that hold without the others come first
(types, and what they need), then each later part is preserved given the earlier
ones, action by action; the theorem joins the parts, and each property follows
from them. `FlagsOK` is the Boolean half of a type invariant, apart because the
provers want it so.

What is assumed of the constants is in each module's ASSUME, and TLC evaluates it
on every run. Mostly it says that "none" is not a value: no session, no verdict, no
tab is the constant that stands for there being none.

**TabPersistence** is proved in two layers. `ServingInv` holds whatever the engine
reports, and is inductive by itself:

- `ShutdownOrder`: the context is cancelled exactly from the drain on, so a
  manager that is being emptied is never seen under a live context;
- `ArmingOrder`: only a store that may replace its file is armed, only an armed
  one saves, the gate is shut until the restore is over;
- `TodoFromFile` and `NoTabBesideRestore`: what is restored, and until then what is
  live, is of the file that was read;
- `LastIsFile`: what the store believes is on disk is on disk, so a skipped save
  loses nothing;
- `ShutGateSave`: a save under a shut gate holds all that is live.

`TypeCorrect`, `RestoreIsAlone`, `StuckFileSafe` and `ImplementsLedger` follow from
it without a hypothesis: even the engine's error leaves every save a snapshot of a
settled set. What that error does break is that the set was settled with the saved
tabs in it. `OwedTabsAreSaved` says nothing of the set a save has in its hand, or of
where an owed tab is while it is not yet live; `OwedInv` adds

- `OwedWhileRestoring`: an owed tab is live, still to be restored, or failed, and the
  gate lifts when none is left to restore;
- `OwedWhileSaving`: it is live once the store is armed, and in the set on its way
  to disk;

and is inductive on top of `ServingInv` under `~RestoreErrors`, which `Invariance`,
`SavedTabsSurvive` and `ImplementsGate` therefore assume; the run
`tab_persistence_errors` shows why. `ImplementsLedger` and `ImplementsGate` show that
every step is a step of TabLedger, and of RestoreGate, or a stutter under the mapping;
the second needs that an entry still to be restored is not live (`LiveWasHandled`).

**TabRestorePlan** speaks of sequences, and of which entry owns a conversation.
`OwnerIsTheBookmarked` says of `ResumeOwners` what its definition hides: a
conversation goes to the last entry bookmarked at it, and where there is none to the
first that names it. It rests on `LeastOf` and `GreatestOf`, that a non-empty set of
indices has a least element and a greatest one, which are cited from the library's
facts on well-founded relations. `PlanInv` then adds that the tabs, and so the
entries, have addresses of their own; that the plan walks the set whose owners it
claimed; that each restored tab traces to one planned entry and none to an entry
twice (`PlanTrace`), which gives the two negative properties; and that each planned
owner whose record was there came back at its conversation (`OwnersPlanned`), which
gives the two positive ones.

Liveness, anything with ENABLED, and what needs induction over data stay with TLC:
the provers used cannot discharge them. So `RestoreEnds`, `StableSetIsSaved`,
`DepartedReclaimed`, `AliasTakenOver`, `GateLifts`, `QueueAdvances`, `CountSettles`,
`MarkAppears`, `DeadGoesDark`, `CreateGetsThrough`, `PasteEnds` and `TunedInTheEnd`
are checked on the instances only.

## Where code and comments disagree

One is a run that expects the violation, with the quoted line in `PROJECT.json`:
`tab_persistence_errors`, in which a restore the engine refuses with an error other than
`ErrManagerClosed` arms the store over an empty set, which the next save writes
over every saved tab. The branch beside it exists to prevent exactly that.

Others were met while modelling and are in the models, but have no run of their
own: those of the conditions above that quote or name a comment, and the state directory,
of which the comment in `pass` says that "nothing re-creates it" while the hook's `mkdir -p` does
(`HookWrites` in SessionTitles).

## What is not modelled

- `/api/health` reports cells CreateGate has, one by one, and changes nothing. The
  rescan hook asks the install manager to look again; what that changes is the
  install verdict, which CreateGate lets come and go.
- Sandbox, entry point: sequential, once per start, over the kernel and file modes.
- The check of the titles' state directory at start, which turns titles off for the
  process's life or lets them be; SessionTitles begins after it.
- The counts of a tab's workflow tally, which word a tooltip.
- Configuration, request guards, headers: stateless.
- The page but for the paste: its state is in the terminal library.
- Scripts: build checks without state.
- The libraries and kiro-cli: not in the repository; modelled where met, as the
  code uses them, and marked external in the map. What they are assumed to do is in
  the actions so marked: a session manager that lists what it holds, a
  single-flight job queue with a lock, an install verdict that comes and goes, a
  kiro-cli that writes its records in place and can be killed doing so.
- Wall clocks that run backwards (KiroLocks, WorkflowMarks) and two writes of one
  record within a tick of the file system's clock (WorkflowMarks) are assumed away; the
  code has nothing to tell them by. So is a refusal that waits in the reporter's channel
  while time passes (GitHubLimit): a second one, sent then, would find the channel full
  and be dropped. KiroLocks also takes a lock to appear whole and its time to be as
  fine as the boot's: the sweep removes a lock it cannot decode, and one whose
  whole second began before the boot.
- How texts are parsed, trimmed, escaped and worded.

## Plan

Done: the modules above, in the order saved set, titles, tools, marks, restore
plan, create gate, paste, locks, tuning, GitHub limit, with BootGate between tools
and create gate and RestoreGate between saved set and create gate; and a proof of
every safety property, action property and refinement that a run checks.

What could still be added, in this order:

1. What the liveness properties rest on, as invariants: that where a goroutine waits,
   the one it waits for can move.
2. The rescan hook with its detached operation and abandoned callers, if the
   install manager's own protocol is taken in.
3. Two workflow runs of one tab. One run has 1.7 million states here and two more
   than twenty; the poller would have to be composed of per-run parts first.

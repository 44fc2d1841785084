# Verification of the memory manager

TLA+ modules, TLC runs and TLAPS proofs for `src/scripts`, a local memory
manager for coding agents. Agents submit memory *candidates*, a user reviews
them in a console, approved text becomes *official* memory, and hooks hand the
official memory to the agents as context.

## The system

| Part | Files | State it keeps | Operations |
|---|---|---|---|
| Review queue | `memory_review_queue.py` | proposals documents, per-project decisions (`memory_review_state.json`), official documents, per-project queue file | submit, approve, reject, defer, reset, quarantine noise, remind, build |
| Lock files | `ui_design_store.py` | one `O_EXCL` file per lock | `exclusive_lock` with timeout |
| Hook router | `vibe_memory_router.py` | idempotency file, two context packets and their journal | `handle_event`, queue worker |
| Retention, settings | `vibe_memory_settings.py` | settings, short memory, service action | prune, first run, reconcile |
| Review console | `memory_review_server.py` | none of its own; a thread per request | HTTP requests over the parts above, editing of active memory, project switch |
| UI design gate | `ui_design_gate.py`, hook template | packages, `config.json`, `approvals.json` | approve, reject, relock, decide a tool use |
| UI skills | `ui_skill_registry.py`, `ui_skill_publisher.py` | draft records, published packages | draft transitions, two-target publication |
| Worktree flow | `worktree_flow.py` | `tasks.json`, mkdir locks | start, finish, release, cleanup |
| Project registry | `memory_project.py` | registry of projects, current project | register, unregister, switch |
| Hook configuration | `vibe_memory_hooks.py` | agents' configuration files | repair, uninstall by compare and swap |
| Installer | `vibe_memory_install.py`, `vibe_memory_cli.py` | releases, `current` link, launcher, agent, state, service | install, update, roll back, repair, start, first run, uninstall |
| Migration | `vibe_memory_migration.py` | legacy hook documents and scripts of the projects | preview, apply, archive at unregistration, restore |

How they interact: console threads, command-line processes, agents and hooks
share nothing but files. A personal candidate is visible in every project; its
decision is recorded **per project**, the personal documents are **global**. A
hook process reserves its event, prunes short memory at a session start,
starts a child process that rebuilds the queue of the project, writes the
context packets and commits its event.

What is hard: several processes read and rewrite whole files under different
locks, some under none; two kinds of lock that differ when a holder dies
(a flock goes, an `O_EXCL` file stays); approval writes two files; hooks run
twice, expire and are killed; errors between any two steps. `PROJECT.json`
lists each hazard at its line with the properties that would notice it.

What makes each part correct:

* review queue: a decision is final until reset; an approval has its text in
  the document, once; only approved text is official; no submission is lost;
  the queue shows the decisions once things calm down; locks are exact, not
  circular, and every call returns;
* hook router: an event completes once in a window, a failed one can be
  retried, the two packets are alike, every handler finishes;
* console: an edit changes the section the user saw; a request works on the
  project it was made for;
* UI gate: a tool use is allowed only for the package that was approved, as it
  was approved; hook and gate agree; a relock wins over an older approval;
* skills: what is published is what was approved, in both targets or neither;
* worktree flow: one entry per task, none lost; no cleanup of unreleased work;
* registry, migration, hook configuration, installer: what another program
  wrote is not overwritten; a failed transition is undone; a crash leaves
  releases, links and documents that the next command accepts.

## Modules

### MemoryReview

A process (`Procs`) is a slot in which one call after another runs: a console
thread, a command, an agent, the child of a hook. Each step is one access to a
shared file or lock; all other processes may run in between.

| Variable | In the code |
|---|---|
| `proposals` | the two proposals documents; a candidate is one id per document and equivalence, its value the recorded source agents |
| `decisions[j]`, `stateFile[j]` | `items` of the state file of project `j`, and whether it exists |
| `official[d][x]` | how many sections of document `d` have the content `x` |
| `queue[j]` | `memory_review_queue.json`: each candidate's status |
| `queueLock`, `stateLock`, `targetLock`, `proposalLock` | the flock of `queue_lock` and the three `exclusive_lock` files |
| `pc`, `job`, `stage`, `rest`, `view`, `state`, `text`, `draft` | where a call is, its arguments, and what it has read or is about to write |

| Actions | Code |
|---|---|
| `BuildLock`, `BuildReadState`, `BuildUnlockState`, `BuildThen*` | `build_queue` and what its callers do next; `approve` builds at the beginning (`find_item`), after its decision and in the `find_item` it returns |
| `Propose*` | `create_agent_candidate` |
| `Approve*` | `approve`: state lock, target lock, read, append, record, roll back |
| `Mutate*`, `UnlockStateThen*` | `mutate_state` for reject, defer, reset, noise and reminders |
| `EditRead`, `EditWrite` | `update_active_memory` and `prune_personal_short`, which take no lock |
| `Hook*` | `_refresh_review_queue_on_fd` in the child of a hook, and the kill at its deadline |
| `Timeout`, `Crash` | `LockTimeout`/`TimeoutError`; a process that dies |

The history variable `left` remembers the text that the code leaves official
without a decision: that of a decision which was reset or which a hook dropped,
of an approval that died between its two files, of a roll-back that failed as
well, and what an editor had read before a roll-back.

Abstractions. Text is an atom; two texts are equal exactly when their digests
are. An edit deletes a section or replaces it by text that is not tracked; it
is one write, though the editor truncates first. The two reads of an official
document in an approval (one to recognise the text, one to append) are one
step's read and one step's read-and-write. Both proposals files are read in
one step of a build. Left out: the audit archive of noise, the time of the last
reminder, calls outside any project, the launch of the review service.
Retention expires what is `Discardable`; its stamping of sections without an
expiry is a write that changes no content.

`MCMemoryReview` gives the instances their constants and the sets of calls.

### HookEvents, EventWindow, HookEventsProofs

A handler is one hook process with one event. `store` is the idempotency file,
read and written under its flock (`LockStore` is the lock, the read and the
expiry of `_live_entries`); `packets` and `journal` are the context packets and
their journal under the packet lock. `Work` stands for settings, retention,
queue refresh and the building of the context, any of which may raise.
`PacketFails` is an error at any operation of the transaction, before or, with
`LateFailures`, after it took effect; `exposed` notes the one case nobody can
repair: the removal of the journal took effect, was reported as failed, and the
restoration that follows it ends early (`Exposes`). Every error of the work and
of the packets leads to the release of the reservation; only an error on the
idempotency file itself ends a handler with its reservation in place
(`"unreleased"`). A handler's identity is its
pid and the uuid of its reservation; the pid of a dead one may be reused
(`Live`). The two locks are flocks and go with a dead holder.

`EventWindow` is the promise of the store: an event completes at most once in
a window of `TTL`, and what is completed is not forgotten before. `HookEvents`
implements it (`CompletedOnce`) with the refinement mapping that reads
`Remembered` off the committed entries which have not expired.

### UIGate, UIGateProofs

One project of the UI design gate (`ui_design_gate.py`, and the hook template
that takes the same decision inside an agent).

| Variable | In the code |
|---|---|
| `packages`, `config`, `approvals`, `context` | the packages by digest, `config.json`, `approvals.json` with the replies per idempotency key, `effective-context.json` |
| `gateLock` | `gate.lock`, an `O_EXCL` file a death leaves behind |
| `pc`, `job`, `seen`, `draft` | where a call is, its arguments, what it read before and under the lock |

`Start`, `LoadUnderLock` and the actions named after the operations (`Create`,
`ReviseManifest`, `ReviseFiles`, `Approve`, `RecordVerdict`, `Configure`,
`ApproveBaseline`, `Save`) are the mutations; `Refresh` and `PublishContext` are
the publication of the context after the lock is free; `DecideByConfig`,
`DecideReadApprovals`, `Decide` and `Proceed` are one tool use, whose files are
read one after the other under no lock; `EditDesign` is a designer. `Configure`
also refuses: the smoke test of `enable_hard_gate` may fail, which is written to
`config.json` and publishes nothing. `Crash` is a call that dies (the lock file
stays) or that an error of the file system ends (it goes). The history
variables `given`, `closed`, `before` and `verdict` remember what a user
approved and closed, and what a decision could have known when it began;
`unlocked` says that a baseline approval has unlocked `config.json` and is not
recorded (yet).

### SkillPublish, SkillPublishProofs

The drafts of one managed skill under `registry.lock`, and the transactions that
put a version into the directories of both agents under `deployments.lock`
(`ui_skill_registry.py`, `ui_skill_publisher.py`). `tx[p]` is the transaction of
a process with its backups, the digests it expects and what it has yet to do;
each rename, check, record and deletion is a step, and any of them may fail
(`Fails`, `RecoverFails`, `FailedFails`, ...) or be the last one (`Crash`).
`owed` is what an agent should find: the last recorded deployment, or an edit.

### WorktreeFlow, WorktreeFlowProofs

The commands of `worktree_flow.py` for several tasks. `registry` is
`tasks.json`, read and saved under no lock; `main`, `origin`, `canonical` and
`staging` are the remote main, its tracking ref, the workspace and what is
deployed; commits are numbers, and a main stands for the last commit of each
task it contains. `call[t]` is the command of a task between its steps. A commit,
a push of the branch or of main by others, a death and the removal of a dead
lock by a person happen at any time.

### Projects, ProjectsProofs

The registry (`memory_project.py`) under its flock and the migration of legacy
hooks (`vibe_memory_migration.py`) under the lock of each project. A document
is missing, legacy or clean, and carries the last foreign edit; a step is one
rename. `Register`, `Look`, `Remove`, `Undo` are the registry; `Select`,
`ApplyLocks`, `UnregisterLocks`, `ReadDoc`, `WriteDoc`, `MoveScript`,
`Archived` the archive; `Fail`, `RestoreDoc`, `RestoreScript`, `Restored` the way
back; `Upgrade*` is `upgrade-memory-hooks`.

### Install, InstallProofs

The installation (`vibe_memory_install.py`), the commands of
`vibe_memory_cli.py` that change it, first run, and the hook writer
(`vibe_memory_hooks.py`). All run under one lifecycle lock, so there is one
`cmd`; `todo` is the list of its steps, and a failing step replaces it by the
steps of its cleanup (`cleaning`), whose own failure is recorded in `errors`.
`before` and `mine` are the snapshots and what the command knows it did. A step
fails before its effect or after it. `Fault` is the failure of any step, with
its file written or not; the other `Fault*` actions are the steps whose effect
the command must learn of in another way: from the exception
(`_current_commit_snapshot` of the link, `_commit_snapshot` of the hooks), by
reading back (the action file of `start`, the release an install names), or not
at all. What a step changed without noting it is in the history variable `torn`.
The steps of a cleanup fail before their effect only. The
hook writer is three steps (read, exchange, check) so that another program may
save in between. The bootout that a first run schedules runs later, on its own.

### MCUIGate, MCSkillPublish, MCWorktreeFlow, MCProjects, MCInstall

Instances: the calls and keys, symmetry, and views. A view leaves out counters
no guard compares and history that no property reads any more; symmetry is over
slots, drafts, tasks or keys that are treated alike. The versions of `Install`
are numbers, so the view of `MCInstall` renames them: the first one a state names
is version 1.

### MemoryReviewProofs, MemoryReviewDocumentProofs

The proofs, below.

## Runs

| Run | Instance | Shows |
|---|---|---|
| `shared_review` | 2 processes, 2 projects, one personal candidate; approve, reject, reset, hooks; 1 crash, 1 failed write | `TypeOK`, `LocksMatchPosition`, `NoCircularWait`, `ApprovedIsOfficial`, `NoDuplicateOfficial`, `OfficialIsApproved` |
| `concurrent` | 2 processes, 1 project, a project and a personal candidate, 2 agents; submit, approve, defer, edit, prune, noise, remind, refresh, hooks | `DecisionFinal`, `ProposalsGrow`, `QueueSettled` |
| `returns` | 2 processes, approve, reset, hooks, 1 crash, fair | `CallsReturn` |
| `hook_events` | 3 handlers of one event, 2 texts, 1 crash, 1 failure (early or late), reservation 1, window 2, fair | `TypeOK`, `HandledAlone`, `ReservationReleased`, `PacketsAgree`, `CompletedOnce`, `HandlersFinish` |
| `ui_gate` | 2 processes, 1 package with 3 contents, 2 files, 9 calls, one retried; the baseline is approved by two of them, with a relock to fall between; a smoke test that may fail; 1 call that breaks off | `TypeOK`, `AllowedIsApproved`, `ContextCurrent`, `EffectOnce`, `RecordsKept` |
| `skill_publish` | 2 processes, 2 drafts, 3 calls, 1 edit by hand, 2 incidents | `TypeOK`, `NothingLost`, `Settled`, `PublishingHeld`, `EditsKept` |
| `worktree_flow` | 2 tasks, 6 commands, 2 commits, 1 incident (a push by others included) | `TypeOK`, `AcceptedOnly`, `RegistryTrue` |
| `projects` | 2 processes, 2 projects (one with legacy hooks), 2 agents, 2 calls, 2 incidents | `TypeOK`, `RegistrationsKept`, `ReleasedClean`, `EntriesHaveScript`, `FailureRestores` |
| `install` | 2 versions, 2 commands, 3 incidents | `TypeOK`, `CurrentInstalled`, `FailureRestores`, `SuccessAgrees`, `EditsKept`, `BootoutAsked` |
| `short_reapproved`, `hook_forgets`, `prune_forgets` | small instances | violations, next section |

Bounds, and why they are enough. Every property of MemoryReview that can fail
by interleaving needs two calls inside each other; a process runs call after
call, so two slots give sequences of any length beside each other. `MaxCopies`
2 lets a duplicate appear. One crash and one failed write reach every position,
because calls go on afterwards. For hooks three handlers are needed: one that
outlives its reservation or dies, one that takes over, one more that finds what
both left. Time runs to 2, past a reservation (1) and to the end of a window
(2); the code uses 30 seconds for both, and nothing compares one with the other.
The failed write of `shared_review` is that of a decision whose text is already
in the document, so the roll-back runs beside the other project's approval of
the same text. `concurrent` has two candidates and two agents, and therefore
one project, no reset and no crash: its properties are about lost updates.

In `ui_gate` two calls overlap and every call may follow every other; three
contents allow a package to be approved, changed and changed back in scope; two
baseline approvals with keys of their own let the second one break off, or be
overtaken by a decision, after a relock and with the first one on record. In
`skill_publish` one call publishes, a second one replaces or retries it, the
third finds what a failure and a failure of its recovery (two incidents) left.
`worktree_flow` needs six commands for two tasks to be started, finished and
released beside each other, or one to be started, finished, released,
synchronised, deployed and cleaned up; the second commit is the one after
finish. In `projects` two calls overlap (the registry has two kinds of writer),
and two incidents are a failing step and either an edit or a failure of its
restoration. In `install` commands do not overlap, so a command and its
successor suffice, and three incidents are a failing step, a failing cleanup
and an edit or a death.

`hook_events`, `ui_gate`, `skill_publish`, `worktree_flow`, `projects` and
`install` do not check for deadlock: handlers exit, time ends, the calls and
commands are bounded. All other runs do.

Fairness. `returns`: a running call takes its next step; waiting for a lock is
bounded by a timeout in the code, so weak fairness of each process is all that
is needed. `hook_events`: a running process goes on; the flocks have no
timeout, but a handler takes each lock only a few times and holds it for a few
steps, so weak fairness suffices there as well. Starting a call is never forced.

## What the code does not do

* **Approving into short memory twice** (`short_reapproved`).
  `official_contains_content_digest` expects a blank line before the body; the
  envelope of short memory has none. Approve, reset, approve appends the text
  again, against the function's docstring ("so reset/reapprove stays
  idempotent").
* **A hook forgets a decision** (`hook_forgets`). The queue worker that found
  no state file writes an empty one without the state lock, over a decision
  recorded since.
* **Retention forgets an approval** (`prune_forgets`). `prune_personal_short`
  reads and rewrites short memory without the target lock; an approval in
  between keeps its decision and loses its text.

The passing runs exclude exactly these: `shared_review` approves into long
memory only and starts project `b` without a state file but does not check
`DecisionFinal`; `concurrent` starts with all state files and keeps only
`Discardable` text where editors run.

Other disagreements have no run; the history variable or the exception of a
property that stands for each is named where there is one.

* Packets (`exposed`): if the sync of the directory fails after the journal is
  gone, the old packets are restored without a journal; a crash in between
  leaves them different until the next packets are written.
* UI gate: a relock sets `relocked` only, and `_design_package_path_decision`
  never looks at it, so an approved package still opens the gate, against
  `docs/superpowers/plans/2026-07-25-ui-design-control-plane.md:886` ("relock
  and switch to `design_package` deny immediately"). `unlocked`: `approve_project_baseline` writes
  `relocked = false` to `config.json` (`ui_design_gate.py:1328`) before it
  records the approval, so with an older approval of the unchanged baseline the
  gate is open in between, and stays open when the call breaks off there.
  `overlapped`: refreshes that overlap may publish the older context. A failed
  smoke test is written to `config.json` and raises before any refresh
  (`ui_design_gate.py:688`), so the published context shows the old result. A
  verdict records the digest its package had before the lock was taken
  (`ui_design_gate.py:787`); no reader looks at it.
* Skills (`torn`, `meddled`, `RegistryStays`): a crash between the targets
  leaves one replaced, and later commands refuse with `TargetDigestConflict`
  until somebody repairs it; the dead lock file and the draft in "publishing"
  stay too; a recovery deletes what was edited while the transaction had the
  directory in hand; a retry of a publication that succeeded conflicts with its
  own key; a rollback may install a version whose draft was rejected since; two
  failures may leave the registry with a deployment whose directories were put
  back.
* Worktrees (`raced`, `moved`, `orphans`): two starts at once lose one entry of
  `tasks.json`, which is read and rewritten without a lock
  (`worktree_flow.py:291`), against the module's docstring ("Safe
  multi-conversation worktree and release workflow"); all savers share one
  temporary file; `release` merges by branch name, so a commit made after its
  check gets into main unaccepted (`worktree_flow.py:447`); a cleanup whose
  `branch -d` is refused after the worktree is gone leaves the task stuck;
  `sync-canonical` takes no lock, though `docs/worktree_loop_workflow.md` says
  that it is serialized; a deployment without a commit command compares nothing.
* Projects (`blurred`, `created`): a document edited between the read and the
  replacement of the archive loses that edit; a failure after a replacement
  took effect is not restored; a restoration puts documents back before
  their scripts; `upgrade_memory_hooks` writes an old document over a concurrent
  migration, and creates missing documents with legacy entries; an
  initialisation may bring an unregistered project back.
* Installation (`torn`): five effects are neither noted nor undone nor reported
  when their step fails right after them. An update whose service does not run
  and that fails between the exchange of the link and the note of it
  (`vibe_memory_install.py:2590` to `2613`) skips the link in its cleanup
  (`3264`) and deletes the release it leads to (`3281`): `current` dangles. An
  uninstall that fails in the sync after the removal of `current` (`4106`) does
  not restore it, and one that fails right after stopping the service does not
  start it again. An install whose release is published but not noted leaves it,
  and one whose pending action is written but not noted leaves that. The
  switch of a rollback, the release of an update, a file that uninstall
  unlinked, and the file a first run wrote are not undone either, but reported.
* Installation (`disturbed`, `relinked`, `conflicted`): an update that fails
  before it switched leaves the running service stopped; the roll-back of a
  repair or update puts back the hook snapshot and leaves an edit merged in
  between in a backup only; install, hooks repair and first run compare and then
  replace, or note the file late, so they may drop an edit; an update to
  the installed version records it as the previous one too.

## Proofs

For all constants that satisfy the assumptions of the module (types of the
parameters, distinct names, well-formed calls). The names of runs' properties
are the ones of `PROJECT.json`.

| Module | Theorem | Says | Further assumption |
|---|---|---|---|
| `MemoryReviewProofs` | `TypeCorrect` | `[]TypeOK` | |
| | `LocksHeld` | `[]LocksMatchPosition` | |
| | `NoDeadlyEmbrace` | `[]NoCircularWait` | |
| | `DecisionsAreFinal` | `DecisionFinal` | every project has its state file at the start |
| | `ProposalsAreKept` | `ProposalsGrow` | |
| | `QueuesSettle` | `[]QueueSettled` | every project has its state file at the start |
| `MemoryReviewDocumentProofs` | `ApprovedStaysOfficial` | `[]ApprovedIsOfficial` | no unlocked editor or retention runs |
| | `OneSectionPerText` | `[]NoDuplicateOfficial` | the same, and no approval into short memory |
| | `OnlyApprovedIsOfficial` | `[]OfficialIsApproved` | every project has its state file at the start |
| `HookEventsProofs` | `TypeCorrect` | `[]TypeOK` | |
| | `HandlersAreAlone` | `[]HandledAlone` | |
| | `ReservationsAreReleased` | `[]ReservationReleased` | |
| | `PacketsAreAlike` | `[]PacketsAgree` | |
| | `ImplementsWindow` | `CompletedOnce`: the store implements `EventWindow` | |
| `UIGateProofs` | `LockIsHeld` | `[]LockInv` | |
| | `TypeCorrect` | `[]TypeOK` | |
| | `KeysTakeEffectOnce` | `EffectOnce` | |
| | `OthersAreKept` | `RecordsKept` | |
| | `AllowedUnderApproval` | `[]AllowedIsApproved` | |
| | `ContextShowsFiles` | `[]ContextCurrent` | |
| `SkillPublishProofs` | `TypeCorrect` | `[]TypeOK`, with the exact locks | |
| | `PublishingIsHeld` | `[]PublishingHeld` | |
| | `NothingIsLost` | `[]NothingLost` | |
| | `BothAreSettled` | `[]Settled` | |
| | `EditsAreKept` | `EditsKept` | |
| `WorktreeFlowProofs` | `CommandsInPlace` | `[]FlowInv` | |
| | `TypeCorrect` | `[]TypeOK` | |
| | `MainIsAccepted` | `[]AcceptedOnly` | |
| | `NothingIsTakenBack` | `[][Grows]_vars` | |
| | `RegistryIsTrue` | `[]RegistryTrue` | |
| `ProjectsProofs` | `TypeCorrect` | `[]TypeOK`, with the registered current project and the exact locks | |
| | `RegistrationsAreKept` | `RegistrationsKept` | |
| | `ReleasedAreClean` | `[]ReleasedClean` | |
| | `EntriesAreServed` | `[]EntriesHaveScript` | |
| | `FailuresAreRestored` | `FailureRestores` | |
| `InstallProofs` | `TypeCorrect` | `[]TypeOK` | |
| | `LinksInstalled` | `[]CurrentInstalled` | |
| | `SuccessIsWhole` | `[]SuccessAgrees` | |
| | `FailureIsUndone` | `[]FailureRestores` | |
| | `CopiesKept` | `EditsKept` | |
| | `StopIsAsked` | `BootoutAsked` | |

A further assumption is a finding: without a state file at the start a hook
overwrites a decision that it has not seen.

The arguments, per module: an inductive invariant, one step per action.

`MemoryReview`. `TypeOK` alone is not inductive: whether an assignment keeps its
type depends on the call a position executes, so the type invariant is joined
with `CallMatchesPosition`. With it, `LocksMatchPosition` is inductive: each
action moves one process across at most one lock boundary. `NoCircularWait`
follows from it without a further induction: whoever holds the target lock
waits for nothing, whoever waits for a target lock holds a state lock, and so on
up the order queue, state, target. `DecisionsAreFinal` adds that what a call has
read of the state file is still the file while it holds the lock
(`SnapshotCurrent`), so writing the file back changes one candidate only;
`ProposalsAreKept` says the same of the proposals documents (`DraftCurrent`).
`QueuesSettle` joins both with what a build has prepared from the state it read
(`Prepared`, `QueueCurrent`): whoever changes a decision either rebuilds the
queue afterwards or is remembered as cut short, and two builds cannot pass each
other because the queue lock covers the read and the write.

For the documents, `TextCurrent` says what an approval inside the target lock
knows of the document, and `ApprovalsKept` that every approval which is recorded,
*or which some call is about to write back*, is in the document as it is *and in
the text an approval may restore*: without the last part a roll-back could drop
another project's approval. `OneSectionPerText` adds `SingleCopies`: what
a call has read of a document holds no text twice either, and no approval aims
at short memory. `OnlyApprovedIsOfficial` goes the other way (`TextAccounted`), with resets,
failing writes, deaths and editors: each text of the document, of what a call is
about to write and of what a roll-back may restore is recorded by a decision or
in `left` (`Recorded`), or it is the text of the approval under way
(`Accounted`), which its roll-back takes out again or reports to have left.

`HookEvents`. `StoreInv` says of a reservation that its owner made it for its own
event (`OwnersKnown`), that it is in the file until its time is over while the
owner works (`ReservationKept`), and that what the holder of the store has read
differs from the file only in entries that no longer count (`SnapshotRead`).
The refinement of `EventWindow` maps `Commit` to a completion, the clock and
the expiry to the passing of the window, everything else to a stutter; that an
event completes once is `SnapshotRead` at the reservation and
`ReservationKept` until the commit. `PacketsInv` follows the transaction of the
two packets operation by operation, with the journal as what a later handler
restores from.

`UIGate`. `LockInv` says what a mutation under the lock knows of the files
(`CallKnown`): its key is unanswered, and its draft differs from the approvals
in nothing but its own task. `KeysTakeEffectOnce` and `OthersAreKept` read that
off. For `AllowedUnderApproval` the decision takes no lock, so `DecisionKnown`
keeps what each of its reads was worth when it was made: an approval that was
given and not closed before the decision began. `ContextInv` is about the
refreshes, which run after the lock is free: as long as none overlapped another
change there is at most one, and it shows the files.

`SkillPublish`. `LockInv` (`Typed`, `Intents`, `LocksHeld`, `PublishingHeld`)
is inductive as a whole: a draft stays in "publishing" because only the holder
of `deployments.lock` moves it out. `KeptInv` follows each target through a
transaction: an agent it has not touched has nothing in hand; before the record
what is owed lies in the backup, after it in the target, and only then may the
backup be deleted. `NothingLost` alone does not say which, so a deletion could
not be shown to be safe. `SettledInv` is sharper where no death, failed
restoration or edit under way came between (`Sure`, `Lies`): what a transaction
has in hand has *exactly* what is owed as its backup, what it found was due, and
both remain true when a failing audit takes the record back. The step that needs
all of it is `Record`: an agent a disabling did not touch had no directory, so
that is also what the registry had recorded for it.

`WorktreeFlow`. `FlowInv` places each command (`InPlace`) with what it needs
there, so that the two locks are exact. `AcceptedInv` follows the commit a
release carries from the registry it read to the merge by name (`CommitKnown`):
the branch is still the commit that was checked, or somebody moved it.
`Ordered` makes every push and every fast-forward go ahead, since what a command
has read of the tracking ref is never ahead of it. `TruthInv` says of each
command what it knows of its own entry, as long as no save has overwritten
another: the registry is read and saved under no lock, and that is where it stops
being true.

`Projects`. `LockInv` (types, `CallsTyped`, `LocksHeld`, `RegistryOwned`) says
who holds which lock where; `RegistrationsAreKept` needs it because a failing
unregistration writes back the registry it found, which is harmless only while
the lock is its own. `DocsInv` (`FilesTyped`, `CleanInv`) says
of a project under its lock that the documents a migration has looked at are
clean already, and that the snapshot of a project which was released before is
clean too: a later migration that fails puts its snapshot back, so cleanness
must hold of what may be restored, not only of what is on the disk.
`ScriptsInv` adds, for each place of a migration and of its restoration, which
documents may still refer to a script that has moved (`Served`), what the
migration remembers of the scripts (`ScriptKnown`), and what is back in place
(`PutBack`, `RestoreReady`): documents go first on the way in and scripts first
on the way out.

`Install`. A command is a list of steps, so the invariant says what holds once a
step is *past*, and `Base` that the steps left are an end of the command's list
or of its cleanup's (`OnTrack`), with the hook writer at a place that fits the
first of them (`Writing`). Upon that there is one invariant per part of the disk:
`FilesInv`, `CurrentInv`, `ReleasesInv`, `HooksInv`, `ServiceInv`, `ActionInv`,
`EditInv`. A step is at the head of the list and changes one part; for the others
it only has to be shown that they follow the list (`FilesFrame`, ...), which
either loses its head, or is replaced by the whole cleanup (`TurnItems`).
`IInv` is their conjunction. `LinksInstalled` joins link, state and releases
(`InstalledInv`): an update adds its release before it switches and removes it
after it has switched back, and an uninstall moves releases away only when link
and state are gone. What a step that failed has changed without noting it makes
a part unknown (`Unknown`, `Untold`) until the cleanup finds it by looking
(`PutBack`, `Owned`), reports it, or cannot know of it (`torn`): of a rollback
`CurrentInv` keeps that its cleanup will report the link it finds. `SuccessIsWhole` and `FailureIsUndone` read off the parts when
the list is empty, hence everything past; the service needs the order of the
steps as well, since a cleanup stops it before it starts it (`StopsFirst`), and
leaves it alone when it had not touched it yet (`Found`). `CopiesKept` needs that
what a cleanup claims is what was committed, whose source is kept by then, or
what was found (`EditInv`). `StopIsAsked` needs that a command which ended well
has written a newer generation than the scheduled one (`ActionInv`). TLC has
found no state of the run's instance outside `IInv`.

Only model-checked: `CallsReturn` and `HandlersFinish`, because liveness under
fairness is beyond the prover. Every invariant and every other action property
of the passing runs is stated by a theorem.

## Plan

1. `ReviewConsole`: `update_active_memory` with positional ids and the
   truncating write, `switch_project` reloading the review module under
   running requests; composed with the locks of MemoryReview.
2. Abstract `ApprovalLedger` (a decision and its text appear together), which
   `MemoryReview` implements, and an abstract publication (both targets change
   or none) for `SkillPublish`.
3. Proofs: that `MemoryReview` implements the ledger of 2, step by step. No
   module that is proved about declares a RECURSIVE operator.

## Not modelled

* Argument parsing, preferences, skill discovery and downloads, the import of
  drafts, event and path normalisation, release scans: pure functions or plain
  input and output.
* `_sync_active_skill`, which notes the active skill in the preferences after
  the locks are free.
* The choice of a port by `init_project` (two at once may choose the same), the
  texts that initialisation and `upgrade-rules` add, and `validate_control_plane`.
* `switch_project` of the console, which reloads the globals of the review
  module under running requests (planned).
* The restart of the console by its own first run: the bootout of the service
  there is the bootout of the process that asked for it.

The components in `PROJECT.json` name what is left out of each part.

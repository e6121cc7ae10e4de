# A TLA+ verification of chatgpt-linux

chatgpt-linux turns OpenAI's macOS ChatGPT application into a Linux package
and keeps it up to date.  Most of its own logic that has *state* is in the
local updater (`updater/`, Rust), the launcher and its state migration
(`launcher/`, shell and Python) and a small file broker
(`generated-app-mutation-broker/`, Rust).  The rest is text rewriting
(patches), packaging scripts, desktop helpers and documentation.

This directory holds TLA+ modules of that logic, TLC configurations that check
them, and TLAPS proofs.  Modelled are

- the updater's update flow,
- the installation and the repair of the Codex CLI by npm,
- the migration of state from the former identity,
- the patch command: one run over an extracted app, the session with the broker
  that writes its files, and ninety-eight of its text patches,
- the watching of a working tree, a port integration: the budget of watches that
  all trees share, and one tree in detail,
- the Agent Workspaces page, another port integration, with its bridge.

## Components

### Updater (`updater/src`)

One binary, `chatgpt-updater`, run as a systemd user daemon and as commands.
Its processes share a state document, a cache of workspaces, and the package
manager.

| part | state | operations | who it meets |
|---|---|---|---|
| state document, `state.rs` | `state.json`: `PersistedState` with the updater fields, the CLI fields and the wrapper fields; `state.lock` held during one merge | load; `save_updater`, `save_cli`, `save_cli_if_unchanged`, each merging its own half | every process |
| check cycle and daemon, `app.rs`, `dmg_source.rs` | `check.lock`; the document in memory; status, candidate, DMG digest, header fingerprint | startup maintenance, check, check-now, reconcile, install-ready | document, build, install, network |
| trust, `trust.rs`, `package_verification.rs` | the trusted manifest; the verification recorded for a DMG and for a package | verify a DMG; bind a package to its record | check cycle, install, rollback |
| local build, `builder.rs` | `workspaces/<version>`; the build statuses | prepare, patch, package, record, compare versions | check cycle |
| privileged install, `install.rs`, `package_version.rs` | the root-owned copy of the package | copy, verify, compare versions, run the package manager | polkit, package manager |
| rollback, `rollback.rs`, `install_rollback.rs` | retained package, known-good version, the block on what was rolled back | retain, roll back, block, lift the block | document without `check.lock` |
| cleanup, `cache_cleanup.rs` | workspaces, DMG cache with its lease, generated artifacts | prune what the document does not name | document, build |
| status, `app.rs` | none of its own | the recovery steps, without `check.lock` | document |
| wrapper update, `wrapper*.rs`, `changelog.rs` | wrapper fields, a clone of the wrapper's repository | detect, apply | document, build, install |
| Codex CLI, `codex_cli.rs`, `npm_cli_repair.rs` | CLI fields, repair journal, npm install lock | detect, install, quarantine, repair, recover | npm, document |

What is hard here.  Processes load the whole document, work on a copy, and
write the copy back; only the flows that check, reconcile and install hold
`check.lock`, `status` and `rollback` do not.  Each flow has many writes
between which it may be killed, and what it left has to be recognised later
from the document alone.  The privileged install runs in another process,
which may outlive the one that asked for it.  The remote file may change
between the HEAD request and the download.

What makes it correct.  Only packages built from a DMG of the trusted manifest
are installed.  No trusted DMG is skipped: an attempt that failed or was cut
short is repeated.  The package of a pending update stays in place.  What a
user declined or rolled back does not come back by itself.  The package
retained for rollback is one that was installed, and is recorded under its
version.  No transient status is the last word.

### The other programs

| component | state and operations | hard | would be correct if |
|---|---|---|---|
| state migration, `launcher/state-migration.py` | journal, source and destination trees; run, reverse, resume | interruption between a rename and its journal entry; programs that write while it runs; two runs at once | nothing is lost, nothing is moved twice, what was begun is named by the journal and finished, a running program keeps its lock |
| mutation broker and its client, `generated-app-mutation-broker/src/lib.rs`, `scripts/patches/lib/generated-app-mutation-client.js` | target file, staged file, tokens of what was read; two pipes without request numbers; a queue of calls | another writer between the check and the exchange; a broker that dies, hangs or sends what nobody asked for | a replacement takes the place only of what was read, or what it displaced is kept; an answer goes to its own call; a clean close means that all was done |
| patch run, `scripts/patches/engine.js`, `runner.js` | the report; the main bundle in memory, the other files on disk; four phases of descriptors | drifted text; a descriptor that warns or throws half way; a session that fails | what is accepted is patched, what is reported is true |
| text patches, `scripts/patches/impl/`, `port-integrations/*/patch.js` | none but the text | texts with any mixture of old, new and missing pieces | a patch that says nothing has rewritten all; no call without its helper; a second application changes nothing |
| working tree watch, `port-integrations/directory-only-working-tree-watch` | shared: counts, reservations, listeners; per tree: watches, pending events, four timers, a queue of work | events between two awaits; inode numbers used again; capacity that moves between trees | the counts are exact, nothing idles that is wanted, every directory is watched, all comes to rest |
| Agent Workspaces, `port-integrations/agent-workspace` | state keys and legacy keys; profiles, workspaces and requests; the page's card | answers in any order; profiles saved meanwhile; four writes of which each may not stick | what is started was approved as it is; nothing runs without the configured permissions |
| launcher, `launcher/start.sh.template` | launcher lock, `app.pid`, web view pid file and port; warm and cold start, adopt, stop or start the web view server, cleanup | two launches at once; pid files of dead or foreign processes | one Electron per instance; no launch removes another's marker or kills its server (not modelled) |
| other port integrations | patches of the generated app; an MCP helper reaper; a shared app server socket | mostly sequential | not modelled |
| install and packaging scripts, Nix, CI | none that persists between runs | sequential | not modelled |
| upstream watchdog, `scripts/automation` | maintainers' automation | sequential | not modelled |
| computer use, dictation, read aloud, notification actions | D-Bus and input devices | timing of desktops | not modelled |

`PROJECT.json` lists every component with its status, and every hazard found in
the code at its line, with the property that would catch it.

## Modules

| module | what it is |
|---|---|
| `UpdaterState` | the updater half of `PersistedState` as a record, the predicates the flows decide by, and the edits they make, as pure operators |
| `UpdateFlow` | the processes that load, edit and write back the document; builds, installs, rollbacks, crashes, the world around |
| `UpdateHistory` | `UpdateFlow` with history variables, and the properties that need them |
| `UpdateProofs`, `HistoryProofs` | TLAPS proofs about `UpdateFlow` and `UpdateHistory` |
| `CliRepair` | preflights, npm installation and repair of the Codex CLI, npm and its supervisor |
| `CliProofs` | TLAPS proofs about `CliRepair` |
| `MCUpdate`, `MCHistory` | values of the constants, and a later starting state, for TLC (`CliRepair` needs none: its `.cfg` has all values) |
| `StateTrees` | what a migration promises about the trees, with a theorem about the promise itself |
| `StateMigration` | `run_migration` in both directions, the programs whose trees it moves, the user; `Promise` is `StateTrees` under the refinement mapping `located <- Located` |
| `MigrationHistory` | `StateMigration` with a history variable, and the properties that need it |
| `MigrationProofs` | TLAPS proofs about `StateMigration` and `MigrationHistory` |
| `MCMigration` | which program writes in which tree, for TLC |
| `FileExchange` | what the broker promises about the files, next to another writer |
| `MutationSession` | client, pipes and broker of one session; `Exchanged` is `FileExchange` under the mapping `kept <- Kept` |
| `SessionProofs` | TLAPS proofs about `MutationSession` |
| `PatchRun`, `MCPatchRun` | one run of the patch command over a session that may fail; its descriptors, for TLC |
| `PatchRunProofs` | TLAPS proofs about `PatchRun` |
| `PatchText` | what a text patch works on, and the ways of rewriting that patches share |
| `WebviewPatches`, `SettingsPatches`, `IntegrationPatches`, `ComputerUsePatches`, `MainPatches`, `ShellPatches` | ninety-eight patches as operators from a text to an outcome |
| `TextPatching`, `MCTexts` | a patch applied twice to any text; the places of each patch and the forms they may have |
| `WatchBudget` | the shared budget of watches, several trees of one level |
| `WorkingTreeWatch`, `MCTree` | one tree while directories and `.git` are made, removed and replaced; its shape, for TLC |
| `AgentWorkspaces`, `MCPages` | page and bridge; the keys and clicks to start from, for TLC |
| `PageProofs` | TLAPS proofs about `AgentWorkspaces` |

### State of the update flow

| variable | code |
|---|---|
| `disk` | `state.json` |
| `mem[p]` | the `PersistedState` process `p` works on (`p` is the holder of `check.lock`, `status` or `rollback`) |
| `pc[p]`, `kind` | where the process is; the flow it runs: maintenance, check, check-now, reconcile, install-ready |
| `retry` | `retrying_update` of the running check |
| `previous` | `previous_status` of the running rollback |
| `files[w]` | the package in workspace `w`: its DMG, version, build, and place; the build number stands for the SHA-256 digest |
| `sys` | the installed package, what the package manager and the build information of the installed app report |
| `upstream` | the DMG the official URL serves |
| `app` | whether ChatGPT runs (`liveness.rs`) |
| `orphans` | privileged installs whose parent died |
| `builds`, `commands`, `crashes` | counters for bounds |

DMGs and versions are numbers; the three ways a DMG gets a version (the
manifest, the timestamp version of `derive_candidate_version`, the version in
`Info.plist`) are three constant functions, so that they may disagree.
`FourPart` are the versions with four segments, the only ones a rollback block
compares.  Every version parses: candidates, and with them what a rollback blocks,
have the manifest's version, and `valid_dmg_version` admits no other; the case for
versions that do not parse (`rollback_version_satisfies_candidate`) is out of reach.  A workspace is named after the version it builds.

### Steps of the update flow

An action is the code from one write of the document, or one effect others can
see, to the next.  A path through a flow is a sequence of points:

    check      sync -> gate -> head -> download -> match -> wipe -> prepare ->
               patch -> package -> finish -> checkversion -> prune -> idle
    check-now  sync -> recover -> current -> normalize -> gate -> ... -> prune
               -> resync -> (as reconcile)
    reconcile  sync -> resync -> pending -> offer -> authorize -> installed |
               denied | refused -> idle
    install-ready  sync -> recover -> current -> pending -> offer -> ...
    maintenance    sync -> recover -> current -> normalize -> prune
    status     sync -> current -> pending -> recover -> normalize
    rollback   sync -> decide -> authorize -> installed | denied | refused

`PROJECT.json` maps every definition to the lines it stands for.  What the
translation merges or leaves out:

- Saves that follow each other with nothing in between but a call that cannot
  fail visibly are one step; so are a settled document and the pruning after it,
  the creation of the package file and the save that records it, and, in
  `Resync`, the reading of the installed version and the recovery.
- Saving notification events and the notifications themselves, the CLI fields and the
  wrapper fields are left out.  The flow's CLI and wrapper steps do not change
  the fields modelled here.
- `StepFails` at the match stands for an error of `persist`, and during the
  download and the build for every way those can fail.
- The trusted manifest is constant during a behaviour, although it is part of
  the installed builder bundle.
- A user's own package (`ManualPackage`) claims build 0.  A user may also
  install a package out of a workspace, or remove the package.
- `Detached`: systemd stops the daemon's `pkexec` child with the daemon; the
  child of a command goes on.  The runs cover both.

`UpdateHistory` adds what was concluded, dismissed, rolled back and installed, and
`mishaps`: which events have happened that the code does not keep out, or that somebody
else causes.

| event | what happened |
|---|---|
| `overlap` | two processes were at work at once: `status` and `rollback` take no `check.lock` |
| `rollback` | a rollback began |
| `cut` | a process died while a rollback was at work |
| `hand` | the user installed or removed a package |
| `detached` | a privileged install outlived its parent |
| `older` | the URL served an older DMG again |

A property that such an event breaks is claimed until the event happens, and names it.
It is a claim about every behaviour, the ones in which the event may come at any
time included; what happens after the event is in the findings.  `OnlyTrustedInstalled` and
`TrustChain` are claimed after all of them.

### The npm CLI

Launcher and daemon run the same preflights, and `repair-cli` is a command of the
user; each process of `Updater` runs one of them at a time.

| variable | code |
|---|---|
| `active`, `stale`, `quarantined` | `@openai/codex` below the managed prefix, the directory npm moved the old package to, the names below `.chatgpt-linux-quarantine` |
| `journal` | `cli-repair.json`: stage, names, the name planned |
| `doc`, `behind` | the CLI half of `state.json`; the processes whose `routine_baseline` is no longer what it says |
| `lock` | who holds the open file of `cli-install.lock`: an updater, for itself or through its supervisor |
| `pc`, `kind`, `mem`, `target` | a command: where it is, what it is, its copy of the document, the version it installs |
| `sup`, `npm` | its supervisor (`run_npm_supervisor`) and npm |
| `doubt`, `settled` | history: an installation was cut short or its result not seen; the quarantines that were reported |

`Start`, `Probe`, `Ask` and the persists between them are
`preflight_with_version_timeout`: each persist takes the lock for itself, writes
only what is still current, and ends the preflight when it is not (`Persist`).
`Install` to `NpmEnded` are `install_latest_cli`, `InstallMissing` and `Lookup`
what precedes it for a missing CLI, `Repair` to `Clear` the command `repair-cli`.
A journal is written by the routine installation that finds a directory npm could
not move (`Detected`), and is removed by the repair alone.  `PlanQuarantine`, `Move` and
`Reconcile` are three steps because a crash may come between any two.

npm is a program of others: it moves the package aside (`Retire`), puts the new one in its
place (`Unpack`), removes the old one (`RemoveOld`), and moves it back when it fails
(`RollBack`).  `Crash` kills an updater; its supervisor goes on until it looks for its
parent (`Abandoned`), and keeps the lock until then.  `CrashSupervisor` kills a
supervisor, and npm with it.

Left out: the repair of a missing optional dependency, CLIs installed otherwise
(standalone, Homebrew, pacman), the resolution of paths, the checks of owners and
modes, which are one refusal (`QuarantineFails`), and errors of the writes themselves.
That the kernel kills npm with its supervisor is taken as one step, and npm has
no children of its own.

### State and steps of the migration

An *operation* is a pair of names, legacy and canonical, of one directory or
file.  What is under a name is a *tree*, a number that it keeps when it is moved.

| variable | code |
|---|---|
| `tree[side][op]` | what is under the legacy or canonical name of an operation |
| `aside`, `born`, `created` | trees the user moved away, trees that ever existed, trees created so far |
| `names[id]` | the identity in the paths written inside a tree (`rewrite_known_paths`) |
| `marks[id]` | who left volatile entries in a tree: `check.lock`, `app.pid`, sockets, temporary files |
| `runtime` | the identities with a directory in `XDG_RUNTIME_DIR` |
| `journal` | `.chatgpt-state-migration.json`: direction and statuses, or none |
| `memory[r]`, `at[r]`, `pc[r]` | the journal a run works on, its operation, where it is |
| `running` | the app and the updater's daemon |
| `due` | history: what the recorded migration has to move |

A run is that of the launcher, of the service (`ExecStartPre`), or of
`chatgpt migrate-state --reverse`:

    Start -> Preflight -> Record -> (PassComplete | PassSkipped |
      BeginMoving -> Look -> Move -> Tidy -> Rewrite -> Complete)* ->
      DiscardRuntime -> Unlink -> ready -> Prepare -> Launch

`Start` takes the journal it finds, `Look` takes a source that is gone for
moved, `Move` fails when the name was taken meanwhile, any error is `End`, and
`Interrupt` cuts a run anywhere.  `Work` and `FormerWorks` are programs that
write in their trees, and create them where they do not find them; `MoveAside`
is the recovery command printed for a collision.

- `Preflight` is one step, and so is a walk over one tree (discarding or
  rewriting); the new prefix of cached DMG files is part of `Tidy`.
- Refusals of symlinks, of other kinds of files, of another file system, of
  a malformed journal and of colliding configuration keys end a run like any
  error, and are not told apart from `Interrupt`.
- `Serial` and `Careful` only bound what TLC visits in the run: no overlap, and
  no reversal or recovery command with a program open, as
  `docs/usage/troubleshooting.md` asks.

`MigrationHistory` adds `mishaps`, as above: `overlap` (two runs were under way, which no lock
keeps out) and `careless` (the user reversed, or set a tree aside, with a program
open).  `Resumable`, `AllMoved` and `RunningUntouched` are claimed until they happen,
`NothingLost` and `KeepsPromise` for ever.

### The mutation session

`Digest`, `Spawn` and `Opened` open a session: the executable is hashed, started
and hashed again.  Callers put calls into `queue` (`List`, `Read`, `Replace`;
`Misuse` is a call that cannot be encoded, which ends the session at once).
`Turn` refuses the next call or sends its request, one at a time, in one turn of
the client's loop; a request sent when the answers can be read no more fails after
it was sent.  `Receive(k)` is a chunk of the output stream with k frames,
`StreamEnds` its end, perhaps within a frame, `Malformed` a frame of no legal
length from a broker that works; both `Fail` the call that waits.  The broker reads
a request and answers or refuses it (`Serve`), writes the staged file (`Stage`),
exchanges it with the target (`Exchange`, `ExchangeFails`) and validates what it
displaced (`Validate`).  Each of these may be refused, a refusal ends the broker,
and it may leave the staged file behind.  A broker may fall silent (`Hang`) while a
request waits for it.  `Close` waits for the queue (`Drained`), ends
the input, waits for the exit (`Reaped`), and kills after the timeout
(`TimedOut`).

A version of a file is a number and the number of the version its author had
read.  A call has a number which only the properties use: the protocol has none.
The checks of paths, sizes and file types are one refusal by the broker, which the
model allows whatever the files are.

### The patch run

A patch meets its text (`here`), a text that has drifted, or nothing (`site`);
`whole` and `half` say which edits are in a file.  `Integrity`, `FindBundle`,
`PatchMain`, `ReplaceMain`, `PatchExtracted`, `PatchWeb`, `Replace` and `CloseAndExit` follow
`runner.js` and `engine.js`: patches of the main bundle work on a draft that is
written once, patches of the extracted app write for themselves, patches of the
web view write one file after the other.  `failed` is the session of
`MutationSession` having ended with an error; it may at every call.

### The text patches

A bundle is a function from the *places* a patch looks at to forms: `none`,
`old` (what upstream ships and the patch knows), `odd` (there, in a shape the
patch does not know), `new` (what the patch writes).  A patch is an operator
that returns a text, whether it warned, and whether it threw.  `PatchText` has the
patterns most patches follow: `Single`, `Together`, `Sweep`, `Must`, and so on.
`MCTexts` has a row for every patch: its seams, the helpers it adds, what it
only reads, and which sets of seams make one shape of the bundle.  `quiet`
patches (`AppServerBackfillWait`, `PersistentRateLimitFooter`,
`SkillsListDedupe`, `LinuxShortcutPhysicalKeyFallback`, `ApplicationMenu`) are
applied to bundles of any kind and by intention say nothing of one in which they know no seam.
`LooseSeams` names the seams that a patch leaves in an unknown form without a word when it
has rewritten another one: twenty-two patches ask only whether they rewrote anything, or
call a step that reports nothing.  `asset` says whether the assets hold an icon for the window.

Every combination of forms is tried, which includes bundles upstream never
shipped.  What the inserted JavaScript does is not modelled.

### The budget of watches

`budget` is the record on `globalThis`, `trees[o]` what each
`startDirectoryOnlyWorkingTreeWatch` keeps.  `Open`, `Listen`, `Dispose`;
`Rename` and `Unnamed` are events, `Broken` a watch that fails after it was
made; `SyncTick`, `RefreshTick` and `ResourceTick` are timers; `NextStart`,
`List`, `Visit`, `Take`, `AddRootWatch`, `Replay`, `Prune`, `EndScan`, `Finish`
and `Settle` are one piece of work from one await to the next; `Pass` is the
coordinator's microtask.  A step changes the shared record and a tree together,
by operators named after the functions of the code.

### One working tree

`disk` holds directories with object and inode numbers, the ignored ones, and
those that cannot be read; `kernel` the events that have not been delivered.
`s` is what the session keeps.  `Program` are the steps from one await to the
next, of the six kinds of work (initial, sync, refresh, root, git, resource);
`Others` is another program that deletes and replaces directories, also with
the inode number of the one before, and an environment in which git does not
answer, watches fail and directories cannot be read.  While the root cannot be read
git fails and `.git` cannot be seen (`GitSeen`), which the code takes for the answer
that there is none; `s.blind` keeps, for the properties only, which of git's last
answers were of that kind.

The budget and the tree are not composed: in `WorkingTreeWatch` the budget is
never spent, in `WatchBudget` trees have one level and are listed truthfully.

### The Agent Workspaces page

| variable | code |
|---|---|
| `keys` | the keys of the program's path and of the permission file in the global state, and their legacy names |
| `store`, `spaces` | the profiles and workspaces of `agent-workspace-linux`, which is external |
| `calls` | the requests in flight, with what the program was run with and what it answered |
| `page` | what the React component remembers: lists, form, fields, `pending` (the card), `active` (`activeAction`) |
| `wanted`, `approved`, `starts` | history: the file configured last, the cards approved, what was started |

A user action sends a request (`Ask`), which passes the bridge's migration at
once: any number of its four writes may have been made when one does not stick.
`Backend` answers it, `Answer` is the continuation in the page, which may send the next one.
Answers come in any order; a request that was carried out may be answered as failed.
The three calls of one refresh are one, apart from the first that clears
`activeAction` (`PartAnswered`).  `Exits`, `EditFile` and `EditElsewhere` are
other programs.

The page sets keys by itself too (`Set`).  Nobody looks whether that stuck: the value may be lost
and the answer be a success, so `wanted` is the file last configured
that the state took.  A key may hold a value that is blank or no string (`Bad`); the
migration then ends with an error (`Rejected`).

The card shows what the preview lists as missing or, if nothing is, as required
(`Shown`, patch.js:698); what is sent is all that any of four lists names (`Acks`,
patch.js:705).  The two agree because a preview is made without acknowledgements, so that
what it lists as required it lists as missing too, if it lists what is missing.
That is an assumption about `agent-workspace-linux` (`Bundle`; the constant `Fills` says which lists
it fills).  From a program which names the policy as required and only something else
as missing, the page would send an acknowledgement that the card did not show.

### Bounds

`MaxBuilds`, `MaxCommands` and `MaxCrashes` bound packages, commands and
crashes of one behaviour; `Dmgs` and `Versions` the domains.  Three DMGs are
needed for a package to be retained, replaced and rolled back; in the run about
races the third has the version of the second, and a fourth is untrusted.  One or two commands are enough for every
two-process race: a race of three has to pass through a stale document, which
two already produce.  In that run the official DMG is replaced once; twice was
checked too.  One crash is enough to cut every flow at every point.  Two crashes, which
also cut a recovery, were checked too.  Where the run starts after two updates
(`InitRetained`), the state is one that the flow reaches by itself.

The npm CLI has two updaters, three commands, two crashes and two versions: an
installation that is cut short leaves a directory, the next finds it, a repair is
due, and while it runs the other updater's preflight persists what it saw before.
Two crashes cut a repair and the repair after it.  Four commands with one crash, and three
versions, were checked as well.  The proofs of `CliProofs` have none of these bounds.

`Ops`, `MaxCreated` and `MaxKills` bound a migration.  Three operations are
one of every kind: a state directory, the updater's cache, a single file; the
loop treats each by itself, and three make a first, a middle and a last one.
One created tree is enough for a collision before the journal, a collision
between check and rename, and a source that reappears behind a resumed run; one interruption is enough to cut a
run at each point and resume it, since a resumed run that is cut again leaves no
more than the first one did.  The safety properties were also checked with two
created trees.

A session has two callers on one file, four calls, one write of the other
program and one fault: a call that is answered wrongly needs a second that waits,
and an exchange that displaces the wrong version needs one foreign write between
read and exchange.  A second fault comes too late: the first one ends the session
or leaves a frame too many, and it is the later calls that show it.  The proofs of
`SessionProofs` have none of these bounds.

The patch run has one descriptor of each kind the code treats differently:
required and optional, unique and not, lenient, one whose predicate throws,
in all four phases, with two files for one of them.

The budget has two trees of a root and one directory each, which want four
watches of three; one change and one failure.  Two trees are what reservations,
revocation and passing over need.  The tree has one directory below the root and
two troubles; the limits of the code (`ScanRetries`, `RootAttempts`,
`MaxPending`, `Tries`) are one instead of two, 256 and three, so that they are
reached within the troubles there are.  `Repeats = FALSE`: git changes, and the
root is replaced, only where nothing else was changed before; `Repeats = TRUE` was checked
as well.  Chains of two directories (`Chain` in
`MCTree`), with one trouble, were checked as well.

The page has one profile, one permission file beside its own, three requests in
flight, and three clicks on profiles and workspaces, which are a start, its approval
and a second preview that overtakes; or every state of the keys with two clicks
on the settings.  Its previews fill all lists, or only the one of what is required.  The proofs of `PageProofs` have none of these bounds.

## Runs

| run | what it asks |
|---|---|
| `updates` (`MCUpdateSerial.cfg`) | every flow and `status`, one at a time, three DMGs, one of them with a bundle under another version than its manifest's, one crash: `NoSkippedUpdate`, `PendingPackageKept`, `NoReprompt` |
| `rollbacks` (`MCRollback.cfg`) | updates and rollbacks one at a time, no crash: `KnownGoodWasInstalled`, `KnownGoodIsThatVersion`, `RollbackHonoured` |
| `races` (`MCRaces.cfg`) | check, install-ready, `status`, `rollback` and manual installs step by step, one crash, privileged installs that survive their parent, a DMG published again under the same version, and an untrusted one: `OnlyTrustedInstalled`, `TrustChain` |
| `liveness` (`MCLiveness.cfg`) | the daemon's timers, checks asked for by the user, one rollback, one crash, under fairness: `InstallingEnds`, `ClosingInstalls`, `BuildEnds` |
| `migrations` (`MCMigration.cfg`) | migrations forward by the launcher and the service and back by the user, one at a time, cut anywhere once, with programs that create trees: `NothingLost`, `Resumable`, `AllMoved`, `KeepsPromise`, `RunningUntouched`, `MigrationEnds` |
| `session` (`MCSession.cfg`) | two callers, another writer, a broker that may die, hang, be replaced or send unasked: `AnswersMatch`, `CleanIsWhole`, `KeepsVersions` (the refinement of `FileExchange`), `SilentAfterError`, `CloseEnds` |
| `patching` (`MCPatchRun.cfg`) | six descriptors over an app whose texts are there, drifted or missing, and a session that may fail: `AcceptedIsPatched`, `ReportIsTrue`, `IntegrityRejects` |
| `budget` (`MCWatch.cfg`) | two trees that want more watches than there are: `BudgetKept`, `NoStrandedCapacity`, `ComesToRest` |
| `tree` (`MCTree.cfg`) | one tree that is changed and misread: `Covered`, `GitCovered`, `ComesToRest` |
| `texts` (`MCTexts.cfg`) | each patch on every text, twice: `Honest`, `HelperIn`, `Settled` |
| `pages` (`MCPages.cfg`) | clicks, answers in any order, other programs: `ApprovedStarts`, `UnderPermissions` |
| `cli` (`MCCli.cfg`) | preflights, installations and repairs of two updaters, an npm that leaves directories, fails or takes too long, crashes of updaters and supervisors: `OneInstall`, `Recoverable`, `DocumentTrue`, `ComesFree` |

All of them hold.  Deadlock is checked in the first seven: the daemon can always
start another flow, a launch another migration, and a session and a patch run
end in a state of their own.  It is not in the others, which really stop:
trees that are disposed or have ended, a patch that was applied twice, a page
whose clicks are spent, and updaters that have run their commands.

The properties:

- `OnlyTrustedInstalled` and `TrustChain`: whatever interleaves, a built package
  that is installed or asked for comes from a DMG of the trusted manifest, and
  an update has the version the manifest gives that DMG.  `TrustChain` is the
  reason: verifications are only ever recorded for trusted DMGs, and no document, however
  stale, holds anything else.
- `NoSkippedUpdate`: until any mishap, a trusted DMG is treated as unchanged only after it was
  built, found installed or found blocked.
- `PendingPackageKept`: until an `overlap` or a `rollback`, between flows, the package of a pending update is in
  place with its digest.
- `NoReprompt`: until an `overlap`, after a dismissed dialog, the daemon asks again only when
  ChatGPT has been opened in between.
- `KnownGoodWasInstalled`, `KnownGoodIsThatVersion`: until a mishap other than a `rollback`, what is retained for
  rollback was installed, and is the recorded version.
- `RollbackHonoured`: until a mishap other than a `rollback`, what a rollback removed is not built again until something
  else has been installed.
- `InstallingEnds`, `ClosingInstalls`, `BuildEnds`: an interrupted install, a
  wait for ChatGPT to exit and an interrupted build all end.
- `NothingLost`, `KeepsPromise`: a tree has one name or was set aside by the
  user; every step renames one whole tree to a free name or leaves places alone.
- `Resumable`: until an `overlap`, a tree that still bears volatile entries or paths of the other
  identity is `moving` in the journal, in that direction.
- `AllMoved`: until an `overlap`, a migration that removes its journal has moved what it recorded.
- `RunningUntouched`: until an `overlap` or a `careless` user, a program that runs keeps its lock, pid file and runtime
  directory.
- `MigrationEnds`: a journal does not stay for ever.
- `KeepsVersions`: a replacement takes the place of the version it was made
  from; or the version it displaced is kept, and nothing is replaced any more.
- `AnswersMatch`: a session that closed without an error gave every call its own
  answer, although answers have no numbers.
- `CleanIsWhole`: such a session has nothing half done, nothing staged, and ran
  the executable whose digest it reports.
- `SilentAfterError`: after its first error the client sends nothing.
- `CloseEnds`: `close()` ends however the broker fails, a broken or ended stream
  included, with the one exception that the code has: it waits for the calls before
  it, and a call is waited for without a bound, so a broker that says nothing while
  a request is open keeps it waiting for ever.
- `AcceptedIsPatched`: an app that passes the gate, or whose report passes the
  validation of CI, has every required edit wherever it is called for.
- `ReportIsTrue`: what a report says was applied is whole, what it says was
  skipped left no trace.
- `IntegrityRejects`: after a failure of the session nothing is written and the
  run ends badly.
- `BudgetKept`: the counts are what the trees hold and never exceed the budget; a
  disposed tree holds nothing of it.
- `NoStrandedCapacity`: when all is quiet no watch is free that a tree lacks.
- `Covered`, `GitCovered`: when nothing is due, the watches are on the
  directories that are there now, not on those that had their names; `GitCovered`
  excepts what findings 6 and 7 name.
- `ComesToRest` (of both): trees do not keep waking each other, retries do not
  wait for each other for ever.
- `Honest`: a patch that says nothing of a bundle that has all it is for has
  rewritten every seam of one shape of it; only the loose seams (finding 9) may be
  left, in a form the patch does not know, and not all of a shape.
- `HelperIn`: no rewritten piece is left without the helper it calls.
- `Settled`: a second application changes nothing.
- `ApprovedStarts`: what was started was approved, once, on a card that showed
  this request and the acknowledgement it needs.
- `UnderPermissions`: the program does not run without the configured permission
  file, wherever the migration of the keys stopped.
- `OneInstall`: while npm works, also for an updater that is gone, no other
  updater has npm at work, or installs, repairs or moves anything.
- `Recoverable`: whatever is cut short, a pending journal can be repaired, and each
  directory in the quarantine is named by it or was reported to the user.
- `DocumentTrue`: the version in the document is the installed one, unless an
  installation is under way, was cut short or not seen, or a repair is due.
- `ComesFree`: the lock is given back, however long npm takes and wherever an updater is
  killed; every command ends, unless a preflight waits for ever for `npm view`, which
  `read_latest_version` runs without a time limit; then it does not hold the lock.

The type invariants are no property of a run: those of the update flow, the migration,
the session, the patch run, the page and the npm CLI are proved.

Each property has a mutant of the code in `PROJECT.json` that breaks it under
the run's own configuration.

### Fairness

`run_daemon` (`app.rs` 761-819) has two timers, so a check and a reconciliation
are started again and again: strong fairness of those two starts, since the lock
may be taken by a command whenever one of them looks.  Every process that runs
takes its steps, and a dialog is answered or cannot be shown: weak fairness of
`FlowStep`, `StatusStep`, `RollbackStep` and `Privileged`.  Nobody owes an
update, a command, an opening or closing of ChatGPT, or a crash.

Nothing but its users completes a migration: the code resumes when it is run
again.  `MigrationEnds` therefore assumes that each kind of run is tried again
(`SF(Start)`: a launch waits for the run before it), that a run goes on
(`WF(RunStep)`, `WF(Launch)`), that a collision is resolved by the command
printed for it (`WF(MoveAside)`), and that programs are closed some time
(`WF(Quit)`), without which no reversal would be allowed to start.

In a session the event loop of the client and the broker's process go on:
`WF(BrokerStep)`, `WF(ClientStep)`, and a killed process dies.  A broker that
has fallen silent owes nothing, nor do callers, the other program and faults; `ClientStep` has the timer of `close()`
in it.  In the two models of watching, `WF(Internal)` and `WF(Program)` say that
Node's event loop does not stop while something is due; which timer, event or
continuation comes first is left open, and so is when a directory changes.

An updater's commands go on, and so does the supervisor of npm, which has a time
limit and looks for its parent: `WF(Step)` outside of `ask`, and `WF(Supervise)`, for each
updater.  The queries made under the lock have a time limit of their own
(`NPM_REPAIR_REGISTRY_TIMEOUT`), that of a preflight has none.  npm
owes nothing, nor do users, the registry and crashes; who waits for the lock may
always give up, by the time limit of `acquire_install_lock`.

### Findings

Ten places where the code does not do what a comment, a test or a document of
the repository says.  The properties above hold because their condition on `mishaps`, a named
exemption or a constant leaves these cases out; TLC finds each when that is
undone, in the way given here.  For the findings 1, 2, 3 and 5 the condition on `mishaps` is
taken out of the property, too.

1. `NoSkippedUpdate`, with a rollback after a failed download.  A check saves the new header fingerprint before the download, and
   relies on the status alone to have a failed attempt repeated.  A rollback
   after a failed download replaces that status by `installed`: the DMG that was
   never obtained is then taken for unchanged until the headers change again.
   (`MCUpdateSerial.cfg` with `HSpecRetained`, `Commands = {"rollback"}`, `MaxBuilds = 3`.)
   So does a user who installs by hand the DMG whose build had failed before:
   `complete_current_dmg_update_if_already_installed` makes `failed` into `idle`.
   (`MCUpdateSerial.cfg` with `Commands = {"install"}`.)
   And so does an install that outlives a crashed `install-ready` command, when it ends
   after such a failure.  (`MCUpdateSerial.cfg` with `Detached = TRUE`.)
   Nothing has to fail when the URL answers the request for the headers with DMG 2 and
   the download with DMG 1, which is installed: the headers of the one are saved with the
   digest of the other.  (`MCUpdateSerial.cfg` with a `Replaces` that lets an older DMG
   follow a newer one.)
2. `RollbackHonoured`, with a check running at the same time.  The rollback command does not take `check.lock`, and every save
   writes the whole updater half.  A check that loaded the document before the
   rollback writes it back without the block, and builds the rolled-back DMG
   again.  (`MCRollback.cfg` with `HSpecRetained`, `Serial = FALSE`.)
3. `KnownGoodIsThatVersion`, with a manual install between two updates.  The version retained for rollback is what the package manager
   reports; the package is the last one the updater installed.  After a manual
   install these are not the same package.  (`MCRollback.cfg` with
   `Commands = {"install"}`.)
4. `KnownGoodWasInstalled`, with a DMG published again under the installed
   version.  An interrupted install is recovered as done when the installed
   version equals the candidate's.  For a DMG published again under the same
   version that is no proof: the package was never installed, is recorded as
   such, and is what the next update retains for rollback.  (`MCRollback.cfg` with
   `HSpecRetained`, four DMGs and builds, all trusted, and `Republished` for the three version functions.)
5. `RunningUntouched`, with two migrations at once.  Launcher and service migrate without a lock between them.
   The service's migration finds the updater's state moved, skips it, ends, and
   the daemon starts; the launcher's migration then discards the daemon's
   `check.lock` and temporary files as leftovers of the former identity.  No
   tree is lost in such a race: `PromiseKept` is proved for it.  (`MCMigration.cfg`
   with `Serial = FALSE`, one operation, `Uses <- UpdaterOnly`, `Volatile = {1}`.)
6. `GitCovered`, when a scan finds the root replaced.  `addDirectoryWatch` notes that
   the Git metadata has to be looked for again, and nothing schedules it: the
   watch may stay on the `.git` that is gone.  (`GitCovered` without
   `~s.mappingInvalid`.)
7. `GitCovered`, when git is asked while the root cannot be read.  Git fails, the look
   at `.git` fails too, and its error is taken for "no such entry": the session settles
   on no git directory and on nothing ignored, with no retry.  When the root can be
   read again before the scan looks at it, nothing asks git again.  (`GitCovered`
   without `"targets" \notin s.blind`; `Covered` with `IsIgnored` for `Skipped`.)
8. `HelperIn`, in a bundle whose avatar overlay has no pointer policy.  Two methods
   are inserted with the policy, later steps write calls of them without it, and
   nothing is warned.  (`HelperIn` without `AvatarWithoutPolicy`.)
9. `Honest`, where a bundle has drifted in one of several places.  The bypass of the quit
   prompt has two seams, and warns only when it rewrote neither: with one of them drifted
   it leaves the bundle halfway without a word.  Twenty-one other patches pass over some of
   their places like that (`LooseSeams` of `MCTexts`).  (`MCTable` without `LooseSeams`.)
10. `Settled`, where a bundle has two old shapes of one thing.  Three patches rewrite
    one of them on the first application and the other on the second.  (`Settled`
    without `PassedOver`; an official bundle has one of the two.)

Also seen while modelling, and left out of the runs for that reason: a crash of
the rollback command after the package manager has finished loses the block; a
second rollback replaces the block of the first; `MatchInstalled` clears
`package_path`, so that the next update retains nothing newer; a different DMG
served to the HEAD and the GET request can hide a release until the headers
change; a `status` command with a stale document can prune the workspace of a
running build, whose package is then refused; a rebuild of the same version
wipes the workspace of the retained package.  In the migration: a reversal with
the app closed but the daemon running takes its lock, and the daemon creates
the canonical tree again; of two runs that overlap, one that lags may write the
journal again after the other removed it, and if it is killed after the other
has skipped the tree it moved, nobody discards that tree's volatile entries.
In the tree: a watch that breaks during a scan of a directory whose inode number
is used again stays on the old object, and nothing Node reports would tell
(`Covered` compares only inode numbers once a watch has broken).  Of the npm CLI:
`repair-cli` loads the document before it waits for the lock and does not load it
again, so a repair that fails writes back the CLI half of then; until the next
preflight the document may name a version that is not installed (`DocumentTrue`
exempts a pending repair).  On the page:
two previews in flight end in two cards one after the other, and two workspaces
may run at once; the end of any request clears `activeAction`, whoever set it.

## Proofs

`UpdateProofs` proves, for every value of the constants that satisfies
`CountsAssumption`, `ManifestAssumption` and `EnvironmentAssumption`:

| theorem | property |
|---|---|
| `TypeCorrect` | `Spec => []TypeOK` |
| `TrustIsCarried` | `Spec => []TrustChain` |
| `TrustedOnly` | `Spec => []OnlyTrustedInstalled` |

The assumptions give the constants their types; the trusted manifest is any set
of DMGs, the three version functions any functions, the environment may replace
any DMG by any other.  None says that packages, documents or requests are
trusted.

`OnlyTrustedInstalled` is not inductive: the step that installs a package takes
it from a document, which the flow read from disk long before, where any other
process may have put it.  The inductive invariant `Inv` therefore says that
*every* document, in memory and on disk, is `Sound`: typed, with its DMG
verification and both package verifications trusted.  In addition `Chained` says
what the flow knows of its own document at the points where it matters: at the
match the verified DMG is trusted, during the build the DMG is trusted, at the
authorisation the package is an update of a trusted DMG with the manifest's
version.  Packages in workspaces, the installed one and the requests of
surviving children are trusted too.

The proof has one lemma for every edit of `UpdaterState` (it keeps a document
sound), one lemma for moves (`MoveKeeps`: a process that moves with a sound
document and what its next point requires keeps all documents in order), and
then one lemma per action or group of actions.  The argument about trust is in
four places: `DownloadTrusted` in `CheckKeeps` establishes it, `BuildKeeps`
carries it to the package, `UsableIsUpdate` gets it back from the document that
offers the package, and `RequestTrusted` hands it to the privileged install.

`HistoryProofs` proves, for every value of the constants, the six history
properties:

| theorem | property | assumes |
|---|---|---|
| `PendingKeepsPackage` | `HSpec => []PendingPackageKept` | |
| `DismissedIsNotRepeated` | `HSpec => NoReprompt` | |
| `NothingIsSkipped` | `HSpec => []NoSkippedUpdate` | |
| `RetainedWasInstalled` | `HSpec => []KnownGoodWasInstalled` | `OwnVersions`, `BlocksOlder` |
| `RetainedVersion` | `HSpec => []KnownGoodIsThatVersion` | `OwnVersions`, `BlocksOlder` |
| `RollbacksHonoured` | `HSpec => RollbackHonoured` | `OwnVersions`, `BlocksOlder` |

None of them assumes anything about when processes run, what users do or what is
served: they hold of every behaviour of `HSpec`, each until one of the `mishaps` it names.
`OwnVersions` (no two DMGs share a version) and `BlocksOlder` (a block that stops a
DMG stops the older ones) are about the DMGs that are published; the code checks
neither.

The first two are false after what they name: a `status` command with a stale document prunes
the package of an update that became pending meanwhile, or writes back that it waits for ChatGPT to
exit, and a rollback says `installing` of a document that may name no package.  All else
may happen before: crashes anywhere, privileged installs that survive their parents, manual
installs, older DMGs, and for `NoReprompt` rollbacks.

What they rest on is `Orderly`, which holds until an `overlap`: one process is at work, its document offers what the one on
disk does (`Synced`, of status, package and verification, whatever else it has edited and not
saved), the flow's document says at each point what it should (`Placed`), and
a rollback that has ended has no status to restore (`Rested`).  `Backing` and `Calm`, on top of it,
are nearly the two properties.  Every action of the processes is shown to be of
one form, `Moved`: it goes to a point with a document whose pending package is
there afterwards (`Honours`), and which waits for the exit of ChatGPT only where a document waited before
or ChatGPT is open (`Patient`); the invariants are then proved once, for `Moved`.

`NothingIsSkipped` is about a document at rest, but what it says is decided at the
match, or at the end of a build, and a check in between has already saved the new headers.  Its
invariant is `Followed`.  Every document at work or at rest is `Aware`: it knows no DMG
but the one served and earlier ones; unless its status asks for a retry, a DMG it knows by headers or
digest and that is still served has been concluded; and it has a candidate only while it
works for it, a DMG other than the installed one until the privileged install has put it
there.  `Established` adds what the flow has found out on its way: that a check
which retries nothing started from a concluded DMG, that headers and verified DMG agree at the
match, and that the package at the dialog is the candidate's.  The steps are again of one form, `Tracked`,
and the invariant is proved once for it; starting, publishing and the install itself have
lemmas of their own.  TLC shows what the excuses are needed for: rollbacks, manual installs, children that
outlive their parents, and older DMGs after newer ones are the four ways to finding 1.
Whether `overlap` is needed is open: with a `status` command at any time TLC found no
violation in the states it could visit, and the proof uses `Orderly` throughout.

The last three are about one chain of events.  The package that is installed when an
update is found becomes the retained one, with the version the package manager
reports; a rollback installs it and blocks the DMG it replaced; and the block keeps
that DMG from being found again.  The document only guesses which package is installed, by
comparing versions.  So none of the three is inductive, and one invariant, `Faithful`,
proves all of them.  Of every document at work or at rest it says:

- `Traced`, whatever is installed: the DMG it knows is not newer than the one
  served, nor is the blocked DMG newer than the known one; packages have a version of
  their DMG (`Genuine`); the retained package was installed and its version is the one
  recorded (`Retains`); and while there is a candidate, no DMG from the known one on
  is blocked (`Unblocked`);
- `Matches`, of the installed package: the package the document names is that one, unless it has a
  candidate of another version; and the DMG that was rolled back is older than the
  known one, or is the blocked one.  Between the privileged install of a rollback and
  the document that records it (`RollingBack`) this is false, and nothing else runs;
- `Grounded`, of what a process has found out on its way: the version it read from
  the package manager is the installed one, what it builds is of the DMG it found,
  which is not the installed one, and what it asks to install is its candidate.

The edits of `UpdaterState` that change one of these fields have a lemma each (`DetectTold`,
`AfterInstallTold`, `AfterRollbackTold`, `KnownGoodTold` and so on), all others are
`Alike` or `Near`; every step of the flow, of `status` and of `rollback` is then
`Edited`, for which the invariant is proved once (`EditedKeeps`).  The two installs, a start and a
publication are proved by themselves.

The invariant of the specification is `Sure`: `Faithful` until there is another mishap than a
rollback.  TLC finds what each excuse and assumption is needed for, on
`MCRollback.cfg` with one constant changed and the condition on `mishaps` dropped: `overlap`, finding 2; `hand`,
finding 3, which reaches all three properties; `OwnVersions`, finding 4;
`detached` (here with a crash and without rollbacks), that an install which survives its parent puts a first build in place while
the document offers a second one of the same version, which is then taken for the installed one and retained, so that
`KnownGoodWasInstalled` fails; `cut`, that the block is lost, which
breaks `KnownGoodIsThatVersion` and `RollbackHonoured`; `older`, that an older DMG is
served again, after which `RollbackHonoured` fails (from `HSpecRetained`).  For
`BlocksOlder` TLC found no violation with three DMGs; the proof of `Unblocked` needs it.
TLC checked `Faithful` itself before it was proved: on the constants of `rollbacks`
(1.0 million states), from `HSpecRetained` with four DMGs, with versions that
differ between manifest, bundle and download, and with crashes but no rollbacks.

`StateTrees` and `MigrationProofs` prove, for every value of the constants that
satisfies `MigrationAssumption`:

| theorem | property |
|---|---|
| `OnceForEver` (`StateTrees`) | `Spec => []EachTreeOnce`: what keeps the promise keeps each tree in one place |
| `MigrationTypeCorrect` | `Spec => []TypeOK` |
| `PromiseKept` | `Spec => KeepsPromise`: `StateMigration` implements `StateTrees` |
| `NothingIsLost` | `Spec => []NothingLost` |
| `InterruptionsAreResumable` | `HSpec => []Resumable` |
| `PlansAreCarriedOut` | `HSpec => []AllMoved` |
| `RunningProgramsAreSpared` | `HSpec => RunningUntouched` |

All of them are about runs that may overlap and users who may be careless
(`Serial = FALSE`, `Careful = FALSE`).  The last three are claimed until that happens, and are
false after it: see the finding for two migrations at once.

For the first four the inductive invariant is the type invariant, in parts, and that a run past
`next` stands at an operation (`InOperation`); it is enough because `Move` asks
for what it needs in the same step that renames.  Each action then maps to a
step of `StateTrees` (`Move` to `Rename`, a creating `WriteIn` to `Create`,
`MoveAside` to `SetAside`) or leaves `Located`, `aside` and `born` alone, and
`NothingIsLost` is `OnceForEver` carried over by the mapping.

Until two runs overlap there are three more.  `Whole`: one run is at work
(`Alone`); in its loop the journal says what it has in memory (`Follows`), and it has passed
only operations that are done (`Passed`); at the last steps of an operation
its tree is tidied and renamed (`Achieved`); and a tree that is not tidied, or bears the names of
the other side, is one the journal says is moving (`Journaled`).  `ToMove`: a recorded tree that still has its old name
belongs to an operation which is pending or moving; since `NothingLost` gives it one name, a run
that finds nothing there has not missed it.  `Kept`: a reversal is at work only
while the programs are closed (`Closed`), and a program runs only where the trees it uses are in
place (`InPlace`), which are the trees that no plan moves and no walk discards.

`PageProofs` proves, for every value of the constants that satisfies
`PageAssumption`:

| theorem | property |
|---|---|
| `Typed` | `Spec => [](TypeOK /\ PermissionsKept)` |
| `RunsUnderPermissions` | `Spec => UnderPermissions` |
| `StartsApproved` | `Spec => []ApprovedStarts` |

There are two inductive invariants.  `IInv` is the type of the state and
`PermissionsKept`: what the two permission keys stand for, the current one or
else the legacy one, is the file configured last; a value that did not stick
configures nothing.  A migration that stops after
any of its writes keeps it, since a legacy key is deleted only after the current
one has been written (`WrittenKeeps`, `Migrates`); so every request that is
run with a file is run with that one.  `UnderPermissions` is then a property of
every step (`Safe`).

`ApprovedStarts` is not inductive: the card is long gone when the program
answers.  `CardsInv` adds that cards are numbered by the previews that made them
(`Numbers`), that a request in flight which was approved carries its card's
request and no acknowledgement that the card did not show (`Carried`, from `CardShows`), and that no card which is still to be
answered has been started (`Unused`).  Each action is then shown to be of one of
four classes: it touches no card (`Harmless`), shows a new one (`Shows`),
approves the one that is shown (`Approves`), or answers a request (`Replies`);
each class has one lemma about `CardsInv`.

`SessionProofs` proves, for every value of the constants that satisfies
`SessionAssumption`, that is, for any number of callers, files, calls, foreign
writes and faults:

| theorem | property |
|---|---|
| `EveryAnswerMatches` | `Spec => []AnswersMatch` |
| `CleanSessionIsWhole` | `Spec => []CleanIsWhole` |
| `NothingSentAfterError` | `Spec => SilentAfterError` |
| `SessionExchangesFiles` | `Spec => KeepsVersions`: `MutationSession` implements `FileExchange` |

They rest on one inductive invariant, `IInv` (`SessionInvariant`), in seven parts:
types, the order of the versions of the executable (`ExeOK`), what the broker
has beside a target (`BrokerOK`), the ends of streams and waits (`EndsOK`), and
three that carry the argument.  `OrderOK`: calls are served in the order they were
made, so what has a token is older than what is in the pipe, and that older than
what waits; the token of a read is therefore new.  `LinksOK`: a replacement bears
the token of the version it was made from, wherever it is on its way; with the
token's uniqueness, what `Validate` accepts is what the author had read.
`BalanceOK`: answers carry no number, so nothing in the state says whose a frame is.
But the answers that exist or will exist, less the one waited for, are never fewer
than none (`Balance`), nothing takes one away unless the broker fails, and while
there is none too many each belongs to the call that waits (`Aligned`).  A session
closes without an error only when nothing is left, hence with a balance of zero.

There is one lemma for each action or group of actions that disturb the same parts;
`ReceiveKeeps` and `ServeFacts` split on the answer and on the kind of call.  For the
refinement, `ExchangeIsSwap` maps the exchange to `Swap`, `Conflict` or a stutter,
`WriteIsWrite` the foreign write, and `BrokerKeepsFiles` and `OtherSteps` show that
nothing else changes a file or what is kept.

`CliProofs` proves, for every value of the constants that satisfies the
assumptions of `CliRepair` (there is a version, nobody is no updater, and what is left over
is a version or nothing):

| theorem | property |
|---|---|
| `Typed` | `Spec => []TypeOK` |
| `OneInstallation` | `Spec => []OneInstall` |
| `RepairsRecover` | `Spec => []Recoverable` |
| `DocumentIsTrue` | `Spec => []DocumentTrue` |

`LockKept` is what `OneInstall` rests on: who is at a point where the lock is needed
has it, and so has who has a supervisor, alive or gone.  It is inductive because the
lock of an updater that is killed is released only when it has no supervisor
(`Released`), and because npm runs only while its supervisor is up.  `Recoverable` says nothing about
npm, yet a journal that says `Detected` needs a package that npm might move.
So `NpmAllowed` adds that npm works either without a journal or for a repair which has
nothing left to move, `KindKept` that only the command `repair-cli` goes through the points of a
repair, and `JournalSound` and `NamesOK` what the journal names at each stage; `Alone`
is the one fact about other updaters that their lemmas need.

`DocumentIsTrue` has to follow every copy of the document: a preflight reads it and looks
at the package without the lock, and may write both back much later.  `Truthful`
says what the copies name while nothing is in doubt: unless a new version is in place that
nobody has recorded (`Unrecorded`), the document and every copy which is
not `behind` name no version, or the one in place, or the one that npm has moved aside and
may yet put back (`Base`).  An installation that ends well is recorded, which puts
all other copies behind; one that is cut short is in doubt until the next record;
and while a repair is due nothing is claimed, except at `clear`, between its record and the removal of
the journal (`Due`).  `Watched` has what the steps need beside it.  The proof needs
that a record differs from every earlier document: `record_managed_install`
stamps it with the time (`codex_cli.rs` 2950), and `Record` says so.  Steps are again
of a few forms: `Undisturbed`, `Onward`, `Copying`, `Recording`.

Only model-checked of the npm CLI: `ComesFree`, a liveness property.

`PatchRunProofs` proves, for every value of the constants that satisfies
`PlanAssumption`: any files, any descriptors in any of the phases, and texts in any state:

| theorem | property |
|---|---|
| `PatchTypeCorrect` | `Spec => []TypeOK` |
| `ReportsAreTrue` | `Spec => []ReportIsTrue` |
| `AcceptedAppIsPatched` | `Spec => []AcceptedIsPatched` |
| `FailedSessionRejects` | `Spec => IntegrityRejects` |

The properties speak about the files once the run has exited, yet while it works the
edits are in three places: in the draft of the bundle, in the files of the web view still to be
written, and on disk.  `Wholes` and `Halves` are the edits of a file wherever they
are at that point, and `Inv` says of a run that has not failed that descriptors
it has not come to have left no trace (`Untouched`) and that what it has reported of the
others is true of them (`Reported`); `Shape` says which of the places are in use at each point.  A step
either moves edits from one place to another, which leaves `Wholes` and `Halves` alone, or
applies one descriptor and reports it.

Only model-checked in the migration: `MigrationEnds`.

Only model-checked in the update flow: the liveness properties (out of reach of
the prover, as all liveness under fairness).  The theorems about its history say nothing
of what comes after the mishap they name (see the findings), and the last three of them
assume `OwnVersions` and `BlocksOlder` of the DMGs that are published.

Only model-checked of the patch command: `CloseEnds` of the session, and the text
patches.  `texts` is exhaustive: the operators have no parameters but
the texts, and TLC tries every one.

Only model-checked of watching: all of it.  `BudgetKept` would need induction over
the folds that sum the counts, which the prover's backends cannot do; `Covered`
and `NoStrandedCapacity` speak about states at rest and would need an invariant
for each point of a scan.

## Not modelled, and what would come next

Done: the update flow, the migration, the mutation session, the patch run, the
text patches, the two models of watching, the Agent Workspaces page, the npm CLI.

Not modelled, in the order in which it would be worth it:

1. The launcher: its lock, `app.pid`, the web view server and its marker, with
   two launches and a crash.
2. The DMG cache: the lease and the cleanup, beside the points of the check cycle.
3. The wrapper update beside the DMG flow (`wrapper_apply.rs`).
4. The budget and the tree of the working tree watch in one model: the states of
   both are large, and what a tree takes from the budget is one watch at a time.
5. The reading of a version (`package_version.rs`): segments, suffixes, and the
   timestamp versions it rejects.  `UpdaterState` has the order on numbers and the
   constant `FourPart` for what comes out of it.
6. The other ways the CLI is installed: the standalone installer and its recovery, and
   the repair of a missing optional dependency, which runs npm under the same lock.

Left out for good: programs around D-Bus, input devices and windows, whose
hazards are the timing of desktops; the build and packaging scripts, which run
once, in order, and stop at the first error; what an inserted piece of
JavaScript does inside the minified application, whose source is not in the
repository; formatting, logging and the text of notifications.

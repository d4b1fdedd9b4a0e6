# Verification of workspace-mcp-manager

workspace-mcp-manager runs, for each *instance* an operator declares, an MCP server
(`coding-tools-mcp`) and a tunnel client as user-systemd services. The manager is a
set of short-lived processes that share files, locks and systemd; nothing in it is
a long-running server of its own. What can go wrong in it is therefore mostly
between processes: two of them at once, one that dies halfway, one that acts on what
it saw a moment ago. This directory holds TLA+ models of those parts, TLC
configurations that check them on small instances, and proofs, checked by TLAPS, of
some of the properties for every value of the constants.

Source paths below are relative to `src/src/workspace_mcp_manager/` unless they start
with `scripts/` or `specs/`.

## 1. Inventory

| Component | State it keeps | Operations | What is hard | What makes it correct |
|---|---|---|---|---|
| Registry (`registry.py`) | one JSON declaration per instance, lock files, the gates of import, maintenance and upgrade | list, get, create, update with compare-and-swap, delete | two writers; gates are files another process writes | an update replaces exactly the declaration its author saw; no write passes a pending import, maintenance or upgrade |
| Generation and planning (`generation.py`, `planning.py`, `recovery_planning.py`, `admission_recovery.py`) | none; reads disk, systemd, registry and evidence | desired resources, plan (file, unit and stale-guard operations), validity, recovery of a failed first apply | a plan is only as good as what it observed | own resources are refused for one edit only, foreign ones never touched |
| Host apply (`host_apply.py`, `lifecycle.py`) | instance lock, transaction journals, `applied.json`, rollback state in memory | apply, start, stop, restart, remove, qualification, rollback | any operation may fail or the process die; systemctl may time out and its job still run; timer-driven guard | a failed apply is undone, a successful one runs what is declared, a removal leaves nothing |
| Admission guard (`runtime.py`) | `admission-recovery.json` | probe the MCP server, restart it when saturated, with a cooldown | no lock; wall clock; dies between record and restart | restarts are rate-limited and each follows a recorded attempt |
| Codex jobs (`codex_jobs.py`) | `request.json`, `status.json`, `result.json`, transient unit | start, run worker, status, output, cancel | no lock; submitter, worker and callers race; systemd's answers may be late | an ended job runs nothing; the worker's verdict stays; every job ends |
| Distribution installer (`scripts/install.sh`) | releases, the link `current`, entry points, receipt, `distribution-transaction.json`, account lock | install, upgrade, migrate, recover-only | killed anywhere; recovery itself fails; removal is not atomic | commands change release in one step; journals are resolved and leave a complete state |
| Instance upgrade (`instance_upgrade.py`, `upgrade_state.py`) | `instance-upgrade.json`, backups | preview, run, resume | crash between phase, registry update and apply; locks released meanwhile | each instance is applied once; completion means every declaration is the candidate |
| Maintenance (`maintenance.py`) | `maintenance-transaction.json`, quarantine directory | rollback to a release, uninstall, recover | lock order with deadlines, rename as the commit point | recovery finishes or retains, as the directories tell |
| Reboot (`reboot.py`) | `checkpoint.json` | authorize, request, check after boot | read-modify-write of the checkpoint; a bridge that times out | a requested reboot is verified against what was recorded |
| Legacy import and cleanup (`legacy_import.py`, `legacy_templates.py`, `cleanup.py`) | import journals and receipts, backups of the originals | import, recover, cleanup | displaced files of another tool; crash around the receipt | originals restored or candidate committed, never both or neither |
| GitHub access (`github_access.py`, helpers) | verification record, managed profile directory, operation lock | status, verify, configure | a login whose helper is killed may have stored its token; two verifications at once | evidence that counts names the account that is logged in; older evidence never replaces newer |
| Session continuity (`session_continuity.py`) | none (sessions and commands on the server) | probe and clean up | requests served without their answer, a server that restarts, a cleanup that fails | a probe that says it passed left nothing behind |
| Access and development resources (`access.py`, `development_*.py`) | none | desired links, directories and files; toolchain inspection | none beyond the transaction | as for other resources |
| Diagnostics and host reads (`diagnostics.py`, `git_diagnostics.py`, `tooling.py`, `host.py`, `distribution_runtime.py`) | none | reports | none | reads only |
| Terminal interface (`tui.py`, `tui_textual.py`) | busy and uncertain instances, pending mutations, generations, drafts, wizard | refresh, mutations with a time limit, settings, wizard | answers of threads arrive late and out of order; processes outlive their time limit | edits are saved over what they were made from; what is created is what was reviewed; a refused instance is released |
| Projections and command line (`setup_projection.py`, `operator_*.py`, `endpoint_projection.py`, `cli.py`) | none | presentation and requests | none of their own | they call the services above |
| Bootstrap and upgrade front ends (`bootstrap.sh`, `scripts/upgrade.sh`, `scripts/setup-local.sh`) | a temporary checkout | acquire, run the installer | network | the installer decides |
| Qualification scripts, tests, specification tooling | - | drivers and document checks | - | not part of the running program |

How they interact:

* The operator's commands write a declaration (compare-and-swap under the registry's
  lock), then start a worker in a transient user-systemd unit, which takes the
  instance's lock and runs a host-apply transaction. Two workers may hold their
  registry updates at once and wait for the lock in any order.
* A transaction talks to systemd (`daemon-reload`, `enable`, `start`, `stop`), reads
  what it finds from the file system, and leaves `applied.json` as evidence for later
  plans and for the recovery of failed applies.
* The admission guard is started by a systemd timer which the transaction itself
  enables; it shares no lock with the transaction and acts on the same unit.
* Codex jobs depend on the declaration (execution binding) and on systemd only.
* Installer, maintenance, upgrade and import exclude each other with `distribution.lock`
  and with journals that the others, and every write of a declaration and every apply, look
  for. Their journals outlive the process; the locks do not.
* The terminal interface, GitHub verification and the session probe are further
  manager processes, which read declarations and run beside all of the above.

## 2. Modules

| Module | Models | Of |
|---|---|---|
| `InstanceHost` | the host of one instance: declaration, files, enablement, loaded unit definitions, processes, guard | `domain.py`, `generation.py`, systemd as the code uses it |
| `Planner` | plan of one declaration against that host: file and unit operations, stale guard units, conflicts | `planning.py`, `admission_recovery.py` |
| `HostApply` | worker and transaction, rollback, recovery of failed applies, the guard's steps, failures | `host_apply.py`, `lifecycle.py`, `recovery_planning.py`, `registry.py`, `runtime.py` |
| `MCHostApply` | configurations of declarations for TLC | - |
| `HostApplyProofs` | theorems about `HostApply`: types and foreign files; files, units and what a rollback leaves; what applies achieve when nothing fails | - |
| `CodexJobs`, `CodexJobsProofs` | one job, its submitter, worker and callers | `codex_jobs.py` |
| `RestartLimiter` | abstract: attempts at least a cooldown apart, no restart without one | `specs/p11-admission-recovery.md` |
| `AdmissionGuard`, `AdmissionGuardProofs` | the guard, its clock and evidence, implementing `RestartLimiter` | `runtime.py` |
| `CommandSwitch` | abstract: an account's commands change release in one step | `specs/standalone-distribution.md`, DIST-03 |
| `DistributionInstall`, `DistributionInstallProofs` | the installer's transaction and recovery, implementing `CommandSwitch` | `scripts/install.sh` |
| `RegistryGates` | registry, instance locks, import lock, gates, quiescence; operators' processes | `registry.py`, `upgrade_state.py`, `maintenance.py` (locks), `host_apply.py` (lock and gate) |
| `InstanceUpgrade` | upgrade of all declarations with its journal of phases (extends `RegistryGates`) | `instance_upgrade.py` |
| `Maintenance` | rollback, uninstall, recovery (extends `RegistryGates`) | `maintenance.py` |
| `LegacyImport` | import of one legacy instance, restore, retirement of the toolkit (extends `RegistryGates`) | `legacy_import.py` |
| `Account`, `MCAccount`, `AccountProofs` | composition of the four above; crashes; properties | - |
| `Reboot`, `MCReboot`, `RebootProofs` | requests, bridge, boots and checks of host reboots | `reboot.py` |
| `Wizard` | the new-instance wizard | `tui_textual.py` |
| `Console`, `MCConsole`, `ConsoleProofs` | the terminal interface for one instance (extends `Wizard`) | `tui.py`, `tui_textual.py` |
| `SessionContinuity` | the probe and the server it probes | `session_continuity.py` |
| `GithubAccess` | configure, verify, status (extends `SessionContinuity`, whose server its sessions are opened on) | `github_access.py`, `github_auth_helper.py` |
| `InstanceProbes`, `InstanceProbesProofs` | composition of the two: manager processes at one instance | - |

### Correspondence with the code

**InstanceHost, Planner, HostApply.** `desired` is the registry's declaration; `file`
the content of each managed path (absent, foreign, or the text rendered from a
configuration, where a text is the set of declaration fields the renderer uses);
`contents` the other children of the state directory; `enabled`, `cached`, `running`
what systemd knows, `running` with the unit text and the profile a process was
started from. `tx` is the transaction that holds the instance lock, with the plan it
made, `rb` its `_RollbackState`, `journal` the last journal's status. The transaction
is one action per step of `HostApplyService.apply`: `Plan` (refusals included), one
`Execute` per journaled operation in the order of `_unit_priority` and the bundle,
qualification, final plan, `applied.json`, journal; and a rollback of stop, disable,
restore, reload. Seven core resources are modelled; profile directory, launcher,
GitHub, agent, access and development resources are reconciled by the same code as the
plain files that are. Registry-wide identity conflicts between instances, and the
content of declarations beyond the four groups of fields that renderings tell apart,
are left out. `status`, `logs` and the worker's argument passing are reads.

**CodexJobs.** `status` and `result` are the two JSON files, `unit` the transient unit,
`worker` and `caller` the program counters between the points where another process
can see or change a file. Times are reduced to whether `INTERRUPT_GRACE_SECONDS` has
passed since each timestamp (`fresh`). Messages, prompts and outputs are left out.

**AdmissionGuard.** Clock readings are ages, counted up to the bound beyond which the
code cannot tell them apart. `Begin` reads evidence and clock, `Probe` and `Delete` are
the HTTP requests (a session of the server each), `Suppress` and `Record` the two
outcomes of the cooldown test, `Restart` the systemctl call, `Result` the final write.

**DistributionInstall.** One action per durable step of `install.sh`. A release is
absent, complete (what `release_validate` accepts) or partial; `entry` the stable
entry points, `setup` the setup link, which names a release of its own. `run` is the
process under the account lock; its death releases the lock and nothing else.
Acquisition and provisioning of a candidate are one step (`Construct`, into the
staging directory, then `Finalize`); the legacy reboot entry point, the setup preview
and the branch into `maintenance.py` are not modelled.

**RegistryGates, InstanceUpgrade, Maintenance, LegacyImport, Account.** `decl` is the registry,
`host` what is deployed for an instance: the declaration whose apply succeeded, nothing
(`Clean`), the predecessor's files (`Legacy`) or an apply under way or dead (`Mixed`). An apply is
two actions, begin and end, with the outcomes that `HostApply` was checked for: applied, or undone.
`acct` is the one process that holds `distribution.lock`, with its place in its procedure; `client`
are operators' processes between `registry.get`, the registry lock, the write, the instance lock and
the apply. Quiescence is not a variable: `QuietSteps` names the steps a procedure takes inside it, a
client's lock actions are disabled there, and the procedures' own first step in it waits for `Quiescent`
or gives up (`timeout`). Every step that writes a file (journal, phase, declaration, receipt, rename,
link, directory) is an action, so that `Crash` and `Kill` fall between any two. A declaration is reduced to the
release it names and whether it should run. The installer appears as one step, `Install`, after an uninstall:
`DistributionInstall` is its own module.

**Reboot.** `req` and `chk` are processes of `host reboot` and `host reboot-check` with the
checkpoint each has in memory; nothing locks the file. `Bridge` covers the answer and the time limit
after which nobody knows whether the reboot is queued. `check` looks at one instance after the other and,
of each, at the declaration, the two units and the endpoints, every look an action of its own
(`CheckInstance`, `CheckUnit`, `CheckEndpoints`), while units stop by themselves (`Fragile`), declarations are written
(`Redeclare`, the registry alone: `decl`) and applied (`Apply`: `deployed` and the units). A unit starts with what is
deployed, not with what is declared. `origin`, `declared`, `served` and `drifted` are history variables: the request
a boot was asked by, what was declared and what was up in it, and which instances were declared otherwise than deployed.

**Wizard, Console.** An action named after a handler is one turn of the event loop. `late` and `read`
are answers that have passed their thread's cancellation check and wait for the event loop; `gen`, `wgen`
and `intent` are what the handlers compare them with. `running` is the set of manager processes, which
go on when their thread stops waiting (`TimedOut`); `pending` is the entry of `_pending_mutations`, one
per instance. `history` is the list of the declarations the registry has held. What the code compares is the content
(`Fingerprint`), so that a change that is taken back is not noticed; the place in the list, `version`, is the model's
own and tells in the properties which declaration a read saw. A save rests on four reads by four processes: the
summary's fingerprint (`ReadSummary`), the declaration that is edited (`ReadRest`), the candidate's base
(`ReadCandidate`) and the comparison under the registry's lock (`ProcessSaves`). `previewed` holds candidates whose
thread has passed its cancellation check: they are saved even when the screen has been left. One instance is
modelled: nothing in these handlers relates two.

**SessionContinuity, GithubAccess, InstanceProbes.** `cont[p]` is a probe with its flags (which sessions
and handles it still has to clean up), `op[p]` a GitHub operation. Each request of a probe has the outcomes answered,
served without an answer, and not served. Of the declaration `declared` keeps what `_context` puts into
a record (mode; repository, deployment and MCP endpoint as one `target`), so that other edits do not invalidate
evidence and an edit that is taken back validates it again. `exposed` is a history variable: a login was left
running, or the process that ran it did not live to verify what it did.

## 3. Runs

| Run | Module, bounds | Question |
|---|---|---|
| `lifecycle` | `MCHostApply`; four configurations (two of them edits of one field that the code does not carry out), commands start/stop/remove, no failures | are these two edits all that is refused or undone, does every other apply converge, does success mean that the declared rendering runs |
| `faults` | one rendering, guard declared or not, start/restart/remove; operations raise before or after their effect | is a failed apply undone and always recoverable, does a removal leave nothing |
| `intrude` | remove commands, no guard; worker death, host reboot, a journal that cannot be written, files replaced by foreign ones, at any point and together | no unit enabled without its file, no foreign file overwritten or deleted |
| `guard` | start/stop; guard ticks, systemctl timeouts, undo steps that raise | does every transaction end, can a failed first apply be repeated |
| `jobs` | `CodexJobs`; two callers, two mishaps of any kind | cancelled means stopped, ended means stopped, verdicts are kept, jobs end |
| `cooldown` | `AdmissionGuard`; cooldown 3, two sessions, lag 2, clock back by up to 3, two mishaps | refinement of `RestartLimiter`; a saturated server is restarted in the end |
| `install` | `DistributionInstall`; two distributions (one without the setup command), a predecessor, three mishaps | refinement of `CommandSwitch`, retention, convergence of recovery |
| `account` | `Account`; two legacy instances, one client, two releases; processes killed at any step, operations that raise, deadlines | journals account for declarations and deployments; nothing committed is done twice; every recovery is open; originals are kept |
| `reboot` | `Reboot`; two instances with tunnels that stop by themselves, a requester, a checker, two requests, two boots, one edit | `reconciled` is true up to what section 6 says, a requested reboot is noticed |
| `console` | `Console`; two mutations, two refreshes asked for, two edits, three requests of the wizard, two contents, one change by others beside those of the mutations, one save on its way at a time | stale answers, stale edits, release of a refused instance |
| `probes` | `InstanceProbes`; two processes, two accounts, two targets; declarations change any number of times | cleanup, order and truth of evidence |
| `v_console` | `Console`, smaller; see section 6 | what a document says and the code does not do |

Why the bounds are enough. `HostApply` needs no bound on time: a transaction is finite
and the state between two transactions is a function of finitely many files and units,
so the state space is finite as it is and TLC explores unboundedly many transactions
one after the other. Of the four configurations of `lifecycle` one moves the health port and what only the
MCP unit renders, one the MCP port alone, one the health host alone; every edit between any two of them
occurs, with the change back and with workers that apply each other's declaration. The theorems hold for any configurations. `late` and `pre` are history variables that
the code does not read. In `CodexJobs` two callers are needed for a
cancellation and a status call that race, and for two cancellations; two mishaps for a
failure during the handling of a failure. In `AdmissionGuard` a cooldown of 3 with a lag
of 2 leaves room for an attempt that was dated before its probe; a step back of 3 puts a
date a whole cooldown into the future. In `DistributionInstall` two distributions are
needed for an upgrade and the downgrade to a release that is still there; three mishaps
let a run fail, its recovery die, and the next recovery die too.

In `account` both instances start as the predecessor's, so that imports, upgrades, removals and
rollbacks of imported instances all happen in one run; one client suffices since a client keeps no state
between operations and the account-level process is the second actor. Names of releases are symmetric.
`reboot` needs a request that is overtaken by another, a boot with checkpoints of the one before in it, and a declaration
that changes between two looks of a check: two requests, two boots and one edit; two instances, so that the
verdict combines looks at different times.
In `console` two contents make every second change a change back. A mutation, the thread that runs it and its process are one worker; two are what one
instance admits at a time plus the one that should have been refused. In `probes` each process runs one operation,
so that every pair of operations meets.

Deadlock is checked in all runs but `jobs`, `reboot`, `console`, `v_console` and `probes`: a job that
has ended and been cancelled, an interface whose mutations are used up, and processes that have each run
their operation really have no step left, and in `reboot` the bounds on requests and boots are reached.

### Fairness

* `HostApply`: weak fairness of the worker that holds the lock (every command it runs has
  a timeout, and qualification polls a bounded number of times). None for the operator,
  the guard, or anything that goes wrong.
* `CodexJobs`: the submitter, the worker's steps, the end of the grace period (the clock
  advances) and each caller's own steps; and somebody asks for the status again and again,
  without which the code has nobody to notice a dead worker. That the Codex process itself
  exits and that the declaration's binding holds from some time on are hypotheses of `JobEnds`
  and stand in the formula.
* `AdmissionGuard`: the timer fires, the guard's steps happen (HTTP and systemctl have
  timeouts), systemd runs a queued job, the clock ticks. Clients of the server are not fair.
* `DistributionInstall`: a run goes on until it ends, and the installer is run again by
  somebody. What goes wrong is bounded and not fair.
* `Account`, `Reboot`, `Console`, `InstanceProbes`: none. A procedure of the account goes on only if
  an operator resumes it; `RecoveryOpen` says that the resumption is always possible, not that it is tried.

## 4. Properties worth naming

* `AppliedRunsDeclared`: an apply that succeeds leaves each wanted service running from the
  very text that the declaration renders, and the tunnel from its profile, if it began with nothing stale. It relates processes to a declaration that other
  workers may have replaced.
* `OwnInstanceAccepted`, `UndoneForHealthHostOnly`: of all edits of a running instance two are not carried out, and
  the properties say which. The plan refuses one (`PortMoved`), the other is applied and rolled back (`HostMoved`), and the host this leaves
  is one on which every other declaration is accepted and applied.
* `FailedApplyUndone`, `NoOrphanedUnit`: a failed transaction leaves
  files, enablement and activity as it found them and no process without a unit file.
* `EnabledHasFile`: at no moment, not between two steps of a rollback, is a unit enabled
  whose file is absent, so a reboot never meets one.
* `ForeignSafe`: a file without this instance's marker is never replaced or deleted. The
  transaction checks what it removes again; what it overwrites it does not, and
  the model says so in `late`: a file that turns foreign after its last check is the exception.
* `WorkerVerdictKept`, `EndedJobIsStopped`, `CancelledIsStopped`, `JobEnds`: what the three
  unlocked parties of a job promise each other.
* `RestartsAreLimited`: `AdmissionGuard` implements `RestartLimiter` under deaths, failed
  writes, late restarts and a clock that is set back; `SaturationEnds`: cooldown
  suppression never prolongs itself.
* `CommandsSwitchAtOnce`: mapped to what each command would run, every step of the installer,
  its failures and its recoveries is a stutter but the one that replaces `current`.
* `ServedAreRetained`: no rollback removes a release that has ever been current.
* `JournalTracksDeclarations`: a pending upgrade's journal accounts for every declaration and for what is
  deployed, whoever else runs and however often it died; so the checks its resumption begins with never fail.
* `AppliedOnce`: what an upgrade has committed is not applied again by a resumption.
* `InstallationWhole`: without a pending journal the program is there with entry points and receipt, or gone
  with all of them, and nothing deployed is left from the moment it is renamed away.
* `RecoveryOpen`: the recovery of every journal is possible whenever the account lock is free. It fails as soon as
  one procedure may start over another's journal.
* `OriginalsKept`, `SettledOwnership`, `ToolkitNeeded`: an original is in place or in the backup, an instance
  without a pending import belongs to one manager wholly, and the toolkit stays while a restore may need it.
* `ReconciledWasServed`, `RebootNoticed`: with three unlocked writers of one checkpoint, a verdict names only what
  was declared in this boot and came up in it as declared, although a check takes five looks at an instance and
  others declare and apply between them; and a reboot that was asked for never looks as if none had been.
* `ReplacesWhatWasEdited`, `ShownNeverGoesBack`, `CreatesWhatWasPreviewed`, `RefusalIsReleased`: what the interface
  promises although its answers are late. `ReplacesWhatWasEdited` depends on the order of the reads: the
  summary, whose fingerprint guards the save, is read before the declaration that is edited, and that before the
  candidate's base. Only a declaration that came back to what the summary said lets others through.
* `PassedMeansReclaimed`, `LatestEvidenceWins`, `ValidEvidenceHolds`: see the comments in the modules.
* `EndConvergedUnlessTorn`, `RecoveryConverges`: a journal goes only in a complete state, and it goes.
  Both except a removal that was cut short, see section 6.

## 5. Proofs

All proofs are checked by tlapm. The assumptions are the named ones of the modules:
`ConfigsAreRecords`, `SentinelsAreNotTexts`, `NoneIsNoProcess`, `NoneIsNoDeclaration`, `HostApplyAssumption`, `CodexJobsAssumption`,
`AdmissionGuardAssumption`, `DistributionInstallAssumption`, `GithubAssumption`, `RebootAssumption`, `ConsoleAssumption`, and, of the modules
that `Account` composes, `RegistryAssumption`, `MaintAssumption`, `UpgradeAssumption`, `ImportAssumption`,
`ImportJournalAssumption` and `AccountAssumption`. They say that the constants are sets of model values of different kinds
and that bounds are natural numbers. TLC evaluates each of them in the runs.

| Theorem | Statement | Argument |
|---|---|---|
| `TypeCorrect` | `Spec => []TypeOK` of `HostApply` | `TypeInv` adds to `TypeOK` that a transaction's `want` is a declaration whenever it is active. The indexing of files by plan steps needs that plan steps are well-formed (`PlanStepsAreSteps`) |
| `ForeignFilesAreSafe` | `Spec => ForeignSafe` | `ForeignInv`: the files a transaction may still overwrite or remove were ours when it looked, unless listed in `late`; a removal becomes due only after the re-check, because of the order of the operations (`RemovalComesLast`, `DueRemovalIsChecked`). It is needed since `ForeignSafe` speaks of one step and the plan was made many steps before |
| `EnabledUnitsHaveFiles` | `Spec => []EnabledHasFile`, without the hazards `unclean` and `timeout` | `EnabledInv`, see below |
| `NothingIsOrphaned` | `Spec => []NoOrphanedUnit`, without `unclean`, `timeout` and `tick` | `RunningInv`, see below |
| `FailedAppliesAreUndone` | `Spec => FailedApplyUndone`, without `timeout`, `tick` and `tamper` | `UndoInv`, see below |
| `FailedAppliesAreRecoverable` | `Spec => []FailedApplyRecoverable`, without `unclean`, `timeout`, `record`, `tick` and `tamper` | `RecoverInv`, see below |
| `FirstAppliesAreRecoverable` | `Spec => []FirstApplyRecoverable`, without `kill` and `reboot`, and with `fault` only if neither `unclean` nor `tamper` | `FirstInv`, see below |
| `RemovalsAreComplete` | `Spec => RemovedLeavesNothing`, with no hazard but `fault` and `unknown` | `RemovalInv`, see below |
| `AppliesRunWhatIsDeclared` | `Spec => AppliedRunsDeclared` for any configurations, without `tick` and `tamper` | `ReadyInv`, see below |
| `OwnInstanceIsAccepted`, `AppliesFailForHealthHostOnly` | `Spec => []OwnInstanceAccepted` and `Spec => []UndoneForHealthHostOnly` for any configurations, with no hazard | `DeployedInv`, see below |
| `CancelledJobsAreStopped`, `EndedJobsAreStopped`, `WorkerVerdictsAreKept` | the three safety properties of the run `jobs`, for any callers | `JobInv`: what each program counter implies for the unit (a canceller past its stop has none), and, while systemd was truthful and in time, that a caller about to record `interrupted` faces a job with no worker that could still report |
| `GuardIsLimited` | `Spec => RestartsAreLimited` | `GuardInv`: the evidence is never older than the last attempt really is, and a run that will restart recorded its attempt in this run; each step of the guard is then a step of `RestartLimiter` or a stutter |
| `CommandsSwitch`, `ServedReleasesStay`, `InstallTyped` | the refinement `CommandsSwitchAtOnce`, `[]ServedAreRetained` and `[]TypeOK` of `DistributionInstall` | `InstallInv`: before the switch `current` is what the journal calls previous, and every entry point is linked when the switch comes; a journal whose rollback removes the candidate is of one that was never served; a release in place has all of its entry points. It follows that what the commands run is a function of `current` alone (`RunsOfCurrent`), so that only the step that replaces `current` is visible |
| `JournalsEndInCompleteStates` | `Spec => []EndConvergedUnlessTorn` of `DistributionInstall` | `ConvergeInv`: as long as no removal was cut short and the trap ignored nothing, what the journal calls previous is all there beside the traces the journal accounts for (`PreviousInv`); which traces a transaction has made at each step (`TransactionInv`), and which a recovery has cleared already (`RecoveryInv`) |
| `EvidenceInOrder` | `LatestEvidenceWins` of `InstanceProbes`, for any number of processes and accounts | `EvidenceInv`: only the holder of the operation lock is between taking it and writing (`OneOperation`), so no record has been written since what is about to be written was asked for (`AskedSinceLastRecord`) |
| `ValidEvidenceIsTrue` | `Spec => []ValidEvidenceHolds` of `InstanceProbes` | `TruthInv` strengthens `EvidenceInv` by what a credential may have become since it was asked for: whoever changes it holds the operation lock and has already cleared the record, or is a helper that outlived its operation (`exposed`) |
| `RebootTypeCorrect`, `RebootsAreNoticed`, `ReconciledIsTrue` | `[]TypeOK`, `[]RebootNoticed` and `[]ReconciledWasServed` of `Reboot` | `RebootInv`: what every checkpoint, the file's and those that requests and checks hold in memory, implies for the boot it was written in, and what a check under way has established with the looks it has taken. It has to speak of the copies since any of them may be written back over a later one |
| `AccountTypeCorrect`, `InstallationIsWhole`, `OriginalsAreKept`, `OwnershipIsSettled`, `ToolkitIsKept`, `JournalAccounts` | `[]TypeOK`, `[]InstallationWhole`, `[]OriginalsKept`, `[]SettledOwnership`, `[]ToolkitNeeded` and `[]JournalTracksDeclarations` of `Account`, for any number of instances and clients | `AccountInv`, see below |
| `NothingIsAppliedTwice` | `Spec => AppliedOnce` of `Account` | the same invariant: a phase that is committed stays so while its journal is there, and only a step of `apply` begins one |
| `PassedProbesReclaimed` | `Spec => []PassedMeansReclaimed` of `InstanceProbes` | `ProbesInv`: a command is gone from the moment a kill was answered (`CommandGone`), a cleanup that passed means an ended session, and the verdict of a stateful local server is not `passed` without one (`CleanupTrue`); verifications open only sessions of their own (`GithubLeavesProbes`) |
| `RefusalsAreReleased`, `SavesReplaceWhatWasEdited`, `ScreensDoNotGoBack`, `CreatedIsPreviewed` | `[]RefusalIsReleased`, `ReplacesWhatWasEdited`, `ShownNeverGoesBack` and `CreatesWhatWasPreviewed` of `Console`, for any number of workers, refreshes, edits and changes by others | `ConsoleInv`, see below; `ConsoleTypeCorrect` states its types |

Most of `HostApplyProofs` is about what a transaction leaves behind. A property of the host between two transactions is not inductive: a
step is right only because of the plan it belongs to, of the steps that came before it and of what a rollback has booked. `PlanInv`
therefore says what the steps still to come will find: what is enabled or launched has its file by then and keeps it, what is
removed is disabled by then, no file is written twice, the state directory precedes its marker, the MCP service runs before the tunnel that requires it.
It holds whatever goes wrong, and rests on the order of the operations, of the units and of the bundle (`OpRanks`, `Positions`,
`DueEnable`, `DueLaunch`, `DueRemoval`). Three invariants add the bookings: `EnabledInv` and `RunningInv`, that whatever is enabled or
runs on a file the transaction created is booked and is stopped before the file goes; and `UndoInv`, that the host with its bookings undone is the host the
transaction started from, file by file (`Restored`) and, for the state directory, with the runtime files it had. `RecoverInv` adds what a rollback cannot put back: the runtime files that services write into the state directory at any time. A
directory that a failed apply created goes again because no service with a log outlives the files it was started from (`DirHolds`, `FreshDirectoryGoes`);
one that was there before has its marker back. `RemovalInv` joins all of these with an account of the guard's units over many transactions (`GuardsListed`): outside a
transaction they are installed only where the evidence lists them, so an apply that drops them finds them stale. Each of these theorems excludes the hazards for which the property is
false (TLC finds a counterexample as soon as one of them is added to a run of that property), and no other: an undo step that raises, a job that completes after systemctl gave up on it (its effect is not booked), the
guard, which writes and restarts without a lock, for the comparison of files, somebody else's changes, for the marker, the last journal write of a removal, and, for the account of the guard's units, whatever
parts the units from the evidence. The one exception is `tamper` in `FailedAppliesAreRecoverable`: TLC finds no counterexample with it, the proof needs `UndoInv`, which it breaks. Reboots, dead workers and
journals that cannot be written are among the hazards the other theorems cover and the runs `faults` and `intrude` do not combine.

`FirstApplyRecoverable` is the one property of a failed apply that holds although the guard acts, systemctl times out and
undo steps raise. The guard writes into the state directory, and makes it anew, without a lock; but nothing of it runs before a transaction has
made the directory and its marker, and from then on the instance is settled: if that transaction fails, its journal proves
that the directory is ours. `FirstInv` says that the instance is `Settled`, or the transaction has made both (`Made`), or has not yet and nothing
runs and nothing is in the directory (`Making`), or undoes what it had made by then (`Unmaking`), or removes what was never there
(`Vain`), or nothing is under way and neither is there (`Untouched`). The disjunction has to be proved as a whole, since each step leads from one
to another. TLC shows the hazards excluded to be necessary (a counterexample with the worker's death, with a reboot and an undo step that
raises, and with an operation and an undo step that raise) but two: a reboot alone and `tamper` with `fault`, where it finds none
and `FirstInv` is not inductive.

What an apply achieves is the subject of two further invariants, which describe the middle of a transaction. `ReadyInv` says that in a
transaction that began with nothing stale (`Fresh`) everything wanted is on the host already or a step that makes it so is still to come (`Readying`):
each file is as rendered or to be written, each loaded definition is the file's or a reload follows, each wanted service runs from its
rendering or is to be launched after that reload. Failures do not disturb it, since they end the transaction, so `AppliesRunWhatIsDeclared` needs to exclude only who else changes
the host: the guard, with which TLC finds a counterexample, and `tamper`, with which it finds none on two configurations but the invariant is not inductive. That the tunnel has the declared profile follows from two things at the end only: it was started with its unit and its profile of one configuration (`OneSource`), and qualification
found it listening where it should (`QualifiedRuns`). `DeployedInv` is about the opposite direction and about nothing going wrong. What is not wanted is gone or still to be taken
away (`Clearing`), and between transactions the host is what the last applied declaration says (`AsApplied`), after a
rollback too, which may leave the guard's timer stopped. So the planner's classification of listeners accepts the instance unless
`PortMoved` (`OwnIsAccepted`), each check finds what it looks for (`ChecksSucceed`), the steps end on a host the final plan has nothing to do on
(`QualifiedIsDeployed`, `DeployedIsFinal`) or on one where only the tunnel's health host is another (`UnqualifiedIsMoved`), and then
the rollback, by `UndoInv` and by what it leaves running (`Undoing`), comes back to what was applied (`UndoneIsApplied`). The two exceptions are necessary: without
either of them TLC finds a counterexample with the configurations of the run `lifecycle`. Once an operation may raise, both properties are false, for the stale processes of section 6.

`ConsoleInv` has one part per property and three orders that they share. `ReleaseInv`: what is refused waits for a thread that
will still report, or for the refresh that resolves an uncertain outcome. `OrderInv`: a summary is never newer than the declaration read after it, nor that than the candidate's base, in what is being
read, has been read, is shown, edited, previewed or saved; so if the registry still holds the summary's, all four are one. `ScreenInv`: there is one answer of the current generation, and it read its summary after what is shown was read.
`PreviewInv`: an answer to a request for a candidate that the wizard would still accept finds nothing previewed, and every review of the same edits
that is still to arrive was asked for earlier; so a late review is dropped. They hold between any two turns of the event loop, with answers
in any order.

`AccountInv` is a conjunction of one part per question, and each part is needed for another. `JobInv` says which procedure
may run while which journal is pending: a journal is of the procedure that holds the account lock, or of one that died.
`ClientInv` says what an operator's process inside the registry or instance lock may rely on, though a procedure may start
while it is there: no journal that refuses it has come, because whoever would write one first waits for it. `JournalInv`,
`InstallInv`, `ImportInv` and `OwnershipInv` say what directories, backups and deployments look like at each phase of each journal;
`UpgradeInv` what a resumption meets. None of the theorems follows from its own part: `OriginalsKept`, for example, rests on the gates
that keep an apply away from an instance under import, and these on the locks. The proof has one lemma for each actor (`ClientsKeepInv`,
`UpgradeKeepsInv`, `MaintKeepsInv`, `ImportKeepsInv`, and `ReleaseKeepsInv` for one that dies or gives up).

All of these invariants (`TypeInv`, `ForeignInv`, `PlanInv`, `EnabledInv`, `RunningInv`, `UndoInv`, `RecoverInv`, `RemovalInv`, `ReadyInv`, `JobInv`, `GuardInv`, `InstallInv`, `ConvergeInv`, `EvidenceInv`, `TruthInv`, `ProbesInv`,
`RebootInv`, `AccountInv`, `FirstInv`, `ConsoleInv`, `DeployedInv`) are inductive,
and TLC confirms them as invariants of the runs' instances. The proofs depend on the code's guards: with
the mutated definition of `Removable` or `PreparedNames` in its place, for example, the installer's
proofs no longer go through.

Only model-checked: liveness (`ApplyConverges`, `TransactionEnds`, `JobEnds`,
`SaturationEnds`, `RecoveryConverges`) and `RecoveryOpen`, which uses ENABLED: these are out of the prover's reach.
Every other property of a passing run is stated by a theorem.

## 6. Findings and known limits

The run that is expected to find a violation:

* `v_console`: `_create_worker` handles a process that outlives its 180 seconds as a failure, since it
  catches the base class `TuiError`. The instance is free again while its creation goes on, no outcome is
  reported as unknown, and another mutation may start (`specs/pm3-operator-ux.md:210-213`).

Disagreements with documents that the models contain and no run claims (each is reached by the actions named):

* A transaction restarts the MCP service with a new unit file and fails later; the rollback restores
  the file but not the process (`RollbackFiles`). Revert the declaration: the plan sees only files that match, does
  nothing, and reports success with the old process (`host_apply.py:1768`; `specs/domain-model.md:38`).
  `AppliedRunsDeclared` is therefore about applies that began with nothing stale (`pre.fresh`).
* The guard observes saturation, a stop transaction stops the service, the guard's restart starts it again
  (`GuardObserves`, `GuardRestarts`; `runtime.py:370`; `specs/p11-admission-recovery.md:73-81`).
* One failing `systemctl show` after the grace period makes `status` record a running job as interrupted; `cancel`
  then refuses to stop it (`Show`; `codex_jobs.py:567`; `specs/p10-codex-jobs.md:219-224`). `misled` marks those behaviours.
* `on_exit` recovers under `set +e` (`Ignored`; `install.sh:1514`; `specs/standalone-distribution.md:92-94`). A removal
  that fails, or a receipt that cannot be written, does not stop the recovery, and the journal is removed without
  convergence. `torn` marks those behaviours.
* An apply of an upgrade that raises after `applied.json` was written is undone, its evidence stays, and the resumed
  upgrade takes it for committed (`ApplyFails` with the fault `record`; `specs/standalone-distribution.md:402-403`).
  It finds the deployment not converged and stops; the instance has to be applied by hand.

Behaviour the models show, with no document that excludes it (or only in part):

* When `mcp.port` changes while the tunnel runs, the tunnel's unit differs, its own listener
  on the unchanged health endpoint counts as a conflict, and apply and stop are refused until
  the tunnel is stopped by hand (`planning.py:650-665`). `PortMoved` is the exception in `OwnInstanceAccepted` and `ApplyConverges`.
* A change of `tunnel.health_host` rewrites the profile and restarts nothing, so qualification fails and it is rolled back
  every time: `HostMoved`, the exception in `UndoneForHealthHostOnly` and `ApplyConverges`.
* A change of `tunnel.binary` or of the environment file changes no generated file: the plan
  is empty and the tunnel keeps the old binary; changed while a transaction is under way, it is what
  that transaction's tunnel starts with. These two are not in the model, and no property is about them.
* A worker killed between the creation of the state directory and its owner marker leaves a
  directory that is foreign from then on: the journal says running, not failed.
* If the last journal write fails, `applied.json` is that of a transaction then marked failed
  and rolled back, without the backups that are discarded by then (`FinishRaises`, `WriteApplied` with the fault `record`): the evidence
  of the last success is lost, and no property says otherwise. After a removal that rollback makes the state directory anew, to
  put the marker into it, and then misses the marker's backup (`RollbackFilesRaises`; `host_apply.py:1768-1773`): a directory without marker stays.
  If a guard writes its evidence when a removal has just deleted the state
  directory, the directory comes back without its marker. `RemovedLeavesNothing` is
  therefore checked without those events, and `FailedApplyRecoverable` without them
  and without systemctl timeouts. A worker that dies, or a reboot, after guard units were written that no evidence lists
  leaves them to a removal that no longer knows them, if the operator drops the guard in between; `RemovedLeavesNothing` is therefore
  checked and proved without deaths too. `NoOrphanedUnit` is false with undo steps that raise, systemctl timeouts or the
  guard, and proved for everything else.
* A guard run in flight can restart a service after the qualification and final plan of a stop.
* `systemd-run` that times out with its request queued: the job is recorded failed and its
  worker runs. A status call between a cancellation's stop and its write records interrupted,
  which cancelled then replaces. A worker killed between the removal of `last-message.txt` and
  the write of `result.json` loses the last message.
* An interrupted `rm -rf` of the candidate (`install.sh:1282`) leaves a directory that
  `release_validate` refuses. Every later run dies on it, with the journal kept: recovery is safe
  but never converges without help. `torn` in `DistributionInstall` marks the behaviours
  in which this, or a failure ignored in the trap, has happened.

* A check of the checkpoint that has read it before a request persists writes the older one back: the reboot is
  noticed, and verified against an earlier request's instances. `reconciled` is also said of an instance whose declaration
  was edited but not applied before the reboot, so that its older units came up (the check compares declarations,
  `reboot.py:384`, and then asks whether units are active, `reboot.py:389`), and when another declaration is applied
  between these two looks: `drifted` in `ReconciledWasServed` marks both. A crash between the write of a checkpoint and the
  bridge's answer leaves it at `requesting`.
* A crash between the creation of an import's backup directory and its journal leaves a directory that every later
  import of the instance refuses (`MakeBackup`).
* In the terminal interface: a process that cannot be launched leaves its instance busy until the interface is
  restarted (`LaunchFails`); a refresh begun before an uncertain process ended releases the instance with what it
  read then; of two mutations that are both unknown the first to be resolved releases the other. The
  fingerprint of an access edit is the screen's when the dialogue closes, so edits that were made of an older list
  are saved over a newer one (`EditAccess`). A declaration that changes and changes back has the same fingerprint:
  when a stop and a start, say, fall around the read of the declaration or of the candidate, the edits of the one or
  the base of the other are saved over what was not edited (`CameBackTo` in `ReplacesWhatWasEdited`; TLC finds it at
  once without that clause). A candidate whose thread has passed its cancellation check is saved although Cancel was pressed.
* In the session probe: the fresh session's DELETE may fail unnoticed; a command whose start was not answered runs
  until its own 30 seconds are over. In GitHub access: a `gh` whose helper is killed after 130 seconds goes on without the
  operation lock (`LateLogin`, `exposed`); a crash between the creation of the profile directory and its marker
  makes it foreign for ever (`EnsureProfile`).

## 7. Not modelled

The components marked `not_modelled` in `PROJECT.json`, for the reasons given there. In the
modelled ones: two guard processes at once and forward steps of the clock; evidence lost with
a removed instance; power loss between a rename and the sync of its directory; several
instances that compete for ports; several instances in the terminal interface and its foreground
screens; the age of a GitHub record (five minutes); an import reviewed for several instances at once; contents of messages, prompts, logs and reports.

## 8. Plan

Done, in this order: `InstanceHost`, `Planner`, `HostApply` with proofs; `CodexJobs`
with proofs; `RestartLimiter` and `AdmissionGuard` with the refinement proved; `CommandSwitch`
and `DistributionInstall` with the refinement proved; `RegistryGates` with `InstanceUpgrade`,
`Maintenance` and `LegacyImport` composed in `Account`; `Reboot`; `Wizard` and `Console`;
`SessionContinuity` and `GithubAccess` composed in `InstanceProbes`, with proofs. Proofs were then added for `Reboot`,
for `Account`, for `ValidEvidenceHolds`, for enablement, processes, rollback, evidence, recovery and removal of `HostApply`,
for the complete states of `DistributionInstall`, for a first apply beside the guard, for `Console`, and for what applies achieve.

Left: the three hazards no property covers and the parts of section 7. Of the proofs: `FirstApplyRecoverable` with a reboot alone, and with `tamper`
and `fault`, where TLC finds no counterexample; and liveness and `RecoveryOpen`, which stay with TLC.

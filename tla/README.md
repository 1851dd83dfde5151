# FYRwall in TLA+

A verification development of FYRwall, a Go program that manages the host
firewalls of a fleet of Linux machines. It holds TLA+ modules translated from
the source, TLC configurations that check them on small instances, and TLAPS
proofs of the results that matter most, for every value of the constants. Paths
below are relative to the repository; `PROJECT.json` maps every definition to
its lines.

## 1. The system

```
 browser / CLI ---> fyrwall server (unprivileged)          SQLite (one connection)
                     |  api, auth, sessions, health  <---->  users, audit, agents,
                     |  Manager #1 (firewall/manager.go)     agent_commands, rollouts
                     |        | unix socket, typed operations
                     v        v
                 fyrwall agent (root) on every host
                     |  socket server, RunRemoteSync (poll / result loop)
                     |  Manager #2 ---> UFW or iptables backend ---> kernel
                     +--> identity file (sequence, pending result, certificate)
```

The server queues commands for an agent in a table; the agent dials out, long
polls for a command, dispatches it to its manager and posts the result. A
command may also come from the server on the same host through the local socket.

### Inventory

| Component | State | Operations | Talks to |
|---|---|---|---|
| Fleet commands: `database/fleet.go`, `api/fleet.go`, `agent/sync.go` | `agent_commands` rows, `agents.sequence`; in the agent its sequence and pending result, in memory and in the identity file | queue, report state, deliver or requeue, complete; poll, dispatch, save, post | HTTP between agent and server, which both may abandon |
| Rollouts: `database/fleet.go` | `fleet_rollouts`, `fleet_rollout_targets` | create, queue a batch, advance on a result | called by the result handlers, without a transaction |
| Agent lifecycle: `fleet.go`, `sync.go`, `pki/agentca.go` | enrollment tokens, credential hash, current and previous certificate, state hash, policy revision | enroll, authenticate, rotate, retire, revoke, report state (drift) | HTTP, identity file |
| Firewall manager: `firewall/manager.go` with `ufw/`, `iptables/` and `system/exec` | ownership, last snapshot, one mutex; the host's rules, in the kernel and in UFW's files | ApplyTransaction, RestoreSnapshot, RestoreLast, Reload, Restart, CreateSnapshot, Verify, Status | programs run with a timeout; concurrent callers from socket and remote loop |
| Firewall policy: `validate.go`, `validation.go`, `conflicts.go`, `ownership.go`, `detectors/`, the parsers and command lines of `ufw/` and `iptables/` | the ownership found at start; the host's rules with their fields | detect, list, validate, analyze, translate | called by the manager |
| Control plane: `api/server.go`, `setup.go`, `middleware.go`, `auth/`, `database/users.go` | users, sessions, rate limiter, settings in memory and on disk | setup, login, logout, users, settings, the gates in front of every handler | browser, SQLite, configuration store |
| Configuration: `config/`, `secureconfig/`, `app/setup.go`, `api/server.go` | `config.yaml`, `config.key`, `config.yaml.imported` and the server's copy | load, migrate, save, the wizard, the integrity check, edits by hand | the file system, under two users |
| Start: `app/app.go`, `runtime.go`, `integrity/`, `pki/`, `database/database.go`, `schema.go`, `health/` | schema versions, CA files, integrity records, socket, health, notifications | migrate, verify, make the CA, detect, listen, tick, refresh | systemd, installer, server and agent with each other |
| Stacked manager: `agent/client.go` | a second manager in the server | the same operations, each a socket request with a 65 s deadline | the agent's manager |
| Logging, update, extensions, diagnostics, user interfaces | files; none | write and rotate; download and copy; probe; present | the file system |

All paths are below `src/internal/`.

### What is hard

* **Requests without a transaction around them.** A client that gives up does
  not stop its handler; an answer is lost after the commit; a result is posted
  again while its first handler still runs; a handler writes a row back that has
  changed since it was read.
* **A loop that is restarted.** The agent remembers one result; the write of its
  identity is asynchronous to the server's row, and its errors are ignored.
* **Order kept in text.** Commands are handed out by the text of `created_at`, which
  a clock stepped back, or RFC 3339 without trailing zeros, sorts otherwise than
  the commands were queued.
* **Statements that interleave.** Result handlers of different agents interleave
  between any two SQL statements of `advanceRollout` and `queueRolloutBatch`.
* **One lock, several callers, an outside world.** The manager serialises
  transactions and restores, not `Reload` and `Restart`; other programs change
  the same firewall; a context expires in the middle, and the rollback runs
  under that same context.
* **A change of many commands.** Any of them, the snapshot, the read-back and
  the rollback may fail, with or without having done its work.
* **Rules in three languages.** A rule is judged in the program's own terms,
  written as a command line and read back from a listing; each step loses
  something, and the listing may skip the chains that do the work.
* **Sessions and settings held in copies.** A request works on its copy of the
  session and on the one shared configuration, and stores both when it is done;
  the environment is put over the settings at each start.
* **Files written in place by two users.** Server and root's programs create the
  same key, configuration, CA and record, and may be killed half way. The agent is
  root without root's right to read the files of others.
* **A file that is not the process.** The program's hash is taken of the file at its
  path, which may be replaced between the start and the check.

### What makes each component correct

* Fleet commands: run once unless a crash lost every trace; outcomes true and
  final; order, where queue and timestamps agree; every command resolved, unless
  its result, or that of one before it, is too large to be accepted.
* Rollouts: honest final states; batch size and failure budget; each target
  once; every rollout ends.
* Manager: a transaction is all or nothing, the last good state is the one
  restored, every call returns.
* Agent lifecycle: a token admits one agent; a rotation does not lock the agent
  out; revoked stays revoked.
* Policy: no accepted change takes away what a listed rule lets in; shadows are
  reported as the packets bear them out; a rule does what it says; writes follow
  the owner.
* Control plane: an effect has an authority; logout and setup are final; a token is
  one user's; the attempts of a key are bounded; accepted settings are the stored
  ones.
* Configuration: what is encrypted can be opened, by the server too, and no
  program but the wizard falls back to the defaults and stores them.
* Start: a complete schema, one CA, an agent that is the one recorded; the server
  comes up and learns what happens to its agent.

Where the code keeps less than that, the property says so in its condition, and
the unconditional statement is among those TLC refutes (section 4).

`PROJECT.json` lists the hazards at their lines, with the properties that cover
them, or why none does.

## 2. Plan

| Order | Module | What it adds | State |
|---|---|---|---|
| 1 | `CommandLedger`, `FleetSync`, `FleetSyncProofs` | delivery of commands, refinement, proofs | done |
| 2 | `FirewallManager`, `FirewallManagerProofs` | the transaction pipeline, proofs | done |
| 3 | `FleetRollout`, `FleetRolloutProofs` | rollouts statement by statement, proofs | done |
| 4 | `AgentLifecycle`, `AgentLifecycleProofs` | tokens, enrollment with lost answers, rotation, revocation, drift, proofs | done |
| 5 | `FirewallPolicy`, `FirewallPolicyProofs` | detection, validation, conflict analysis, translation, against the packets, proofs | done |
| 6 | `ControlPlane`, `ControlPlaneProofs` | sessions, gates, setup, users, limiter, settings, proofs | done |
| 7 | `ConfigStore`, `ConfigStoreProofs` | key, migration and configuration under several programs and crashes, proofs | done |
| 8 | `Boot`, `BootProofs` | start of server and agent, migrations, integrity, CA, ownership over the socket, proofs | done |

Every safety property that a run checks is also a theorem. What could still be
added: two instances of `FirewallManager` with the socket between them, and an
abstract specification of a rollout.

Composition. `FleetSync` INSTANCEs `CommandLedger`. The other modules meet at
stated assumptions: `FleetRollout` takes from `FleetSync` that a command runs once
and its result is posted until accepted; `AgentLifecycle` answers a recorded
report with any operation, as `FleetSync` delivers them; `FirewallPolicy` applies
what `FirewallManager` makes atomic; `Boot` takes the ownership `FirewallPolicy`
computes and the configuration `ConfigStore` loads; `ControlPlane` takes an apply
as one effect. Runs stay small; every bound is a constant.

## 3. Modules

### `CommandLedger`: what the fleet promises
A command is open until it is resolved with an outcome of a run that took place;
it runs once, and once more for every *lapse*, that is, after the agent lost
every trace of a run; a resolved command that never lapsed keeps its outcome.

### `FleetSync`: how the code keeps it
`state`, `stamp`, `place`, `overdue` and `srvSeq` are the columns of
`agent_commands` and `agents`: `place` is the order of the INSERTs, and `stamp` the
text of `created_at`, which may sort anywhere and orders the delivery (`MaxStamp`
bounds how many texts are told apart); `req` holds every open HTTP request with its
place in the handler; `pc`, `mem`, `disk`, `cur`, `conn` are the loop of
`RunRemoteSync`, its identity in memory and on disk, the command in hand and the
request it waits for.

| Action | Code |
|---|---|
| `QueueCommand`, `NextCommand`, `CompleteCommand` | the functions of `database/fleet.go` of these names, one statement or transaction each |
| `UpdateState`, `RejectStale`, `NothingQueued`, `Deadline`, `ClientGone` | `handleAgentPoll`: report, 409, 400 ms tick, 204 after 20 s, context done |
| `RejectResult` | `bodyLimit` and the decoder refuse a body over 1 MiB |
| `Poll`, `PostResult`, `GiveUp`, `Dispatch`, `SaveResult` | the branches of the loop, in its order |
| `Crash`, `Restart` | the process, and systemd's `Restart=on-failure` |

A request that the loop gave up stays in `req` and its handler may still commit;
that is what produces commands handed to nobody and duplicate results. The
`UPDATE` of `CompleteCommand` is unconditional, as in the code. The loop's
certificate rotation is left to `AgentLifecycle`; the content of the report and
of the commands is abstracted, as is the wait before a retry.

`execs`, `forgot`, `produced` and `strayed` are history variables. A result of a
command in `Oversize` is refused whenever it is posted.

### `FirewallManager`: the transaction pipeline
`conf` are the rules in UFW's files, `kern` those in the kernel, `active` whether
UFW is enabled; `mu`, `lastSnapshot`, `writable`, `backend` are the manager;
each caller has a frame (`pc`, `prog`, `step`, `snap`, `expect`, `expired`).
`ApplyTransaction`, `Gate`, `Lock`, `Check`/`Refuse`, `Capture`, `RunCommand`/
`FailCommand`, `ReadBack`, `Verify`/`VerifyFails`, `Rollback` are the steps of
`Manager.ApplyTransaction`; `RestoreSnapshot`, `RestoreLast` and `Replay` the two
restores; `Reload`, `Disable`, `Enable` take no lock, as in the code. `Expire` is
the 60 s context of `handleConn`; with it every later command fails at once, the
restore's too. A failing command may have done its work. `Outside` is another
program, `Crash` the agent's death: locks and snapshots are gone, rules stay.

The effect of the `ufw` and `iptables` programs on the rules is external, taken
from how the backends call them: UFW changes files and, when enabled, the
kernel; `iptables-restore` replaces the kernel's rules only. Rules are model
values: the two address families are one, and deletion by number and the text
formats are left out (rules with fields are `FirewallPolicy`'s). In the agent
the ownership is set once, before the first call.

### `FleetRollout`: staged rollouts
`rollout`, `batch`, `maxFail`, `counts` are the row of `fleet_rollouts`, `target`
and `link` those of `fleet_rollout_targets`; `owner` the commands queued, in the
order of their INSERTs. Each handler has a frame with the locals of `advanceRollout`
and `queueRolloutBatch` and performs one SQL statement per step; the ids of a batch,
which the code reads in order, are a set `todo` whose least is the next (`NextOf`).
An agent runs its command once and posts the result until an answer is seen
(`CompleteCommand`, `GiveUp`): this is what `FleetSync` establishes as long as the
agent does not crash with an unsaved result. An error in `advanceRollout` is dropped
and the agent told that all is well (`StatementFails`).

### `AgentLifecycle`: credentials and reports
`token` and `row` are the tables `enrollment_tokens` and `agents`; `req` holds the
open requests with what their handlers have read so far (`hadHash`, `hadRev`,
`hadCert`); `pc`, `mem`, `disk`, `conn` are the agent's loop. `Enroll` and `Certify`
are the statements of `handleAgentEnroll`; `Authenticate`, `CertificateMatches`,
`Retire` those of `authenticateAgent`; `UpdateState` and `Notify` the report with
its drift, in which the state's hash is another at every reading, because what is
hashed holds the time and fresh rule ids (`SameHash`); `ReadCurrent` and
`RotateAgentCertificate` the rotation. `HandlerFails` stops a handler before any
statement, `RetireFails` is the one error that is ignored; `GiveUp`, `Crash` and
`SaveIdentity`, which may fail, are the agent's. Certificates are numbers; one that
expires while its agent is offline is left out. `missed` is the set of certificates
that were stored for the agent since it got its own, whose answers it has not used.
`trouble` records what else a property has to excuse: a handler that overwrote a row
(`overwrite`) and an identity that could not be written (`unsaved`).

### `FirewallPolicy`: rules and packets
`Start` detects managers and backend and fixes `backend` and `writes`; `Transact`
judges a transaction: `ValidateTx`, the rules listed from the host,
`AnalyzeConflicts` with each action. `Command` carries out one action on `host`,
`Rollback` takes all back when a command refuses, `Commit` ends the loop. A rule is
the record of `models.go`, with the state of a connection, and a rule of the host
has its chain. `Listed` is what the code lists: with `ufw` the rules in UFW's
chains, with `iptables` those in the built-in chains, so that the rules of a UFW
host are skipped there (`Shown`). What a column cannot hold is lost or misread as in
the code (`ParseStatusNumbered`, `ParseSave`): a list of ports is read as port 0,
and a range is written with a colon and read back with a dash (`Coloned`, `Dashed`).
`Normal`, `Saved` and `UFWPut` are the tools' own: a stored address is masked,
`0.0.0.0/0` is none, and `ufw` gives a rule for the same traffic its new action in
place. `Matches` is the reference: the packets (`Packet`, both ends of one family) a
rule speaks of. Four addresses of IPv4 with blocks of two bits and two of IPv6 stand
for all, ports 0..8 for 0..65535. The properties compare the code's verdicts on
fields with `Matches`, which no code uses.

### `ControlPlane`: who may do what, when it is done
A request takes a copy of its session (`Arrive`, scs's load), is admitted by the
gates, performs its handler in the steps between which others run, and `Reply`
commits the copy. `Allow` is the limiter with its collection of idle buckets; its
key is the request's own choice among `Keys`, because `RealIP` takes it from a
header. Besides:
`Setup...` the first-run setup, `Login...` the login with its renewed token,
`Put...` the settings page, which changes the running settings field by field,
validates, encodes and saves, and leaves the fields changed when one of these
fails (`PutFails`). `Init` and `Restart` put one of `Overrides`, the environment, over
the settings. `forged` marks a request another site made. `Asks` are the
requests a browser may make, with any body a decoder accepts (`Body`).

### `ConfigStore`: one configuration, several programs
`cfg`, `keyfile`, `imported` are the three files with their owners; each slot of
`job` is a program or handler at a step of `Load`, `secureconfig.Load`, `Save`,
`WriteConfigYAML` or the doctor's `checkConfigStore`. The key's creation is two
steps, truncation and write; every other replacement is a rename. Kinds of job
are the server, its handlers `put` and `diagnose`, the agent (which does not
migrate), root's commands, the wizard (`setup`) and the `doctor`. `Edit` is an
administrator or the installer who puts a plaintext file in place. `Owns` says who
reads what: `root` every file, `fyrwall` its own and those of its group, and the
`agent`, which its unit denies CAP_DAC_OVERRIDE, makes files as root and cannot read
a key of `fyrwall`. `log.wizard` notes that the wizard dropped what it does not know. A
configuration is two numbers: the fields wizard and page know, and the rest.

### `Boot`: coming up
`proc` holds how far server and agent have come in `RunServer` and `RunAgent`.
`OpenDB`, `RunMigrations`, `Verify`/`HostKey`/`Record`, `Capabilities`, `NewCA`/
`WriteCert`/`WriteKey`, `BindListener` are the server's steps, `DetectBackend` and
`Listen` the agent's; `MigrateByHand` is `fyrwall db migrate`. `Start` is systemd,
`Kill` a crash at any step, also in the middle of a file (`Torn`). Programs are
numbered by release; a `Damaged` one has no other's hash. `HostKey` and `Verify`
hash the file that is at the program's path at that moment, and keep it in `check`,
with whether it is another than the one that runs (`swapped`). `Tick` is the 10 s
ticker, `Refresh` a `GetCapabilities` on behalf of a page. `Upgrade`, `Damage`,
`ChangeHost` are the installer, a changed file and another firewall manager.

## 4. Runs

| Run | Instance | Shows |
|---|---|---|
| `FleetSync` | 2 commands with either of 2 texts of `created_at`, 2 concurrent requests, 2 faults, 1 crash, one command with an oversize result | types, `RunsOncePerLapse`, `OutcomeWasProduced`, `ResultIsHeld`, `OutcomeIsFinal`, `RunsInOrder`, and the refinement `KeepsLedger` |
| `FleetSyncLive` | 2 commands, one with an oversize result, in either order, 1 fault, 1 crash, fair | `EveryCommandResolved`, `PendingIsDelivered` |
| `FirewallManager` | 2 callers, 2 rules, 2 transactions, both backends, 2 calls, 1 fault, 1 disturbance, fair | types, `AllOrNothing`, `LastGood`, `CallsReturn` |
| `FleetRollout` | 3 targets, batches asked 0 and 2, 2 handlers, 1 trouble | `VerdictIsHonest` and the order for any overlap; the rest of `BatchesInOrder`, `CountsSettle`, `EndIsFinal` without overlap |
| `FleetRolloutLive` | 2 targets, 2 troubles, fair | `RolloutEnds` |
| `AgentLifecycle` | 2 tokens, 2 concurrent requests, 4 certificates, fault budget 2 | `OnlyTheAdmitted`, `NotLockedOut` |
| `FirewallPolicy` | every environment, both backends, 8 hosts (rules of UFW, of the built-in chains, of both), the transactions of `MCTransactions`, 2 in a row | `NoLockout`, `ShadowsExact`, `EffectAsAsked`, `WritesFollowOwner` |
| `FirewallPolicyInversion` | the same | `BlockStaysBlock` is violated |
| `ControlPlane` | 2 browsers, 2 keys of the limiter, 2 requests at a time, 4 in all, 3 names, 3 ticks, buckets dropped after 2, with and without overrides | `LogoutIsFinal`, `EffectsAreAuthorized`, `SetupIsOver`, `AttemptsBounded`, `SettingsAreKept`, `TokenOneUser` |
| `ConfigStore` | 2 programs at a time, 4 jobs, 1 kill, server with and without overrides | `SealedIsOpenable`, `ServerKeepsAccess`, `RestIsKept` |
| `Boot` | 2 migrations, 1 crash, 1 change, fair | `SchemaComplete`, `AgentUnchanged`, `OneCA`, `ServerComesUp`, `ServerLearns` |
| `BootUpgrade` | the same, without fairness | `UpgradeIsSafe` is violated |

In the modules without a listed `TypeOK` it is the first conjunct of
`OnlyTheAdmitted`, `NoLockout`, `EffectsAreAuthorized`, `SealedIsOpenable` and
`SchemaComplete`. A property that joins several named parts is checked as their
conjunction.

**Why the bounds are enough.** Two commands are what order, requeueing and blocking
need, and two texts of `created_at` sort them as queued, the other way round, or
alike; two requests are one awaited and one abandoned, and a third would repeat the
second. The sequence saturates at `MaxSeq`, where a report is accepted as by
`sequence<=?`. Two callers are a holder of the lock and someone in its way; the
second transaction deletes and adds, so that a failure can strike in between; one
fault and one disturbance place either at every step. Three targets with batches of
two are a full and a partial batch; two handlers are what a race needs. In
`AgentLifecycle` four units of work are an enrollment and three more certificates,
as many as it takes for an abandoned rotation to be stored late and be followed by
another, and a budget of two is one crash or failing statement, or two lost
requests. The rules of `FirewallPolicy` vary a few fields at a time around one rule,
with addresses and ports on both sides of every boundary; two transactions in a row
give a listing that an earlier one produced; the hosts have rules that each backend
lists and that it skips. In `ControlPlane` three ticks are one more than the age at
which a bucket is dropped, and four requests are a setup or login, the requests that
race, and one that sees the outcome. In `ConfigStore` four jobs are two that
interfere, a server that stores and one that looks. In `Boot` two migrations suffice
for order, and one crash and one change can each fall at every step, the change also
between a program's start and the hash of its file.

Only `FleetSync` and `FleetSyncLive` check deadlock: a poll is always possible.
The others set `CHECK_DEADLOCK FALSE`: when the bounded calls, requests or jobs
are used up, or the rollout is over, nothing is left to do.

### Findings

1. **An upgrade disables the agent** (`app/runtime.go:128`). The program's hash is
   recorded when there is no record, and not again; `install.sh` replaces the program
   and keeps the record. From then on `integrity.Verify` reports tampering at each
   start, and the agent ends. `BootUpgrade` shows it.
2. **An outbound reject is installed as allow** (`ufw.go:207`). For the directions
   out and forward the verb of a `reject`, and of a `log`, falls to `allow`.
   `FirewallPolicyInversion` shows it.

### Statements TLC refutes

These are definitions of the modules that no run lists. Name one in the `.cfg` of its
module as an invariant, those of `FleetSync` and `FirewallManager` as a property,
with the constants given, and TLC prints the trace.

| Statement | Constants of the run, but | What happens | Against |
|---|---|---|---|
| `FleetSync.EveryCommandResolved` without `\/ []Stuck` | `FleetSyncLive` | a result over 1 MiB is answered with 400 for ever (`server.go:90`); the loop posts it before every poll and never polls again, so that no later command is delivered | `README.md:482` |
| `FleetSync.RunsAsQueued` | | the texts of `created_at` sort otherwise than the commands were queued (`database/fleet.go:262`) | `database/fleet.go:275` |
| `FirewallManager.FailureIsUndoneOrReported` | `MaxFaults = 2` | a failing `iptables-save` gives an empty snapshot without an error (`ufw.go:106`); restoring it succeeds and does nothing | `README.md:38` |
| `FirewallManager.RollbackIsComplete` | | UFW's rule files keep what was rolled back in the kernel (`ufw.go:262`) | `README.md:36` |
| `FleetRollout.BatchIsBound` | `N = 4` | an answer that arrives while its batch is still being queued starts the next one (`database/fleet.go:432`) | `README.md:92` |
| `AgentLifecycle.RotationIsSafe` | | two rotations with lost answers: the stored pair no longer has the agent's certificate (`database/fleet.go:145`) | `README.md:88` |
| `AgentLifecycle.NoFalseDrift` | | the hash of an unchanged firewall is another at every poll (`sync.go:149`), so that a second report under one revision is a drift | `api/fleet.go:99` |
| `FirewallPolicy.ManagementPathAlwaysKept` | | with the setting `iptables` on a UFW host the listing is empty (`parser.go:37`), and a block of the port that lets the administrator in is accepted | `conflicts.go:233` |
| `FirewallPolicy.EveryShadowIsReal` | | a rule for established connections counts as one for all (`conflicts.go:113`), and a live rule is reported as shadowed | `conflicts.go:102` |
| `ControlPlane.OneClientOneBucket` | `Browsers = {b1}`, no `SYMMETRY` | the client names its own address in a header (`server.go:79`) and has a bucket for each | `ratelimit.go:18` |
| `ControlPlane.StoredAsAnswered` | | a put that was refused or failed leaves its fields in the running settings, the environment puts its own there, and the next put stores both | `server.go:353` |
| `ControlPlane.SetupOnce` | | two first visitors at once create two super admins (`api/setup.go:39`) | `setup.go:10` |
| `ConfigStore.ServerNotLockedOut` | | root's wizard or a command migrates first: file and key are root's (`secureconfig.go:164`) | `secureconfig.go:48` |
| `ConfigStore.AgentNotLockedOut` | | the server makes the key, 0600, for its own user; the agent may not read it (`fyrwall-agent.service:25`) | `config.go:168` |
| `ConfigStore.WizardKeepsRest` | | after a load that failed the wizard goes on with the defaults, and it stores only its own fields (`app/setup.go:24`, `:124`) | `app/setup.go:123` |
| `Boot.RunningIsHashed` | | the file is replaced between the start of the agent and the hash of its path (`integrity.go:113`) | `integrity.go:97` |

### What else the models show

* **Agents.** A late handler that overwrites a row, or a rotated identity that
  could not be written, locks the agent out; `NotLockedOut` excuses both. Drift is
  reported for a firewall nobody touched, and missed when two reports overlap, so
  that no property claims anything of it. A revoked agent's row may read ONLINE
  again, although it is served nothing.
* **Rules.** Inbound `log` on UFW becomes `deny` and passes the lockout checks, which
  look at blocks only. An inbound block that names neither source nor destination
  is always refused; so is an update from allow to deny, because the rule it
  replaces is not taken out of the analysis. A block whose source is written like
  the one listed passes the SSH check. UFW's listing puts the port of a rule in
  both ports, and a list of ports is read as port 0, so that a block of one of them
  is accepted; the rules in chains that the backend does not list are judged by
  nobody; the listed rules of iptables have no protocol, so that shadows among
  them are not reported, and no number, so that they cannot be deleted; iptables
  inserts at the head while the analysis goes by priority, and takes no family. The
  actions of one transaction are not judged against each other. `ManagementPathKept`,
  `ShadowsReported` and `EffectAsAsked` say in their conditions what is left.
* **Sessions and settings.** A request in flight during a logout commits the session
  again. A refused value stays in the running settings and is stored by the next
  accepted put (`server.go:342`); overlapping puts mix. The same goes for a put
  whose save failed. A client has as many attempts as it names addresses in its
  header. A setup with an empty user name creates an administrator who cannot log in
  (`setup.go:81`).
* **Configuration.** A torn key, or two keys made at once, leaves a configuration
  nothing opens. The installer's preflight as root makes a key of root's own. The
  wizard stores its own fields and drops the others; a put stores what the
  environment had overridden. An agent between its two reads of the file migrates
  one put in place there. `.imported` keeps the plaintext. Once the server made the
  key, the agent cannot open the configuration.
* **Start.** An integrity record torn by a kill, like one of another program, ends
  every later start of the agent. A program replaced between start and check is
  recorded in the place of the one that runs. The recovery page is never served:
  `emitStartupIssue` is given no database and panics (`app.go:144`), systemd starts
  again. A CA with a certificate and no key stops every later start. A conflict
  learned by a refresh goes unnoticed if the agent ends before the next tick, and
  the gate stays as it was while the health says BLOCKED.

### Fairness

* `FleetSync`: weak fairness of each handler, of the agent's loop and of the end
  of abandoned handlers: goroutines that wait for timers, the database or each
  other. `Restart` belongs to the loop: systemd restarts the agent. Time passes, so
  `BecomeOverdue` is fair. Administrators, faults and crashes are not fair, and
  their budgets are finite: a network that fails for ever delivers nothing.
* `FirewallManager`: weak fairness of a caller that holds the lock or needs none
  (every program run has a timeout), strong fairness of acquiring it, because
  `sync.Mutex` hands itself to its longest waiter after one millisecond.
* `FleetRollout`: weak fairness of every statement, and of agents answering; an
  agent that stays away stops its rollout, as in the code.
* `Boot`: weak fairness of `Start` (`Restart=on-failure` in both units, and a host
  that boots), of the steps of a program that runs, and of the ticker. A program
  killed once is started again; kills are bounded.
* `AgentLifecycle`, `FirewallPolicy`, `ControlPlane`, `ConfigStore` state safety only and
  need no fairness.

## 5. Proofs

Every safety and action property of the runs is proved, for arbitrary sets of
commands, requests, handlers, callers, programs, users, rules and transactions
and for arbitrary bounds. Each proof module has the same plan: an inductive
invariant `IndInv`, a conjunction of parts named for what they are about, checked
by TLC on the run before it was proved; lemmas for the operators; one lemma for
each action, or for each shape of step; `Invariance`; and the theorems.

The assumptions are those the modules declare, and the runs evaluate:

| Assumption | Says |
|---|---|
| `SyncAssumption`, `ManagerAssumption`, `RolloutAssumption`, `BootAssumption` | ids are not their "none" values, programs are sequences of commands, backends are the two known, a group and the migrations are not empty, bounds are naturals |
| `LifecycleAssumption` | two requests at most are open at once: with three, the place of a report among the open ones would not give its sequence number. The proofs do not use it |
| `ControlPlaneAssumption`, `AsksAssumption`, `OverridesAssumption` | finitely many user names; a bucket is collected only after it would be full again (30 minutes, one attempt a minute at least); requests, and the environment, have the fields that the decoders give them |
| `ConfigStoreAssumption` | an environment variable overrides a setting with a value that a file could hold, or not at all |
| `PolicyAssumption` | actions, rules of the host and packets are such records; the host's rules are written as the tools print them |

`ShadowsBorneOut` alone has a hypothesis of its own, `Packets = Packet`, besides the
conditions in the property (states of a connection, blocks, interfaces): a rule all
of whose packets belong to an earlier one must be reported, and with fewer
packets to tell rules apart that would be asked of too many.

Data that the modules define stays what it is there, for the proofs too: four
addresses of IPv4, two of IPv6 and ports 0..8 in `FirewallPolicy`, ports up to
`MaxPort` and a burst of two in `ControlPlane`, the values of a setting in
`ConfigStore`, and the two programs of `Boot`.

**`FleetSyncProofs`.** `RunsOncePerLapse` is not inductive: that the loop polls
only without a pending result has to be tied to what it may be handed. `IndInv` is
`TypeOK` with `LoopInv` (where the loop stands: it asks for work only with no
result pending, and a command in hand has not run since it last lapsed),
`RunsInv` (every run of a command is accounted for by a lapse, a stored outcome
or the pending result), `DiskInv` (the file holds an undelivered result only if
it is the pending one), `ResultInv` and `OutcomeInv` (a result, wherever it
travels, is one a run produced) and `OverdueInv` (only delivered commands lapse).
From it follow `RunsOnce`, `Honest` and `Held`; the action property `Final` from the
invariant and one step; and `Refinement`, by mapping every step to a step of
`CommandLedger` or a stutter. `InOrder` speaks of two orders at once and needs a
second invariant, `OrderInv`: when a command is in the loop's hands, all that comes
before it, both in the queue and in the text of `created_at`, has run or strayed.

**`FirewallManagerProofs`.** The effect of the first *n* commands on a set of rules is
defined without recursion (`Ran`), with lemmas for none, one more, and all of
them. The inductive invariant is `TypeOK`, `LockInv` (a caller in the locked
part holds `mu`: `MutualExclusion`), `FrameInv` (idle callers have empty
frames), `TxInv` (in an undisturbed transaction the kernel is what it was plus
the commands that ran, and a captured snapshot is what it was) and `LastGood`.
`LockInv` is what makes `TxInv` inductive: no second transaction moves the kernel
while the first stands between two commands. From it, `Atomic` proves
`AllOrNothing`.

**`FleetRolloutProofs`.** `VerdictIsHonest` holds however handlers overlap, so
nothing of it may rest on the order of statements. `LinkInv` says that a target's
row tells the truth about the command it points to, `FrameInv` that a handler
knows how its command ended and that its batch is the next in order, and
`SeenInv` that sums which a handler has read may be old but count only what has
happened: results are never taken back, so an old count of failures is a lower
bound and an old "none active, none pending" stays true. This gives `Honest`.
`AloneInv`, `BatchInv`, `OnceInv`, `CountInv` and `EndInv` are about rollouts whose
handlers have not overlapped so far: the sums a handler acts on are then those of
the table, the batch fits with the targets at work, and counts that are not the
targets' are due to a result whose agent will post it again (`Batches`,
`CountsAreRight`, `Final`). Cardinalities of sets that differ by one target are the
lemmas these need.

**`AgentLifecycleProofs`.** `NumberInv`, `RequestInv` and `AgentInv` say how far
each request and the agent are and what they can know there, `FreshInv` that a
credential is in nobody's hands before its certificate is stored, `BanInv` that a
revoked agent has no credential, `TokenInv` that an open token has admitted nobody.
`LockInv` carries `NotLocked`: the stored certificates are the agent's own and the
newest that followed it, by what was `missed`. A first attempt at `NotLocked`
counted the lost answers and set the count back to nothing when one arrived. That is
wrong: a rotation the agent gave up may have stored a later certificate than the one
whose answer arrives, so `missed` is the set of the certificates later than the
agent's own. TLC finds the difference with four units of work and not with three.

**`FirewallPolicyProofs`.** `IndInv` says that a transaction which runs was judged
by the rules it started from (`JudgedInv`, `FrameInv`), and, for
`ManagementPathKept`, that an action which was carried out left the way in open
(`PathInv`). The rest is about pure operators: that the subset tests of addresses
and ports, written on text and bounds, say what they should of the sets
(`AddrSubset`, `PortSubset`, `PortIntersects`), that an accepted block misses
loopback and whatever a rule admits that the listing shows with its port (`ReadAs`),
where a rule is put and what that means for the first rule that hits a packet, and
that the command line of a backend names the packets of the rule. A first proof
attempt failed on `update`: it takes a rule out, and if that rule is the one that
let the administrator in, a new block that shares no packet with it is accepted.
That is what the administrator asked for; `ManagementPathKept` now speaks of all
rules but the replaced one (`Replaced`).

**`ControlPlaneProofs`.** `LogoutIsFinal` and `TokenOneUser` are about the store;
what breaks them are copies, so `CopyInv`, `OneUserInv` and `ClosedInv` say of every
copy in a request what the properties say of the store. `NamedInv` says it of all
the sessions that were ever stored, also of those a login has removed meanwhile: a
token the store ever had belongs to the one user that store and copies have with it.
`SessionInv` ties a session's role to its user's row and `GateInv` a request to the
gates it has passed: together they give `Authorized`. `LateInv` carries `SetupEnds`:
while a request is served an administrator who was there stays there. `BucketInv`
bounds attempts by what a bucket lacks, and says that one that is old enough to be
collected is full, so making it anew gives nothing. `PutInv` says between which
steps of a put the running settings, the stored ones and the answered ones differ,
as long as none was refused or failed, for the fields that the environment was never
put over.

**`ConfigStoreProofs`.** `JobInv` says which program can be where, `KeyInv` that, while
nothing was torn or made twice, only one program is making a key and whoever
holds one holds the one on disk (`Openable`, for whoever may read every file),
`AccessInv` that nobody but the service's
user has written (`AccessKeeps`), `RestInv` that every copy in memory that may be stored
has the file's settings or the environment's, until the wizard drops them
(`RestKeeps`). `SealInv`: a configuration is
sealed only in the place of one that was there. Steps of different programs have
the same shapes (`Moves`, `Ended`, `Failed`), and the parts are proved once for each.

**`BootProofs`.** `SchemaInv`: what a migrator does not want any more is in the schema,
by its own hand or another's, so the next it wants has all before it, and when it
wants nothing the schema is complete (`CompleteSchema`). `CaInv` follows the two files
through the steps and kills of `pki.New` (`OnlyCA`), `RecordInv` the agent's record:
absent, torn, or of the program recorded first, and `CheckInv` says that before its
check a program is the file at its path, unless that was replaced since it was
started (`SameAgent`).

**Only model-checked.** Liveness (`EveryCommandResolved`, `PendingIsDelivered`,
`CallsReturn`, `RolloutEnds`, `ServerComesUp`, `ServerLearns`): the prover handles
neither fairness nor ENABLED. And the statements that TLC refutes, as a
counterexample is enough. The run of `FirewallManager` is small, two calls,
because it also checks liveness; the proofs of its safety hold for any number.

## 6. Not modelled

* **Logging** (`logging/`): `Close` waits for the janitor under the lock that one may
  be waiting for; seen by reading (`secure.go:114`). Writing and encrypting files
  is I/O.
* **Health's lock** (`health.go:88`): `Snapshot` takes the read lock twice; a single
  wait of two goroutines, listed as a hazard. What the tracker holds is in `Boot`.
* **Update and extensions**: downloads, signatures, copies of files by one command at a
  time. `update apply` only prints. An extension's `installed.json` is written in
  place, and the dry run of all users shares one directory.
* **The server's manager over the agent's**: two instances of `FirewallManager` with a
  socket between them; only the ownership gate of the outer one is in `Boot`.
* **Numbers of UFW rules that move** under a concurrent caller (`ufw.go:165`).
* **Command parameters near 1 MiB** (`sync.go:126`), a certificate that expires while its
  agent is offline.
* **Parts of rules**: lists of more than two ports, ICMP types, states of a
  connection other than established; addresses and ports beyond the few that stand
  for all.
* Text formats, password hashing, cryptography, X.509, routing, JSON, headers, the
  user interfaces and the read-only diagnostics: functions over text, or I/O. User
  operations without a caller in the program (`SetRole`, `SetEnabled`, `SetPassword`,
  `Delete`, `RevokeUserSessions`).

## 7. Running it

```
tlc -config FleetSync.cfg MCFleetSync.tla          # and so for the other runs
tlapm FleetSyncProofs.tla                          # and so for the other *Proofs.tla
```

Each of the eight proof modules takes between one and four minutes.

An operator marked "Mutant" is a plausible wrong version of the definition that
follows it. Put in its place, it must make TLC find the property named in
`PROJECT.json` violated: it shows that the property depends on the code.

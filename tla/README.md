# Specifications of Shaka Lab

Shaka Lab is a set of packages that turn machines into a Selenium grid for
testing: a hub, nodes on Linux, macOS and Windows, GitHub Actions runners, and
the network around them.  This directory holds TLA+ specifications of its
programs, TLC configurations that check them on small instances, and proofs
for every instance.

## The system

| Component | State it keeps | Operations | Hard behaviour |
| --- | --- | --- | --- |
| Node launcher, `shaka-lab-node/start-nodes.js` | child processes, the update script, timers; on macOS what Safari was left | run the driver update, read the configuration, spawn one process per node, end everything when anything goes wrong | update timeout against a late answer, signals before there is a handler, leftovers of an earlier run |
| Service managers: systemd unit, `macos/log-wrapper.js`, WinSW `.yml` | is the service wanted, what is left of it | start, restart, stop, clean up | each restarts on other exits and cleans up other processes |
| Log wrapper, `macos/log-wrapper.js`, with `stop-services.sh`, `restart-services.sh` | the service's process group, two PID files, a timer, `quitting` | spawn, respawn after 5 s, reopen logs, quit in a second | processes that ignore SIGTERM, timers that outlive a decision, scripts that run in between |
| Node configuration, `start-nodes.js` and `node-templates.yaml` | templates in memory, the daily timer | instantiate templates, substitute parameters, set the daily restart | state shared between nodes, names that are prefixes of names, the clock at the moment that is configured |
| Local network proxy, `macos/local-network-proxy.js` | two sockets per connection and their buffers | read a CONNECT request, connect, pipe, tear down | callbacks of two sockets in any order, data before the tunnel is there |
| GitHub runner, `shaka-lab-github-runner/linux` | docker containers, folders shared with the host | clean up, pull, wipe, create, copy, run; daily prune | a cron job and a service on the same containers, crashes between two docker commands |
| GitHub runner installation, `debian/`, `letsencrypt-deploy-hook.sh` | environment file, systemd target | prompt, write, enable, start; fix the owner of certificates | - |
| Driver updates, `update-drivers.*`, `update-node.sh` | `node_modules`, drivers | npm update, download the drivers | may hang, runs in the launcher's directory |
| Gateway installation, `shaka-lab-gateway/linux/debian` | Samba's databases, `smb.conf`, `config.yaml`, enabled services | wipe, provision, generate, trust; upgrade, remove, purge | cut short anywhere and run again; the same scripts for upgrade and removal |
| LDAP user tools, `labuser-tools/labuser-*` | the directory, user numbers | create, delete, change | two administrators at a time, tools that fail halfway |
| Gateway client | `nslcd.conf`, `nsswitch.conf` | installation | edits that are repeated at every upgrade |
| Hub, `shaka-lab-hub`; Selenium jar | none of its own | start a vendored jar | - |
| Node packages for apt, Homebrew, Chocolatey | files, one service | stop, copy, start | - |
| Browsers, recommended settings, release and distribution | packages and settings of the operating system | installation | - |

The launcher runs under a service manager; on macOS that is the log wrapper,
which is itself started by an Automator app at login and stopped by a script.
The nodes register with the hub over the network.  The proxy is a process of
its own, used by the browsers that the nodes start.

What makes each part correct:

* Launcher: nodes come only behind a successful update; whatever ends a run ends
  all of it; the nodes, updates and browsers of two runs never meet; nothing
  wedges it.
* Log wrapper: one service at a time, begun again when it ends, gone when the
  wrapper is told to stop, and always to be found by the stop script.
* Node configuration: a node's command depends on its own config and template
  only, and on parameters by their whole names; the restart comes once a day,
  when it is configured.
* Proxy: bytes in order and without loss while the tunnel stands, an answer for
  everyone who waits for one, and no socket that outlives its peer.
* GitHub runner: every job finds a clean host, and no leftover stops the service.
* Gateway: an installation that ends well is complete; no failure of a later one
  costs the domain, and nothing but a purge what the administrator wrote.
* User tools: every user of the lab has a number of its own, unless two users are
  created at once.
* Gateway client: repeated installations change what they changed once.

## Modules

* `StartNodes` - one launcher after the other under one service manager, which
  is chosen in `Init` (`manager`) and stays.  `phase` is the place in `main()`
  where the launcher is: `updating` is the `await` of line 386, `launching` the
  loop of lines 501-521, `running` the time after `main()` has returned.
  JavaScript runs one callback at a time, so a callback is one action; the spawn
  loop is one action per spawn, because a signal without a handler can end the
  process between two of them.  `updater` and `node` hold the processes of every
  run, so that the leftovers of an old run are visible.  `Told` is SIGTERM sent
  and not yet obeyed.  `safari` are the runs that have left a Safari under
  automation, which belongs to no process group and which only
  `killStaleSafariAutomation()` of a later run (`KillStaleSafari`) ends.
  A spawn comes up, is reported to have failed by an event, or throws
  (`SpawnThrows`), which ends the launcher in the middle of its loop.  `cut`
  remembers the runs that ended like that or were killed: under WinSW, which
  kills nothing when a launcher has ended, their processes are `Lost`.
* `LogWrapper` - the log wrapper and its scripts around a service that is a
  process group per spawn.  A process of the service forks, ends, and obeys
  SIGTERM or, if it is in `Stubborn`, may ignore it.  `spawnChild()` is
  two actions, because `stop-services.sh` can read the child PID file between
  the spawn and the write.
* `ServiceSupervisor` - what a supervisor promises of a service that is run in
  epochs: an epoch begins when there is no process of an earlier one, a service
  that has closed has none, and one that is served begins again.  It is
  implemented twice, as `SupervisorSpec`: by `LogWrapper`, whose epochs are the
  spawns, and by `StartNodes`, whose epochs are the runs of the launcher and
  whose processes are the launcher and the nodes.  There, `closing` is a service
  that was asked to stop, or that ended under a manager which does not start it
  again.
* `NodeCommands` - the loop that turns node configs into commands, and the
  documented meaning of templates as a reference to compare it with; and
  `getMsUntilNextOccurrence()` on a day of `Hours` by `Minutes` by `Millis`,
  with any moment for the launcher to start at.
* `ConnectProxy` - one connection of `local-network-proxy.js`; connections share
  nothing but the process, `alive`.  A request for a port above 65535 makes
  `net.connect()` throw and ends the process (`Die`), and with it every other
  connection (`DiesOtherwise`).  `phase` says which callbacks are installed:
  `onHeaders` (`header`), none (`refused`), those of the upstream
  (`connecting`), the pipes (`tunnel`).
  A socket is two half-open streams, as Node.js has them with `allowHalfOpen`
  off: `rd` and `wr` are its readable and writable side, `in` and `out` the
  bytes not yet read and not yet flushed.  A chunk is any number of the bytes
  that have arrived, so the request may be cut, or joined with the data behind
  it, anywhere.
* `Tunnel` - what the two peers of a connection are promised, without sockets,
  buffers and phases: one answer for the client, then to each the other's bytes
  one by one until both are left.  A client that waits for its answer is only
  left when it has given up itself, or by a proxy that dies.
  `ConnectProxy` implements it:
  `TunnelSpec`, where `Mode` reads the mode of the tunnel off the two sockets
  and `SentOn` counts the bytes behind the request.
* `GithubRunner` - one instance of the runner service.  `step` is the docker
  command that `start-runner.sh` is at, `container` what docker knows by the
  instance's name.  The cron job, crashes, reboots and `systemctl stop` come
  between any two commands.
* `GatewayInstall` - the maintainer scripts of the gateway.  `step` is the
  command of `postinst` that is next; `Fails` ends it at any command, with half
  of that command's effect.  The state is what a later attempt looks at: which
  services are enabled and which files are there.  `prerm` does nothing when it
  is told `upgrade`; told anything else it disables the services, be it that the
  package is removed (`Remove`) or that it stays (`Deconfigure`).
* `LabUsers` - the `labuser-*` tools on one directory.  `script` is how far the
  `labuser-create` of an administrator is: it reads the highest number first and
  gives the next one to its user last, in a command of its own; any command may
  fail.  `alone` remembers who was numbered by a creation that no other one
  overlapped.

`MCLogWrapper`, `MCNodeCommands`, `MCConnectProxy`, `MCGithubRunner`,
`MCGatewayInstall` and `MCLabUsers` instantiate them for TLC; `StartNodes` needs
no more than its configurations.  `StartNodesProofs`, `LogWrapperProofs`,
`NodeCommandsProofs` with `SubstitutionProofs`, `ConnectProxyProofs`,
`GithubRunnerProofs`, `GatewayInstallProofs` and `LabUsersProofs` hold the
theorems.

Operators commented "Mutated:" are wrong on purpose.  Each is the bug that
a property is there to find: put in the place of the definition that follows
it, TLC finds the property violated.

### What the models take for granted

* Process identities are not reused, and a killed process is gone at once.
* `StartNodes`: a service is stopped while its launcher is alive.  Managers
  differ in `Collect`, where systemd kills the control group, log-wrapper the
  process group (which the driver update is not in) and WinSW nothing, and in
  `Restarted`, the exits they restart on.  On Windows there is no SIGTERM: what
  is told to end is gone at once.  `pkill` of a Safari under
  automation succeeds.
* `LogWrapper`: one wrapper at a time.  The two seconds that
  `restart-services.sh` sleeps are longer than the 1.1 seconds that the wrapper
  takes to quit.
* `ConnectProxy`: peers take what they are sent, and data is in the hands of the
  kernel once it is flushed.  An answer is short and the first thing written to
  the client, so the write itself hands it to the kernel; Node.js emits the
  `error` and the `close` of a failed upstream in one turn of the event loop, so
  that the answer 502 and the end of the client are one step (`ConnectFails`).
  The end of a request's header is one symbol: no chunk ends inside it.
* `NodeCommands`: two pieces of a text never join to a new reference or pattern,
  as `$` and `$hostname` might.
* `GithubRunner`: one instance.  `README.md:58-59` of the package excludes
  several with nested containers; without nested containers instances share
  nothing.  `rm -rf` gives a container that is left over no part in the new
  folders.
* `GatewayInstall`: a command that ends well has done what it is there for;
  nobody but the scripts enables services.
* `LabUsers`: `samba-tool` refuses to create a user that exists and to change one
  that does not; an administrator runs one tool at a time; users get numbers by
  `labuser-create` only.

## What is checked

| Run | Configuration | Shows | Bounds |
| --- | --- | --- | --- |
| `launcher` | `StartNodes` | under each of the three managers: launcher runs overlap neither in nodes nor (but under log-wrapper) in updates nor in Safari sessions, a stopped service leaves nothing, no node without a successful update, an exit of a launched run tells all nodes; a hanging update ends, a lost node ends the run, the daily restart returns; launcher and manager implement `ServiceSupervisor`; with crashes, stray signals and spawns that throw; all but for what WinSW has lost | 2 nodes, 3 runs |
| `mac_stopped` | `StartNodesMacStopped` | violated: see findings | 2 nodes, 2 runs |
| `mac_exit_zero` | `StartNodesMacExitZero` | violated: see findings | 2 nodes, 2 runs |
| `wrapper_faults` | `LogWrapperFaults` | at most one service per wrapper, no spawn after quitting, the stop script finds the service; under crashes, log failures, failed spawns, stray signals | 2 processes, one stubborn, 3 spawns |
| `wrapper_supervisor` | `LogWrapperSupervisor` | the wrapper implements `ServiceSupervisor`, respawns what ended, and stopping ends even stubborn processes; with a child PID file that cannot be written | the same |
| `commands` | `NodeCommands` | the commands of a configuration are what the documents say, all or nothing; the daily restart is set for the next time the clock shows it | all configurations of up to 2 nodes over 4 templates; a day of 2 hours of 2 minutes of 2 ms, valid and invalid times |
| `commands_shared_template` | `NodeCommandsShared` | violated: see findings | 2 nodes of one template |
| `commands_chromeos` | `NodeCommandsChromeos` | violated: see findings | 1 node |
| `proxy_tunnel` | `ConnectProxy` | bytes arrive in order, once, and behind the answer; every waiting client is answered, unless the proxy dies; a peer that ends leaves no socket; the peers see a `Tunnel`, whose open end delivers what was sent | 2 bytes each way, requests of up to 2 bytes over a limit of 2, a pipe that waits at 1 byte |
| `github_runner` | `GithubRunner` | nested containers start on fresh folders and complete externals; a service that is not stopped runs a container again | 3 faults, 2 prunes |
| `gateway_install` | `GatewayInstall` | an installation that ends well is complete, later ones keep the domain, unless `prerm` was told something else than `upgrade`, and the edited configuration | the 2 groups of the code; nothing else is bounded |
| `lab_users` | `LabUsers` | users have numbers of their own and keep them, unless two creations overlap, whatever fails | 3 users, 2 administrators, numbers 3 to 6 |

Why these bounds are enough to see what can go wrong:

* Two nodes: one can be lost, or fail to spawn, while the other is up.  Three
  runs: what one leaves behind meets the next, and a Safari can be left by a run
  two before.
* Three spawns: a service, the leftovers of one before it, and a child PID file
  that names a third.  One stubborn process is enough to keep a group alive,
  and the leader shows the exit.
* Two nodes of a configuration: one writes what the other reads.
* Two bytes: order, a chunk of both and a cut between them.  The limit on the
  header is met exactly, exceeded by one and by two.  A pipe that waits at one
  byte waits whenever anything is unflushed.
* Three faults: a leftover, a failure of its removal, and a failure while
  preparing again; two prunes can hit both attempts.
* A unit of two at each place of the clock: the moment that is configured, the
  one before it, a carry at every place, and the turn of the day.
* Three users: one whose creation failed, and two that may take the same number
  after it; numbers that begin above 1, as `minimum_user_id` does, and that end.

`CHECK_DEADLOCK FALSE` stands where the system may stop: a service that nobody
starts again or whose bound is used up, a connection that is closed, a
configuration that was read.

### Fairness

* `StartNodes`: the manager starts the service, timers fire and the event loop
  runs handlers that are due.  No node and no update script need ever end, so
  `UpdateSettles` is the timer's doing.
* `LogWrapper`: event loop and timers, scripts that go on once started, and
  processes outside `Stubborn` obey SIGTERM.  Nobody need ever stop or start
  anything.
* `ConnectProxy`: the event loop runs, a connection attempt has an outcome, the
  kernel takes written data.  No peer need ever send or end.
* `GithubRunner`: systemd restarts (`Restart=always`, no start limit),
  commands end, docker removes what `--rm` tells it to.  No job need ever end.

`NodeCommands`, `GatewayInstall` and `LabUsers` state safety only and assume no
fairness.  All of it is weak fairness: an action that is possible and stays possible
happens.

## Findings

1. **Definitions leak between nodes** (`commands_shared_template`).
   `start-nodes.js:428` merges a node's `defs` into the object of its template,
   so later nodes of the template get them too.
2. **A parameter name that is the front of another one**
   (`commands_chromeos`).  `\b` in `start-nodes.js:202` matches before a hyphen,
   so `$private-key-url` is damaged by the value of `private-key`.
3. **Exit code 0 is restarted on macOS** (`mac_exit_zero`).  The comment at
   `start-nodes.js:524` says that it is not; `log-wrapper.js:200-203` does not
   look at the code.
4. **The driver update outlives a stopped service on macOS** (`mac_stopped`).
   It is spawned into a process group of its own, which `log-wrapper.js` does
   not know.

The models also have behaviours that the properties make an exception of,
because what one would wish for does not hold:

* `start-nodes.js:507`: a spawn that throws (for lack of memory, say; only some
  errors are reported by an event) ends the launcher through `main().catch()`
  before the `exit` handler of line 535 is installed.  The nodes that are up are
  not told to stop, against the comment at line 501; systemd and log-wrapper
  kill them, WinSW leaves them running beside those of the next run, which the
  comment at lines 532-534 means to prevent.  So does a launcher that is killed
  under WinSW.
* `local-network-proxy.js:59`: one request for a port above 65535 ends the proxy
  and every tunnel, none of the clients that wait being answered.
* `start-nodes.js:203`: `String.replace()` expands `$$`, `$&` and two more
  patterns in the value it inserts: a parameter `pa$$word` is given on as
  `pa$word`.  `MCNodeCommands` evaluates this (`PatternsExpanded`).
* `shaka-lab-gateway.prerm:23`: `dpkg` calls the script with `deconfigure` and
  `failed-upgrade` too.  It disables `samba-ad-dc` then, and the `postinst` that
  follows wipes the domain, though nobody has removed the package; the comment
  at line 22 only excepts an upgrade.

`GatewayInstall` also has states no document speaks of: an attempt that ends
between `systemctl enable samba-ad-dc` and the copy of `krb5.conf` is followed by
attempts that skip the copy; a copy of `smb.conf` that was cut short counts as
the backup of the original; an attempt that ends between `rm smb.conf` and the
provisioning cannot be repeated, since `rm` then fails.  No property forbids
them.

## What is proved

The theorems hold for every value of the constants: any set of nodes, any number
of runs, spawns, faults and prunes, streams of any length, any header limit, any
division of the day, any templates and node configs.  They rest on the
assumptions beside the constants, and on those in the statement of a theorem,
and on nothing else; the inductive invariant is `IInv` in each proof module.

* `StartNodesProofs`: `TypeCorrect`, `LaunchAfterUpdate`, `ExitTellsNodes`.
  `IInv` adds `Fresh` (runs still to come have no processes) and `Order` (while
  the update runs there are no nodes, and behind it the update has succeeded in
  time), without which nothing is known of the run that `Spawn` adds to.
  `NodesOfOneRun`, `StopIsClean`, `UpdatesOfOneRun` and `FreshSafari` rest on
  `CInv`: before a start no node is alive, no update runs that the manager can
  find, and no Safari is left that is not the current run's - all but for the
  runs that are `Lost`, which only WinSW has.
  `StopIsComplete` is the other side of the finding `mac_stopped`: under systemd
  `StoppedMeansGone` holds without any exception.
  `LauncherSupervises` is the safety part of the refinement of
  `ServiceSupervisor`.  `SupervisorStep` goes through the actions: `Start` is
  `Begin` because `CInv` leaves no node before a start, a spawn is `Grow`, every
  exit, signal or end of a node is `Shrink` or `Close` (`Fades`: steps that let
  nothing live that did not), and `Collect` is `Closed` because nothing of the
  run survives it.  `Wanted` (a launcher that is down is wanted) tells that
  `Start` finds the service `serving`.
* `LogWrapperProofs`: `TypeCorrect`, `OneGenerationPerWrapper`,
  `NoSpawnAfterQuit`.  `FlagsOfTheLiving` is needed since the first spawn is not
  behind a test of `quitting`: no wrapper quits before it.
  `ScriptsFindService` assumes that files can be written (`"file" \notin
  Faults`); `Findable` says that a wrapper with a service has written the child
  PID file for it or is about to.
  `WrapperSupervises` is the safety part of the refinement: every step of the
  wrapper, of its scripts and of the service's processes is a step of
  `ServiceSupervisor` or none.  It assumes `Faults \subseteq {"file"}`, the
  faults of the run `wrapper_supervisor`: a wrapper that is killed leaves its
  service behind.  `Supervising` gives what a step needs of the earlier ones: all
  processes are of the last spawn, and there are none without a wrapper.
* `NodeCommandsProofs`: `AllNodesOrNone`, with the templates and commands of the
  nodes processed so far (`Templates`, `Processed`); `RestartsOnTime`, from
  lemmas about the clock: a valid time lies within the day (`MomentInDay`), and
  in two days from midnight the clock shows a moment when it is that moment or a
  day later (`ClockIsDaily`).
  `CapabilitiesCorrect` and `DefsCorrect` compare the commands with the
  documents, for any template file and configuration.  They have two parts.
  `CommandInv` is about the loop: a template in memory differs from the file in
  nothing but its definitions, these only if a node config processed before has
  overridden some of them (`Traced`), and so every command is made of its own
  config and its template as it is in the file.
  `SubstitutionProofs` is about `substituteParams()`: that one replacement after
  the other, each of the first match only, is what is documented, every
  reference replaced by the value of the variable of exactly its name
  (`FilledAsDocumented`).  `Stage` says what the text is after the first *i*
  parameters: the concatenation of its pieces, those that refer to one of them
  filled in, the others as they were; `StageStep` takes it from *i* to *i* + 1.
  The induction is one over sets of natural numbers (`UpTo`, from the least
  element of what is missing), and what `FlattenSeq` computes is characterised
  first (`FlattenIsPartial`, `FlattenConcat`, `FlattenSplit`).
  Both theorems are about configurations that are `Plain` - no text refers to a
  parameter twice or to a name that goes on after that of a parameter, names of
  parameters differ, values contain neither references nor patterns of
  `String.replace()`, so that they are inserted as they are (`InsertedVerbatim`)
  - and `DefsCorrect` also about
  those that are `Separate`: no node overrides definitions of a template that is
  used again.  The first two findings are what happens otherwise: the two runs
  have configurations that are not `Plain` or not `Separate`, while
  `MCNodeCommands` has TLC check that those of the run `commands` are.
* `ConnectProxyProofs`: `TypeCorrect`, `EveryClientAnswered`.  `Settling`
  says where in the life of a connection the client has its answer, has given
  up or has lost the proxy: `Answered` alone does not say why the
  socket may be closed later on.
  `BytesInOrder` rests on `Ordered`, which follows the client's bytes through the
  phases: buffer and socket hold the front of its stream while the request is
  read, then what the upstream is to get of it, and in the tunnel each peer's
  bytes, written bytes and unread bytes are together the other's payload.  The
  lemmas before it are about sequences: chunks and bytes that move from one
  buffer to the next leave the concatenation alone (`ChunkMoves`, `ByteMoves`),
  what is behind the end of the request is the payload (`BehindRead`), and a byte
  that is sent is added behind it (`PayloadGrows`).
  `KeepsPromise` is the safety part of the refinement of `Tunnel`, one lemma
  per kind of step: a flushed byte is the next one due (`PromiseFlush`, from
  `Ordered`), the outcome of a connection attempt is an answer or meets a client
  that gave up (`PromiseConnect`, from `Settling` and `Unanswered`: a client
  that waits has got nothing yet), and of the steps that neither send nor
  deliver anything each leaves the tunnel alone or ends it (`LeaveStep`); the
  end of the process is `Tunnel`'s `Die`.
* `GithubRunnerProofs`: `TypeCorrect`, `StartsFresh`.  `Prepared` says
  which commands come behind which effects; `OnlyRunStarts`, that no other step
  starts a container.
* `GatewayInstallProofs`: `TypeCorrect`, `InstallsDomain`, `KeepsDomain`,
  `KeepsConfig`.  `Sound` is the heart: an enabled service always has a complete
  domain, which is why attempts may skip the provisioning; `Progress` and
  `Behind` carry it through the script.  Only a
  `prerm` that is told something else than `upgrade` disables the service, and
  until then `KeepsDomain` says that the domain stays.
* `LabUsersProofs`: `TypeCorrect`, `NumbersUnique`, `NumbersKept`.  `Undisturbed`
  is why: while a creation is the only one, the number it has chosen stays above
  all that were given undisturbed, and `Accounts` keeps those in the group that
  is searched.

Only model-checked:

* The liveness properties, the liveness parts of both `SupervisorSpec` and of
  `TunnelSpec` included, which are out of the prover's reach.
* `PoliteExitStays`, which is violated, and `StoppedMeansGone` under
  log-wrapper, where it is.

## What is not modelled

See `PROJECT.json` for every component and the reason.  In short: vendored
binaries, lists of packages, settings written once, prompts, and the text of
generated files.  Also left out:

* The arguments of the launcher's commands that are the same for every node.
* The start limit of the node's systemd unit (`StartLimitInterval=0` turns it
  off for the runner; the node's unit keeps the default), which may leave a
  service that fails at once stopped.
* Two log wrappers at a time, and a wrapper started while `restart-services.sh`
  sleeps.
* What a number that is given again means: `labuser-create` follows the highest
  number in the group, so the number of the newest user is given again once that
  user is deleted.  `LabUsers` has the behaviour; no document speaks of it and no
  property forbids it.
* The gateway client's `mod_nsswitch()`: it rewrites text, one script at a time.

## Plan

Done, in this order: `StartNodes`, `LogWrapper` with `ServiceSupervisor`,
`NodeCommands`, `ConnectProxy`, `GithubRunner`, `GatewayInstall`, the daily
restart in `NodeCommands`, Safari and all three managers in one `StartNodes`,
`LabUsers`, the proofs of the safety properties that hold for all values of the
constants, and the refinements of `ServiceSupervisor` by `StartNodes` and of
`Tunnel` by `ConnectProxy`.  Left:

1. `MacService`: `LogWrapper` with the launcher of `StartNodes` as its service,
   and two wrappers whose lives overlap.
2. The start limit of the node's systemd unit, in `StartNodes`.
3. The gateway client's `mod_nsswitch()`.

# linprov in TLA+

linprov tags every file that network-touched processes write with a
provenance record (an extended attribute), carries the tag through copies, and
in *enforce* mode refuses to execute tagged files that no allowlist rule
permits. These modules model the BPF hooks, the path of a mark to disk, the
path of a rule into the kernel, the rules learned from execs, the table of
pending blocks with the control socket, tray and review window, the quarantine
store, and the start of the daemon with the commands that deploy it. TLC checks
small instances; TLAPS proves every safety property that a run checks, and the
refinement, for every instance. Liveness is checked by TLC alone.

## 1. The system

| Part | State | Operations | Talks to |
|---|---|---|---|
| BPF hooks (`linprov-ebpf/src/main.rs`) | `NET_PIDS`, `PROP_PIDS`, `APPROVED_INTERP`, `INTERP_PIDS`, `INTERP_COPY_PIDS`, `INTERP_INODE`, `INODE_MARKS`, `EVENTS`, `ALLOW_RULES`, `ALLOW_RULE_COUNT`, `CONFIG`, scratch `WALK_ANC` | `socket_connect`, `file_open`, `bprm_check_security`, `bprm_committed_creds`, `sched_process_exit` | the daemon, through maps and ring |
| Event handlers (`handler.rs`, `inode_storage.rs`) | the event in hand | `on_file_marked`, `on_execve_marked`, `on_script_exec` | xattrs, inode storage, `/proc`, `BlocksTable` |
| Rules (`allowlist.rs`, `control.rs`, `run.rs`) | allowlist file, `Control.transient` | load, `seed_rules`, SIGHUP, `allow`, `once` | `ALLOW_RULES` |
| Pending blocks (`control.rs`) | `BlocksTable.map`, `.order` | `record`, `remove`, `list` | control socket, broadcast channel |
| Control socket (`run.rs`) | one connection at a time | `list`, `subscribe`, `allow`, `once`, `dismiss`, `quarantine` | all of the above |
| Tray agent (`notify.rs`) | `recent`, an action queue | subscribe, backfill, follow, click | control socket |
| Review window (`review.rs`), `allow` | rows, selection | fetch, refresh, bulk action row by row | control socket |
| Quarantine (`quarantine.rs`) | store bodies, manifests | `stash` (daemon), `list`, `restore` (command) | the filesystem |
| Path walk (`main.rs`, `handler.rs`) | `WALK_ANC` | `landing_step`, `landing_hashes`, `target_hashes` | the allowlist check |
| Soak, hash db (`allowlist.rs`, `hashdb.rs`) | `Soak.seen`, `HashDb.map`, two append-only files | `Soak::record`, `HashDb::record`, `resolve`, `rule_from_context` | handlers, allowlist file |
| Startup and event loop (`run.rs`, `config.rs`, `key.rs`) | resolved config, hash key, the maps `CONFIG` and `KEY` | resolve, load or create the key, attach, seed, bind, `select!` with a drain budget, ^C | everything |
| Deployment (`setup.rs`, `install.rs`, `upgrade.rs`) | binary, config, allowlist, group, unit | `setup`, `upgrade` | systemd, the daemon's files |
| Rule text, SipHash, build scripts | - | - | - |

Where it is hard: hooks of many processes interleave with an execve that is
itself several hooks; rule scans overlap the rewriting of the map they read, and
of the very slot they are at; inode storage goes with an inode the cache drops;
events are handled after the process, the name and the file they speak of may
have changed; the tray learns of blocks over two connections at once; the
daemon is one task that any client can hold up; moving a file to the store is
many system calls, any of which can be the last; a window that gave up waiting
has its request carried out later; hooks work on scratch memory that another
hook reuses while they sleep; a daemon that starts has hooks before it has a
policy, and may start beside another one; a command that deploys can end
anywhere. `PROJECT.json` lists these hazards line by line.

What makes each part correct:

* hooks: web content, and only that, is marked wherever it lands; marks name
  the downloader; marked content runs, or is read by an interpreter, only by a rule;
* rules: the kernel enforces what was configured, in the middle of a reseed too;
* handlers: disk and inode storage end up with one record, of the right process;
* learning: the rules written load again, permit what was seen, and no more;
* blocks: the menu ends up showing the pending blocks, every request is served;
* review: what the window hides is dealt with, and a bulk action ends;
* startup: all daemons hash under one key, what a start's window got wrong it
  puts right, and a daemon alone is reachable;
* deployment: the running service is the one the operator was told of;
* quarantine: what was reported quarantined can be put back as it was, and
  nothing is lost on the way.

## 2. Modules

| Module | Models | Lines of thought |
|---|---|---|
| `Allowlist` | `allow_step`'s conditions, folder dimensions | A rule is a function from dimensions to values, a keyed hash is its string, the ancestor array has `MAX_FOLDER_ANCESTORS` entries. Used by `Kernel`, `PathWalk`, `Learn`. |
| `Policy` | what an allowlist promises an exec | A set of rules in force, updates that may be seen half done, checks with what they may and must count on, and whether they met an update: one that did may take parts of several rules for one. No slots, no count. |
| `RuleSeed` | `seed_rules` and its callers against `check_allowlist` | One step per field of a slot copied, and one per field read: nothing locks the daemon's `rule_map.set` against `allow_step`. A slot has, per field, the rule it was copied from; a scan looks for any combination of fields in `want`. Implements `Policy`. |
| `Kernel` | the five hooks, and the daemon as far as it moves marks to disk | One hook is one step; execve is `check`, (`interp`), `commit`. Inode storage is lost with an inode that leaves the cache (`Forget`); the daemon takes events off the ring and writes xattr and storage, each of which may fail (`Drain`; its steps are `Persist`). Ghosts hold the truth: who touched the network, which files hold web content or interpreter bytes. |
| `PathWalk` | two tasks in `file_open` and `bprm_check_security` on one CPU: record slots, path buffer, tokenised walk, ancestor arrays | Inside one hook: the CPU changes hands only while a hook waits for an xattr. Compared with the reference definition of the ancestors, and with what userspace makes of the same path once `from_utf8_lossy` has converted it. |
| `Blocks` | `BlocksTable`, control socket, `stream_blocks`, tray | The listener's queue, the broadcast channel and the socket are bounded sequences; the loop takes a connection before the ring, and at most `DRAIN_BUDGET` events at a turn. A host may have no tray (`Trays`). |
| `Review` | the review window beside all of `Blocks` | A row is open, in error or hidden; a request the window gave up on stays in the daemon's queue as the client `late`, at most one per row (`LATE`). |
| `Persist` | `file_open`'s event to xattr and back-fill | `on_file_marked` is five steps: take, resolve, open, xattr, back-fill. |
| `Quarantine` | `record_block_token`'s identity, `stash`, `restore` | One step per system call that changes a file. |
| `Learn` | soak rules and the candidate rules of blocks, with the audit db | The round trip exec, event, hashes resolved, rule, line of text, file, load at a later start, `check_allowlist`. A line is a set of tagged values; names are classed by whether they survive as plain text, as UTF-8, and as a comm. A line may be written in part: `Cuts` is what a beginning of it parses as, `Glued` what it becomes when the next line follows on it. |
| `Startup` | `execute`, `daemon` up to its loop and its end, `HashKey`, `FileConfig`, `bind_control_socket`; the hooks as far as mode and key matter | Two daemons, the service and a foreground run, step by step over one disk. Of a hash only its key counts. The slots of the rules are `RuleSeed`, the handler's steps `Persist`. |
| `Deploy` | `setup`, `upgrade`, `install_to`, systemd and the operator, beside the daemons of `Startup` | One step per file a command changes; it may end after any. `asked` is what the operator was told is in place. |
| `MC*` | the values TLC uses | |
| `RuleSeedProofs`, `KernelProofs`, `PathWalkProofs`, `BlocksProofs` (with `Review`), `PersistProofs`, `QuarantineProofs`, `LearnProofs`, `DeployProofs` (with `Startup`) | the theorems about each | section 5 |

Names follow the source; `PROJECT.json` maps every definition to its lines.
Lower-case definitions with a variant name just above the original
(`combinedFileOnly`, `record_first`, ...) are deliberate errors: each property
is known to fail when the original is replaced by one of them.

How they fit together: `Review` extends `Blocks`, `Deploy` extends `Startup`,
`Kernel`, `PathWalk` and `Learn` use `Allowlist`, `RuleSeed` instantiates
`Policy`. Where one module treats as a single step what another opens up, the
comment at its head says which (`Startup`: seeding and handler; `Kernel`: the
walk; `Blocks`: what allow and quarantine do besides the table).

Abstractions shared by all modules: hashes and tokens do not collide; comm,
uid, exe and time of a record are one or a few values; logging, notifications
and the text of rules and replies are left out. Things that may go wrong are
members of the constant `Faults`, so that a run says which it admits:

* `Kernel`: `late_write` (write through a descriptor opened before the
  taint), `read_write` (`O_RDWR` opens), `leader_first` (the thread-group
  leader ends before its workers), `evict` (a running process's entries leave
  the LRU pid maps), `forget` (an inode leaves the cache with the only copy of
  its mark, or as a known interpreter), `swap` (another file takes a name that
  a waiting event speaks of). Without any of them events are still dropped on
  a full ring, xattr and back-fill writes fail, and an inode whose mark is on
  disk leaves the cache.
* `PathWalk`: `preempt` (a walk loses the CPU to another hook).
* `Blocks`: `restart`, `silent` (a client that sends nothing), `unread` (one
  that never reads its reply).
* `Startup`, `Deploy`: `drop` (a mark's event), `torn` (a command ends between
  emptying and filling a file), `race` (the operator saves the config between a
  command's read and write), `line` (the operator adds a line below the
  template's hint), `io` (the socket cannot be bound). That commands end early
  and daemons die anywhere, inside the creation of the key too, is always
  possible.
* `Persist`: `exec` (a writer execs, or its pid is reused, before its event
  is handled), `rename` (names move under the handler), `io`, `evict` (inode
  cache), `crash`.
* `Quarantine`: `crash`, `io` (reported errors), `soft` (ignored errors),
  `race` (users replace files in mid-operation), `reuse` (inode numbers),
  `burst` (an id given out again within its second).
* `Learn`: `drop` (a mark's event), `early` (an exec before the mark's event is
  handled), `creator` (the writer has ended by then), `row` (an audit row not
  written), `append` and `torn` (a rule line not written, or any beginning of it),
  `gone` (the executing process ends before its event is handled).

`RuleSeed` has no such constant: failed loads and slot writes, half-copied slots
under a scan, crashes and edits of the file are always possible.

## 3. Runs

All runs search their state space completely. Type invariants are in no run:
they are proved (section 5).

| Run | Instance | Checks | Size |
|---|---|---|---|
| `RuleSeed` | 2 rules of 2 fields, 2 slots, one scan at a time: for a rule, or for a mixture of two that is no rule | `KeepsPolicy` (the refinement, below); `NoStaleRule` (only rules of the last complete seeding or of ones begun since are enforced); `PermitJustified` (what a scan permits by is made of rules it was entitled to meet, and is one whole rule unless an update overlapped it); `StableRuleNeverMissed` (a scan that overlaps slot writes never misses a rule whose slot was left alone); `SeedComplete` (after an OK the map is exactly what was loaded, as far as it fits); `TransientActive`; with fairness `SeedingEnds` | 95 k states, 30 s |
| `Kernel` | two processes that fork and exec, a download and a copy with an outdated mark, the daemon's handling of events, inodes that leave the cache | `TaintComplete`, `ContentMarked`, `HooksAgree` | 574 k states, 3 min |
| `KernelInterp` | bash, a script, a file to copy bash into, renames to an approved name, a process that may rename itself | `InterpreterGated`, `EnforcedExec` | 421 k states, 1 min |
| `KernelFaults` | a process and the daemon, marked, outdated and device files; `late_write`, `read_write`, `evict`, `forget` | what survives them: `NoFalseMark`, `CreatorIsDownloader` | 246 k states |
| `PathWalk` | two tasks, paths from `/a` to one deeper than the array and one with a name that is not UTF-8, records stored in full, in part or not at all | `WalkCorrect`, `OwnRecord`, `UserspaceAgrees` | 513 k states |
| `Blocks` | 2 tokens, a table for one, a drain budget of two, restarts, silent clients | `TableConsistent`, `NoPhantom`, `NothingMissed` | 3.3 M states, 2 min |
| `Review` | 2 tokens; two instances in one: the window and commands without a tray, or the tray, a click and silent clients for one token; restarts, fairness | `HiddenMeansResolved`, `EveryRequestServed`, `BlockReachesTray`, `PassEnds` | 159 k states, 130 s |
| `Persist` | 2 files, 2 executables, eviction and crashes | `CreatorTrue`, `StoresAgree` | |
| `PersistLive` | 2 files, 1 executable, renames and I/O errors, fairness | `OnlyWritten`, `Persisted` | |
| `Quarantine` | a path on the store's filesystem and one on another, 2 files, 2 seconds, crashes and reported errors | `Restorable`, `NothingLost`, `RoundTrip`, `TamperTrue`, `Neutralised` | |
| `Learn` | 2 files (one in a folder whose name needs encoding, one with a name that is not UTF-8, moved), 1 pid, 2 users, failed appends | `FileLoads`, `LearnedPermits`, `Exact` | 205 k states |
| `Deploy` | 2 daemons, 2 keys, 2 builds, 2 starts, 2 commands or 2 writes | `OneKey`, `RefusalExplained`, `SocketReachable`, `ServiceAsAsked` | 1.5 M states, 2 min |

The refinement. `Policy` has one set of rules in force, `active`, an update
that brings the rules of `target` and is either ended, with exactly `target` in
force and OK answered, or given up; and checks, each with the rules it may
permit through and those it must not miss. `RuleSeed` implements it with
`active` the rules below `ALLOW_RULE_COUNT`, all or part of each, `updating` the
time between reading the file and setting the count, `target` the rules that fit,
`ok` the reply given, and for each scan `may` the rules it has had a chance to
see, `must` those in the slots left alone since it began and `met` whether a
field was copied since. What this adds to the invariants: in any order of
copies, scans, failures and restarts, a check that meets no update is exact; one
that does permits only by parts of rules that were in force or brought meanwhile,
and denies only if no matching rule was left alone; and a completed update leaves
nothing of an earlier one behind (the count is lowered as well as raised). It does
not say that each verdict is that of the old or of the new allowlist: a scan may
miss a rule that moves, and judge the flags of one rule with the values of another
(`RuleSeedTorn`, section 4).

Bounds, and why they suffice for what is claimed. Two slots and two rules,
in the file and as transient ones, let the rules outgrow the map and move from slot
to slot under a scan; two fields are enough for a slot to be half copied under one. Two
processes and two files give every chain download, copy, copy back, and
every overlap of one process's execve with another's hooks; pids are reused
because a slot of `Pids` is. `KernelInterp` trades the second process for an
interpreter and renames, `KernelFaults` for the daemon's own reads, a device file
and the faults. A ring of one event makes dropped events the rule. In `PathWalk` an array of four and paths
of up to six components wrap the index; two programs share a CPU, and a program
never runs twice at once on one ("the kernel guarantees no recursive
invocation", main.rs). A table of one
block is full as soon as there are two; a channel of one, behind a
socket buffer of one, makes a subscriber lag and still lets an older event travel
before a newer one.
In `Review` two tokens give passes over two rows, so that one row is refused,
given up or done before the next is sent, and two requests given up in one pass may
wait together. To keep it small, the window and its passes run without a tray, and
the tray, its menu and silent clients with the window closed and one token (`Small`
in `MCReview`); `Blocks` has the tray with two.
A ring of one event is full after one. The two seconds of `Quarantine` allow one
path to be stashed again after it was restored; four inode numbers leave room
for two copies across filesystems, and a restore that finds no number left is
not continued. In `Learn` three lines let the file outgrow a map of two rules,
and one pid that ends and returns under another user is enough for
`execution_uid` to differ.

`Deploy` tells two stories from its initial states: a host without linprov
(`Fresh`), on which two commands are given and two daemons started; and a host
set up before (`SetUp`), with any mode, list and group, on which two daemons
start while the file is written twice. Two starts are a restart, or two daemons
beside each other; two keys let one be lost and another drawn. `Calm` assumes
that the operator gives no command and saves no edit while a daemon in the
terminal is half way through its start (the service may be). Two keys and two
builds are interchangeable, hence the symmetry. `CHECK_DEADLOCK FALSE` in
`Quarantine` and `Deploy`: when their bounded files, seconds, starts and
commands are used up nothing need happen.

Fairness. `RuleSeed`: the daemon's seeding steps; no request is obliged to
come. `Blocks` and `Review`: the daemon's loop, its read timeout and restart
(systemd), the `stream_blocks` task, the tray's two threads and the window's
thread with its five-second limit; no user or client is obliged to act, in
particular not to read, and the ring may never run dry. `Persist`: the daemon
drains the ring. These are weak fairness of steps that, once possible, nothing
else takes away for good.

## 4. Deviations from the repository's text

TLC refutes each of these. The instance is the configuration file named, or that
of a run with `Faults`, or another constant, and the property changed as shown;
run `tlc -config <file>.cfg MC<module>` to see the behaviour. The passing runs
exclude by `Faults`, or by an assumption named above, what these admit.

| Name | Instance | Property | Text |
|---|---|---|---|
| `RuleSeedOnce` | `RuleSeedOnce.cfg` | `OnceActiveAcrossReloads` | README: `--once` rules stay "active right away and across `SIGHUP` reloads" (not when the file fills the map) |
| `RuleSeedAllow` | `RuleSeedAllow.cfg` | `AllowAppliesLive` | README: "append the rule to list.allow (permanent) + apply live" (not past `MAX_RULES`) |
| `RuleSeedTorn` | `RuleSeed.cfg` | `PermitByARule` | README: "block any marked execve whose origin doesn't match a rule" (while a slot is rewritten a scan may read the old rule's flags and the new one's values, and permit what neither does) |
| `KernelLeaderFirst` | `Kernel.cfg`, `Faults = {"leader_first"}` | `TaintComplete` | main.rs: "If a leader ever exits before its workers the taint simply lingers until LRU eviction" (the leader's end passes the `tid = tgid` test and reaps, although workers may still run and write) |
| `KernelLateWrite` | `Kernel.cfg`, `Faults = {"late_write"}` | `ContentMarked` | README: "Every file written by a process that touched the network gets tagged" (marks are set at open) |
| `KernelReadWrite` | `Kernel.cfg`, `Faults = {"read_write"}` | `TaintComplete` | main.rs: "PIDs tainted by **reading** a marked inode" (an `O_RDWR` open only takes the write branch) |
| `KernelRingFull` | `KernelRingFull.cfg` | `EnforceBlocks` | README: "block any marked execve whose origin doesn't match a rule" (a full ring lets it run) |
| `KernelApproved` | `KernelApproved.cfg` | `ApprovedPerInvocation` | README: "only on the *first* marked read per interpreter invocation" (an approval survives an exec) |
| `KernelFork` | `KernelFork.cfg` | `InterpPidsComplete` | main.rs: "PIDs whose current program is an interpreter" (a forked child is not among them) |
| `KernelEvict` | `Kernel.cfg`, `Faults = {"evict"}` | `TaintComplete` | README: "Every file written by a process that touched the network gets tagged" (not once the process's entry left an LRU map of 8192 pids while it ran) |
| `KernelForget` | `Kernel.cfg`, `Faults = {"forget"}`, or `KernelInterp.cfg` with the same | `ContentMarked`; `EnforcedExec`, `InterpreterGated` | main.rs, of the xattr: "it survives reboots and inode eviction", and of interpreter copies "a re-copy after reboot is re-detected, so there's no reboot escape" (a mark whose event was dropped or waits, or whose xattr write failed, is in inode storage only and goes with the inode; a copied interpreter is known there only, without a fallback by name) |
| `KernelSwap` | `Kernel.cfg`, `Faults = {"swap"}`, `Moves <- SwapMoves` | `NoFalseMark` | handler.rs: the no-follow descriptor "closes that TOCTOU" (for a symlink; a regular file moved to the name before the event is handled gets the mark) |
| `PathWalkPreempt` | `PathWalk.cfg`, `Faults = {"preempt"}` | `WalkCorrect` | main.rs, of the scratch slots: "separate slots avoid corruption" (of the record; `PATH_SCRATCH` and `WALK_ANC` have one for all, which is sound only while a walk is not preempted by another hook) |
| `PathWalkDepth` | `PathWalk.cfg` | `RecursiveAnyDepth` | README: "matches nested at **any depth**" |
| `PathWalkLossy` | `PathWalk.cfg` | `ByteForByte` | handler.rs: the xattr and the in-kernel record "agree byte-for-byte" (userspace hashes the prefixes of the path after `from_utf8_lossy`, the kernel its bytes) |
| `BlocksLRU` | `BlocksLRU.cfg` | `EvictsLeastRecent` | control.rs: "Cap on remembered block tokens (LRU)" (a recurrence keeps its place) |
| `BlocksViews` | `BlocksViews.cfg` | `ViewsInSync` | notify.rs: "drop it so every view stays in sync" (not over a daemon restart) |
| `BlocksWedge` | `BlocksWedge.cfg` | `LoopNeverWedged` | run.rs: the read "has a timeout so a stuck client can't wedge the loop" (the reply to `list` is written on the daemon's own task without one, so a client that does not read stops rules, blocks and events) |
| `ReviewLate` | `Review.cfg` | `ErrorMeansUndone` | review.rs: "a success hides the row, an error keeps it" (a request the window gave up on is still carried out, under a row that reports an error) |
| `PersistExec` | `Persist.cfg`, `Faults = {"exec"}` | `CreatorTrue` | handler.rs: "/proc/$pid/exe is the binary the creator was exec'd from" |
| `PersistSources` | `Persist.cfg`, `Faults = {"evict"}` | `SourcesAgree` | README: "Either source produces the same OriginRecord" (not when an event was dropped) |
| `PersistComplete` | `Persist.cfg`, `Faults = {}` | `XattrComplete` | main.rs: "Always written with the augmented record (creator_path filled)" |
| `QuarantineListed` | `Quarantine.cfg`, `Faults = {"io"}` | `EveryBodyListed` | quarantine.rs: stash "drops a restore manifest so `linprov quarantine restore <id>` can put it back later" (not if writing it fails: the body is in the store, the block still pending, the path empty) |
| `QuarantineMark` | `Quarantine.cfg`, `Faults = {"io"}` | `ProvenanceSurvives` | quarantine.rs: the mark is "restored verbatim so provenance survives" (a failing chown ends a cross-filesystem restore before the mark is set) |
| `QuarantineSwap` | `Quarantine.cfg`, `Faults = {"race"}` | `Restorable` | quarantine.rs: the recheck "refuses a file swapped since it was blocked" (up to the fstat, not up to the rename) |
| `QuarantineClobber` | `Quarantine.cfg`, `Faults = {"race"}` | `NothingLost` | quarantine.rs: restore beside the file "rather than clobber it" (the check and the rename are apart) |
| `QuarantineBurst` | `Quarantine.cfg`, `Faults = {"burst"}` | `NothingLost` | quarantine.rs: `<token>-<unix-secs>` as the restore handle (a token recurs, so ids can) |
| `LearnGone` | `Learn.cfg`, `Faults = {"gone"}` | `LearnedPermits` | handler.rs: "the most-specific rule that would have permitted it" (its uid is read after the process may have ended, and is then 0 or another user's) |
| `LearnWidens` | `LearnWidens.cfg` | `Exact` | README: "`soak` emits exact rules (least privilege)" (a dimension that does not resolve is left out, so a rule with the others is wider) |
| `LearnComm` | `LearnComm.cfg` | `Exact` | the same line (a creator_comm too long once made UTF-8 is left out) |
| `LearnInPlace` | `LearnInPlace.cfg` | `LearnedPermits` | soak.sh: "enforce against soak output — expect PASS for both" (not for a target whose path is not UTF-8: the rule holds the lossy form, the kernel hashes the bytes) |
| `LearnFull` | `Learn.cfg`, `Selections <- MCWithSoak` | `LearnedPermits` | allowlist.rs, of a line in `seen`: "already have this exact rule" (the file has, the kernel has not: a rule allowed with exactly soak's dimensions may lie past `MAX_RULES`, and soak then takes the exec as covered) |
| `LearnTorn` | `Learn.cfg`, `Faults = {"torn"}` | `FileLoads`; `Exact`; `LearnedPermits` | run.rs: "the daemon must still start [...] rather than crash-loop", said of a file over capacity (half a condition left by a failed append keeps it from starting); README: "`soak` emits exact rules (least privilege)" (a line cut behind a condition is a valid rule without the others, one cut in a path is another's; and the next line, glued to it, no longer permits what it was learned from) |
| `DeployWindow` | `Deploy.cfg` | `ConfigBeforeAttach` | main.rs: "Runtime config set by userspace before attach", and of the key "seeded by userspace before attach" (attached first) |
| `DeployDrop` | `Deploy.cfg`, `Faults = {"drop"}` | `RefusalExplained` | main.rs, of the key as above (a file marked in that window whose event is dropped keeps a mark under no key, and no landing rule matches it) |
| `DeployKey` | `Deploy.cfg` | `KeyUsable` | key.rs: "generate-once, persist" (a daemon killed between creating and filling the file leaves a short one, which every later start refuses) |
| `DeploySocket` | `Deploy.cfg` | `ClearsStale` | run.rs: "clear a stale socket from a prior run" (or a live daemon's) |
| `DeployUpgrade` | `Deploy.cfg`, `MaxCommands = 3` | `NothingToDo` | upgrade.rs: "already matches [...] nothing to do" (an upgrade ended between the rename and the restart, so the service runs the old build) |
| `DeployTorn` | `Deploy.cfg`, `Faults = {"torn"}` | `ServiceAsAsked` | setup.rs: "Idempotent: re-running `setup` on an existing install leaves your config untouched" (the line for the tray is written in place; ended there, half a config remains) |
| `DeployRace` | `Deploy.cfg`, `Faults = {"race"}` | `ServiceAsAsked` | the same line (an edit saved between the read and the write is lost) |
| `DeployLine` | `Deploy.cfg`, `Faults = {"line"}` | `ConfigParses` | setup.rs: "replacing the commented hint (or a prior value)" (with both in the file both become active, and a config with the key twice does not parse) |

Seen in passing, without a property: the README's "Up to 32 rules per
allowlist" against `MAX_RULES` = 8192.

## 5. Proofs

Each theorem is about every value of the constants that the assumptions of its
module allow: any sets of rules, processes, files, paths, tokens, keys and
builds, maps, rings, tables and channels of any size, any number of scans, tasks,
starts and commands. Those assumptions say that the special values (`None`,
`NoRule`, ...) are no members of the sets they extend, that sizes are numbers, and
what a path or a file's content is. Some theorems assume in addition that some of
the `Faults` do not happen; the table says which, and with two exceptions,
below, each assumption has a counterexample without it in section 4.

| Module | Theorem (property) | Faults admitted |
|---|---|---|
| `RuleSeed` | types, `NoStaleRule`, `PermitJustified`, `StableRuleNeverMissed`, `SeedComplete`, `TransientActive`, `KeepsPolicy` | all |
| `Kernel` | types, `HooksAgree` | all |
| | `NoFalseMark`, `CreatorIsDownloader` | not `leader_first`, `swap` (`KernelSwap`) |
| | `TaintComplete`, `ContentMarked`, `EnforcedExec`, `InterpreterGated` | none (`KernelLateWrite`, `KernelReadWrite`, `KernelLeaderFirst`, `KernelEvict`, `KernelForget`) |
| `PathWalk` | types, `OwnRecord` | all |
| | `WalkCorrect`, `UserspaceAgrees` | not `preempt` (`PathWalkPreempt`) |
| `Blocks`, `Review` | types, `TableConsistent`, `NoPhantom`, `NothingMissed`, `HiddenMeansResolved` | all |
| `Persist` | types, `OnlyWritten`, `StoresAgree` | all |
| | `CreatorTrue` | not `exec` (`PersistExec`) |
| `Quarantine` | types, `Restorable`, `NothingLost`, `RoundTrip`, `TamperTrue`, `Neutralised` | `crash`, `io` (`QuarantineSwap`, `QuarantineClobber`, `QuarantineBurst`) |
| `Learn` | `FileLoads` | not `torn` (`LearnTorn`) |
| | `Exact` | `append` (`LearnWidens`, `LearnTorn`) |
| | `LearnedPermits` | `append` (`LearnGone`, `LearnTorn`) |
| `Startup`, `Deploy` | types, `OneKey` | all |
| | `SocketReachable` | not `io` |
| | `RefusalExplained` | not `drop` (`DeployDrop`) |
| | `ServiceAsAsked` | not `torn`, `race` (`DeployTorn`, `DeployRace`) |

The exceptions: a socket that could not be bound is the plain meaning of the fault
`io` of `SocketReachable`. And under `leader_first` a worker that outlives its leader
may be tainted after the reaping, so that whoever gets the pid next inherits the
entry (`Kernel.cfg` with `Faults = {"leader_first"}` violates `NoFalseMark`); main.rs
knows this, and calls it "fail-safe over-marking".

Each module defines an inductive invariant and proves that the initial states
have it, that every action keeps it (a lemma per action, as a rule) and that it
implies the property; temporal logic joins the three. What the invariants add,
and why the properties are not inductive without it:

**`RuleSeedProofs`.** `IInv` adds to `TypeOK` and `NoStaleRule`: while slots are
written, those below `next` hold the new sequence (`WriteInv`); after an OK the
front of the map is the sequence seeded (`SeededInv`), the transient rules among
it (`TransientInv`); a slot holds one rule whole, but for the fields of the slot being
copied (`SlotInv`); every field a scan has read or has yet to read comes from a rule it
is entitled to see, what it has read of a slot left alone is what the slot holds, none
of those slots read so far matches, and all slots are whole and left alone if the scan
met no update (`ScanInv`). `NoStaleRule` alone is not inductive because a rewrite may fail
anywhere. For the refinement `RInv` adds that no OK stands while a seeding is
under way and that an idle scan holds nothing; then each action is shown to be a step of `Policy` or to leave its
variables alone: loading begins an update, each field copied installs (part of) a rule, the count ends it, a
failure or a crash gives it up, and the rules in force in between lie in the old
ones and `target`.

**`KernelProofs`.** The two directions are proved apart. `SoundInv`, that what the
maps say is true: a process keeps its leader while it lives (`LeaderInv`), sources
are processes that touched the network or read web content (`SourceInv`), marked
inodes have web content (`NoFalseMark`), records name downloaders (`CreatorInv`), and
so do those on disk and in the events under way, whose names only web content has
(`DaemonInv`; this is what `swap` breaks). Each needs the others, and all survive late
writes, read-write opens and evictions of pids and inodes.
`TrackInv` adds that nothing is missed, which none of the faults leaves true:
`TaintComplete` and `ContentMarked`, which need each other, what an execve in
progress has been let through for (`ExecInv`) and which inodes and processes are
known interpreters (`InterpInv`). `ContentMarked` speaks of storage and disk together,
so that it survives an inode that leaves the cache with its mark on disk.
`InterpreterGated` counts a rule since the process was born; that an approval outlives
the program it was given for is `KernelApproved`, which it does not contradict.

**`PathWalkProofs`.** `OwnInv`: two hooks under way are of different programs,
so have different slots of `SCRATCH`. `WalkInv`: a task between path and rules has
the CPU; in the walk, the token counter, the prefix hashed so far and the array
belong together (`Walked`), entry `j` of the array being the deepest prefix closed
so far whose depth is `j` modulo its length (`Entries`), so that a finished hook went by
the masked array of its own path (`KernelArray`). `UserspaceAgrees` follows because
the conversion keeps the number of components, and a prefix that is UTF-8 as it is. The induction over the
path is that over the steps of the walk.

**`BlocksProofs`.** `TableConsistent` needs the order to be without duplicates
and of exactly the map's tokens. The view: whatever event about a token travels
last, in the receiver or in the socket, says how the table stands; if none
travels, what the list reply and the menu hold is pending (`AgreeInv`) and what is
pending is in one of them (`CoverInv`). That the subscription is served before
the list, because the thread asks in this order and the queue keeps it
(`QueueInv`), is what makes them inductive. For `HiddenMeansResolved`:
a reply hides a row exactly when the request took the token out of the table, even
a request the window has given up on (`RowsInv`).

**`PersistProofs`.** `HonestInv`: the process of a fresh event still runs the
program that wrote, or has ended. `WrittenInv`: the inode of an event was written,
and so was whatever has its name now, unless the name was moved. `AgreeInv`: while
storage and disk differ, an event that will still find the inode is coming. They
speak of the set of events under way, not of their order.

**`QuarantineProofs`.** `Inv` says, besides the types, that an inode number tells
a file from the others of its name (`InoInv`), that a file is in one place
(`PlaceInv`), that what has a manifest is the file of the manifest (`StoreInv`), how
far `stash` and `restore` are (`StashInv`, `CliInv`), and what has been promised
(`PromisedInv`). The four action properties (`NothingLost`, `RoundTrip`, `TamperTrue`,
`Neutralised`) follow from it step by step.

**`LearnProofs`.** `WorldInv`: a file that is not saved has its event coming, and an
exec waits only for a saved one whose process is still there; the audit db has all
strings of saved files. From this, the rule made from an exec states every
dimension asked for (`EventLine`). `RuleInv`: every line of the file is that of a
learned exec, which needs appends to be whole or nothing; with `HoldsTruth` (a stated condition that holds of
another exec tells the truth about it) this is `Exact`. `PermitInv`: the daemon
writes no line twice, so that the k-th line is the k-th rule; lines of soak's
dimensions lie within the map; a soaking daemon has seen the whole file. Besides
the faults, `Exact` assumes that names in use stay apart when they are made UTF-8
(`Distinct`) and that comms fit a rule (`CommsFit`; `LearnComm` has one that does
not); `LearnedPermits` that targets and comms are proper UTF-8 (`Proper`;
`LearnInPlace`), and that no one allows exactly soak's dimensions unless the map
holds every line there can be (`NoMix`; `LearnFull`). The instance of the run satisfies
them all, with a landing name that is not UTF-8.

**`DeployProofs`.** `WriterInv`: while the key file is short, at most one daemon is
filling it, so whatever key a daemon holds is the one in the file (`OneKey`). `MetInv`:
daemons that run side by side know of each other, so one that never met another
has the name of the socket. `HealInv`: a mark is under its daemon's key, or under none with its event
still waiting. `AskedInv`: what a command reported is on disk, and what was on disk when
the service read its config is what it runs with, wherever commands end.

Only model-checked: liveness (`SeedingEnds`, `EveryRequestServed`,
`BlockReachesTray`, `PassEnds`, `Persisted`), which the prover does not handle, and
the fairness it rests on.

## 6. Not modelled

* SipHash, and the characters of rules and encoded values: sequential code with
  unit tests (`Learn` has which values survive, `Startup` under which key a hash
  was made). Recursive folder rules are never learned; `Allowlist` matches them.
* Null kernel pointers and failing helpers in the hooks, the scan limit of 4096
  bytes, the size of the LRU maps (an eviction may happen at any time instead).
* The list of interpreters handed to the kernel and a failure to seed it.
* Symbolic links on the way to a quarantined file, times and sizes.
* Of `setup`: the user's tray unit and group membership, dry runs,
  `--no-install`, the warning about a drifted `ExecStart`; of
  `install`: the search for a source and the checks whether to trust it. They
  read or print, or change files nothing else here reads.
* Icons, notifications, menus' wording and widgets of tray and review window.
* Logging, argument parsing, the memlock limit, build scripts.

## 7. Plan

Modelled: every part of section 1 but the last row. Proved: every safety
property of every run. What is left, most useful first:

1. Weaker assumptions where the model allows them: `LearnedPermits` with unwritten audit rows and unknown creators, whose rules
   are wider but still permit; `Quarantine` with ignored errors, for the
   properties they leave alone.
2. The invariants behind liveness, as far as they are safety: what each waiting
   party of `Review` waits for is there.
3. Lemmas on `Allowlist` worth stating by themselves: more conditions never
   permit more, and recursive folders contain the exact ones.

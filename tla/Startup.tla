------------------------------ MODULE Startup -------------------------------
(***************************************************************************)
(* How a daemon starts and stops beside another one: the service that      *)
(* systemd keeps, and a `linprov run --mode soak` in a terminal (run.rs,   *)
(* config.rs, key.rs).                                                     *)
(*                                                                         *)
(* The two share what is on disk: the config, the allowlist, the key that  *)
(* every path is hashed under, the socket's name, the marks of files.      *)
(* Each has hooks and maps of its own, and the hooks are attached before   *)
(* their rules, their mode and their key are in the maps.                  *)
(*                                                                         *)
(* One marked file stands for all.  Of a hash only the key it was made     *)
(* under counts; Raw stands for the zero and the half-written key.  The    *)
(* slots of the rules are module RuleSeed, the handler module Persist.     *)
(***************************************************************************)
EXTENDS Integers, Sequences

CONSTANTS
    svc,        \* the service
    fg,         \* the daemon in a terminal
    Keys,       \* the keys /dev/urandom may give, each once
    Versions,   \* the builds of the binary
    Raw,        \* "hashed under no key"
    Bad,        \* a config file that does not parse
    None,
    MaxWrites,  \* how often the file is written
    Faults      \* which of "drop", "torn", "race", "line", "io" may happen

ASSUME StartupAssumption ==
    /\ svc # fg
    /\ None \notin Keys \cup Versions \cup {svc, fg}
    /\ Raw \notin Keys /\ Raw # None
    /\ "short" \notin Keys \cup {None}

Daemons == {svc, fg}

ASSUME SocketAssumption == None \notin [owner : Daemons, group : BOOLEAN]

VARIABLES
    config,   \* config.toml: None, Bad or what it sets
    allow,    \* the rules of list.allow
    keyfile,  \* None, "short" or the key
    drawn,    \* the keys drawn so far
    group,    \* the `linprov` group exists
    sock,     \* who bound the name of the control socket, and for whom
    writes,   \* how often the file was written
    xattr,    \* the key under the mark on disk, or None
    d         \* the daemons

disk == <<config, allow, keyfile, drawn, group>>
marked == <<xattr, writes>>
startupVars == <<disk, sock, marked, d>>

\* A rule is on where the file is or on where it was written.
AllowRules == {"target", "landing"}

\* What a config file may set; None is a line that is not there.  Of the
\* lines on `notifications` it counts which are there, in their order: the
\* commented hint of the template and the one that turns the tray on.
Configs == [mode : {None, "observe", "enforce"}, listed : BOOLEAN,
            tray : {<<>>, <<"hint">>, <<"on">>, <<"hint", "on">>}]

ASSUME ModeAssumption == None \notin {"observe", "enforce", "soak"}
ASSUME ConfigsAssumption == Bad # None /\ {None, Bad} \cap Configs = {}

Empty == [mode |-> None, listed |-> FALSE, tray |-> <<>>]

TrayOn(cfg) == \E n \in DOMAIN cfg.tray : cfg.tray[n] = "on"

Off == [pc |-> "off", ver |-> None, cli |-> None, cfg |-> Empty,
        key |-> None, MODE |-> "observe", KEY |-> 0, rules |-> {},
        mark |-> None, EVENTS |-> None, met |-> FALSE]

On(i) == d[i].pc # "off"

\* The hooks are in the kernel.
Attached(i) ==
    d[i].pc \in {"rules", "mode", "k0", "k1", "open", "bind", "run"}

StartupInit ==
    /\ keyfile = None /\ drawn = {}
    /\ sock = None
    /\ xattr = None
    /\ d = [i \in Daemons |-> Off]

-----------------------------------------------------------------------------
(* Starting: one step of daemon i at a time.                               *)

\* Process i runs build v with `--mode cli`; each knows the other from now on.
Launched(i, v, cli) ==
    [j \in Daemons |->
        IF j = i THEN [Off EXCEPT !.pc = "config", !.ver = v, !.cli = cli,
                                  !.met = \E k \in Daemons \ {i} : On(k)]
        ELSE [d[j] EXCEPT !.met = On(j)]]

\* Hooks, maps and ring go with the process.
Gone(i) == [d EXCEPT ![i] = Off]

Goto(i, pc) == d' = [d EXCEPT ![i].pc = pc]

\* FileConfig::load_or_default, EffectiveConfig::resolve and the check at the
\* head of daemon().
Resolved(i) ==
    LET file == IF config = None THEN Empty ELSE config
        pick == IF d[i].cli # None THEN d[i].cli ELSE file.mode
    IN  [file EXCEPT !.mode = IF pick = None THEN "observe" ELSE pick]

execute(i) ==
    /\ d[i].pc = "config"
    /\ d' = IF \/ config = Bad
               \/ Resolved(i).mode # "observe" /\ ~Resolved(i).listed
            THEN Gone(i)
            ELSE [d EXCEPT ![i].pc = "key", ![i].cfg = Resolved(i)]
    /\ UNCHANGED <<disk, sock, marked>>

\* HashKey::load_or_create: a missing file is created, a short one is an error.
load_or_create(i) ==
    /\ d[i].pc = "key"
    /\ d' = CASE keyfile = None -> [d EXCEPT ![i].pc = "create"]
              [] keyfile = "short" -> Gone(i)
              [] OTHER -> [d EXCEPT ![i].pc = "attach", ![i].key = keyfile]
    /\ UNCHANGED <<disk, sock, marked>>

\* generate, then the open with O_EXCL, which leaves an empty file.
persist_over(i) ==
    /\ d[i].pc = "create"
    /\ \E k \in Keys \ drawn :
          /\ drawn' = drawn \cup {k}
          /\ d' = [d EXCEPT ![i].pc = "write", ![i].key = k]
          /\ keyfile' = "short"
    /\ UNCHANGED <<config, allow, group, sock, marked>>

persist(i) ==
    /\ d[i].pc = "create"
    /\ \E k \in Keys \ drawn :
          /\ drawn' = drawn \cup {k}
          /\ IF keyfile = None
             THEN /\ d' = [d EXCEPT ![i].pc = "write", ![i].key = k]
                  /\ keyfile' = "short"
             ELSE d' = Gone(i) /\ UNCHANGED keyfile
    /\ UNCHANGED <<config, allow, group, sock, marked>>

write_all(i) ==
    /\ d[i].pc = "write"
    /\ keyfile' = d[i].key
    /\ Goto(i, "attach")
    /\ UNCHANGED <<config, allow, drawn, group, sock, marked>>

attach(i) ==
    /\ d[i].pc = "attach"
    /\ Goto(i, "rules")
    /\ UNCHANGED <<disk, sock, marked>>

\* Rules::load and seed_rules; a missing list, or none configured, is empty.
seed_rules(i) ==
    /\ d[i].pc = "rules"
    /\ d' = [d EXCEPT ![i].pc = "mode",
                      ![i].rules = IF d[i].cfg.listed THEN allow ELSE {}]
    /\ UNCHANGED <<disk, sock, marked>>

\* CONFIG[0], KEY[0], KEY[1]: three writes to the maps.
set_mode(i) ==
    /\ d[i].pc = "mode"
    /\ d' = [d EXCEPT ![i].pc = "k0", ![i].MODE = d[i].cfg.mode]
    /\ UNCHANGED <<disk, sock, marked>>

set_key(i) ==
    /\ d[i].pc \in {"k0", "k1"}
    /\ d' = [d EXCEPT ![i].KEY = @ + 1,
                      ![i].pc = IF d[i].pc = "k0" THEN "k1" ELSE "open"]
    /\ UNCHANGED <<disk, sock, marked>>

\* The soak file and the audit db; either may fail to open.
open_files(i) ==
    /\ d[i].pc = "open"
    /\ d' \in {[d EXCEPT ![i].pc = "bind"], Gone(i)}
    /\ UNCHANGED <<disk, sock, marked>>

\* bind_control_socket: whatever has the name is removed first.  Without a
\* socket the daemon runs on.
Bound(i) == [owner |-> i, group |-> TrayOn(d[i].cfg) /\ group]

bind_if_free(i) ==
    /\ d[i].pc = "bind"
    /\ Goto(i, "run")
    /\ sock' = IF sock = None THEN Bound(i) ELSE sock
    /\ UNCHANGED <<disk, marked>>

bind_control_socket(i) ==
    /\ d[i].pc = "bind"
    /\ Goto(i, "run")
    /\ sock' \in {Bound(i)} \cup (IF "io" \in Faults THEN {None} ELSE {})
    /\ UNCHANGED <<disk, marked>>

-----------------------------------------------------------------------------
(* Running and stopping.                                                   *)

\* on_file_marked: the event's file gets its hashes anew, under the daemon's
\* key, on disk and in storage; the creator may be known by now.
keep_hashes(i) ==
    /\ d[i].pc = "run" /\ d[i].EVENTS # None
    /\ xattr' = d[i].EVENTS
    /\ \E known \in BOOLEAN :
          d' = [d EXCEPT ![i].EVENTS = None,
                         ![i].mark = [key |-> d[i].EVENTS, known |-> known]]
    /\ UNCHANGED <<disk, sock, writes>>

on_file_marked(i) ==
    /\ d[i].pc = "run" /\ d[i].EVENTS # None
    /\ xattr' = d[i].key
    /\ \E known \in BOOLEAN :
          d' = [d EXCEPT ![i].EVENTS = None,
                         ![i].mark = [key |-> d[i].key, known |-> known]]
    /\ UNCHANGED <<disk, sock, writes>>

\* ^C: the loop ends and the socket's name is removed, whoever bound it.
ctrl_c(i) ==
    /\ d[i].pc = "run"
    /\ d' = Gone(i)
    /\ sock' = None
    /\ UNCHANGED <<disk, marked>>

\* systemd owns /run/linprov (RuntimeDirectory=) and removes it with the unit.
Unbound(i) == IF i = svc THEN None ELSE sock

\* SIGTERM, a crash or a reboot, at any moment.
Kill(i) ==
    /\ On(i)
    /\ d' = Gone(i)
    /\ sock' = Unbound(i)
    /\ UNCHANGED <<disk, marked>>

-----------------------------------------------------------------------------
(* The kernel beside them.                                                 *)

\* The key file_open hashes with.
hash_key(i) == IF d[i].KEY = 2 THEN d[i].key ELSE Raw

\* A network process, or one that read a marked file, writes the file: each
\* daemon that saw it come by marks the inode, unless it is marked, and gets
\* an event if its ring has room.
Mark ==
    \E seen \in (SUBSET {i \in Daemons : Attached(i)}) \ {{}}, known \in BOOLEAN,
       drop \in IF "drop" \in Faults THEN BOOLEAN ELSE {FALSE} :
        /\ d' = [i \in Daemons |->
                   LET rec == [key |-> hash_key(i), known |-> known]
                   IN  IF i \notin seen THEN d[i]
                       ELSE [d[i] EXCEPT
                                !.mark = IF @ = None THEN rec ELSE @,
                                !.EVENTS = IF @ = None /\ ~drop THEN rec.key
                                           ELSE @]]
        /\ writes < MaxWrites /\ writes' = writes + 1
        /\ UNCHANGED <<disk, sock, xattr>>

\* The inode leaves the cache, and its storage with it.
Evict ==
    /\ \E i \in Daemons : d[i].mark # None
    /\ d' = [i \in Daemons |-> [d[i] EXCEPT !.mark = None]]
    /\ UNCHANGED <<disk, sock, marked>>

\* The record bprm_check_security judges by: storage, or the xattr if there
\* is none or its creator is not known yet.
Record(i) ==
    IF d[i].mark # None /\ (d[i].mark.known \/ xattr = None)
    THEN d[i].mark.key ELSE xattr

\* The rules were hashed under the daemon's key, the path is under KEY.
Matches(i, rule) ==
    IF rule = "target" THEN hash_key(i) = d[i].key ELSE Record(i) = d[i].key

\* An exec of the file now would be refused by daemon i.
Refuses(i) ==
    /\ Attached(i)
    /\ d[i].MODE = "enforce"
    /\ Record(i) # None
    /\ ~ \E rule \in d[i].rules : Matches(i, rule)

StartStep(i) ==
    \/ execute(i)
    \/ load_or_create(i) \/ persist(i) \/ write_all(i)
    \/ attach(i) \/ seed_rules(i) \/ set_mode(i) \/ set_key(i)
    \/ open_files(i) \/ bind_control_socket(i)

StartupNext ==
    \/ \E i \in Daemons :
          StartStep(i) \/ on_file_marked(i) \/ ctrl_c(i) \/ Kill(i)
    \/ Mark \/ Evict

-----------------------------------------------------------------------------
(* Correctness.                                                            *)

\* The daemon has its key from the file and goes on with it.
Keyed(i) == d[i].key # None /\ d[i].pc # "write"

\* OneKey: the service and a foreground run that start at the same moment on
\* a new installation, in any order of their reads, creations and writes of
\* the key file, go on with one key, the one in the file; and every mark on
\* disk is hashed under it, also one the kernel made before the key was in
\* its map.
OneKey ==
    /\ \A i \in Daemons : Keyed(i) => d[i].key = keyfile
    /\ xattr \in {None, keyfile}

\* The rules daemon i has, or will have when it comes to load them.
Given(i) ==
    IF d[i].pc = "rules" /\ d[i].cfg.listed THEN allow ELSE d[i].rules

\* RefusalExplained: a file that a rule of the list permits is refused only
\* between the writes of the mode and of the key, or while it is marked under
\* no key and the event that will correct the mark is waiting; so a start
\* heals what its own window broke.
RefusalExplained ==
    \A i \in Daemons :
        Refuses(i) /\ Given(i) # {}
            => \/ d[i].KEY < 2
               \/ Record(i) = Raw /\ d[i].EVENTS # None

\* SocketReachable: a daemon that never met another one has the socket,
\* whatever the ones before it left behind when they were killed.
SocketReachable ==
    \A i \in Daemons :
        d[i].pc = "run" /\ ~d[i].met => sock # None /\ sock.owner = i

-----------------------------------------------------------------------------
(* What the repository's text says, beyond the above.                      *)

\* bind_control_socket: "clear a stale socket from a prior run".
ClearsStale ==
    \A i \in Daemons : d[i].pc = "bind" /\ sock # None => ~On(sock.owner)

\* linprov-ebpf: "Runtime config set by userspace before attach", and of the
\* key "seeded by userspace before attach".
ConfigBeforeAttach ==
    \A i \in Daemons :
        Attached(i) => d[i].MODE = d[i].cfg.mode /\ d[i].KEY = 2
=============================================================================

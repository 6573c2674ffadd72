------------------------------- MODULE Deploy -------------------------------
(***************************************************************************)
(* The commands that put linprov on a host and keep it there, beside the   *)
(* daemons of module Startup: `linprov setup` (setup.rs), `linprov         *)
(* upgrade` (upgrade.rs), the copy of the binary both make (install.rs),   *)
(* systemd, which restarts the service when it fails, and the operator,    *)
(* who edits the config and the list.                                      *)
(*                                                                         *)
(* One command runs at a time and may end after any of its steps: a `?`    *)
(* that returns, a declined question, a ^C, a reboot.  A file is written   *)
(* with fs::write, which empties it first; the fault "torn" lets a command *)
(* end in between.  The fault "race" lets the operator save the config     *)
(* between a command's read and its write of it.                           *)
(***************************************************************************)
EXTENDS Startup

CONSTANTS
    MaxStarts,   \* how many daemons are started
    MaxCommands  \* how many commands are given

ASSUME BoundsAssumption == MaxStarts \in Nat /\ MaxCommands \in Nat

VARIABLES
    bin,      \* the build at the install path: None or a version
    unit,     \* the systemd unit is there
    cmd,      \* the command that runs
    asked,    \* what the operator was told is in place: mode, tray, build
    given,    \* what `asked` was when the service read its config
    starts, commands

cmdVars == <<bin, unit, cmd, asked, given>>
bounds == <<starts, commands>>
vars == <<startupVars, cmdVars, bounds>>

\* No command; `build` is what it installs, `text` the config it has read.
Idle == [pc |-> "idle", op |-> None, build |-> None, force |-> FALSE,
         changed |-> TRUE, text |-> None]

Nothing == [mode |-> None, tray |-> FALSE, build |-> None]

\* A host is followed from the first command on it, or, once it is set up in
\* any way, through the starts of its daemons beside processes that write
\* web content.
Fresh ==
    /\ config = None /\ allow = {} /\ group = FALSE
    /\ bin = None /\ unit = FALSE
    /\ commands = 0 /\ writes = MaxWrites

SetUp ==
    /\ config \in {c \in Configs : /\ c.mode # None /\ c.listed
                                   /\ c.tray = <<"hint">>}
    /\ allow \in {{}} \cup {{r} : r \in AllowRules}
    /\ group \in BOOLEAN
    /\ bin \in Versions /\ unit = TRUE
    /\ commands = MaxCommands /\ writes = 0

Init ==
    /\ StartupInit
    /\ Fresh \/ SetUp
    /\ cmd = Idle
    /\ asked = [Nothing EXCEPT !.mode = IF config = None THEN None
                                        ELSE config.mode,
                               !.tray = config # None /\ TrayOn(config)]
    /\ given = Nothing
    /\ starts = 0

\* No command's step, and no edit, while the foreground daemon is half way
\* through its start: the operator waits for it.  The service starts at any
\* moment of a command.
Calm == d[fg].pc \in {"off", "config", "run"}

At(op, pc) == Calm /\ cmd.op = op /\ cmd.pc = pc
Then(pc) == cmd' = [cmd EXCEPT !.pc = pc]
End == cmd' = Idle

-----------------------------------------------------------------------------
(* systemd and the operator.                                               *)

Runnable == bin # None

Start(i, cli) ==
    /\ starts < MaxStarts
    /\ starts' = starts + 1
    /\ d' = Launched(i, bin, cli)

\* `systemctl enable --now`, a boot, or Restart=on-failure.
SystemdStart ==
    /\ unit /\ Runnable /\ ~On(svc)
    /\ Start(svc, None)
    /\ UNCHANGED <<disk, sock, marked, cmdVars, commands>>

\* `systemctl restart`: SIGTERM, then the ExecStart of the unit.
Restart ==
    /\ unit /\ Runnable
    /\ Start(svc, None)
    /\ sock' = Unbound(svc)

Foreground ==
    /\ Runnable /\ ~On(fg)
    /\ Start(fg, "soak")
    /\ UNCHANGED <<disk, sock, marked, cmdVars, commands>>

\* The operator turns enforcement on.
EditConfig ==
    /\ Calm /\ config \in Configs /\ config.mode # "enforce"
    /\ cmd.text = None \/ "race" \in Faults
    /\ config' = [config EXCEPT !.mode = "enforce", !.listed = TRUE]
    /\ asked' = [asked EXCEPT !.mode = "enforce"]
    /\ UNCHANGED <<allow, keyfile, drawn, group, sock, marked, d,
                   bin, unit, cmd, given, bounds>>

\* The operator turns the tray on: the hint is uncommented or, with "line",
\* left where it is and a line added below.
EditTray ==
    /\ Calm /\ config \in Configs /\ ~TrayOn(config)
    /\ cmd.text = None \/ "race" \in Faults
    /\ \E lines \in {<<"on">>}
             \cup IF "line" \in Faults /\ config.tray = <<"hint">>
                  THEN {<<"hint", "on">>} ELSE {} :
          config' = [config EXCEPT !.tray = lines]
    /\ asked' = [asked EXCEPT !.tray = TRUE]
    /\ UNCHANGED <<allow, keyfile, drawn, group, sock, marked, d,
                   bin, unit, cmd, given, bounds>>

\* The operator writes one rule while nothing runs; an edit under a running
\* daemon is in module RuleSeed.
EditAllow ==
    /\ cmd.pc = "idle" /\ allow = {}
    /\ \A i \in Daemons : ~On(i)
    /\ \E r \in AllowRules : allow' = {r}
    /\ UNCHANGED <<config, keyfile, drawn, group, sock, marked, d, cmdVars,
                   bounds>>

\* "Remove it to regenerate": a short key file no daemon is writing.
RemoveKey ==
    /\ keyfile = "short"
    /\ \A i \in Daemons : d[i].pc # "write"
    /\ keyfile' = None
    /\ UNCHANGED <<config, allow, drawn, group, sock, marked, d, cmdVars,
                   bounds>>

-----------------------------------------------------------------------------
(* Both commands: a build is put in place.                                 *)

Command(op, v, force) ==
    /\ Calm /\ cmd.pc = "idle"
    /\ commands < MaxCommands
    /\ commands' = commands + 1
    /\ cmd' = [Idle EXCEPT !.op = op, !.pc = "install", !.build = v,
                           !.force = force]
    /\ UNCHANGED <<startupVars, bin, unit, asked, given, starts>>

\* `upgrade --no-install` only restarts.
NoInstall ==
    /\ Calm /\ cmd.pc = "idle"
    /\ bin # None
    /\ commands < MaxCommands
    /\ commands' = commands + 1
    /\ cmd' = [Idle EXCEPT !.op = "upgrade", !.pc = "reload", !.build = bin]
    /\ UNCHANGED <<startupVars, bin, unit, asked, given, starts>>

\* install_to: nothing if the bytes are the same; else a file beside the
\* destination is filled, then renamed onto it.
Installed(changed) ==
    IF cmd.op = "setup" THEN [cmd EXCEPT !.pc = "config", !.build = None]
    ELSE [cmd EXCEPT !.pc = "reload", !.changed = changed]

install_to ==
    /\ Calm /\ cmd.pc = "install"
    /\ cmd' = IF bin = cmd.build
              THEN Installed(FALSE)
              ELSE [cmd EXCEPT !.pc = "rename"]
    /\ UNCHANGED <<startupVars, bin, unit, asked, given, bounds>>

rename ==
    /\ Calm /\ cmd.pc = "rename"
    /\ bin' = cmd.build
    /\ asked' = [asked EXCEPT !.build = None]
    /\ cmd' = Installed(TRUE)
    /\ UNCHANGED <<startupVars, unit, given, bounds>>

\* The command ends early.
Abort ==
    /\ Calm /\ cmd.pc # "idle"
    /\ End
    /\ UNCHANGED <<startupVars, bin, unit, asked, given, bounds>>

-----------------------------------------------------------------------------
(* `linprov setup`.                                                        *)

Template == [mode |-> "observe", listed |-> TRUE, tray |-> <<"hint">>]

\* What an interrupted fs::write of text leaves: nothing, half a line, or the
\* mode and not yet the list.
Torn(text) ==
    {Empty, Bad} \cup IF text = Bad THEN {}
                      ELSE {[text EXCEPT !.listed = FALSE, !.tray = <<>>]}

\* What is in a file after the command has written text to it, or ended.
Written(text) == {text} \cup IF "torn" \in Faults THEN Torn(text) ELSE {}

regenerate_config ==
    /\ At("setup", "config")
    /\ config' = Template
    /\ asked' = IF cmd.force THEN [asked EXCEPT !.mode = None, !.tray = FALSE]
                ELSE asked
    /\ Then("list")
    /\ UNCHANGED <<allow, keyfile, drawn, group, sock, marked, d, bin, unit,
                   given, bounds>>

\* An existing file stays unless --force.
write_config ==
    /\ At("setup", "config")
    /\ IF config # None /\ ~cmd.force
       THEN UNCHANGED <<config, asked>> /\ Then("list")
       ELSE /\ config' \in Written(Template)
            /\ asked' = [asked EXCEPT !.mode = None, !.tray = FALSE]
            /\ IF config' = Template THEN Then("list") ELSE End
    /\ UNCHANGED <<allow, keyfile, drawn, group, sock, marked, d, bin, unit,
                   given, bounds>>

\* The list as setup writes it has no rule, as has a torn one.
write_empty_allowlist ==
    /\ At("setup", "list")
    /\ allow' = IF cmd.force THEN {} ELSE allow
    /\ cmd' = [cmd EXCEPT !.pc = "group", !.force = FALSE]
    /\ UNCHANGED <<config, keyfile, drawn, group, sock, marked, d, bin, unit,
                   asked, given, bounds>>

\* groupadd is best-effort.
ensure_linprov_group ==
    /\ At("setup", "group")
    /\ group' \in {group, TRUE}
    /\ Then("unit")
    /\ UNCHANGED <<config, allow, keyfile, drawn, sock, marked, d, bin, unit,
                   asked, given, bounds>>

write_systemd_unit ==
    /\ At("setup", "unit")
    /\ unit' = TRUE
    /\ Then("tray")
    /\ UNCHANGED <<startupVars, bin, asked, given, bounds>>

\* The walkthrough; every question may be declined.
Decline ==
    /\ Calm /\ cmd.op = "setup" /\ cmd.pc \in {"tray", "restart"}
    /\ Then(IF cmd.pc = "tray" THEN "restart" ELSE "soak")
    /\ UNCHANGED <<startupVars, bin, unit, asked, given, bounds>>

\* set_config_notifications_tray: the file is read, and written with the
\* line changed.
read_to_string ==
    /\ At("setup", "tray") /\ config \in Configs
    /\ cmd' = [cmd EXCEPT !.pc = "patch", !.text = config]
    /\ UNCHANGED <<startupVars, bin, unit, asked, given, bounds>>

\* The first line on notifications, commented or not, is turned on, or one is
\* added.  A file with two such keys is not TOML.
ensure_tray_line(text) ==
    CASE text.tray = <<"hint", "on">> -> Bad
      [] OTHER -> [text EXCEPT !.tray = <<"on">>]

set_config_notifications_tray ==
    /\ At("setup", "patch")
    /\ config' \in Written(ensure_tray_line(cmd.text))
    /\ IF config' = ensure_tray_line(cmd.text)
       THEN /\ cmd' = [cmd EXCEPT !.pc = "restart", !.text = None]
            /\ asked' = [asked EXCEPT !.tray = TRUE]
       ELSE End /\ UNCHANGED asked
    /\ UNCHANGED <<allow, keyfile, drawn, group, sock, marked, d, bin, unit,
                   given, bounds>>

restart_system_unit ==
    /\ At("setup", "restart") /\ On(svc)
    /\ Restart
    /\ Then("soak")
    /\ UNCHANGED <<disk, marked, bin, unit, asked, given, commands>>

\* The last question: setup becomes a daemon that soaks.
exec_soak ==
    /\ At("setup", "soak") /\ ~On(fg) /\ Runnable
    /\ Start(fg, "soak")
    /\ End
    /\ UNCHANGED <<disk, sock, marked, bin, unit, asked, given, commands>>

-----------------------------------------------------------------------------
(* `linprov upgrade`.                                                      *)

\* Nothing new was installed: the service is left alone.
SkipRestart ==
    /\ At("upgrade", "reload") /\ ~cmd.changed
    /\ End
    /\ UNCHANGED <<startupVars, bin, unit, asked, given, bounds>>

\* systemctl(): daemon-reload and restart; then "linprov restarted".
systemctl ==
    /\ At("upgrade", "reload") /\ cmd.changed
    /\ Restart
    /\ End
    /\ asked' = [asked EXCEPT !.build = cmd.build]
    /\ UNCHANGED <<disk, marked, bin, unit, given, commands>>

SetupStep ==
    \/ write_config \/ write_empty_allowlist \/ ensure_linprov_group
    \/ write_systemd_unit \/ Decline \/ read_to_string
    \/ set_config_notifications_tray \/ restart_system_unit \/ exec_soak

UpgradeStep == SkipRestart \/ systemctl

\* A daemon's step; the service notes what was asked when it reads the config.
DaemonStep ==
    /\ StartupNext
    /\ given' = CASE d[svc].pc = "config" /\ d'[svc].pc = "key" -> asked
                  [] d'[svc].pc = "off" -> Nothing
                  [] OTHER -> given
    /\ UNCHANGED <<bin, unit, cmd, asked, bounds>>

Next ==
    \/ DaemonStep
    \/ SystemdStart \/ Foreground \/ EditConfig \/ EditTray \/ EditAllow \/ RemoveKey
    \/ \E v \in Versions, force \in BOOLEAN : Command("setup", v, force)
    \/ \E v \in Versions : Command("upgrade", v, FALSE)
    \/ NoInstall
    \/ install_to \/ rename \/ SetupStep \/ UpgradeStep \/ Abort

Spec == Init /\ [][Next]_vars

-----------------------------------------------------------------------------
(* Correctness.                                                            *)

\* ServiceAsAsked: through any sequence of setups, upgrades, edits, failures
\* and restarts, the service that runs is the one the operator was told of:
\* it enforces if it read its config after the operator turned enforcement on
\* and did not ask for a new one with --force; it offers the tray its socket
\* if it read its config after setup said so; and it runs the build that an
\* upgrade reported, until another one is put in place.
ServiceAsAsked ==
    On(svc) =>
        /\ asked.build # None => d[svc].ver = asked.build
        /\ d[svc].pc # "config" =>
              /\ given.mode = "enforce" => d[svc].cfg.mode = "enforce"
              /\ given.tray => TrayOn(d[svc].cfg)

-----------------------------------------------------------------------------
(* What the repository's text says, beyond the above.                      *)

\* upgrade: "already matches ... nothing to do", when the service runs it.
NothingToDo ==
    At("upgrade", "reload") /\ ~cmd.changed /\ On(svc)
        => d[svc].ver = cmd.build

\* ensure_tray_line: `Ensure the config has an active notifications line`, by
\* "replacing the commented hint (or a prior value)": no command leaves a
\* config that does not parse.
ConfigParses == config # Bad

\* key.rs: "generate-once": a key file is good or absent when no daemon is
\* at work on it.
KeyUsable ==
    (\A i \in Daemons : d[i].pc # "write") => keyfile # "short"
=============================================================================

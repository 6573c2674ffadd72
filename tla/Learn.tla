------------------------------- MODULE Learn --------------------------------
(***************************************************************************)
(* Rules learned from execs: a soak run appends one per marked exec, an    *)
(* enforcing daemon offers one per blocked exec for `linprov allow`        *)
(* (handler.rs, allowlist.rs, control.rs), and both depend on the audit db *)
(* to turn the hashes of a mark back into paths (hashdb.rs).               *)
(*                                                                         *)
(* What is checked is the round trip: exec, event, hashes resolved, rule,  *)
(* line of text, file, load at a later start, check_allowlist.             *)
(*                                                                         *)
(* A string is a sequence of names; a hash is its string (no collisions).  *)
(* Lossy is String::from_utf8_lossy, the identity on proper names; Unsafe  *)
(* names hold `;`, `#`, control characters or outer blanks.  The recursive *)
(* folder form is never learned, so it is left out.                        *)
(***************************************************************************)
EXTENDS Allowlist, FiniteSets

CONSTANTS
    Files, Pids, Names,
    Lossy,            \* Names -> Names
    Unsafe,           \* names that do not survive as plain text in a rule
    TooLong,          \* names too long for a comm once made UTF-8
    CutName, CutUid,  \* what a name or number reads as when its end is missing
    Junk,             \* a name with the text of another line stuck to it
    Landing, Target,  \* where each file was written and is executed
    Comm, Exe,        \* name and program of the process that fetched it
    CreatorUid,       \* and its uid
    Uids, Uid0,       \* users, and the uid of each process at first
    SoakDims,         \* --soak
    Selections,          \* the `dims=` selections a user may make
    MAX_RULES,
    RING,             \* bound on the events waiting
    MAX_LINES,        \* bound on the lines `allow` may append up to
    NoRecord, Gone,
    Faults            \* which of AllFaults happen

\* The event ring drops the event of a mark; a file is executed before its
\* mark's event is handled; its creator has ended by then; a row of the audit
\* db, or a rule, is not appended, or only in part; the process that
\* executed it ends, or its pid is taken over, before that event is handled.
AllFaults == {"drop", "early", "creator", "row", "append", "torn", "gone"}

\* RuleSpec's dimensions without the recursive folder form.
Dim == {"target_filename", "target_folder", "landing_filename",
        "landing_folder", "creator_process", "creator_comm", "creator_uid",
        "execution_uid"}

ASSUME LearnAssumption ==
    /\ MAX_RULES \in Nat \ {0} /\ MAX_LINES \in Nat
    /\ Lossy \in [Names -> Names]
    /\ 0 \in Uids /\ Uid0 \in [Pids -> Uids]
    /\ CutName \in [Names -> SUBSET Names] /\ CutUid \in [Uids -> SUBSET Uids]
    /\ SoakDims \subseteq Dim
    /\ Faults \subseteq AllFaults

ASSUME FilesAssumption ==
    /\ Landing \in [Files -> Seq(Names) \ {<<>>}]
    /\ Target \in [Files -> Seq(Names) \ {<<>>}]
    /\ Comm \in [Files -> Names] /\ Exe \in [Files -> Names]
    /\ CreatorUid \in [Files -> Uids]

\* The origin records there are.
Marks == [comm : Names, creator_uid : Uids,
          creator_path_hash : Names \cup {NoHash}, landing : Seq(Names)]

ASSUME NoAssumption ==
    /\ NoHash \notin Names /\ Gone \notin Uids /\ NoRecord \notin Marks

VARIABLES
    mode,      \* the running daemon's mode, or "down"
    mark,      \* the record of each file
    saved,     \* files whose record is in their xattr
    events,    \* the event ring
    uid,       \* Uid: of /proc/<pid>/status, or Gone
    map, rows, \* HashDb.map, and the rows of hashes.tsv
    seen,      \* Soak.seen
    file,      \* the lines of the allowlist file
    ends,      \* where its text ends: after a "line", a `;` ("cond") or a "value"
    active,    \* the rules in the kernel
    blocks,    \* candidate rules of blocked execs
    unwritten, \* ghost: lines this session failed to append
    learned    \* ghost: execs a rule was learned from

vars == <<mode, mark, saved, events, uid, map, rows, seen, file, ends, active,
          blocks, unwritten, learned>>

Init ==
    /\ mode = "down"
    /\ mark = [f \in Files |-> NoRecord]
    /\ saved = {} /\ map = {} /\ rows = {} /\ seen = {} /\ active = {}
    /\ blocks = {} /\ unwritten = {} /\ learned = {}
    /\ events = <<>> /\ file = <<>> /\ ends = "line"
    /\ uid = Uid0

-----------------------------------------------------------------------------
(* Rules and their text.                                                   *)

lossy(path) == [k \in DOMAIN path |-> Lossy[path[k]]]

UidDims == {"creator_uid", "execution_uid"}
FolderDims == {"target_folder", "landing_folder"}

\* A value that would break the line, as it appears in a path or alone.
needs_b64(d, v) ==
    IF d \in UidDims THEN FALSE
    ELSE IF d \in FolderDims \cup {"target_filename"}
         THEN \E k \in DOMAIN v : v[k] \in Unsafe
    ELSE v \in Unsafe

encode_plain(d, v) == [b64 |-> FALSE, text |-> v]
encode_value(d, v) == [b64 |-> needs_b64(d, v), text |-> v]

\* RuleSpec::to_line: the conditions that have a value.
to_line(spec) == [d \in DOMAIN spec.value |-> encode_value(d, spec.value[d])]

\* RuleSpec::parse is an error when a key is unknown or a plain value is not
\* safe.
Parses(line) ==
    /\ DOMAIN line \subseteq Dim
    /\ \A d \in DOMAIN line : needs_b64(d, line[d].text) => line[d].b64
decode(line) == [d \in DOMAIN line |-> line[d].text]

\* One bad line is an error.
Loads(lines) == \A k \in DOMAIN lines : Parses(lines[k])

\* Rules::load, as the lines it keeps: no blank ones, no later duplicates.
load(lines) ==
    {k \in DOMAIN lines : /\ DOMAIN lines[k] # {}
                          /\ \A j \in 1 .. k - 1 : lines[j] # lines[k]}
rules_of(lines) == {lines[k] : k \in load(lines)}

\* How many rules have been kept with that of line k.
Rank(lines, k) == Cardinality({j \in load(lines) : j <= k})

\* pack and seed_rules: what the kernel gets, as far as it fits.
seeded(lines) ==
    {decode(lines[k]) :
        k \in {j \in load(lines) : Loads(lines) /\ Rank(lines, j) <= MAX_RULES}}

\* RuleSpec::project.
project(rule, dims) == [d \in DOMAIN rule \cap dims |-> rule[d]]

-----------------------------------------------------------------------------
(* Appending a line, all or part of it.                                    *)

\* The conditions of a line are in DIM_ORDER.
DIM_ORDER == <<"target_filename", "target_folder", "landing_filename",
               "landing_folder", "creator_process", "creator_comm",
               "creator_uid", "execution_uid">>
Upto(k) == {DIM_ORDER[j] : j \in 1 .. k}
Places(line) == {k \in DOMAIN DIM_ORDER : DIM_ORDER[k] \in DOMAIN line}
FirstOf(line) == CHOOSE k \in Places(line) : \A j \in Places(line) : k <= j
LastOf(line) == CHOOSE k \in Places(line) : \A j \in Places(line) : j <= k

\* A line that does not parse, cut in a key or in front of a number.
Unreadable == [key |-> encode_plain("key", <<>>)]

\* What the text of a value reads as when its end is missing.
Stubs(d, v) ==
    IF d \in UidDims THEN CutUid[v]
    ELSE IF d \in FolderDims \cup {"target_filename"}
         THEN UNION {{SubSeq(v, 1, k - 1)} \cup
                     {Append(SubSeq(v, 1, k - 1), n) : n \in CutName[v[k]]} :
                        k \in DOMAIN v}
    ELSE CutName[v]

\* What a proper beginning of a line reads as: the conditions up to one, which
\* is whole, with its `;` or without, or cut itself.
Cuts(line) ==
    {[line |-> Unreadable, end |-> "value"]}
    \cup {[line |-> project(line, Upto(k)), end |-> "value"] : k \in Places(line)}
    \cup {[line |-> project(line, Upto(k)), end |-> "cond"] :
              k \in Places(line) \ {LastOf(line)}}
    \cup UNION {{[line |-> [project(line, Upto(k)) EXCEPT ![DIM_ORDER[k]].text = v],
                  end |-> "value"] :
                    v \in Stubs(DIM_ORDER[k], line[DIM_ORDER[k]].text)} :
                 k \in Places(line)}

\* A value with the next line's first condition stuck to it.
Spoilt(d, v) ==
    [b64 |-> FALSE,
     text |-> IF d \in FolderDims \cup {"target_filename"} THEN Append(v, Junk)
              ELSE Junk]

\* What a line reads as that goes on in the text of another: a condition
\* given twice is an error, a number with text behind it too, and a comm
\* unless it is short.
Glued(line, next) ==
    LET last == DIM_ORDER[LastOf(line)]
        rest == IF ends = "cond" THEN DOMAIN next
                ELSE DOMAIN next \ {DIM_ORDER[FirstOf(next)]}
        both == [d \in DOMAIN line \cup rest |->
                    IF d \in rest THEN next[d]
                    ELSE IF d = last /\ ends = "value"
                         THEN Spoilt(d, line[d].text) ELSE line[d]]
    IN  IF line = Unreadable \/ next = Unreadable \/ DOMAIN line \cap rest # {}
        THEN {Unreadable}
        ELSE IF ends = "cond" THEN {both}
        ELSE IF last \in UidDims THEN {Unreadable}
        ELSE IF last = "creator_comm" THEN {Unreadable, both}
        ELSE {both}

\* The lines once `line` is written behind what is there.
Added(line) ==
    IF ends = "line" THEN {Append(file, line)}
    ELSE {[file EXCEPT ![Len(file)] = new] : new \in Glued(file[Len(file)], line)}

\* writeln! on the unbuffered file: all of the line, or nothing ("append"), or
\* a part ("torn"), as when the disk is full or the daemon is killed.
writeln(line) ==
    {[lines |-> new, end |-> "line", ok |-> TRUE] : new \in Added(line)}
    \cup (IF "append" \in Faults
          THEN {[lines |-> file, end |-> ends, ok |-> FALSE]} ELSE {})
    \cup (IF "torn" \in Faults
          THEN UNION {{[lines |-> new, end |-> cut.end, ok |-> FALSE] :
                           new \in Added(cut.line)} : cut \in Cuts(line)}
          ELSE {})

\* No line to write.
Kept == [lines |-> file, end |-> ends, ok |-> TRUE]

-----------------------------------------------------------------------------
(* Learning a rule.                                                        *)

\* RuleSpec::set, over the values that are there: it raises the flag and
\* then refuses a creator_comm that is too long.
spec_of(values) ==
    [flags |-> DOMAIN values,
     value |-> [d \in {e \in DOMAIN values :
                          e # "creator_comm" \/ values[e] \notin TooLong}
                   |-> values[d]]]

-----------------------------------------------------------------------------
(* The audit db.                                                           *)

Dir(folder) == Append(folder, "/")
Word(name) == <<name>>

\* HashDb::resolve, as the set of the path it knows, if any.
resolve(string, value) == IF string \in map THEN {value} ELSE {}

\* HashDb::record of several strings: each new one enters the map and, if
\* the append succeeds, the file.
record_strings(strings) ==
    /\ map' = map \cup strings
    /\ \E lost \in IF "row" \in Faults THEN SUBSET (strings \ map) ELSE {{}} :
          rows' = rows \cup ((strings \ map) \ lost)

open_empty == {}
\* HashDb::open loads what was appended in earlier runs.
open_db == rows

-----------------------------------------------------------------------------
(* Marks and execs.                                                        *)

\* file_open: the kernel's own record, and an event for userspace.
Download(f) ==
    /\ mode # "down" /\ mark[f] = NoRecord
    /\ Len(events) < RING
    /\ mark' = [mark EXCEPT ![f] =
                  [comm |-> Comm[f], creator_uid |-> CreatorUid[f],
                   creator_path_hash |-> NoHash, landing |-> Landing[f]]]
    /\ events' \in {Append(events, [kind |-> "mark", file |-> f])}
                   \cup (IF "drop" \in Faults THEN {events} ELSE {})
    /\ UNCHANGED <<mode, saved, uid, map, rows, seen, file, ends, active, blocks,
                   unwritten, learned>>

MarkPending(f) ==
    \E k \in DOMAIN events : events[k] = [kind |-> "mark", file |-> f]

\* on_file_marked: the strings go to the audit db, the augmented record to
\* the xattr and to inode storage (module Persist has its steps).
on_file_marked ==
    /\ events # <<>> /\ Head(events).kind = "mark"
    /\ LET f == Head(events).file
           landing == lossy(Landing[f])
           strings == {Dir(a) : a \in Ancestors(landing)}
                      \cup {Word(Basename(landing))}
       IN  \E known \in IF "creator" \in Faults THEN BOOLEAN ELSE {TRUE} :
              /\ record_strings(strings
                                \cup (IF known THEN {Word(Exe[f])} ELSE {}))
              /\ mark' = [mark EXCEPT ![f].landing = landing,
                                      ![f].creator_path_hash =
                                          IF known THEN Exe[f] ELSE NoHash]
              /\ saved' = saved \cup {f}
    /\ events' = Tail(events)
    /\ UNCHANGED <<mode, uid, seen, file, ends, active, blocks, unwritten, learned>>

\* bprm_check_security on a marked file; `by` is a ghost, who asked.
Exec(p, f) ==
    /\ mode # "down" /\ mark[f] # NoRecord /\ uid[p] # Gone
    /\ "early" \in Faults \/ ~MarkPending(f)
    /\ Len(events) < RING
    /\ events' = Append(events,
          [kind |-> "exec", file |-> f, pid |-> p, origin |-> mark[f],
           by |-> uid[p],
           denied |-> mode = "enforce" /\ ~check_allowlist(active, mark[f],
                                                  Target[f], uid[p])])
    /\ UNCHANGED <<mode, mark, saved, uid, map, rows, seen, file, ends, active,
                   blocks, unwritten, learned>>

\* A process ends; unless "gone", only when its execs have been handled.
Exit(p) ==
    /\ uid[p] # Gone
    /\ "gone" \in Faults \/ \A k \in DOMAIN events :
                                events[k].kind = "exec" => events[k].pid # p
    /\ uid' = [uid EXCEPT ![p] = Gone]
    /\ UNCHANGED <<mode, mark, saved, events, map, rows, seen, file, ends, active,
                   blocks, unwritten, learned>>

\* Its pid is taken by a process of any user.
Enter(p, u) ==
    /\ uid[p] = Gone
    /\ uid' = [uid EXCEPT ![p] = u]
    /\ UNCHANGED <<mode, mark, saved, events, map, rows, seen, file, ends, active,
                   blocks, unwritten, learned>>

\* get_uid_for_pid, when the event is handled.
exec_uid(e) == IF uid[e.pid] = Gone THEN 0 ELSE uid[e.pid]

\* OriginContext: the value of dimension d for event e, if any; landing and
\* creator_process only if the audit db knows them.
Value(e, d) ==
    LET folder == Parent(e.origin.landing)
        base == Basename(e.origin.landing)
        exe == e.origin.creator_path_hash
        live == lossy(Target[e.file])
    IN  CASE d = "target_filename"  -> {live}
          [] d = "target_folder"    -> {Parent(live)}
          [] d = "landing_folder"   -> resolve(Dir(folder), folder)
          [] d = "landing_filename" -> resolve(Word(base), base)
          [] d = "creator_process"  -> IF exe = NoHash THEN {}
                                       ELSE resolve(Word(exe), exe)
          [] d = "creator_comm"     -> {Lossy[e.origin.comm]}
          [] d = "creator_uid"      -> {e.origin.creator_uid}
          [] d = "execution_uid"    -> {exec_uid(e)}

\* rule_from_context: the dimensions of dims whose values are there.
rule_from_context(e, dims) ==
    spec_of([d \in {c \in dims : Value(e, c) # {}} |->
                CHOOSE v \in Value(e, d) : TRUE])

\* Ghost: the exec of event e has a rule that is meant to cover dims.
Learned(how, e, dims) ==
    [how |-> how, file |-> e.file, uid |-> e.by, dims |-> dims]

FullLate == Cardinality(seen) > MAX_RULES
Full == Cardinality(seen) >= MAX_RULES

\* Soak::record: nothing for a rule without conditions, a known one, or
\* past the capacity of the map; else `seen` first, then the file.
record(e) ==
    LET spec == rule_from_context(e, SoakDims)
        line == to_line(spec)
        now == Learned("soak", e, SoakDims)
        skip == spec.flags = {} \/ (line \notin seen /\ Full)
        new == ~skip /\ line \notin seen
    IN  \E w \in IF new THEN writeln(line) ELSE {Kept} :
          /\ seen' = IF new THEN seen \cup {line} ELSE seen
          /\ file' = w.lines /\ ends' = w.end
          /\ unwritten' = IF ~w.ok THEN unwritten \cup {line} ELSE unwritten
          /\ learned' = IF skip \/ line \in unwritten' THEN learned
                        ELSE learned \cup {now}

ALLOW_DIMS == {"target_filename", "creator_process", "creator_comm",
               "creator_uid", "execution_uid", "landing_folder",
               "landing_filename"}

\* record_block_token: the candidate rule of a blocked exec, under a token
\* that stands for its line.
record_block_token(e) ==
    blocks' = blocks \cup {[line |-> to_line(rule_from_context(e, ALLOW_DIMS)),
                            exec |-> e]}

\* maybe_soak: only a soaking daemon learns by itself.
maybe_soak(e) ==
    \/ mode = "soak" /\ record(e)
    \/ mode # "soak" /\ UNCHANGED <<seen, file, ends, unwritten, learned>>

\* on_execve_marked, on_script_exec.
on_execve_marked ==
    /\ events # <<>> /\ Head(events).kind = "exec"
    /\ LET e == Head(events)
       IN  \/ /\ e.denied
              /\ record_block_token(e)
              /\ UNCHANGED <<seen, file, ends, unwritten, learned>>
           \/ /\ ~e.denied
              /\ maybe_soak(e)
              /\ UNCHANGED blocks
    /\ events' = Tail(events)
    /\ UNCHANGED <<mode, mark, saved, uid, map, rows, active>>

\* apply_with_dims and append_persistent, then reseed_from_control, and the
\* token is dropped; an error on the way leaves what was done (`once` and the
\* reply are in module RuleSeed).
Allow(b, dims) ==
    LET line == project(b.line, dims)
    IN  /\ mode = "enforce"
        /\ Parses(b.line) /\ DOMAIN line # {}
        /\ Loads(file)
        /\ \E w \in IF line \in rules_of(file) THEN {Kept} ELSE writeln(line) :
              /\ Len(w.lines) <= MAX_LINES
              /\ file' = w.lines /\ ends' = w.end
              /\ IF w.ok /\ Loads(w.lines)
                 THEN /\ active' = seeded(w.lines)
                      /\ blocks' = {c \in blocks : c.line # b.line}
                      /\ learned' = learned
                                    \cup {Learned("allow", b.exec, DOMAIN line)}
                 ELSE UNCHANGED <<active, blocks, learned>>
        /\ UNCHANGED <<mode, mark, saved, events, uid, map, rows, seen,
                       unwritten>>

\* daemon(): a file that does not load is fatal.
Start(m) ==
    /\ mode = "down"
    /\ Loads(file)
    /\ mode' = m
    /\ active' = seeded(file)
    /\ seen' = IF m = "soak" THEN rules_of(file) ELSE {}
    /\ map' = open_db
    /\ UNCHANGED <<mark, saved, events, uid, rows, file, ends, blocks, unwritten,
                   learned>>

\* The daemon stops or is killed: its maps go, xattrs stay.
Stop ==
    /\ mode # "down"
    /\ mode' = "down"
    /\ mark' = [f \in Files |-> IF f \in saved THEN mark[f] ELSE NoRecord]
    /\ events' = <<>>
    /\ map' = {} /\ seen' = {} /\ active' = {} /\ blocks' = {}
    /\ unwritten' = {}
    /\ UNCHANGED <<saved, uid, rows, file, ends, learned>>

Next ==
    \/ \E f \in Files : Download(f)
    \/ on_file_marked
    \/ \E p \in Pids, f \in Files : Exec(p, f)
    \/ \E p \in Pids : Exit(p)
    \/ \E p \in Pids, u \in Uids : Enter(p, u)
    \/ on_execve_marked
    \/ \E b \in blocks, dims \in Selections : Allow(b, dims)
    \/ \E m \in {"soak", "enforce"} : Start(m)
    \/ Stop

Spec == Init /\ [][Next]_vars

-----------------------------------------------------------------------------
(* Correctness.                                                            *)

\* FileLoads: whatever names were learned, the file the daemon wrote can be
\* loaded, so the daemon comes up again (to_line encodes what parse would
\* trip over).
FileLoads == Loads(file)

\* LearnedPermits: an exec a rule was learned from is permitted by the file
\* from then on, over restarts, failed appends and a full map; for soak
\* because Soak::record stops in time, for `allow` as long as all rules fit.
LearnedPermits ==
    LET rules == seeded(file)
    IN  \A l \in learned :
            /\ mark[l.file] # NoRecord
            /\ l.how = "soak" \/ Cardinality(load(file)) <= MAX_RULES
            => check_allowlist(rules, mark[l.file], Target[l.file], l.uid)

\* What dimension d says of uid u executing file f, in truth.
Truth(d, f, u) ==
    CASE d = "target_filename"  -> Target[f]
      [] d = "target_folder"    -> Parent(Target[f])
      [] d = "landing_folder"   -> Parent(Landing[f])
      [] d = "landing_filename" -> Basename(Landing[f])
      [] d = "creator_process"  -> Exe[f]
      [] d = "creator_comm"     -> Comm[f]
      [] d = "creator_uid"      -> CreatorUid[f]
      [] d = "execution_uid"    -> u

\* Exact: no exec is permitted unless it agrees with a learned one on every
\* dimension asked for (soak's, or the ones chosen for `allow`): no rule is
\* wider than what was seen, marks of earlier runs included.
Exact ==
    LET rules == seeded(file)
    IN  \A f \in {g \in Files : mark[g] # NoRecord}, u \in Uids :
            check_allowlist(rules, mark[f], Target[f], u)
            => \E l \in learned :
                  \A d \in l.dims : Truth(d, f, u) = Truth(d, l.file, l.uid)
=============================================================================

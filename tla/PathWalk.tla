------------------------------ MODULE PathWalk ------------------------------
(***************************************************************************)
(* How one CPU works out the path a hook judges (linprov-ebpf main.rs):    *)
(* file_open and bprm_check_security fetch a record into their slot of     *)
(* SCRATCH, resolve the path, and walk it (landing_step, with              *)
(* landing_hashes and target_hashes around it) through WALK_ANC into the   *)
(* record or TARGET_ANCESTORS.  All of these are per-CPU and reused by     *)
(* every hook that runs there.  Also the array userspace computes for the  *)
(* same path (on_file_marked in handler.rs).                               *)
(*                                                                         *)
(* A path arrives as tokens, "/" and components; a hash is the string that *)
(* was hashed: a prefix's hash is the sequence of its components, and a    *)
(* record is the path of its file.  Bytes and the SipHash state are left   *)
(* out, and with them the 4096-byte scan limit, which is PATH_MAX.         *)
(*                                                                         *)
(* The programs are sleepable: while a hook waits for an xattr another     *)
(* task gets the CPU.  As the comments have it, a walk does not yield, and *)
(* the kernel never enters a program twice on a CPU; the fault "preempt"   *)
(* lets the CPU change hands between any two steps.                        *)
(***************************************************************************)
EXTENDS Allowlist

CONSTANTS
    Paths,   \* the paths a hook may resolve
    Tasks,   \* the tasks on the CPU
    Names,   \* the names of files and folders
    Lossy,   \* what String::from_utf8_lossy makes of a name
    Slash,   \* the token `/`, no component's name
    Nobody,  \* no task is inside a hook that holds the CPU
    Faults   \* subset of {"preempt"}

ASSUME PathWalkAssumption == Nobody \notin Tasks /\ Faults \subseteq {"preempt"}

\* A path is at least one component, and no hash of a prefix is zero.
ASSUME PathsAssumption ==
    \A path \in Paths :
        /\ path \in Seq({path[k] : k \in DOMAIN path}) /\ path # <<>>
        /\ \A k \in DOMAIN path : path[k] # Slash
        /\ NoHash \notin Ancestors(path)

ASSUME LossyAssumption == Paths \subseteq Seq(Names) /\ Lossy \in [Names -> Names]

VARIABLES
    SCRATCH,           \* the records, slot 0 of file_open, 1 of bprm
    PATH_SCRATCH,      \* the path file_open has resolved
    WALK_ANC,          \* ancestors of the walk under way
    TARGET_ANCESTORS,  \* ancestors of the path under check_allowlist
    hook,              \* where each task is in its hook, with its LandingCtx
    cpu,               \* the task whose hook runs, unless it waits
    out                \* what the last finished hook went by

vars == <<SCRATCH, PATH_SCRATCH, WALK_ANC, TARGET_ANCESTORS, hook, cpu, out>>

Index == 0 .. MAX_FOLDER_ANCESTORS - 1
Zero == [j \in Index |-> NoHash]
NoFile == <<>>

\* The tokens of a path: /opt/app is "/", "opt", "/", "app".
Token(path, k) == IF k % 2 = 1 THEN Slash ELSE path[k \div 2]
Tokens(path) == 2 * Len(path)

\* file_open's read and write branches, and bprm_check_security.
Progs == {"read", "write", "bprm"}
SameProgram(a, b) == (a = "bprm") = (b = "bprm")

Idle == [prog |-> "none", at |-> "idle", file |-> NoFile, src |-> NoFile,
         have_storage |-> FALSE, i |-> 1, full |-> <<>>, comp |-> NoHash, folder |-> NoHash,
         count |-> 0]
NoOut == [prog |-> "none", file |-> NoFile, record |-> NoFile,
          ancestors |-> Zero, folder |-> NoHash, basename |-> NoHash,
          full |-> NoHash]

Init ==
    /\ SCRATCH = [s \in {0, 1} |-> NoFile]
    /\ PATH_SCRATCH = NoFile
    /\ WALK_ANC = Zero
    /\ TARGET_ANCESTORS = Zero
    /\ hook = [t \in Tasks |-> Idle]
    /\ cpu = Nobody
    /\ out = NoOut

-----------------------------------------------------------------------------
SlotShared(prog) == 0

\* SCRATCH_FILE_OPEN and SCRATCH_BPRM.
Slot(prog) == IF prog = "bprm" THEN 1 ELSE 0

\* t runs, or takes the CPU from a hook that waits or is over.
OnCpu(t) == cpu \in {t, Nobody} \/ "preempt" \in Faults

\* A hook begins with the record there is: a writer makes it, the others
\* copy it from INODE_MARKS or clear the slot and read the xattr.  bprm reads
\* the xattr also when the stored record lacks its creator ("partial").
Enter(t, prog, file, stored) ==
    /\ hook[t].at = "idle"
    /\ cpu = Nobody \/ "preempt" \in Faults
    /\ \A u \in Tasks :
          hook[u].at # "idle" => ~SameProgram(hook[u].prog, prog)
    /\ prog = "write" => stored = "full"
    /\ stored = "partial" => prog = "bprm"
    /\ SCRATCH' = [SCRATCH EXCEPT ![Slot(prog)] =
                     IF stored = "none" THEN NoFile ELSE file]
    /\ hook' = [hook EXCEPT ![t] =
                  [Idle EXCEPT !.prog = prog, !.file = file,
                               !.have_storage = stored # "none",
                               !.at = IF stored = "full" THEN "path"
                                      ELSE "xattr"]]
    /\ cpu' = IF stored = "full" THEN t ELSE Nobody
    /\ UNCHANGED <<PATH_SCRATCH, WALK_ANC, TARGET_ANCESTORS, out>>

\* read_origin_xattr returns.  It fills the slot or leaves it untouched; then
\* the stored record still counts, and a file without one is unmarked.
read_origin_xattr(t) ==
    /\ hook[t].at = "xattr"
    /\ OnCpu(t)
    /\ \/ /\ SCRATCH' = [SCRATCH EXCEPT ![Slot(hook[t].prog)] = hook[t].file]
          /\ hook' = [hook EXCEPT ![t].at = "path"]
          /\ cpu' = t
       \/ /\ hook[t].have_storage
          /\ hook' = [hook EXCEPT ![t].at = "path"]
          /\ cpu' = t
          /\ UNCHANGED SCRATCH
       \/ /\ ~hook[t].have_storage
          /\ hook' = [hook EXCEPT ![t] = Idle]
          /\ cpu' = Nobody
          /\ UNCHANGED SCRATCH
    /\ UNCHANGED <<PATH_SCRATCH, WALK_ANC, TARGET_ANCESTORS, out>>

walk_anc_keep == WALK_ANC' = WALK_ANC

\* walk_anc_clear.
walk_anc_clear == WALK_ANC' = Zero

\* bpf_d_path, into PATH_SCRATCH or bprm's own ring entry, and the head of
\* landing_hashes and target_hashes.
Begin(t) ==
    /\ hook[t].at = "path"
    /\ OnCpu(t)
    /\ PATH_SCRATCH' = IF hook[t].prog = "bprm" THEN PATH_SCRATCH
                       ELSE hook[t].file
    /\ walk_anc_clear
    /\ hook' = [hook EXCEPT ![t].at = "walk", ![t].src = hook[t].file]
    /\ cpu' = t
    /\ UNCHANGED <<SCRATCH, TARGET_ANCESTORS, out>>

IndexNoMask(n) == IF n < MAX_FOLDER_ANCESTORS THEN n
                  ELSE MAX_FOLDER_ANCESTORS - 1

\* count & (MAX_FOLDER_ANCESTORS - 1), a power of two.
MaskedIndex(n) == n % MAX_FOLDER_ANCESTORS

\* The bytes under the walk of t.
Source(t) == IF hook[t].prog = "bprm" THEN hook[t].src ELSE PATH_SCRATCH

\* landing_step on one token: a `/` closes an ancestor and restarts the
\* component, anything else extends both.
landing_step(t) ==
    LET h == hook[t]
        token == Token(Source(t), h.i)
    IN  /\ h.at = "walk"
        /\ OnCpu(t)
        /\ h.i <= Tokens(Source(t))
        /\ \/ /\ token = Slash
              /\ WALK_ANC' = [WALK_ANC EXCEPT ![MaskedIndex(h.count)] = h.full]
              /\ hook' = [hook EXCEPT ![t] =
                     [h EXCEPT !.i = h.i + 1, !.folder = h.full,
                               !.count = h.count + 1, !.comp = NoHash]]
           \/ /\ token # Slash
              /\ hook' = [hook EXCEPT ![t] =
                     [h EXCEPT !.i = h.i + 1, !.comp = token,
                               !.full = Append(h.full, token)]]
              /\ UNCHANGED WALK_ANC
        /\ cpu' = t
        /\ UNCHANGED <<SCRATCH, PATH_SCRATCH, TARGET_ANCESTORS, out>>

\* The NUL byte: walk_anc_copy_to.  A writer is done with its record; the
\* others have their path ready for the rules.
Finish(t) ==
    LET h == hook[t]
    IN  /\ h.at = "walk"
        /\ OnCpu(t)
        /\ h.i > Tokens(Source(t))
        /\ IF h.prog = "write"
           THEN /\ out' = [prog |-> h.prog, file |-> h.file,
                           record |-> SCRATCH[Slot(h.prog)],
                           ancestors |-> WALK_ANC, folder |-> h.folder,
                           basename |-> h.comp, full |-> h.full]
                /\ hook' = [hook EXCEPT ![t] = Idle]
                /\ cpu' = Nobody
                /\ UNCHANGED TARGET_ANCESTORS
           ELSE /\ TARGET_ANCESTORS' = WALK_ANC
                /\ hook' = [hook EXCEPT ![t].at = "rules"]
                /\ cpu' = t
                /\ UNCHANGED out
        /\ UNCHANGED <<SCRATCH, PATH_SCRATCH, WALK_ANC>>

\* check_allowlist's loop over the rules goes by the record in the slot, the
\* scalars of the walk and TARGET_ANCESTORS.
Judge(t) ==
    LET h == hook[t]
    IN  /\ h.at = "rules"
        /\ OnCpu(t)
        /\ out' = [prog |-> h.prog, file |-> h.file,
                   record |-> SCRATCH[Slot(h.prog)],
                   ancestors |-> TARGET_ANCESTORS, folder |-> h.folder,
                   basename |-> h.comp, full |-> h.full]
        /\ hook' = [hook EXCEPT ![t] = Idle]
        /\ cpu' = Nobody
        /\ UNCHANGED <<SCRATCH, PATH_SCRATCH, WALK_ANC, TARGET_ANCESTORS>>

Next ==
    \E t \in Tasks :
        \/ \E prog \in Progs, file \in Paths,
              stored \in {"none", "partial", "full"} :
              Enter(t, prog, file, stored)
        \/ read_origin_xattr(t) \/ Begin(t) \/ landing_step(t) \/ Finish(t)
        \/ Judge(t)

Spec == Init /\ [][Next]_vars

-----------------------------------------------------------------------------
\* A masked array of the prefixes of a path: index k % N has the deepest.
MaskedAncestors(path) ==
    [j \in Index |->
        LET here == {k \in 0 .. Len(path) - 1 : k % MAX_FOLDER_ANCESTORS = j}
        IN  IF here = {} THEN NoHash
            ELSE SubSeq(path, 1, CHOOSE k \in here : \A m \in here : m <= k)]

\* c_str_to_string: bytes that are not UTF-8 are replaced, the slashes stay.
lossy(path) == [k \in DOMAIN path |-> Lossy[path[k]]]

\* on_file_marked's array is that of the converted path.
UserAncestors(path) == MaskedAncestors(lossy(path))

Range(f) == {f[j] : j \in DOMAIN f}

\* WalkCorrect: a finished hook went by the parent, the basename, the whole
\* path and the array that Allowlist's matching assumes: the deepest
\* MAX_FOLDER_ANCESTORS prefixes of its own file's path, and nothing of a
\* path walked before it or while it waited.
WalkCorrect ==
    out # NoOut =>
        /\ out.folder = Parent(out.file)
        /\ out.basename = Basename(out.file)
        /\ out.full = out.file
        /\ Range(out.ancestors) \ {NoHash} = StoredAncestors(out.file)

\* OwnRecord: the record a finished hook went by is that of its own file,
\* although another hook ran on the CPU between fetching and using it (the
\* reason SCRATCH has two slots).
OwnRecord == out # NoOut => out.record = out.file

\* A prefix that userspace hashes as it is.
Proper(prefix) == prefix = NoHash \/ lossy(prefix) = prefix

\* UserspaceAgrees: the array handler.rs writes to the xattr has in each slot
\* what the kernel put in INODE_MARKS: the same prefix, or none in both, as
\* long as that prefix is UTF-8, whatever comes after it.
UserspaceAgrees ==
    out # NoOut =>
        \A j \in Index :
            Proper(out.ancestors[j]) =>
                out.ancestors[j] = UserAncestors(out.file)[j]

\* ByteForByte: the two "agree byte-for-byte" (handler.rs), on any path.
ByteForByte == out # NoOut => out.ancestors = UserAncestors(out.file)

\* RecursiveAnyDepth: a recursive target_folder rule matches nested at any
\* depth (README), so every ancestor of a walked path is found.
RecursiveAnyDepth ==
    out # NoOut =>
        \A f \in Ancestors(out.file) :
            f = out.folder \/ f \in Range(out.ancestors)
=============================================================================

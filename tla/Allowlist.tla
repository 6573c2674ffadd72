----------------------------- MODULE Allowlist ------------------------------
(***************************************************************************)
(* Paths, origin records and allowlist rules, and how the kernel matches   *)
(* them (check_allowlist and allow_step in linprov-ebpf main.rs).          *)
(*                                                                         *)
(* A path is a non-empty sequence of components: <<"opt", "app", "x">> is  *)
(* /opt/app/x.  A folder is a shorter, possibly empty, sequence, <<>>      *)
(* being `/`.  The keyed SipHash of a string is abstracted to the string   *)
(* itself: it is assumed to have no collisions.                            *)
(*                                                                         *)
(* A rule is a function from the dimensions it requires to their values;   *)
(* the `*_FOLDER_RECURSIVE` modifiers are the dimensions ending in _rec.   *)
(***************************************************************************)
EXTENDS Integers, Sequences

CONSTANTS
    MAX_FOLDER_ANCESTORS,  \* ancestor hashes kept per path (32)
    NoHash                 \* a zero hash

ASSUME AncestorsAssumption == MAX_FOLDER_ANCESTORS \in Nat \ {0}

\* The immediate parent and the basename, as the path walk computes them.
Parent(path) == SubSeq(path, 1, Len(path) - 1)
Basename(path) == path[Len(path)]

\* Every `/`-terminated prefix of a path.
Ancestors(path) == {SubSeq(path, 1, k) : k \in 0 .. Len(path) - 1}

\* The prefixes left in the masked array after the walk: index k & (N - 1)
\* keeps the deepest MAX_FOLDER_ANCESTORS of them (module PathWalk).
StoredAncestors(path) ==
    {SubSeq(path, 1, k) : k \in {j \in 0 .. Len(path) - 1 :
                                    j + MAX_FOLDER_ANCESTORS >= Len(path)}}

Dims == {"creator_uid", "execution_uid", "creator_comm", "creator_process",
         "landing_filename", "landing_folder", "landing_folder_rec",
         "target_filename", "target_folder", "target_folder_rec"}

\* landing_folder_match and target_folder_match: the parent or a kept prefix.
folder_match(path, folder) ==
    folder = Parent(path) \/ folder \in StoredAncestors(path)

\* One condition of a rule against the record, the live path and the uid.
Holds(d, v, origin, target, uid) ==
    CASE d = "creator_uid"        -> v = origin.creator_uid
      [] d = "execution_uid"      -> v = uid
      [] d = "creator_comm"       -> v = origin.comm
      [] d = "creator_process"    -> /\ origin.creator_path_hash # NoHash
                                     /\ v = origin.creator_path_hash
      [] d = "landing_filename"   -> v = Basename(origin.landing)
      [] d = "landing_folder"     -> v = Parent(origin.landing)
      [] d = "landing_folder_rec" -> folder_match(origin.landing, v)
      [] d = "target_filename"    -> v = target
      [] d = "target_folder"      -> v = Parent(target)
      [] d = "target_folder_rec"  -> folder_match(target, v)

\* allow_step: an empty slot never matches, conditions AND together.
Matches(rule, origin, target, uid) ==
    /\ DOMAIN rule # {}
    /\ \A d \in DOMAIN rule : Holds(d, rule[d], origin, target, uid)

\* check_allowlist: rules OR together; no rule denies.
check_allowlist(rules, origin, target, uid) ==
    \E r \in rules : Matches(r, origin, target, uid)
=============================================================================

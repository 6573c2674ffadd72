------------------------------ MODULE MCKernel ------------------------------
(* Small instances of Kernel for TLC. *)
EXTENDS Kernel, TLC

CONSTANTS bash, dl, cp, dev, p1, p2, p3

\* An interpreter, a download, a file to copy to and a device file, and a
\* name that the allowlist approves.
OkPath == <<"home", "ok">>
\* (In Kernel.cfg a process that has not called execve has the download's name,
\* None = "dl", so that names do not multiply the states.)
AllPlaces == (bash :> <<"bin", "bash">>) @@ (dl :> <<"home", "dl">>)
             @@ (cp :> <<"home", "cp">>) @@ (dev :> <<"dev", "null">>)
MCPlace == [i \in Inodes |-> AllPlaces[i]]
MCPaths == {MCPlace[i] : i \in Inodes} \cup {OkPath}
MCComms == {None, "evil", "curl"} \cup UNION {{w[k] : k \in DOMAIN w} : w \in MCPaths}
MCUid == [p \in Pids |-> 0]
MCRules == {"target_filename" :> OkPath}

\* Downloads and copies may be moved to the approved name.
MCMoves == [i \in Inodes |-> IF i \in {dl, cp} THEN {OkPath} ELSE {}]

\* Files may take each other's names.
SwapMoves == [i \in Inodes |-> MCPaths]

NoMoves == [i \in Inodes |-> {}]

\* Only the download is a script.
MCScript == [i \in Inodes |-> IF i = dl /\ bash \in Inodes THEN bash ELSE None]
NoScript == [i \in Inodes |-> None]

Disk(version) == [version |-> version, comm |-> "curl", creator_uid |-> 0,
                  creator_path_hash |->
                      CHOOSE h \in Exes : Exes # {NoHash} => h # NoHash,
                  landing |-> <<"home", "dl">>]

\* The copy's target carries a record of an older schema.
OutdatedDisk == [i \in Inodes |-> IF i = cp THEN Disk("v3") ELSE NoRecord]
\* So it does, and the download was marked before the reboot.
RebootedDisk == [i \in Inodes |-> IF i = cp THEN Disk("v3")
                                  ELSE IF i = dl THEN Disk("v4") ELSE NoRecord]
=============================================================================

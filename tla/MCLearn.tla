------------------------------ MODULE MCLearn -------------------------------
(* Small instances of Learn for TLC. *)
EXTENDS Learn, TLC

CONSTANTS f1, f2, p1

\* Two downloads: into a folder whose name needs encoding, and under a name
\* that is not UTF-8, moved to a proper one.
MCLanding == (f1 :> <<"dl;", "a">>) @@ (f2 :> <<"dl", "x80">>)
MCTarget == (f1 :> <<"dl;", "a">>) @@ (f2 :> <<"bin", "b">>)
MCComm == [f \in Files |-> "curl"]
MCExe == (f1 :> "curl") @@ (f2 :> "wget")
MCNames == {"dl;", "dl", "a", "b", "x80", "bin", "curl", "wget", "fffd", "/", "zz"}
MCLossy == [n \in MCNames |-> IF n = "x80" THEN "fffd" ELSE n]
\* A name that is cut is another's, or nobody's.
MCCutName == [n \in MCNames |-> IF n = "dl;" THEN {"dl"} ELSE {"zz"}]
MCCutUid == [u \in Uids |-> {}]
MCCreatorUid == [f \in Files |-> 1]
MCUid0 == [p \in Pids |-> 1]

\* f2 is run where it landed, so its name is not UTF-8 there either.
InPlace == MCLanding

\* One creator has a name whose UTF-8 form is too long.
LongComm == (f1 :> "x80") @@ (f2 :> "curl")

MCSoakDims == {"landing_folder", "landing_filename", "creator_uid",
               "execution_uid"}

\* Everything, or one dimension picked in the review window.
MCSelections == {ALLOW_DIMS, {"creator_process"}}

\* Or just what soak records.
MCWithSoak == MCSelections \cup {MCSoakDims}
=============================================================================

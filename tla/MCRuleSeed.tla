----------------------------- MODULE MCRuleSeed -----------------------------
(* Small instances of RuleSeed for TLC. *)
EXTENDS RuleSeed

CONSTANTS r1, r2, r3, flags, values

\* What the operator's edits leave: an allowlist that `linprov allow` then
\* grows past the two slots of the map, and one that does not parse.
MCFiles == {<<r1>>, Unreadable}

\* An exec that an approved rule meets, and one that no rule meets, only the
\* flags of the file's rule with the values of the approved one.
MCMixture == [f \in Fields |-> IF f = flags THEN r1 ELSE r2]
MCWants == {{Whole(r2)}, {MCMixture}}

\* One allowlist that never changes under the daemon.
MCOneFile == {<<r1>>}
=============================================================================

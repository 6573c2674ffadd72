---------------------------- MODULE LearnProofs -----------------------------
(***************************************************************************)
(* Proofs about learned rules (module Learn): FileLoads, Exact and         *)
(* LearnedPermits, for any files, names, processes and users, any size of  *)
(* the map and any length of the file.                                     *)
(***************************************************************************)
EXTENDS Learn, FiniteSetTheorems, TLAPS

-----------------------------------------------------------------------------
(* Sequences.                                                              *)

\* A sequence, of whatever it holds.
IsSeq(s) == s \in Seq({s[k] : k \in DOMAIN s})

\* What Append does to one.
LEMMA AppendSeq ==
    ASSUME NEW s, NEW e, IsSeq(s)
    PROVE  /\ IsSeq(Append(s, e)) /\ Len(s) \in Nat
           /\ Len(Append(s, e)) = Len(s) + 1
           /\ DOMAIN s = 1 .. Len(s)
           /\ DOMAIN Append(s, e) = 1 .. Len(s) + 1
           /\ \A k \in 1 .. Len(s) : Append(s, e)[k] = s[k]
           /\ Append(s, e)[Len(s) + 1] = e
<1> DEFINE R == {s[k] : k \in DOMAIN s} \cup {e}
           t == Append(s, e)
<1>1. s \in Seq({s[k] : k \in DOMAIN s})
  BY DEF IsSeq
<1>2. Len(s) \in Nat /\ DOMAIN s = 1 .. Len(s)
  BY <1>1
<1>3. \A k \in 1 .. Len(s) : s[k] \in R
  BY <1>2
<1>4. s \in Seq(R)
  BY <1>1, <1>2, <1>3
<1>5. e \in R
  OBVIOUS
<1> HIDE DEF R
<1>6. /\ t \in Seq(R) /\ Len(t) = Len(s) + 1 /\ DOMAIN t = 1 .. Len(s) + 1
      /\ \A k \in 1 .. Len(s) : t[k] = s[k]
      /\ t[Len(s) + 1] = e
  BY <1>4, <1>5
<1> HIDE DEF t
<1>7. t \in Seq({t[k] : k \in DOMAIN t})
  BY <1>2, <1>6
<1> QED
  BY <1>2, <1>6, <1>7 DEF IsSeq, t

\* The first of a sequence, and the rest.
LEMMA TailSeq ==
    ASSUME NEW s, IsSeq(s), s # <<>>
    PROVE  /\ IsSeq(Tail(s)) /\ Len(s) \in Nat \ {0} /\ DOMAIN s = 1 .. Len(s)
           /\ Len(Tail(s)) = Len(s) - 1
           /\ DOMAIN Tail(s) = 1 .. Len(s) - 1
           /\ \A k \in 1 .. Len(s) - 1 : Tail(s)[k] = s[k + 1]
           /\ Head(s) = s[1] /\ 1 \in DOMAIN s
<1> DEFINE R == {s[k] : k \in DOMAIN s}
           t == Tail(s)
<1>1. s \in Seq(R)
  BY DEF IsSeq
<1>2. Len(s) \in Nat \ {0} /\ DOMAIN s = 1 .. Len(s)
  BY <1>1
<1> HIDE DEF R
<1>3. /\ t \in Seq(R) /\ Len(t) = Len(s) - 1 /\ DOMAIN t = 1 .. Len(s) - 1
      /\ \A k \in 1 .. Len(s) - 1 : t[k] = s[k + 1]
      /\ Head(s) = s[1]
  BY <1>1, <1>2
<1> HIDE DEF t
<1>4. t \in Seq({t[k] : k \in DOMAIN t})
  BY <1>3
<1> QED
  BY <1>2, <1>3, <1>4 DEF IsSeq, t

-----------------------------------------------------------------------------
(* FileLoads.                                                              *)

\* The file is a sequence of whole lines that parse.
LoadsInv == IsSeq(file) /\ Loads(file) /\ ends = "line"

\* Whatever the values, what to_line writes parses.
LEMMA LineParses ==
    ASSUME NEW values, DOMAIN values \subseteq Dim
    PROVE  Parses(to_line(spec_of(values)))
<1> DEFINE v == spec_of(values).value
           l == to_line(spec_of(values))
<1>1. DOMAIN v \subseteq DOMAIN values
  BY DEF spec_of
<1>2. l = [d \in DOMAIN v |-> encode_value(d, v[d])]
  BY DEF to_line
<1> HIDE DEF l
<1>3. DOMAIN l = DOMAIN v /\ \A d \in DOMAIN v : l[d] = encode_value(d, v[d])
  BY <1>2
<1> HIDE DEF v
<1>4. \A d \in DOMAIN v : needs_b64(d, l[d].text) => l[d].b64
  <2> SUFFICES ASSUME NEW d \in DOMAIN v, needs_b64(d, l[d].text) PROVE l[d].b64
    OBVIOUS
  <2>1. l[d].text = v[d] /\ l[d].b64 = needs_b64(d, v[d])
    BY <1>3 DEF encode_value
  <2> QED
    BY <2>1
<1> QED
  BY <1>1, <1>3, <1>4 DEF Parses, l

\* Of a rule made for some dimensions, the values are of those.
LEMMA RuleOfDims ==
    ASSUME NEW e, NEW dims, dims \subseteq Dim
    PROVE  /\ Parses(to_line(rule_from_context(e, dims)))
           /\ rule_from_context(e, dims).flags \subseteq dims
<1> DEFINE values == [d \in {c \in dims : Value(e, c) # {}} |->
                          CHOOSE v \in Value(e, d) : TRUE]
<1>1. rule_from_context(e, dims) = spec_of(values)
  BY DEF rule_from_context
<1>2. DOMAIN values \subseteq dims
  OBVIOUS
<1> HIDE DEF values
<1>3. spec_of(values).flags = DOMAIN values
  BY DEF spec_of
<1> QED
  BY <1>1, <1>2, <1>3, LineParses

\* Narrowing a line keeps it one that parses.
LEMMA ProjectParses ==
    ASSUME NEW line, NEW dims, Parses(line)
    PROVE  Parses(project(line, dims))
  BY DEF Parses, project

\* A line that parses, added to lines that do.
LEMMA AppendLoads ==
    ASSUME NEW lines, NEW line, IsSeq(lines), Loads(lines), Parses(line)
    PROVE  IsSeq(Append(lines, line)) /\ Loads(Append(lines, line))
  BY AppendSeq DEF Loads

\* When no line is written in part, one is written whole or not at all.
LEMMA Written ==
    ASSUME "torn" \notin Faults, ends = "line", NEW line, NEW w \in writeln(line)
    PROVE  /\ w.end = "line"
           /\ \/ w.ok /\ w.lines = Append(file, line)
              \/ ~w.ok /\ w.lines = file
  BY DEF writeln, Added

\* What `allow` does: the rule is in the file from then on, or nothing is done.
LEMMA AllowCases ==
    ASSUME "torn" \notin Faults, IsSeq(file), ends = "line", NEW b, NEW dims,
           Allow(b, dims)
    PROVE  LET line == project(b.line, dims)
               now == Learned("allow", b.exec, DOMAIN line)
           IN  /\ ends' = "line" /\ Parses(line) /\ Len(file') <= MAX_LINES
               /\ \/ UNCHANGED <<file, learned, blocks>>
                  \/ /\ file' = IF line \in rules_of(file) THEN file
                                ELSE Append(file, line)
                     /\ learned' = learned \cup {now} /\ blocks' \subseteq blocks
<1> DEFINE line == project(b.line, dims)
           now == Learned("allow", b.exec, DOMAIN line)
<1>1. Parses(line) /\ Loads(file)
  BY ProjectParses DEF Allow
<1>2. PICK w \in IF line \in rules_of(file) THEN {Kept} ELSE writeln(line) :
         /\ Len(w.lines) <= MAX_LINES /\ file' = w.lines /\ ends' = w.end
         /\ IF w.ok /\ Loads(w.lines)
            THEN /\ blocks' = {c \in blocks : c.line # b.line}
                 /\ learned' = learned \cup {now}
            ELSE UNCHANGED <<blocks, learned>>
  BY DEF Allow
<1> HIDE DEF line, now
<1>3. Loads(Append(file, line))
  BY <1>1, AppendLoads
<1>4. CASE line \in rules_of(file)
  BY <1>1, <1>2, <1>4 DEF Kept, line, now
<1>5. CASE line \notin rules_of(file)
  <2>1. w \in writeln(line)
    BY <1>2, <1>5
  <2>2. /\ w.end = "line"
        /\ \/ w.ok /\ w.lines = Append(file, line)
           \/ ~w.ok /\ w.lines = file
    BY <2>1, Written
  <2> QED
    BY <1>1, <1>2, <1>3, <1>5, <2>2 DEF line, now
<1> QED
  BY <1>4, <1>5

\* The file grows by record and by Allow alone.
LEMMA FileSteps ==
    ASSUME [Next]_vars, <<file, ends>>' # <<file, ends>>
    PROVE  \/ /\ events # <<>> /\ mode = "soak" /\ record(Head(events))
              /\ Head(events).kind = "exec" /\ UNCHANGED blocks
           \/ \E b \in blocks, dims \in Selections : Allow(b, dims)
<1>1. CASE \E b \in blocks, dims \in Selections : Allow(b, dims)
  BY <1>1
<1>2. CASE on_execve_marked
  BY <1>2 DEF on_execve_marked, maybe_soak
<1>3. CASE \/ \E f \in Files : Download(f)
           \/ on_file_marked
           \/ \E p \in Pids, f \in Files : Exec(p, f)
           \/ \E p \in Pids : Exit(p)
           \/ \E p \in Pids, u \in Uids : Enter(p, u)
           \/ \E m \in {"soak", "enforce"} : Start(m)
           \/ Stop \/ UNCHANGED vars
  BY <1>3 DEF Download, on_file_marked, Exec, Exit, Enter, Start, Stop, vars
<1> QED
  BY <1>1, <1>2, <1>3 DEF Next

\* A step keeps the file loadable, unless it writes part of a line.
LEMMA LoadsStep ==
    ASSUME "torn" \notin Faults
    PROVE  LoadsInv /\ [Next]_vars => LoadsInv'
<1> SUFFICES ASSUME LoadsInv, [Next]_vars, <<file, ends>>' # <<file, ends>>
             PROVE  LoadsInv'
  BY DEF LoadsInv
<1>1. CASE events # <<>> /\ record(Head(events))
  <2> DEFINE line == to_line(rule_from_context(Head(events), SoakDims))
  <2>0. \E w : /\ w = Kept \/ w \in writeln(line)
               /\ file' = w.lines /\ ends' = w.end
    BY <1>1 DEF record
  <2>1. (file' = Append(file, line) \/ file' = file) /\ ends' = "line"
    BY <2>0, Written DEF Kept, LoadsInv
  <2>2. Parses(line)
    BY RuleOfDims, LearnAssumption
  <2> QED
    BY <2>1, <2>2, AppendLoads DEF LoadsInv
<1>2. CASE \E b \in blocks, dims \in Selections : Allow(b, dims)
  <2>1. PICK b \in blocks, dims \in Selections : Allow(b, dims)
    BY <1>2
  <2>2. /\ Parses(project(b.line, dims)) /\ ends' = "line"
        /\ file' = Append(file, project(b.line, dims)) \/ file' = file
    BY <2>1, AllowCases DEF LoadsInv
  <2> QED
    BY <2>2, AppendLoads DEF LoadsInv
<1> QED
  BY <1>1, <1>2, FileSteps

\* Whatever names were learned, and whatever else fails, the file the daemon
\* wrote loads again, as long as no line is written in part.
THEOREM FileTheorem ==
    ASSUME "torn" \notin Faults
    PROVE  Spec => []FileLoads
<1>1. Init => LoadsInv
  <2>1. IsSeq(<<>>)
    BY DEF IsSeq
  <2> QED
    BY <2>1 DEF Init, LoadsInv, Loads
<1>2. LoadsInv /\ [Next]_vars => LoadsInv'
  BY LoadsStep
<1>3. LoadsInv => FileLoads
  BY DEF LoadsInv, FileLoads
<1> QED
  BY <1>1, <1>2, <1>3, PTL DEF Spec

-----------------------------------------------------------------------------
(* Names, and the UTF-8 forms of paths.                                    *)

\* The names in use.
Used == {Comm[f] : f \in Files}
        \cup (UNION {{Landing[f][k] : k \in DOMAIN Landing[f]} : f \in Files})
        \cup (UNION {{Target[f][k] : k \in DOMAIN Target[f]} : f \in Files})

\* Names in use stay apart when they are made UTF-8, and none looks like
\* the UTF-8 form of another.
Distinct == \A a, b \in Used : Lossy[a] \in {b, Lossy[b]} => a = b

\* Every comm fits a rule once made UTF-8.
CommsFit == \A f \in Files : Lossy[Comm[f]] \notin TooLong

\* The paths are of names in use.
LEMMA PathsUsed ==
    /\ Used \subseteq Names
    /\ \A f \in Files : /\ Landing[f] \in Seq(Used) \ {<<>>}
                        /\ Target[f] \in Seq(Used) \ {<<>>}
                        /\ Comm[f] \in Used
<1>1. ASSUME NEW f \in Files
      PROVE  /\ Landing[f] \in Seq(Names) \ {<<>>}
             /\ Target[f] \in Seq(Names) \ {<<>>} /\ Comm[f] \in Names
  BY FilesAssumption
<1> DEFINE L(f) == {Landing[f][k] : k \in DOMAIN Landing[f]}
           T(f) == {Target[f][k] : k \in DOMAIN Target[f]}
           C == {Comm[f] : f \in Files}
<1>u. Used = C \cup (UNION {L(f) : f \in Files})
                 \cup (UNION {T(f) : f \in Files})
  BY DEF Used
<1>2. ASSUME NEW f \in Files, NEW k \in DOMAIN Landing[f]
      PROVE  Landing[f][k] \in Names /\ Landing[f][k] \in Used
  <2>1. Landing[f][k] \in Names
    BY <1>1
  <2>2. Landing[f][k] \in L(f)
    OBVIOUS
  <2>3. Landing[f][k] \in UNION {L(g) : g \in Files}
    BY <2>2
  <2> QED
    BY <1>u, <2>1, <2>3
<1>3. ASSUME NEW f \in Files, NEW k \in DOMAIN Target[f]
      PROVE  Target[f][k] \in Names /\ Target[f][k] \in Used
  <2>1. Target[f][k] \in Names
    BY <1>1
  <2>2. Target[f][k] \in T(f)
    OBVIOUS
  <2>3. Target[f][k] \in UNION {T(g) : g \in Files}
    BY <2>2
  <2> HIDE DEF L, T, C
  <2> QED
    BY <1>u, <2>1, <2>3
<1>4. ASSUME NEW a \in Used PROVE a \in Names
  <2>1. CASE a \in C
    BY <1>1, <2>1
  <2>2. CASE a \in UNION {L(f) : f \in Files}
    BY <1>2, <2>2
  <2>3. CASE a \in UNION {T(f) : f \in Files}
    BY <1>3, <2>3
  <2> HIDE DEF L, T, C
  <2> QED
    BY <1>u, <2>1, <2>2, <2>3
<1>5. ASSUME NEW f \in Files
      PROVE  /\ Landing[f] \in Seq(Used) \ {<<>>}
             /\ Target[f] \in Seq(Used) \ {<<>>} /\ Comm[f] \in Used
  <2>1. Landing[f] \in Seq(Used)
    BY <1>1, <1>2
  <2>2. Target[f] \in Seq(Used)
    BY <1>1, <1>3
  <2>3. Comm[f] \in Used
    BY DEF Used
  <2> QED
    BY <1>1, <2>1, <2>2, <2>3
<1> QED
  BY <1>4, <1>5

\* A path of names in use, its UTF-8 form, and their ends.
LEMMA LossyPath ==
    ASSUME NEW p \in Seq(Used) \ {<<>>}
    PROVE  /\ lossy(p) \in Seq(Names) \ {<<>>} /\ Len(lossy(p)) = Len(p)
           /\ Len(p) \in Nat \ {0}
           /\ \A k \in 1 .. Len(p) : lossy(p)[k] = Lossy[p[k]] /\ p[k] \in Used
           /\ Parent(p) \in Seq(Used) /\ Len(Parent(p)) = Len(p) - 1
           /\ \A k \in 1 .. Len(p) - 1 : Parent(p)[k] = p[k]
           /\ Parent(lossy(p)) \in Seq(Names)
           /\ Len(Parent(lossy(p))) = Len(p) - 1
           /\ \A k \in 1 .. Len(p) - 1 : Parent(lossy(p))[k] = Lossy[p[k]]
           /\ Basename(p) \in Used /\ Basename(lossy(p)) = Lossy[Basename(p)]
<1>1. /\ Len(p) \in Nat \ {0} /\ DOMAIN p = 1 .. Len(p)
      /\ \A k \in 1 .. Len(p) : p[k] \in Used
  OBVIOUS
<1>2. \A a \in Used : Lossy[a] \in Names
  BY PathsUsed, LearnAssumption
<1> DEFINE q == [k \in 1 .. Len(p) |-> Lossy[p[k]]]
<1>3. lossy(p) = q
  BY <1>1 DEF lossy
<1>4. q \in Seq(Names) /\ Len(q) = Len(p)
  BY <1>1, <1>2
<1>5. \A k \in 1 .. Len(p) : q[k] = Lossy[p[k]]
  OBVIOUS
<1> HIDE DEF q
<1>6. q # <<>>
  BY <1>1, <1>4
<1>7. /\ Parent(p) \in Seq(Used) /\ Len(Parent(p)) = Len(p) - 1
      /\ \A k \in 1 .. Len(p) - 1 : Parent(p)[k] = p[k]
  BY <1>1 DEF Parent
<1>8. /\ Parent(q) \in Seq(Names) /\ Len(Parent(q)) = Len(p) - 1
      /\ \A k \in 1 .. Len(p) - 1 : Parent(q)[k] = q[k]
  BY <1>1, <1>4 DEF Parent
<1>9. Basename(p) \in Used /\ Basename(q) = Lossy[Basename(p)]
  BY <1>1, <1>4, <1>5 DEF Basename
<1> QED
  BY <1>1, <1>3, <1>4, <1>5, <1>6, <1>7, <1>8, <1>9

\* Distinct paths are told apart, in UTF-8 or not.
LEMMA PathsTold ==
    ASSUME Distinct, NEW p \in Seq(Used) \ {<<>>}, NEW q \in Seq(Used) \ {<<>>}
    PROVE  /\ lossy(p) \in {q, lossy(q)} => p = q
           /\ Parent(lossy(p)) \in {Parent(q), Parent(lossy(q))}
              => Parent(p) = Parent(q)
           /\ Basename(lossy(p)) \in {Basename(q), Basename(lossy(q))}
              => Basename(p) = Basename(q)
<1>1. /\ \A k \in 1 .. Len(p) : lossy(p)[k] = Lossy[p[k]] /\ p[k] \in Used
      /\ \A k \in 1 .. Len(q) : lossy(q)[k] = Lossy[q[k]] /\ q[k] \in Used
      /\ Len(lossy(p)) = Len(p) /\ Len(lossy(q)) = Len(q)
      /\ Len(p) \in Nat \ {0} /\ Len(q) \in Nat \ {0}
  BY LossyPath
<1>2. ASSUME lossy(p) \in {q, lossy(q)} PROVE p = q
  <2>1. Len(p) = Len(q)
    BY <1>1, <1>2
  <2>2. \A k \in 1 .. Len(p) : Lossy[p[k]] \in {q[k], Lossy[q[k]]}
    BY <1>1, <1>2, <2>1
  <2>3. \A k \in 1 .. Len(p) : p[k] = q[k]
    BY <1>1, <2>1, <2>2 DEF Distinct
  <2> QED
    BY <2>1, <2>3
<1>3. ASSUME Parent(lossy(p)) \in {Parent(q), Parent(lossy(q))}
      PROVE  Parent(p) = Parent(q)
  <2>1. /\ Parent(p) \in Seq(Used) /\ Len(Parent(p)) = Len(p) - 1
        /\ \A k \in 1 .. Len(p) - 1 : Parent(p)[k] = p[k]
        /\ Len(Parent(lossy(p))) = Len(p) - 1
        /\ \A k \in 1 .. Len(p) - 1 : Parent(lossy(p))[k] = Lossy[p[k]]
    BY LossyPath
  <2>2. /\ Parent(q) \in Seq(Used) /\ Len(Parent(q)) = Len(q) - 1
        /\ \A k \in 1 .. Len(q) - 1 : Parent(q)[k] = q[k]
        /\ Len(Parent(lossy(q))) = Len(q) - 1
        /\ \A k \in 1 .. Len(q) - 1 : Parent(lossy(q))[k] = Lossy[q[k]]
    BY LossyPath
  <2>3. Len(p) = Len(q)
    BY <1>1, <1>3, <2>1, <2>2
  <2>4. \A k \in 1 .. Len(p) - 1 : Lossy[p[k]] \in {q[k], Lossy[q[k]]}
    <3>1. CASE Parent(lossy(p)) = Parent(q)
      BY <2>1, <2>2, <2>3, <3>1
    <3>2. CASE Parent(lossy(p)) = Parent(lossy(q))
      BY <2>1, <2>2, <2>3, <3>2
    <3> QED
      BY <1>3, <3>1, <3>2
  <2>5. \A k \in 1 .. Len(p) - 1 : p[k] = q[k]
    BY <1>1, <2>3, <2>4 DEF Distinct
  <2> QED
    BY <2>1, <2>2, <2>3, <2>5
<1>4. ASSUME Basename(lossy(p)) \in {Basename(q), Basename(lossy(q))}
      PROVE  Basename(p) = Basename(q)
  <2>1. /\ Basename(p) \in Used /\ Basename(lossy(p)) = Lossy[Basename(p)]
        /\ Basename(q) \in Used /\ Basename(lossy(q)) = Lossy[Basename(q)]
    BY LossyPath
  <2> QED
    BY <1>4, <2>1 DEF Distinct
<1> QED
  BY <1>2, <1>3, <1>4

-----------------------------------------------------------------------------
(* What an exec says, and what a rule says of it.                          *)

\* The record of a download, before and after userspace has handled it.
Raw(f) == [comm |-> Comm[f], creator_uid |-> CreatorUid[f],
           creator_path_hash |-> NoHash, landing |-> Landing[f]]
Known(f) == [comm |-> Comm[f], creator_uid |-> CreatorUid[f],
             creator_path_hash |-> Exe[f], landing |-> lossy(Landing[f])]

\* The value of dimension d in a rule learned from uid u executing file f.
Stated(d, f, u) ==
    CASE d = "target_filename"  -> lossy(Target[f])
      [] d = "target_folder"    -> Parent(lossy(Target[f]))
      [] d = "landing_folder"   -> Parent(lossy(Landing[f]))
      [] d = "landing_filename" -> Basename(lossy(Landing[f]))
      [] d = "creator_process"  -> Exe[f]
      [] d = "creator_comm"     -> Lossy[Comm[f]]
      [] d = "creator_uid"      -> CreatorUid[f]
      [] d = "execution_uid"    -> u

\* The line of that rule.
StatedLine(f, u, dims) == [d \in dims |-> encode_value(d, Stated(d, f, u))]

\* The kernel takes what it says back out of it.
LEMMA StatedDecodes ==
    ASSUME NEW f, NEW u, NEW dims
    PROVE  /\ DOMAIN StatedLine(f, u, dims) = dims
           /\ decode(StatedLine(f, u, dims)) = [d \in dims |-> Stated(d, f, u)]
  BY DEF StatedLine, decode, encode_value

\* A condition that holds of another exec tells the truth about it.
LEMMA HoldsTruth ==
    ASSUME Distinct, NEW f \in Files, NEW g \in Files, NEW u, NEW v,
           NEW d \in Dim, NEW o \in {Raw(f), Known(f)},
           Holds(d, Stated(d, g, v), o, Target[f], u)
    PROVE  Truth(d, f, u) = Truth(d, g, v)
<1>1. /\ Landing[f] \in Seq(Used) \ {<<>>} /\ Target[f] \in Seq(Used) \ {<<>>}
      /\ Landing[g] \in Seq(Used) \ {<<>>} /\ Target[g] \in Seq(Used) \ {<<>>}
      /\ Comm[f] \in Used /\ Comm[g] \in Used
  BY PathsUsed
<1>2. /\ o.comm = Comm[f] /\ o.creator_uid = CreatorUid[f]
      /\ o.creator_path_hash \in {NoHash, Exe[f]}
      /\ o.landing \in {Landing[f], lossy(Landing[f])}
  BY DEF Raw, Known
<1>3. /\ lossy(Target[g]) \in {Target[f], lossy(Target[f])}
         => Target[g] = Target[f]
      /\ Parent(lossy(Target[g])) \in {Parent(Target[f]),
                                       Parent(lossy(Target[f]))}
         => Parent(Target[g]) = Parent(Target[f])
  BY <1>1, PathsTold
<1>4. /\ Parent(lossy(Landing[g])) \in {Parent(Landing[f]),
                                        Parent(lossy(Landing[f]))}
         => Parent(Landing[g]) = Parent(Landing[f])
      /\ Basename(lossy(Landing[g])) \in {Basename(Landing[f]),
                                          Basename(lossy(Landing[f]))}
         => Basename(Landing[g]) = Basename(Landing[f])
  BY <1>1, PathsTold
<1>5. CASE d = "target_filename"
  BY <1>3, <1>5 DEF Holds, Stated, Truth
<1>6. CASE d = "target_folder"
  BY <1>3, <1>6 DEF Holds, Stated, Truth
<1>7. CASE d = "landing_folder"
  BY <1>2, <1>4, <1>7 DEF Holds, Stated, Truth
<1>8. CASE d = "landing_filename"
  BY <1>2, <1>4, <1>8 DEF Holds, Stated, Truth
<1>9. CASE d = "creator_process"
  BY <1>2, <1>9 DEF Holds, Stated, Truth
<1>10. CASE d = "creator_comm"
  BY <1>1, <1>2, <1>10 DEF Holds, Stated, Truth, Distinct
<1>11. CASE d \in UidDims
  BY <1>2, <1>11 DEF Holds, Stated, Truth, UidDims
<1> QED
  BY <1>5, <1>6, <1>7, <1>8, <1>9, <1>10, <1>11 DEF Dim, UidDims

-----------------------------------------------------------------------------
(* Marks, events and the audit db.                                         *)

\* What the audit db learns of a download.
Strings(f) ==
    {Dir(a) : a \in Ancestors(lossy(Landing[f]))}
    \cup {Word(Basename(lossy(Landing[f]))), Word(Exe[f])}

\* A file that is not saved still has its event coming, and is not executed
\* before.
MarkInv ==
    /\ saved \subseteq Files /\ mark = [f \in Files |-> mark[f]]
    /\ \A f \in saved : mark[f] = Known(f)
    /\ \A f \in Files \ saved :
          mark[f] = NoRecord \/ (mark[f] = Raw(f) /\ MarkPending(f))

MarkEvent(e) ==
    \E f \in Files : e = [kind |-> "mark", file |-> f] /\ mark[f] # NoRecord

\* The process of an exec lives until it has been handled.
ExecEvent(e) ==
    /\ e.kind = "exec" /\ e.file \in saved /\ e.origin = Known(e.file)
    /\ e.pid \in Pids /\ e.by \in Uids /\ uid[e.pid] = e.by

EventInv ==
    /\ IsSeq(events)
    /\ mode = "down" => events = <<>>
    /\ \A k \in DOMAIN events : MarkEvent(events[k]) \/ ExecEvent(events[k])

UidInv == uid \in [Pids -> Uids \cup {Gone}]

\* The audit db has the strings of every record that was saved.
DbInv ==
    /\ mode # "down" => map = rows
    /\ \A f \in saved : Strings(f) \subseteq rows

WorldInv == MarkInv /\ EventInv /\ UidInv /\ DbInv

\* Saved and unsaved records are records.
LEMMA KnownMarks ==
    ASSUME NEW f \in Files
    PROVE  Known(f) # NoRecord /\ Raw(f) # NoRecord
<1>1. /\ Landing[f] \in Seq(Names) /\ lossy(Landing[f]) \in Seq(Names)
  BY PathsUsed, LossyPath, FilesAssumption
<1>2. /\ Comm[f] \in Names /\ Exe[f] \in Names
  BY FilesAssumption
<1>3. CreatorUid[f] \in Uids
  BY FilesAssumption
<1> QED
  BY <1>1, <1>2, <1>3, NoAssumption DEF Known, Raw, Marks

\* No event is lost, no creator, row or process is gone too early: the only
\* failures are appends that do not happen.
OnlyFile == Faults \subseteq {"append"}

\* At first there are no marks and no events.
LEMMA WorldInit == Init => WorldInv
<1> SUFFICES ASSUME Init PROVE WorldInv
  OBVIOUS
<1>1. IsSeq(<<>>)
  BY DEF IsSeq
<1>2. MarkInv
  BY DEF Init, MarkInv
<1>3. EventInv
  BY <1>1 DEF Init, EventInv
<1>4. UidInv
  BY LearnAssumption DEF Init, UidInv
<1>5. DbInv
  BY DEF Init, DbInv
<1> QED
  BY <1>2, <1>3, <1>4, <1>5 DEF WorldInv

\* A download is announced.
LEMMA WorldDownload ==
    ASSUME OnlyFile, WorldInv, NEW g \in Files, Download(g)
    PROVE  WorldInv'
<1> DEFINE e == [kind |-> "mark", file |-> g]
<1>1. /\ events' = Append(events, e) /\ mark[g] = NoRecord /\ mode # "down"
      /\ mark' = [mark EXCEPT ![g] = Raw(g)]
      /\ UNCHANGED <<mode, saved, uid, map, rows>>
  BY DEF Download, OnlyFile, Raw
<1>2. /\ IsSeq(events') /\ DOMAIN events = 1 .. Len(events)
      /\ DOMAIN events' = 1 .. Len(events) + 1 /\ Len(events) \in Nat
      /\ \A k \in 1 .. Len(events) : events'[k] = events[k]
      /\ events'[Len(events) + 1] = e
  BY <1>1, AppendSeq DEF WorldInv, EventInv
<1>3. /\ mark' = [f \in Files |-> mark'[f]] /\ mark'[g] = Raw(g)
      /\ \A f \in Files \ {g} : mark'[f] = mark[f]
  BY <1>1 DEF WorldInv, MarkInv
<1>4. g \notin saved
  BY <1>1, KnownMarks DEF WorldInv, MarkInv
<1>5. MarkPending(g)'
  BY <1>2 DEF MarkPending
<1>6. \A f \in Files : MarkPending(f) => MarkPending(f)'
  BY <1>2 DEF MarkPending
<1>7. MarkInv'
  BY <1>1, <1>3, <1>4, <1>5, <1>6 DEF WorldInv, MarkInv, Known, Raw
<1>8. ASSUME NEW k \in DOMAIN events'
      PROVE  (MarkEvent(events[k]) \/ ExecEvent(events[k]))'
  <2>1. CASE k = Len(events) + 1
    <3>1. mark'[g] # NoRecord
      BY <1>3, KnownMarks
    <3> QED
      BY <1>2, <2>1, <3>1 DEF MarkEvent
  <2>2. CASE k \in 1 .. Len(events)
    <3>1. /\ events'[k] = events[k]
          /\ MarkEvent(events[k]) \/ ExecEvent(events[k])
      BY <1>2, <2>2 DEF WorldInv, EventInv
    <3>2. \A f \in Files : mark[f] # NoRecord => mark'[f] # NoRecord
      BY <1>1, <1>3
    <3> QED
      BY <1>1, <3>1, <3>2 DEF MarkEvent, ExecEvent
  <2> QED
    BY <1>2, <2>1, <2>2
<1>9. EventInv'
  BY <1>1, <1>2, <1>8 DEF EventInv
<1> QED
  BY <1>1, <1>7, <1>9 DEF WorldInv, UidInv, DbInv, Strings

\* on_file_marked makes the known record of a raw or a known one.
LEMMA Augmented ==
    ASSUME NEW f
    PROVE  /\ [Raw(f) EXCEPT !.landing = lossy(Landing[f]),
                             !.creator_path_hash = Exe[f]] = Known(f)
           /\ [Known(f) EXCEPT !.landing = lossy(Landing[f]),
                               !.creator_path_hash = Exe[f]] = Known(f)
<1> DEFINE landing == lossy(Landing[f])
           comm == Comm[f]
           by == CreatorUid[f]
           exe == Exe[f]
           raw == Landing[f]
           r(l, h) == [comm |-> comm, creator_uid |-> by,
                       creator_path_hash |-> h, landing |-> l]
<1> HIDE DEF landing, comm, by, exe, raw
<1>1. ASSUME NEW l, NEW h
      PROVE  [r(l, h) EXCEPT !.landing = landing, !.creator_path_hash = exe]
             = r(landing, exe)
  <2>1. [r(l, h) EXCEPT !.landing = landing] = r(landing, h)
    OBVIOUS
  <2>2. [r(landing, h) EXCEPT !.creator_path_hash = exe] = r(landing, exe)
    OBVIOUS
  <2>3. [r(l, h) EXCEPT !.landing = landing, !.creator_path_hash = exe]
        = [[r(l, h) EXCEPT !.landing = landing]
           EXCEPT !.creator_path_hash = exe]
    OBVIOUS
  <2> QED
    BY <2>1, <2>2, <2>3
<1>2. Raw(f) = r(raw, NoHash) /\ Known(f) = r(landing, exe)
  BY DEF Raw, Known, landing, comm, by, exe, raw
<1>3. /\ [r(raw, NoHash) EXCEPT !.landing = landing, !.creator_path_hash = exe]
         = r(landing, exe)
      /\ [r(landing, exe) EXCEPT !.landing = landing,
                                 !.creator_path_hash = exe]
         = r(landing, exe)
  BY <1>1
<1> HIDE DEF r
<1>4. /\ [Raw(f) EXCEPT !.landing = landing, !.creator_path_hash = exe]
         = Known(f)
      /\ [Known(f) EXCEPT !.landing = landing, !.creator_path_hash = exe]
         = Known(f)
  BY <1>2, <1>3
<1> QED
  BY <1>4 DEF landing, exe

\* Handling the event saves the record, once the audit db has its strings.
LEMMA WorldMarked ==
    ASSUME OnlyFile, WorldInv, on_file_marked
    PROVE  WorldInv'
<1> DEFINE g == Head(events).file
           landing == lossy(Landing[g])
<1>1. /\ events # <<>> /\ Head(events).kind = "mark"
      /\ events' = Tail(events) /\ saved' = saved \cup {g}
      /\ mark' = [mark EXCEPT ![g].landing = landing,
                              ![g].creator_path_hash = Exe[g]]
      /\ record_strings(Strings(g))
      /\ UNCHANGED <<mode, uid>>
  <2>1. PICK known \in {TRUE} :
           /\ record_strings({Dir(a) : a \in Ancestors(landing)}
                             \cup {Word(Basename(landing))}
                             \cup (IF known THEN {Word(Exe[g])} ELSE {}))
           /\ mark' = [mark EXCEPT ![g].landing = landing,
                                   ![g].creator_path_hash =
                                       IF known THEN Exe[g] ELSE NoHash]
           /\ saved' = saved \cup {g}
    BY DEF on_file_marked, OnlyFile
  <2>2. known = TRUE
    OBVIOUS
  <2>3. {Dir(a) : a \in Ancestors(landing)} \cup {Word(Basename(landing))}
        \cup {Word(Exe[g])} = Strings(g)
    BY DEF Strings
  <2> QED
    BY <2>1, <2>2, <2>3 DEF on_file_marked
<1>2. /\ IsSeq(events') /\ Len(events) \in Nat \ {0}
      /\ DOMAIN events = 1 .. Len(events)
      /\ DOMAIN events' = 1 .. Len(events) - 1
      /\ \A k \in 1 .. Len(events) - 1 : events'[k] = events[k + 1]
      /\ Head(events) = events[1]
  BY <1>1, TailSeq DEF WorldInv, EventInv
<1>3. g \in Files /\ mark[g] # NoRecord
  BY <1>1, <1>2 DEF WorldInv, EventInv, MarkEvent, ExecEvent
<1>4. mark[g] \in {Raw(g), Known(g)}
  BY <1>3 DEF WorldInv, MarkInv
<1> HIDE DEF g
<1>5. /\ mark' = [f \in Files |-> mark'[f]] /\ mark'[g] = Known(g)
      /\ \A f \in Files \ {g} : mark'[f] = mark[f]
  <2> DEFINE r == [mark[g] EXCEPT !.landing = lossy(Landing[g]),
                                  !.creator_path_hash = Exe[g]]
  <2>1. CASE mark[g] = Raw(g)
    <3>1. r = Known(g)
      BY <2>1, Augmented
    <3> QED
      BY <1>1, <1>3, <3>1 DEF WorldInv, MarkInv
  <2>2. CASE mark[g] = Known(g)
    <3>1. r = Known(g)
      BY <2>2, Augmented
    <3> QED
      BY <1>1, <1>3, <3>1 DEF WorldInv, MarkInv
  <2> QED
    BY <1>4, <2>1, <2>2
<1>6. \A f \in Files \ {g} : MarkPending(f) => MarkPending(f)'
  <2> SUFFICES ASSUME NEW f \in Files \ {g}, MarkPending(f)
               PROVE  MarkPending(f)'
    OBVIOUS
  <2>1. PICK k \in DOMAIN events : events[k] = [kind |-> "mark", file |-> f]
    BY DEF MarkPending
  <2>2. k # 1
    BY <1>2, <2>1 DEF g
  <2>3. k - 1 \in DOMAIN events' /\ events'[k - 1] = events[k]
    BY <1>2, <2>1, <2>2
  <2> QED
    BY <2>1, <2>3 DEF MarkPending
<1>7. MarkInv'
  BY <1>1, <1>3, <1>5, <1>6 DEF WorldInv, MarkInv, Known, Raw
<1>8. ASSUME NEW k \in DOMAIN events'
      PROVE  (MarkEvent(events[k]) \/ ExecEvent(events[k]))'
  <2>1. /\ events'[k] = events[k + 1]
        /\ MarkEvent(events[k + 1]) \/ ExecEvent(events[k + 1])
    BY <1>2 DEF WorldInv, EventInv
  <2>2. \A f \in Files : mark[f] # NoRecord => mark'[f] # NoRecord
    BY <1>3, <1>5, KnownMarks
  <2> QED
    BY <1>1, <2>1, <2>2 DEF MarkEvent, ExecEvent
<1>9. EventInv'
  BY <1>1, <1>2, <1>8 DEF WorldInv, EventInv
<1>10. DbInv'
  <2>1. mode # "down" /\ map = rows
    BY <1>1 DEF WorldInv, EventInv, DbInv
  <2>2. map' = map \cup Strings(g) /\ rows' = rows \cup Strings(g)
    BY <1>1, <2>1 DEF record_strings, OnlyFile
  <2> QED
    BY <1>1, <2>1, <2>2 DEF WorldInv, DbInv, Strings
<1> QED
  BY <1>1, <1>7, <1>9, <1>10 DEF WorldInv, UidInv

\* Only saved files are executed, so their event carries the known record.
LEMMA WorldExec ==
    ASSUME OnlyFile, WorldInv, NEW p \in Pids, NEW f \in Files, Exec(p, f)
    PROVE  WorldInv'
<1> DEFINE e == [kind |-> "exec", file |-> f, pid |-> p, origin |-> mark[f],
                 by |-> uid[p],
                 denied |-> mode = "enforce" /\ ~check_allowlist(active,
                                          mark[f], Target[f], uid[p])]
<1>1. /\ events' = Append(events, e) /\ mark[f] # NoRecord /\ mode # "down"
      /\ uid[p] # Gone /\ ~MarkPending(f)
      /\ UNCHANGED <<mode, mark, saved, uid, map, rows>>
  BY DEF Exec, OnlyFile
<1>2. /\ e.kind = "exec" /\ e.file = f /\ e.pid = p /\ e.origin = mark[f]
      /\ e.by = uid[p]
  OBVIOUS
<1> HIDE DEF e
<1>3. /\ IsSeq(events') /\ DOMAIN events = 1 .. Len(events)
      /\ DOMAIN events' = 1 .. Len(events) + 1 /\ Len(events) \in Nat
      /\ \A k \in 1 .. Len(events) : events'[k] = events[k]
      /\ events'[Len(events) + 1] = e
  BY <1>1, AppendSeq DEF WorldInv, EventInv
<1>4. f \in saved /\ mark[f] = Known(f)
  BY <1>1 DEF WorldInv, MarkInv
<1>5. MarkInv'
  <2>1. \A g \in Files : MarkPending(g) => MarkPending(g)'
    BY <1>3 DEF MarkPending
  <2> QED
    BY <1>1, <2>1 DEF WorldInv, MarkInv, Known, Raw
<1>6. ASSUME NEW k \in DOMAIN events'
      PROVE  (MarkEvent(events[k]) \/ ExecEvent(events[k]))'
  <2>1. CASE k = Len(events) + 1
    <3>1. uid[p] \in Uids
      BY <1>1 DEF WorldInv, UidInv
    <3> QED
      BY <1>1, <1>2, <1>3, <1>4, <2>1, <3>1 DEF ExecEvent, Known
  <2>2. CASE k \in 1 .. Len(events)
    <3>1. /\ events'[k] = events[k]
          /\ MarkEvent(events[k]) \/ ExecEvent(events[k])
      BY <1>3, <2>2 DEF WorldInv, EventInv
    <3> QED
      BY <1>1, <3>1 DEF MarkEvent, ExecEvent, Known
  <2> QED
    BY <1>3, <2>1, <2>2
<1>7. EventInv'
  BY <1>1, <1>3, <1>6 DEF EventInv
<1> QED
  BY <1>1, <1>5, <1>7 DEF WorldInv, UidInv, DbInv, Strings

\* A process waits for its execs to be handled, and its pid for it to end.
LEMMA WorldUid ==
    ASSUME OnlyFile, WorldInv, NEW p \in Pids,
           Exit(p) \/ \E u \in Uids : Enter(p, u)
    PROVE  WorldInv'
<1>1. UNCHANGED <<mode, mark, saved, events, map, rows>>
  BY DEF Exit, Enter
<1>2. PICK u \in Uids \cup {Gone} : uid' = [uid EXCEPT ![p] = u]
  BY DEF Exit, Enter
<1>3. \A k \in DOMAIN events : ExecEvent(events[k]) => events[k].pid # p
  <2> SUFFICES ASSUME NEW k \in DOMAIN events, ExecEvent(events[k]),
                      events[k].pid = p
               PROVE  FALSE
    OBVIOUS
  <2>1. events[k].kind = "exec" /\ uid[p] \in Uids
    BY DEF ExecEvent
  <2>2. uid[p] # Gone
    BY <2>1, NoAssumption
  <2> QED
    BY <2>1, <2>2 DEF Exit, Enter, OnlyFile
<1>4. UidInv'
  BY <1>2 DEF WorldInv, UidInv
<1>5. \A q \in Pids \ {p} : uid'[q] = uid[q]
  BY <1>2 DEF WorldInv, UidInv
<1>6. MarkInv'
  BY <1>1 DEF WorldInv, MarkInv, MarkPending, Known, Raw
<1>7. ASSUME NEW k \in DOMAIN events'
      PROVE  (MarkEvent(events[k]) \/ ExecEvent(events[k]))'
  <2>1. /\ events'[k] = events[k]
        /\ MarkEvent(events[k]) \/ ExecEvent(events[k])
    BY <1>1 DEF WorldInv, EventInv
  <2>2. CASE MarkEvent(events[k])
    BY <1>1, <2>1, <2>2 DEF MarkEvent
  <2>3. CASE ExecEvent(events[k])
    <3>1. events[k].pid \in Pids \ {p}
      BY <1>1, <1>3, <2>3 DEF ExecEvent
    <3> QED
      BY <1>1, <1>5, <2>1, <2>3, <3>1 DEF ExecEvent, Known
  <2> QED
    BY <2>1, <2>2, <2>3
<1>8. EventInv'
  BY <1>1, <1>7 DEF WorldInv, EventInv
<1> QED
  BY <1>1, <1>4, <1>6, <1>8 DEF WorldInv, DbInv, Strings

\* Handling an exec takes its event.
LEMMA WorldHandled ==
    ASSUME WorldInv, on_execve_marked
    PROVE  WorldInv'
<1>1. /\ events # <<>> /\ Head(events).kind = "exec"
      /\ events' = Tail(events)
      /\ UNCHANGED <<mode, mark, saved, uid, map, rows>>
  BY DEF on_execve_marked
<1>2. /\ IsSeq(events') /\ Len(events) \in Nat \ {0}
      /\ DOMAIN events = 1 .. Len(events)
      /\ DOMAIN events' = 1 .. Len(events) - 1
      /\ \A k \in 1 .. Len(events) - 1 : events'[k] = events[k + 1]
      /\ Head(events) = events[1]
  BY <1>1, TailSeq DEF WorldInv, EventInv
<1>3. ASSUME NEW f \in Files, MarkPending(f) PROVE MarkPending(f)'
  <2>1. PICK k \in DOMAIN events : events[k] = [kind |-> "mark", file |-> f]
    BY <1>3 DEF MarkPending
  <2>2. k # 1
    BY <1>1, <1>2, <2>1
  <2>3. k - 1 \in DOMAIN events' /\ events'[k - 1] = events[k]
    BY <1>2, <2>1, <2>2
  <2> QED
    BY <2>1, <2>3 DEF MarkPending
<1>4. MarkInv'
  BY <1>1, <1>3 DEF WorldInv, MarkInv, Known, Raw
<1>5. ASSUME NEW k \in DOMAIN events'
      PROVE  (MarkEvent(events[k]) \/ ExecEvent(events[k]))'
  <2>1. /\ events'[k] = events[k + 1]
        /\ MarkEvent(events[k + 1]) \/ ExecEvent(events[k + 1])
    BY <1>2 DEF WorldInv, EventInv
  <2> QED
    BY <1>1, <2>1 DEF MarkEvent, ExecEvent, Known
<1>6. EventInv'
  BY <1>1, <1>2, <1>5 DEF WorldInv, EventInv
<1> QED
  BY <1>1, <1>4, <1>6 DEF WorldInv, UidInv, DbInv, Strings

\* A restart keeps what was saved, and loses the rest.
LEMMA WorldRestart ==
    ASSUME WorldInv, Stop \/ \E m \in {"soak", "enforce"} : Start(m)
    PROVE  WorldInv'
<1>0. IsSeq(<<>>) /\ DOMAIN <<>> = {}
  BY DEF IsSeq
<1>1. CASE Stop
  <2>1. /\ mode' = "down" /\ events' = <<>>
        /\ mark' = [f \in Files |-> IF f \in saved THEN mark[f] ELSE NoRecord]
        /\ UNCHANGED <<saved, uid, rows>>
    BY <1>1 DEF Stop
  <2>2. MarkInv'
    BY <2>1 DEF WorldInv, MarkInv, Known, Raw
  <2>3. EventInv'
    BY <1>0, <2>1 DEF EventInv
  <2> QED
    BY <2>1, <2>2, <2>3 DEF WorldInv, UidInv, DbInv, Strings
<1>2. CASE \E m \in {"soak", "enforce"} : Start(m)
  <2>1. /\ mode = "down" /\ mode' # "down" /\ map' = rows
        /\ UNCHANGED <<mark, saved, events, uid, rows>>
    BY <1>2 DEF Start, open_db
  <2>2. MarkInv'
    BY <2>1 DEF WorldInv, MarkInv, MarkPending, Known, Raw
  <2>3. EventInv'
    BY <1>0, <2>1 DEF WorldInv, EventInv
  <2> QED
    BY <2>1, <2>2, <2>3 DEF WorldInv, UidInv, DbInv, Strings
<1> QED
  BY <1>1, <1>2

\* Every step keeps marks, events and the audit db in line.
LEMMA WorldStep ==
    ASSUME OnlyFile
    PROVE  WorldInv /\ [Next]_vars => WorldInv'
<1> SUFFICES ASSUME WorldInv, [Next]_vars PROVE WorldInv'
  OBVIOUS
<1>1. CASE UNCHANGED <<mode, mark, saved, events, uid, map, rows>>
  BY <1>1 DEF WorldInv, MarkInv, EventInv, UidInv, DbInv, MarkPending,
              MarkEvent, ExecEvent, Known, Raw, Strings
<1>2. CASE \E b \in blocks, dims \in Selections : Allow(b, dims)
  BY <1>1, <1>2 DEF Allow
<1>3. CASE UNCHANGED vars
  BY <1>1, <1>3 DEF vars
<1> QED
  BY <1>2, <1>3, WorldDownload, WorldMarked, WorldExec, WorldUid,
     WorldHandled, WorldRestart DEF Next

-----------------------------------------------------------------------------
(* Rules and lines.                                                        *)

\* A rule made from an exec says of it what is stated, on every dimension
\* asked for: the audit db knows every hash and the process is still there.
LEMMA EventLine ==
    ASSUME WorldInv, CommsFit, events # <<>>, Head(events).kind = "exec",
           NEW dims, dims \subseteq Dim
    PROVE  LET e == Head(events)
           IN  /\ e.file \in saved /\ e.file \in Files /\ e.by \in Uids
               /\ rule_from_context(e, dims).flags = dims
               /\ to_line(rule_from_context(e, dims))
                  = StatedLine(e.file, e.by, dims)
<1> DEFINE e == Head(events)
           f == e.file
           landing == lossy(Landing[f])
<1>1. e = events[1] /\ 1 \in DOMAIN events
  BY TailSeq DEF WorldInv, EventInv
<1>2. ~MarkEvent(e)
  BY DEF MarkEvent
<1>3. ExecEvent(e)
  BY <1>1, <1>2 DEF WorldInv, EventInv
<1>4. mode # "down" /\ map = rows
  BY DEF WorldInv, EventInv, DbInv
<1>5. /\ f \in saved /\ f \in Files /\ e.by \in Uids /\ uid[e.pid] = e.by
      /\ e.origin = Known(f) /\ Strings(f) \subseteq map
  BY <1>3, <1>4 DEF ExecEvent, WorldInv, MarkInv, DbInv
<1>6. exec_uid(e) = e.by
  BY <1>5, NoAssumption DEF exec_uid
<1> HIDE DEF e
<1>7. /\ e.origin.comm = Comm[f] /\ e.origin.creator_uid = CreatorUid[f]
      /\ e.origin.creator_path_hash = Exe[f] /\ e.origin.landing = landing
  BY <1>5 DEF Known
<1> HIDE DEF f
<1>8. landing \in Seq(Names) /\ Len(landing) \in Nat \ {0}
  <2>1. Landing[f] \in Seq(Used) \ {<<>>}
    BY <1>5, PathsUsed
  <2> QED
    BY <2>1, LossyPath
<1>9. Parent(landing) \in Ancestors(landing)
  <2>1. Len(landing) - 1 \in 0 .. Len(landing) - 1
    BY <1>8
  <2> QED
    BY <2>1 DEF Parent, Ancestors
<1>10. /\ Dir(Parent(landing)) \in map /\ Word(Basename(landing)) \in map
       /\ Word(Exe[f]) \in map
  BY <1>5, <1>9 DEF Strings
<1>11. Exe[f] # NoHash
  BY <1>5, FilesAssumption, NoAssumption
<1>12. ASSUME NEW d \in Dim PROVE Value(e, d) = {Stated(d, f, e.by)}
  <2>1. CASE d \in {"target_filename", "target_folder"}
    BY <2>1 DEF Value, Stated, f
  <2>2. CASE d \in {"landing_folder", "landing_filename"}
    BY <1>7, <1>10, <2>2 DEF Value, Stated, resolve
  <2>3. CASE d = "creator_process"
    BY <1>7, <1>10, <1>11, <2>3 DEF Value, Stated, resolve
  <2>4. CASE d \in {"creator_comm", "creator_uid", "execution_uid"}
    BY <1>6, <1>7, <2>4 DEF Value, Stated
  <2> QED
    BY <2>1, <2>2, <2>3, <2>4 DEF Dim
<1> DEFINE values == [d \in {c \in dims : Value(e, c) # {}} |->
                          CHOOSE v \in Value(e, d) : TRUE]
           stated == [d \in dims |-> Stated(d, f, e.by)]
<1>13. values = stated
  <2>1. {c \in dims : Value(e, c) # {}} = dims
    BY <1>12
  <2>2. \A d \in dims : (CHOOSE v \in Value(e, d) : TRUE) = Stated(d, f, e.by)
    BY <1>12
  <2> QED
    BY <2>1, <2>2
<1>14. rule_from_context(e, dims) = spec_of(stated)
  BY <1>13 DEF rule_from_context
<1>15. spec_of(stated).flags = dims /\ spec_of(stated).value = stated
  <2>1. Stated("creator_comm", f, e.by) \notin TooLong
    BY <1>5 DEF Stated, CommsFit
  <2>2. {d \in DOMAIN stated : d # "creator_comm" \/ stated[d] \notin TooLong}
        = dims
    BY <2>1
  <2> QED
    BY <2>2 DEF spec_of
<1>16. to_line(spec_of(stated)) = StatedLine(f, e.by, dims)
  BY <1>15 DEF to_line, StatedLine
<1> QED
  BY <1>5, <1>14, <1>15, <1>16 DEF e, f

\* Narrowing a line.
LEMMA ProjectStated ==
    ASSUME NEW f, NEW u, NEW all, NEW dims
    PROVE  project(StatedLine(f, u, all), dims)
           = StatedLine(f, u, all \cap dims)
  BY DEF project, StatedLine

\* What Soak::record does with the rule of an exec: nothing, or it has it
\* already, or it writes it, or it fails to.
LEMMA RecordCases ==
    ASSUME OnlyFile, WorldInv, CommsFit, events # <<>>,
           Head(events).kind = "exec", record(Head(events)),
           unwritten \subseteq seen, ends = "line"
    PROVE  LET e == Head(events)
               line == StatedLine(e.file, e.by, SoakDims)
               now == Learned("soak", e, SoakDims)
           IN  /\ ends' = "line"
               /\ \/ UNCHANGED <<seen, file, unwritten, learned>>
                  \/ /\ SoakDims # {} /\ line \in seen
                     /\ UNCHANGED <<seen, file, unwritten>>
                     /\ learned' = IF line \in unwritten THEN learned
                                   ELSE learned \cup {now}
                  \/ /\ SoakDims # {} /\ line \notin seen /\ ~Full
                     /\ seen' = seen \cup {line} /\ unwritten' = unwritten
                     /\ file' = Append(file, line)
                     /\ learned' = learned \cup {now}
                  \/ /\ SoakDims # {} /\ line \notin seen /\ ~Full
                     /\ seen' = seen \cup {line}
                     /\ unwritten' = unwritten \cup {line}
                     /\ file' = file /\ learned' = learned
<1> DEFINE e == Head(events)
           line == StatedLine(e.file, e.by, SoakDims)
           now == Learned("soak", e, SoakDims)
           skip == SoakDims = {} \/ (line \notin seen /\ Full)
           new == ~skip /\ line \notin seen
<1>1. /\ rule_from_context(e, SoakDims).flags = SoakDims
      /\ to_line(rule_from_context(e, SoakDims)) = line
  BY EventLine, LearnAssumption
<1>2. PICK w \in IF new THEN writeln(line) ELSE {Kept} :
         /\ seen' = IF new THEN seen \cup {line} ELSE seen
         /\ file' = w.lines /\ ends' = w.end
         /\ unwritten' = IF ~w.ok THEN unwritten \cup {line} ELSE unwritten
         /\ learned' = IF skip \/ line \in unwritten' THEN learned
                       ELSE learned \cup {now}
  BY <1>1 DEF record
<1>3. CASE ~new
  <2>1. w.ok /\ w.lines = file /\ w.end = "line"
    BY <1>2, <1>3 DEF Kept
  <2> HIDE DEF line, now
  <2> QED
    BY <1>2, <1>3, <2>1 DEF line, now
<1>4. CASE new
  <2>1. w \in writeln(line)
    BY <1>2, <1>4
  <2>2. /\ w.end = "line"
        /\ \/ w.ok /\ w.lines = Append(file, line)
           \/ ~w.ok /\ w.lines = file
    BY <2>1, Written DEF OnlyFile
  <2> HIDE DEF line, now
  <2>3. CASE w.ok
    BY <1>2, <1>4, <2>2, <2>3 DEF line, now
  <2>4. CASE ~w.ok
    BY <1>2, <1>4, <2>2, <2>4 DEF line, now
  <2> QED
    BY <2>3, <2>4
<1> QED
  BY <1>3, <1>4

-----------------------------------------------------------------------------
(* Exact.                                                                  *)

\* A candidate rule is that of its exec.
BlockInv ==
    \A b \in blocks :
        /\ b.exec.file \in saved /\ b.exec.by \in Uids
        /\ b.line = StatedLine(b.exec.file, b.exec.by, ALLOW_DIMS)

\* What a session failed to write it has seen; a daemon that does not soak
\* has seen nothing.
SeenInv == unwritten \subseteq seen /\ (mode # "soak" => seen = {})

LearnedInv ==
    \A l \in learned : /\ l.file \in saved /\ l.uid \in Uids
                       /\ l.dims \subseteq Dim /\ l.dims # {}

\* Every line of the file is that of a learned exec, and whole.
Stands(line, execs) == \E l \in execs : line = StatedLine(l.file, l.uid, l.dims)
LineInv ==
    /\ IsSeq(file) /\ ends = "line"
    /\ \A k \in DOMAIN file : Stands(file[k], learned)

RuleInv == BlockInv /\ SeenInv /\ LearnedInv /\ LineInv

\* A line more, and the exec it was learned from.
LEMMA LineAppended ==
    ASSUME LineInv, NEW line, file' = Append(file, line),
           learned \subseteq learned', Stands(line, learned'), ends' = ends
    PROVE  LineInv'
<1>1. /\ IsSeq(file') /\ DOMAIN file = 1 .. Len(file) /\ Len(file) \in Nat
      /\ DOMAIN file' = 1 .. Len(file) + 1
      /\ \A k \in 1 .. Len(file) : file'[k] = file[k]
      /\ file'[Len(file) + 1] = line
  BY AppendSeq DEF LineInv
<1>2. ASSUME NEW k \in DOMAIN file'
      PROVE  Stands(file'[k], learned')
  <2>1. CASE k = Len(file) + 1
    BY <1>1, <2>1 DEF Stands
  <2>2. CASE k \in 1 .. Len(file)
    BY <1>1, <2>2 DEF LineInv, Stands
  <2> QED
    BY <1>1, <2>1, <2>2
<1> QED
  BY <1>1, <1>2 DEF LineInv

\* More execs learned, no line more.
LEMMA LineKept ==
    ASSUME LineInv, UNCHANGED <<file, ends>>, learned \subseteq learned'
    PROVE  LineInv'
  BY DEF LineInv, Stands

\* Soak learns from an exec of a saved file.
LEMMA RuleRecorded ==
    ASSUME OnlyFile, CommsFit, WorldInv, RuleInv, mode = "soak",
           on_execve_marked, record(Head(events)), UNCHANGED blocks
    PROVE  RuleInv'
<1> DEFINE e == Head(events)
           line == StatedLine(e.file, e.by, SoakDims)
           now == Learned("soak", e, SoakDims)
<1>1. events # <<>> /\ e.kind = "exec" /\ UNCHANGED <<mode, saved>>
  BY DEF on_execve_marked
<1>2. e.file \in saved /\ e.by \in Uids
  BY <1>1, EventLine, LearnAssumption
<1>3. /\ now.file = e.file /\ now.uid = e.by /\ now.dims = SoakDims
      /\ SoakDims \subseteq Dim
  BY LearnAssumption DEF Learned
<1>4. BlockInv'
  BY <1>1 DEF RuleInv, BlockInv, StatedLine, Stated, encode_value
<1>5. \/ UNCHANGED <<seen, file, unwritten, learned>>
      \/ /\ SoakDims # {} /\ line \in seen
         /\ UNCHANGED <<seen, file, unwritten>>
         /\ learned' = IF line \in unwritten THEN learned
                       ELSE learned \cup {now}
      \/ /\ SoakDims # {} /\ line \notin seen /\ ~Full
         /\ seen' = seen \cup {line} /\ unwritten' = unwritten
         /\ file' = Append(file, line)
         /\ learned' = learned \cup {now}
      \/ /\ SoakDims # {} /\ line \notin seen /\ ~Full
         /\ seen' = seen \cup {line}
         /\ unwritten' = unwritten \cup {line}
         /\ file' = file /\ learned' = learned
  BY <1>1, RecordCases DEF RuleInv, SeenInv, LineInv
<1>0. ends' = ends
  BY <1>1, RecordCases DEF RuleInv, SeenInv, LineInv
<1> HIDE DEF e, line, now
<1>6. SeenInv'
  BY <1>1, <1>5 DEF RuleInv, SeenInv
<1>7. LearnedInv'
  BY <1>1, <1>2, <1>3, <1>5 DEF RuleInv, LearnedInv
<1>8. LineInv'
  <2>1. CASE UNCHANGED file
    <3>1. learned \subseteq learned'
      BY <1>5
    <3> QED
      BY <1>0, <2>1, <3>1, LineKept DEF RuleInv
  <2>2. CASE file' = Append(file, line) /\ learned' = learned \cup {now}
    <3>1. now \in learned' /\ line = StatedLine(now.file, now.uid, now.dims)
      BY <1>3, <2>2 DEF line
    <3>2. Stands(line, learned')
      BY <3>1 DEF Stands
    <3> QED
      BY <1>0, <2>2, <3>2, LineAppended DEF RuleInv
  <2> QED
    BY <1>5, <2>1, <2>2
<1> QED
  BY <1>4, <1>6, <1>7, <1>8 DEF RuleInv

\* A blocked exec of a saved file becomes a candidate.
LEMMA RuleBlocked ==
    ASSUME CommsFit, WorldInv, RuleInv, on_execve_marked,
           record_block_token(Head(events)),
           UNCHANGED <<seen, file, ends, unwritten, learned>>
    PROVE  RuleInv'
<1> DEFINE e == Head(events)
           b == [line |-> to_line(rule_from_context(e, ALLOW_DIMS)), exec |-> e]
<1>1. /\ events # <<>> /\ e.kind = "exec" /\ UNCHANGED <<mode, saved>>
      /\ blocks' = blocks \cup {b}
  BY DEF on_execve_marked, record_block_token
<1>2. /\ e.file \in saved /\ e.by \in Uids
      /\ to_line(rule_from_context(e, ALLOW_DIMS))
         = StatedLine(e.file, e.by, ALLOW_DIMS)
  <2>1. ALLOW_DIMS \subseteq Dim
    BY DEF ALLOW_DIMS, Dim
  <2> QED
    BY <1>1, <2>1, EventLine
<1>3. /\ b.exec.file \in saved /\ b.exec.by \in Uids
      /\ b.line = StatedLine(b.exec.file, b.exec.by, ALLOW_DIMS)
  BY <1>2
<1> HIDE DEF b
<1>4. BlockInv'
  <2> SUFFICES ASSUME NEW c \in blocks'
               PROVE  /\ c.exec.file \in saved /\ c.exec.by \in Uids
                      /\ c.line = StatedLine(c.exec.file, c.exec.by, ALLOW_DIMS)
    BY <1>1 DEF BlockInv, StatedLine, Stated, encode_value
  <2> QED
    BY <1>1, <1>3 DEF RuleInv, BlockInv
<1>5. LineInv'
  BY LineKept DEF RuleInv
<1> QED
  BY <1>1, <1>4, <1>5 DEF RuleInv, SeenInv, LearnedInv

\* A user allows part of a candidate.
LEMMA RuleAllowed ==
    ASSUME OnlyFile, RuleInv, NEW b \in blocks, NEW dims, Allow(b, dims)
    PROVE  RuleInv'
<1> DEFINE line == project(b.line, dims)
           kept == ALLOW_DIMS \cap dims
           now == Learned("allow", b.exec, DOMAIN line)
<1>1. /\ b.exec.file \in saved /\ b.exec.by \in Uids
      /\ line = StatedLine(b.exec.file, b.exec.by, kept)
  BY ProjectStated DEF RuleInv, BlockInv
<1>2. DOMAIN line = kept /\ kept \subseteq Dim
  BY <1>1 DEF StatedLine, ALLOW_DIMS, Dim
<1>3. /\ DOMAIN line # {} /\ file' \in {file, Append(file, line)}
      /\ file' # file => now \in learned'
      /\ learned' \in {learned, learned \cup {now}} /\ blocks' \subseteq blocks
      /\ UNCHANGED <<mode, saved, seen, unwritten, ends>>
  <2>1. /\ DOMAIN line # {} /\ UNCHANGED <<mode, saved, seen, unwritten>>
    BY DEF Allow
  <2>2. IsSeq(file) /\ ends = "line" /\ "torn" \notin Faults
    BY DEF OnlyFile, RuleInv, LineInv
  <2>3. /\ ends' = "line"
        /\ \/ UNCHANGED <<file, learned, blocks>>
           \/ /\ file' = IF line \in rules_of(file) THEN file
                         ELSE Append(file, line)
              /\ learned' = learned \cup {now} /\ blocks' \subseteq blocks
    BY <2>2, AllowCases
  <2> HIDE DEF line, now
  <2> QED
    BY <2>1, <2>2, <2>3
<1>4. /\ now.file = b.exec.file /\ now.uid = b.exec.by
      /\ now.dims = kept
  BY <1>2 DEF Learned
<1> HIDE DEF line, now
<1>5. BlockInv'
  BY <1>3 DEF RuleInv, BlockInv, StatedLine, Stated, encode_value
<1>6. LearnedInv'
  BY <1>1, <1>2, <1>3, <1>4 DEF RuleInv, LearnedInv
<1>7. LineInv'
  <2>1. CASE file' = file
    BY <1>3, <2>1, LineKept DEF RuleInv
  <2>2. CASE file' = Append(file, line) /\ file' # file
    <3>1. now \in learned' /\ line = StatedLine(now.file, now.uid, now.dims)
      BY <1>1, <1>3, <1>4, <2>2
    <3>2. Stands(line, learned')
      BY <3>1 DEF Stands
    <3> QED
      BY <1>3, <2>2, <3>2, LineAppended DEF RuleInv
  <2> QED
    BY <1>3, <2>1, <2>2
<1> QED
  BY <1>3, <1>5, <1>6, <1>7 DEF RuleInv, SeenInv

\* Every other step leaves the rules alone, or forgets what only this
\* session knew.
LEMMA RuleElse ==
    ASSUME RuleInv, UNCHANGED <<file, ends, learned>>, saved \subseteq saved',
           \/ UNCHANGED <<mode, seen, blocks, unwritten>>
           \/ Stop
           \/ \E m \in {"soak", "enforce"} : Start(m)
    PROVE  RuleInv'
<1>1. LineInv'
  BY LineKept DEF RuleInv
<1>2. LearnedInv'
  BY DEF RuleInv, LearnedInv
<1>3. BlockInv'
  <2>1. blocks' \subseteq blocks
    BY DEF Start, Stop
  <2> QED
    BY <2>1 DEF RuleInv, BlockInv, StatedLine, Stated, encode_value
<1>4. SeenInv'
  BY DEF RuleInv, SeenInv, Start, Stop
<1> QED
  BY <1>1, <1>2, <1>3, <1>4 DEF RuleInv

\* Every step keeps the lines of the file those of learned execs.
LEMMA RuleStep ==
    ASSUME OnlyFile, CommsFit
    PROVE  WorldInv /\ RuleInv /\ [Next]_vars => RuleInv'
<1> SUFFICES ASSUME WorldInv, RuleInv, [Next]_vars PROVE RuleInv'
  OBVIOUS
<1>1. CASE on_execve_marked
  <2>1. \/ /\ record_block_token(Head(events))
           /\ UNCHANGED <<seen, file, ends, unwritten, learned>>
        \/ /\ mode = "soak" /\ record(Head(events)) /\ UNCHANGED blocks
        \/ UNCHANGED <<seen, file, ends, unwritten, learned, blocks>>
    BY <1>1 DEF on_execve_marked, maybe_soak
  <2>2. UNCHANGED <<mode, saved>>
    BY <1>1 DEF on_execve_marked
  <2> QED
    BY <1>1, <2>1, <2>2, RuleBlocked, RuleRecorded, RuleElse
<1>2. CASE \E b \in blocks, dims \in Selections : Allow(b, dims)
  BY <1>2, RuleAllowed
<1>3. CASE Stop \/ \E m \in {"soak", "enforce"} : Start(m)
  <2>1. UNCHANGED <<file, ends, learned, saved>>
    BY <1>3 DEF Start, Stop
  <2> QED
    BY <1>3, <2>1, RuleElse
<1>4. CASE \/ \E f \in Files : Download(f)
           \/ on_file_marked
           \/ \E p \in Pids, f \in Files : Exec(p, f)
           \/ \E p \in Pids : Exit(p)
           \/ \E p \in Pids, u \in Uids : Enter(p, u)
           \/ UNCHANGED vars
  <2>1. /\ UNCHANGED <<file, ends, learned, mode, seen, blocks, unwritten>>
        /\ saved \subseteq saved'
    BY <1>4 DEF Download, on_file_marked, Exec, Exit, Enter, vars
  <2> QED
    BY <2>1, RuleElse
<1> QED
  BY <1>1, <1>2, <1>3, <1>4 DEF Next

\* No rule is wider than what was seen: an exec that the file permits agrees
\* with a learned one on every dimension that was asked for.  Without names
\* that look alike once made UTF-8, and with comms that fit, a line that is
\* not appended widens none; a lost event, creator or row does, and a line
\* that is appended in part.
THEOREM ExactTheorem ==
    ASSUME OnlyFile, Distinct, CommsFit
    PROVE  Spec => []Exact
<1>1. Init => WorldInv /\ RuleInv
  <2>1. IsSeq(<<>>)
    BY DEF IsSeq
  <2>2. Init => RuleInv
    BY <2>1 DEF Init, RuleInv, BlockInv, SeenInv, LearnedInv, LineInv
  <2> QED
    BY <2>2, WorldInit
<1>2. WorldInv /\ RuleInv /\ [Next]_vars => (WorldInv /\ RuleInv)'
  BY WorldStep, RuleStep
<1>3. WorldInv /\ RuleInv => Exact
  <2> SUFFICES ASSUME WorldInv, RuleInv, NEW f \in Files, mark[f] # NoRecord,
                      NEW u \in Uids,
                      check_allowlist(seeded(file), mark[f], Target[f], u)
               PROVE  \E l \in learned : \A d \in l.dims :
                          Truth(d, f, u) = Truth(d, l.file, l.uid)
    BY DEF Exact
  <2>1. PICK r \in seeded(file) : Matches(r, mark[f], Target[f], u)
    BY DEF check_allowlist
  <2>2. PICK k \in load(file) : Loads(file) /\ r = decode(file[k])
    BY <2>1 DEF seeded
  <2>3. k \in DOMAIN file
    BY <2>2 DEF load
  <2>4. PICK l \in learned : file[k] = StatedLine(l.file, l.uid, l.dims)
    BY <2>3 DEF RuleInv, LineInv, Stands
  <2>5. l.file \in Files /\ l.dims \subseteq Dim
    BY DEF WorldInv, MarkInv, RuleInv, LearnedInv
  <2>6. r = [d \in l.dims |-> Stated(d, l.file, l.uid)]
    BY <2>2, <2>4, StatedDecodes
  <2>7. \A d \in l.dims :
            Holds(d, Stated(d, l.file, l.uid), mark[f], Target[f], u)
    BY <2>1, <2>6 DEF Matches
  <2>8. mark[f] \in {Raw(f), Known(f)}
    BY DEF WorldInv, MarkInv
  <2> QED
    BY <2>5, <2>7, <2>8, HoldsTruth
<1> QED
  BY <1>1, <1>2, <1>3, PTL DEF Spec

-----------------------------------------------------------------------------
(* LearnedPermits.                                                         *)

\* What is executed, and the comms that fetch it, are proper UTF-8.
Proper ==
    \A f \in Files : lossy(Target[f]) = Target[f] /\ Lossy[Comm[f]] = Comm[f]

\* A user who picks exactly soak's dimensions does not fill the map: else
\* soak may meet a rule of theirs that the file has and the kernel has not.
NoMix ==
    \/ \A dims \in Selections : ALLOW_DIMS \cap dims # SoakDims
    \/ MAX_LINES <= MAX_RULES

\* The daemon writes no blank line and none twice, so load keeps them all.
AllKept(lines) ==
    /\ IsSeq(lines) /\ load(lines) = DOMAIN lines
    /\ IsFiniteSet(rules_of(lines)) /\ Cardinality(rules_of(lines)) = Len(lines)

\* The k-th line is then the k-th rule.
LEMMA RankIs ==
    ASSUME NEW lines, AllKept(lines)
    PROVE  /\ Len(lines) \in Nat /\ DOMAIN lines = 1 .. Len(lines)
           /\ Cardinality(load(lines)) = Len(lines)
           /\ \A k \in DOMAIN lines : Rank(lines, k) = k
<1>1. DOMAIN lines = 1 .. Len(lines) /\ Len(lines) \in Nat
  BY AppendSeq DEF AllKept
<1>2. Cardinality(1 .. Len(lines)) = Len(lines)
  <2>1. Cardinality(1 .. Len(lines))
        = IF 1 > Len(lines) THEN 0 ELSE Len(lines) - 1 + 1
    BY <1>1, FS_Interval
  <2> QED
    BY <1>1, <2>1
<1>3. ASSUME NEW k \in DOMAIN lines PROVE Rank(lines, k) = k
  <2>1. {j \in load(lines) : j <= k} = 1 .. k
    BY <1>1 DEF AllKept
  <2>2. Cardinality(1 .. k) = k
    BY <1>1, FS_Interval
  <2> QED
    BY <2>1, <2>2 DEF Rank
<1> QED
  BY <1>1, <1>2, <1>3 DEF AllKept

\* A new rule at the end.
LEMMA AppendKept ==
    ASSUME NEW lines, NEW line, AllKept(lines), line \notin rules_of(lines),
           DOMAIN line # {}
    PROVE  /\ AllKept(Append(lines, line))
           /\ rules_of(Append(lines, line)) = rules_of(lines) \cup {line}
<1> DEFINE new == Append(lines, line)
           n == Len(lines)
<1>1. /\ IsSeq(new) /\ n \in Nat /\ Len(new) = n + 1
      /\ DOMAIN lines = 1 .. n /\ DOMAIN new = 1 .. n + 1
      /\ \A k \in 1 .. n : new[k] = lines[k]
      /\ new[n + 1] = line
  BY AppendSeq DEF AllKept
<1> HIDE DEF new, n
<1>2. \A k \in 1 .. n : /\ DOMAIN lines[k] # {} /\ lines[k] # line
                        /\ \A j \in 1 .. k - 1 : lines[j] # lines[k]
  BY <1>1 DEF AllKept, load, rules_of
<1>3. ASSUME NEW k \in 1 .. n + 1 PROVE k \in load(new)
  <2>1. CASE k = n + 1
    BY <1>1, <1>2, <2>1 DEF load
  <2>2. CASE k \in 1 .. n
    BY <1>1, <1>2, <2>2 DEF load
  <2> QED
    BY <1>1, <2>1, <2>2
<1>4. load(new) = DOMAIN new
  BY <1>1, <1>3 DEF load
<1>5. rules_of(new) = rules_of(lines) \cup {line}
  <2>1. rules_of(new) = {new[k] : k \in 1 .. n + 1}
    BY <1>1, <1>4 DEF rules_of
  <2>2. rules_of(lines) = {lines[k] : k \in 1 .. n}
    BY <1>1 DEF rules_of, AllKept
  <2>3. 1 .. n + 1 = (1 .. n) \cup {n + 1}
    BY <1>1
  <2> QED
    BY <1>1, <2>1, <2>2, <2>3
<1>6. /\ IsFiniteSet(rules_of(lines) \cup {line})
      /\ Cardinality(rules_of(lines) \cup {line}) = n + 1
  BY FS_AddElement DEF AllKept, n
<1> QED
  BY <1>1, <1>4, <1>5, <1>6 DEF AllKept, new

\* The lines of soak's dimensions fit the map, a soaking daemon has seen the
\* whole file, and every learned exec has its line there.
SoakFits == \A k \in DOMAIN file : DOMAIN file[k] = SoakDims => k <= MAX_RULES

SeenAll ==
    /\ IsFiniteSet(seen)
    /\ mode = "soak" => /\ rules_of(file) \subseteq seen
                        /\ seen \subseteq rules_of(file) \cup unwritten

HasLine ==
    \A l \in learned :
        /\ StatedLine(l.file, l.uid, l.dims) \in rules_of(file)
        /\ l.how = "soak" => l.dims = SoakDims

PermitInv == AllKept(file) /\ Loads(file) /\ SoakFits /\ SeenAll /\ HasLine

\* What a new rule at the end must be.
LEMMA PermitAppended ==
    ASSUME PermitInv, NEW line, file' = Append(file, line),
           line \notin rules_of(file), DOMAIN line # {},
           DOMAIN line = SoakDims => Len(file) + 1 <= MAX_RULES
    PROVE  /\ AllKept(file)' /\ SoakFits'
           /\ rules_of(file') = rules_of(file) \cup {line}
<1>1. AllKept(Append(file, line))
  BY AppendKept DEF PermitInv
<1>2. rules_of(file') = rules_of(file) \cup {line}
  BY AppendKept DEF PermitInv
<1>3. AllKept(file)'
  BY <1>1
<1>4. /\ Len(file) \in Nat /\ DOMAIN file = 1 .. Len(file)
      /\ DOMAIN file' = 1 .. Len(file) + 1
      /\ \A k \in 1 .. Len(file) : file'[k] = file[k]
      /\ file'[Len(file) + 1] = line
  BY AppendSeq DEF PermitInv, AllKept
<1>5. ASSUME NEW k \in DOMAIN file', DOMAIN file'[k] = SoakDims
      PROVE  k <= MAX_RULES
  <2>1. CASE k = Len(file) + 1
    BY <1>4, <1>5, <2>1
  <2>2. CASE k \in 1 .. Len(file)
    BY <1>4, <1>5, <2>2 DEF PermitInv, SoakFits
  <2> QED
    BY <1>4, <2>1, <2>2
<1> QED
  BY <1>2, <1>3, <1>5 DEF SoakFits

\* Soak writes what fits, and counts an exec as learned only when its line
\* is in the file.
LEMMA PermitRecorded ==
    ASSUME Faults \subseteq {"append"}, CommsFit, WorldInv, RuleInv, PermitInv,
           mode = "soak", on_execve_marked, record(Head(events))
    PROVE  AllKept(file)' /\ SoakFits' /\ SeenAll' /\ HasLine'
<1> DEFINE e == Head(events)
           line == StatedLine(e.file, e.by, SoakDims)
           now == Learned("soak", e, SoakDims)
<1>1. events # <<>> /\ e.kind = "exec" /\ mode' = mode
  BY DEF on_execve_marked
<1>2. /\ now.file = e.file /\ now.uid = e.by /\ now.dims = SoakDims
      /\ now.how = "soak" /\ DOMAIN line = SoakDims
  BY DEF Learned, StatedLine
<1>3. \/ UNCHANGED <<seen, file, unwritten, learned>>
      \/ /\ SoakDims # {} /\ line \in seen
         /\ UNCHANGED <<seen, file, unwritten>>
         /\ learned' = IF line \in unwritten THEN learned
                       ELSE learned \cup {now}
      \/ /\ SoakDims # {} /\ line \notin seen /\ ~Full
         /\ seen' = seen \cup {line} /\ unwritten' = unwritten
         /\ file' = Append(file, line)
         /\ learned' = learned \cup {now}
      \/ /\ SoakDims # {} /\ line \notin seen /\ ~Full
         /\ seen' = seen \cup {line}
         /\ unwritten' = unwritten \cup {line}
         /\ file' = file
         /\ learned' = learned
  BY <1>1, RecordCases DEF OnlyFile, RuleInv, SeenInv, LineInv
<1>4. /\ IsFiniteSet(seen) /\ rules_of(file) \subseteq seen
      /\ seen \subseteq rules_of(file) \cup unwritten
  BY DEF PermitInv, SeenAll
<1>5. now.file = e.file /\ StatedLine(now.file, now.uid, now.dims) = line
  BY <1>2
<1>6. IsFiniteSet(seen \cup {line})
  BY <1>4, FS_AddElement
<1> HIDE DEF e, line, now
<1>7. CASE UNCHANGED <<seen, file, unwritten, learned>>
  BY <1>1, <1>7 DEF PermitInv, SoakFits, SeenAll, HasLine, StatedLine, Stated,
                    encode_value
<1>8. CASE /\ line \in seen /\ UNCHANGED <<seen, file, unwritten>>
           /\ learned' = IF line \in unwritten THEN learned
                         ELSE learned \cup {now}
  <2>1. AllKept(file)' /\ SoakFits' /\ SeenAll'
    BY <1>1, <1>8 DEF PermitInv, SoakFits, SeenAll
  <2>2. HasLine'
    <3>1. CASE line \in unwritten
      BY <1>8, <3>1 DEF PermitInv, HasLine
    <3>2. CASE line \notin unwritten
      <4>1. line \in rules_of(file)
        BY <1>4, <1>8, <3>2
      <4> QED
        BY <1>2, <1>5, <1>8, <3>2, <4>1 DEF PermitInv, HasLine
    <3> QED
      BY <3>1, <3>2
  <2> QED
    BY <2>1, <2>2
<1>9. CASE /\ SoakDims # {} /\ line \notin seen /\ ~Full
           /\ seen' = seen \cup {line} /\ unwritten' = unwritten
           /\ file' = Append(file, line)
           /\ learned' = learned \cup {now}
  <2>1. Len(file) + 1 <= MAX_RULES
    <3>1. Cardinality(rules_of(file)) <= Cardinality(seen)
      BY <1>4, FS_Subset
    <3>2. Cardinality(seen) \in Nat /\ Len(file) \in Nat
      BY <1>4, FS_CardinalityType, RankIs DEF PermitInv
    <3> QED
      BY <1>9, <3>1, <3>2, LearnAssumption DEF Full, PermitInv, AllKept
  <2>2. line \notin rules_of(file) /\ DOMAIN line # {}
    BY <1>2, <1>4, <1>9
  <2>3. /\ AllKept(file)' /\ SoakFits'
        /\ rules_of(file') = rules_of(file) \cup {line}
    BY <1>9, <2>1, <2>2, PermitAppended
  <2>4. SeenAll'
    BY <1>4, <1>6, <1>9, <2>3 DEF SeenAll
  <2>5. HasLine'
    BY <1>2, <1>5, <1>9, <2>3 DEF PermitInv, HasLine
  <2> QED
    BY <2>3, <2>4, <2>5
<1>10. CASE /\ seen' = seen \cup {line} /\ unwritten' = unwritten \cup {line}
            /\ file' = file /\ learned' = learned
  <2>1. AllKept(file)' /\ SoakFits' /\ HasLine'
    BY <1>10 DEF PermitInv, SoakFits, HasLine
  <2>2. SeenAll'
    BY <1>4, <1>6, <1>10 DEF SeenAll
  <2> QED
    BY <2>1, <2>2
<1> QED
  BY <1>3, <1>7, <1>8, <1>9, <1>10

\* An allowed rule is in the file, too, and leaves room for soak's.
LEMMA PermitAllowed ==
    ASSUME OnlyFile, NoMix, RuleInv, PermitInv, NEW b \in blocks,
           NEW dims \in Selections, Allow(b, dims),
           ~UNCHANGED <<file, learned, blocks>>
    PROVE  AllKept(file)' /\ SoakFits' /\ SeenAll' /\ HasLine'
<1> DEFINE line == project(b.line, dims)
           kept == ALLOW_DIMS \cap dims
           now == Learned("allow", b.exec, DOMAIN line)
<1>1. line = StatedLine(b.exec.file, b.exec.by, kept) /\ DOMAIN line = kept
  <2>1. line = StatedLine(b.exec.file, b.exec.by, kept)
    BY ProjectStated DEF RuleInv, BlockInv
  <2> QED
    BY <2>1, StatedDecodes
<1>2. /\ mode = "enforce" /\ DOMAIN line # {} /\ Len(file') <= MAX_LINES
      /\ file' = IF line \in rules_of(file) THEN file ELSE Append(file, line)
      /\ learned' = learned \cup {now} /\ UNCHANGED <<mode, seen>>
  <2>1. mode = "enforce" /\ DOMAIN line # {} /\ UNCHANGED <<mode, seen>>
    BY DEF Allow
  <2>2. IsSeq(file) /\ ends = "line" /\ "torn" \notin Faults
    BY DEF OnlyFile, RuleInv, LineInv
  <2>3. /\ Len(file') <= MAX_LINES
        /\ \/ UNCHANGED <<file, learned, blocks>>
           \/ /\ file' = IF line \in rules_of(file) THEN file
                         ELSE Append(file, line)
              /\ learned' = learned \cup {now}
    BY <2>2, AllowCases
  <2> HIDE DEF line, now
  <2> QED
    BY <2>1, <2>3
<1>3. /\ now.how = "allow"
      /\ StatedLine(now.file, now.uid, now.dims) = line
  BY <1>1 DEF Learned
<1>4. SeenAll'
  BY <1>2 DEF PermitInv, SeenAll
<1> HIDE DEF line, now
<1>5. CASE line \in rules_of(file)
  BY <1>2, <1>3, <1>4, <1>5 DEF PermitInv, SoakFits, HasLine
<1>6. CASE line \notin rules_of(file)
  <2>1. file' = Append(file, line)
    BY <1>2, <1>6
  <2>2. Len(file) \in Nat /\ Len(file') = Len(file) + 1
    BY <2>1, AppendSeq DEF PermitInv, AllKept
  <2>3. DOMAIN line = SoakDims => Len(file) + 1 <= MAX_RULES
    <3>1. MAX_RULES \in Nat /\ MAX_LINES \in Nat
      BY LearnAssumption
    <3>2. CASE kept # SoakDims
      BY <1>1, <3>2
    <3>3. CASE MAX_LINES <= MAX_RULES
      BY <1>2, <2>2, <3>1, <3>3
    <3> QED
      BY <3>2, <3>3 DEF NoMix
  <2>4. /\ AllKept(file)' /\ SoakFits'
        /\ rules_of(file') = rules_of(file) \cup {line}
    BY <1>2, <1>6, <2>1, <2>3, PermitAppended
  <2>5. HasLine'
    BY <1>2, <1>3, <2>4 DEF PermitInv, HasLine
  <2> QED
    BY <1>4, <2>4, <2>5
<1> QED
  BY <1>5, <1>6

\* Every other step leaves the file and what was learned alone.
LEMMA PermitElse ==
    ASSUME PermitInv, RuleInv, UNCHANGED <<file, learned>>,
           \/ UNCHANGED <<mode, seen, unwritten>>
           \/ Stop
           \/ \E m \in {"soak", "enforce"} : Start(m)
    PROVE  AllKept(file)' /\ SoakFits' /\ SeenAll' /\ HasLine'
<1>1. AllKept(file)' /\ SoakFits' /\ HasLine'
  BY DEF PermitInv, SoakFits, HasLine, StatedLine, Stated, encode_value
<1>2. SeenAll'
  <2>1. CASE UNCHANGED <<mode, seen, unwritten>>
    BY <2>1 DEF PermitInv, SeenAll
  <2>2. CASE Stop
    BY <2>2, FS_EmptySet DEF Stop, SeenAll
  <2>3. CASE \E m \in {"soak", "enforce"} : Start(m)
    BY <2>3, FS_EmptySet DEF Start, PermitInv, AllKept, SeenAll
  <2> QED
    BY <2>1, <2>2, <2>3
<1> QED
  BY <1>1, <1>2

\* Every step keeps every learned exec in the file, and soak's in the map.
LEMMA PermitStep ==
    ASSUME Faults \subseteq {"append"}, CommsFit, NoMix
    PROVE  WorldInv /\ RuleInv /\ PermitInv /\ [Next]_vars => PermitInv'
<1> SUFFICES ASSUME WorldInv, RuleInv, PermitInv, [Next]_vars PROVE PermitInv'
  OBVIOUS
<1>1. Loads(file)'
  BY LoadsStep DEF LoadsInv, PermitInv, AllKept, RuleInv, LineInv
<1>2. CASE on_execve_marked
  <2>1. \/ mode = "soak" /\ record(Head(events))
        \/ UNCHANGED <<seen, file, unwritten, learned>>
    BY <1>2 DEF on_execve_marked, maybe_soak
  <2>2. UNCHANGED mode
    BY <1>2 DEF on_execve_marked
  <2> QED
    BY <1>1, <1>2, <2>1, <2>2, PermitRecorded, PermitElse DEF PermitInv
<1>3. CASE \E b \in blocks, dims \in Selections : Allow(b, dims)
  <2>1. PICK b \in blocks, dims \in Selections : Allow(b, dims)
    BY <1>3
  <2>2. UNCHANGED <<mode, seen, unwritten>>
    BY <2>1 DEF Allow
  <2>3. CASE UNCHANGED <<file, learned, blocks>>
    BY <1>1, <2>2, <2>3, PermitElse DEF PermitInv
  <2>4. CASE ~UNCHANGED <<file, learned, blocks>>
    BY <1>1, <2>1, <2>4, PermitAllowed DEF PermitInv, OnlyFile
  <2> QED
    BY <2>3, <2>4
<1>4. CASE Stop \/ \E m \in {"soak", "enforce"} : Start(m)
  <2>1. UNCHANGED <<file, learned>>
    BY <1>4 DEF Start, Stop
  <2> QED
    BY <1>1, <1>4, <2>1, PermitElse DEF PermitInv
<1>5. CASE \/ \E f \in Files : Download(f)
           \/ on_file_marked
           \/ \E p \in Pids, f \in Files : Exec(p, f)
           \/ \E p \in Pids : Exit(p)
           \/ \E p \in Pids, u \in Uids : Enter(p, u)
           \/ UNCHANGED vars
  <2>1. UNCHANGED <<file, learned, mode, seen, unwritten>>
    BY <1>5 DEF Download, on_file_marked, Exec, Exit, Enter, vars
  <2> QED
    BY <1>1, <2>1, PermitElse DEF PermitInv
<1> QED
  BY <1>2, <1>3, <1>4, <1>5 DEF Next

\* The rule of an exec holds of that exec, by its saved record.
LEMMA StatedHolds ==
    ASSUME Proper, NEW f \in Files, NEW u, NEW d \in Dim
    PROVE  Holds(d, Stated(d, f, u), Known(f), Target[f], u)
<1>1. Exe[f] # NoHash
  BY FilesAssumption, NoAssumption
<1>2. /\ Known(f).comm = Comm[f] /\ Known(f).creator_uid = CreatorUid[f]
      /\ Known(f).creator_path_hash = Exe[f]
      /\ Known(f).landing = lossy(Landing[f])
  BY DEF Known
<1>3. lossy(Target[f]) = Target[f] /\ Lossy[Comm[f]] = Comm[f]
  BY DEF Proper
<1>4. CASE d \in {"target_filename", "target_folder", "execution_uid"}
  BY <1>3, <1>4 DEF Holds, Stated
<1>5. CASE d \in {"landing_filename", "landing_folder"}
  BY <1>2, <1>5 DEF Holds, Stated
<1>6. CASE d \in {"creator_process", "creator_comm", "creator_uid"}
  BY <1>1, <1>2, <1>3, <1>6 DEF Holds, Stated
<1> QED
  BY <1>4, <1>5, <1>6 DEF Dim

\* An exec a rule was learned from is permitted from then on, over restarts
\* and failed appends: soak stops before the map is full, and an allowed
\* rule counts as long as all of them fit.
THEOREM PermitTheorem ==
    ASSUME Faults \subseteq {"append"}, CommsFit, Proper, NoMix
    PROVE  Spec => []LearnedPermits
<1>1. Init => WorldInv /\ RuleInv /\ PermitInv
  <2>1. IsSeq(<<>>) /\ DOMAIN <<>> = {} /\ Len(<<>>) = 0
    BY DEF IsSeq
  <2>2. Init => RuleInv
    BY <2>1 DEF Init, RuleInv, BlockInv, SeenInv, LearnedInv, LineInv
  <2>3. load(<<>>) = {} /\ rules_of(<<>>) = {}
    BY <2>1 DEF load, rules_of
  <2>4. AllKept(<<>>)
    BY <2>1, <2>3, FS_EmptySet DEF AllKept
  <2>5. Init => PermitInv
    BY <2>1, <2>4, FS_EmptySet
       DEF Init, PermitInv, Loads, SoakFits, SeenAll, HasLine
  <2> QED
    BY <2>2, <2>5, WorldInit
<1>2. WorldInv /\ RuleInv /\ PermitInv /\ [Next]_vars
      => (WorldInv /\ RuleInv /\ PermitInv)'
  <2>1. OnlyFile
    BY DEF OnlyFile
  <2> QED
    BY <2>1, WorldStep, RuleStep, PermitStep
<1>3. WorldInv /\ RuleInv /\ PermitInv => LearnedPermits
  <2> SUFFICES ASSUME WorldInv, RuleInv, PermitInv, NEW l \in learned,
                      l.how = "soak" \/ Cardinality(load(file)) <= MAX_RULES
               PROVE  check_allowlist(seeded(file), mark[l.file],
                                      Target[l.file], l.uid)
    BY DEF LearnedPermits
  <2>1. /\ l.file \in Files /\ l.dims \subseteq Dim /\ l.dims # {}
        /\ mark[l.file] = Known(l.file)
    BY DEF WorldInv, MarkInv, RuleInv, LearnedInv
  <2>2. PICK k \in load(file) : file[k] = StatedLine(l.file, l.uid, l.dims)
    BY DEF PermitInv, HasLine, rules_of
  <2>3. /\ k \in DOMAIN file /\ DOMAIN file = 1 .. Len(file)
        /\ Len(file) \in Nat /\ Rank(file, k) = k
        /\ Cardinality(load(file)) = Len(file)
    BY <2>2, RankIs DEF PermitInv, AllKept
  <2>4. k <= MAX_RULES
    <3>1. CASE l.how = "soak"
      <4>1. DOMAIN file[k] = SoakDims
        BY <2>2, <3>1, StatedDecodes DEF PermitInv, HasLine
      <4> QED
        BY <2>3, <4>1 DEF PermitInv, SoakFits
    <3>2. CASE Cardinality(load(file)) <= MAX_RULES
      <4>1. MAX_RULES \in Nat
        BY LearnAssumption
      <4> QED
        BY <2>3, <3>2, <4>1
    <3> QED
      BY <3>1, <3>2
  <2> DEFINE r == [d \in l.dims |-> Stated(d, l.file, l.uid)]
  <2>5. decode(file[k]) = r
    BY <2>2, StatedDecodes
  <2>6. r \in seeded(file)
    BY <2>2, <2>3, <2>4, <2>5 DEF seeded, PermitInv
  <2>7. Matches(r, mark[l.file], Target[l.file], l.uid)
    BY <2>1, StatedHolds DEF Matches
  <2> QED
    BY <2>6, <2>7 DEF check_allowlist
<1> QED
  BY <1>1, <1>2, <1>3, PTL DEF Spec
=============================================================================

----------------------------- MODULE FileMeaning -----------------------------
(***************************************************************************)
(* What the commands on files promise, whatever fails and whenever they    *)
(* are killed.                                                             *)
(***************************************************************************)
EXTENDS CopyTools

\* What is at a path, and whether the paths `inside' the one are found as they were below the other
What(fs, p) == IF p \in DOMAIN fs.at THEN LET n == fs.node[fs.at[p]] IN <<n.type, n.data>> ELSE <<"none", <<>>>>
Intact(inside, p, q) == \A x \in inside : What(mem.fs, q \o SubSeq(x, Len(p) + 1, Len(x))) = What(job.fs, x)
\* All that a path tells, and what no command may change: what is not below the paths
Same(p) == /\ p \in DOMAIN mem.fs.at
           /\ mem.fs.at[p] = job.fs.at[p]
           /\ mem.fs.node[mem.fs.at[p]] = job.fs.node[job.fs.at[p]]
OnlyBelow(paths) == \A p \in DOMAIN job.fs.at : (\A q \in paths : ~IsPrefix(q, p)) => Same(p)
NothingNew(paths) == \A p \in DOMAIN mem.fs.at \ DOMAIN job.fs.at : \E q \in paths : IsPrefix(q, p)
IsDirectory == Stat(job.fs, job.to) = "dir" /\ ~(job.tool = "mv" /\ job.h /\ Lstat(job.fs, job.to) = "link")
Into(p) == IF IsDirectory THEN Append(job.to, Last(p)) ELSE job.to
Sources == {Entry(job.fs, f) : f \in Range(job.files)} \ {None}
Targets == {Entry(job.fs, Into(f)) : f \in Range(job.files)} \ {None}
Quiet == job.others = <<>>
Disturbing == {o.p : o \in Range(job.others)}

\* Not a byte of a source is lost before it is complete at the target
MvKept == /\ \A f \in Sources :
               LET inside == {x \in DOMAIN job.fs.at :
                               IsPrefix(f, x) /\ \A t \in Targets : IsStrictPrefix(f, t) => ~IsPrefix(t, x)}
               IN  Intact(inside, f, f) \/ Intact(inside, f, Entry(job.fs, Into(f)))
          /\ OnlyBelow(Sources \cup Targets) /\ NothingNew(Targets \cup Disturbing)
MvDone == job.ask = "f" => \A f \in Sources : f \notin DOMAIN mem.fs.at

\* A hard link never costs the file its last name
LnTargets == Targets \cup {Entry(job.fs, job.to)}
LnKept == /\ \A p \in DOMAIN job.fs.at \ LnTargets : Same(p)
          /\ \A f \in Range(job.files) :
               LET s == Follow(job.fs, f)
               IN  (~job.s /\ s # None /\ TypeAt(job.fs, s) = "file")
                     => \E p \in DOMAIN mem.fs.at : mem.fs.at[p] = job.fs.at[s]
LnDone == (Fflag /\ Len(job.files) > 1) \/     \* each link then replaces the one before
          \A f \in Range(job.files) :
            \E t \in LnTargets \cap DOMAIN mem.fs.at :
              IF job.s THEN mem.fs.node[mem.fs.at[t]] = [type |-> "link", data |-> f, mode |-> ""]
              ELSE mem.fs.at[t] = job.fs.at[IF job.P THEN Entry(job.fs, f) ELSE Follow(job.fs, f)]

\* Nothing goes but what is under an operand; the target of a symbolic link stays
Allowed == {Entry(job.fs, f) : f \in {g \in Range(job.files) : ~Refused(g)}} \ {None}
RmKept == Quiet => OnlyBelow(Allowed) /\ NothingNew({})
RmDone == (Quiet /\ ~job.i /\ ~job.tty) => \A p \in Allowed : p \notin DOMAIN mem.fs.at

\* The operands, with -p also what is above them. rmdir: only empty directories go. mkdir: what
\* there is stays as it is, an existing operand under -m too.
Parts == IF job.p THEN UNION {{SubSeq(f, 1, n) : n \in DOMAIN f} : f \in Range(job.files)} ELSE Range(job.files)
RmdirKept == Quiet => /\ \A p \in DOMAIN job.fs.at : TypeAt(job.fs, p) # "dir" => Same(p)
                      /\ \A p \in DOMAIN job.fs.at \ DOMAIN mem.fs.at : \E q \in Parts : Entry(job.fs, q) = p
RmdirDone == Quiet => \A q \in Parts : Entry(job.fs, q) \notin DOMAIN mem.fs.at
MkdirKept == Quiet => /\ \A p \in DOMAIN job.fs.at : Same(p)
                      /\ \A p \in DOMAIN mem.fs.at \ DOMAIN job.fs.at : \E q \in Parts : Entry(mem.fs, q) = p
MkdirDone == \A f \in Range(job.files) :
               Stat(mem.fs, f) = "dir" /\ (job.m => Node(mem.fs, Follow(mem.fs, f)).mode # "umask")

\* cp: the sources are as they were, and what it answers for is there
CpTarget(f, p) == (IF Stat(job.fs, job.to) = "dir" THEN Append(job.to, Last(f)) ELSE job.to)
                  \o SubSeq(p, Len(f) + 1, Len(p))
SourceTree(f) == {p \in DOMAIN job.fs.at : IsPrefix(f, p) /\ ~IsPrefix(job.to, p)}
CpKept == \A f \in Range(job.files) : \A p \in SourceTree(f) : Same(p)
Copied(p, q) ==
  LET s == Follow(job.fs, p)
      asLink == job.R /\ job.follow # "L" /\ ~(job.follow = "H" /\ p \in Range(job.files)) /\ Lstat(job.fs, p) = "link"
      n == IF asLink THEN Node(job.fs, Entry(job.fs, p)) ELSE Node(job.fs, s)
      t == IF asLink THEN Entry(mem.fs, q) ELSE Follow(mem.fs, q)
  IN  /\ t \in DOMAIN mem.fs.at
      /\ IF job.link # "" /\ ~asLink /\ n.type = "file" THEN TRUE
         ELSE /\ mem.fs.node[mem.fs.at[t]].type = n.type
              /\ n.type # "dir" => mem.fs.node[mem.fs.at[t]].data = n.data
              /\ (q \notin DOMAIN job.fs.at \/ (job.p /\ ~asLink)) => mem.fs.node[mem.fs.at[t]].mode = n.mode
CpDone == \A f \in Range(job.files) : \A p \in SourceTree(f) : Copied(p, CpTarget(f, p))

\* install: with -S the name is never without the old data or all of the new;
\* with -b the old data stays under one name; no temporary file is left behind
InstallTo(f) == IF Stat(job.fs, job.to) = "dir" /\ ~(job.l = "s" /\ Lstat(job.fs, job.to) = "link")
                THEN Append(job.to, Last(f)) ELSE job.to
NewData(f) == LET d == Node(job.fs, Follow(job.fs, f)).data IN IF job.s THEN Strip(d) ELSE d
DataAt(fs, p) == IF Stat(fs, p) = "file" THEN Node(fs, Follow(fs, p)).data ELSE <<"no data">>
InstallKept ==
  job.d \/
  \A f \in Range(job.files) :
    LET to == InstallTo(f)
        old == DataAt(job.fs, to)
        there == Lstat(job.fs, to) = "file"
    IN  /\ (job.S /\ there /\ job.l = "" /\ mem.at # "mode" /\ status # 1) => DataAt(mem.fs, to) \in {old, NewData(f)}
        /\ (job.b /\ there /\ job.l = "") =>
             \E p \in DOMAIN mem.fs.at : DataAt(mem.fs, p) = old
        /\ status \notin {-1, 9} => \A p \in DOMAIN mem.fs.at : p # <<>> => Last(p) # TempName
        /\ Same(Follow(job.fs, f))
InstallDone ==
  IF job.d THEN \A f \in Range(job.files) : Stat(mem.fs, f) = "dir" /\ Node(mem.fs, Follow(mem.fs, f)).mode = "asked"
  ELSE \A f \in Range(job.files) :
         LET to == InstallTo(f)
         IN  Lstat(job.fs, to) = "dir" \/
             CASE job.l = "" -> DataAt(mem.fs, to) = NewData(f) /\ Node(mem.fs, Follow(mem.fs, to)).mode = "asked"
               [] job.l = "s" -> Lstat(mem.fs, to) = "link" /\ Node(mem.fs, Entry(mem.fs, to)).data = f
               [] job.l \in {"h", "m"} -> Stat(mem.fs, to) = "file" /\ DataAt(mem.fs, to) = NewData(f)

\* In every state, killed or not, no command has lost or changed what it was not to.
FilesKept ==
  (job.tool \in FileTool /\ mem # <<>>) =>
    CASE job.tool = "mv" -> MvKept
      [] job.tool = "ln" -> LnKept
      [] job.tool = "rm" -> RmKept
      [] job.tool = "rmdir" -> RmdirKept
      [] job.tool = "mkdir" -> MkdirKept
      [] job.tool = "cp" -> CpKept
      [] job.tool = "install" -> InstallKept
\* A command that ends with 0 has done all that it was asked.
FilesDone ==
  (job.tool \in FileTool /\ status = 0) =>
    CASE job.tool = "mv" -> MvDone
      [] job.tool = "ln" -> LnDone
      [] job.tool = "rm" -> RmDone
      [] job.tool = "rmdir" -> RmdirDone
      [] job.tool = "mkdir" -> MkdirDone
      [] job.tool = "cp" -> CpDone
      [] job.tool = "install" -> InstallDone

-----------------------------------------------------------------------------
(* What is taken for granted of the files and of a job.                      *)

\* A tree of files: every name is in a directory, every inode is in use or will be.
IsTree(fs) ==
  /\ fs = [at |-> fs.at, node |-> fs.node, next |-> fs.next, dev |-> fs.dev, fixed |-> fs.fixed,
           unwritable |-> fs.unwritable]
  /\ fs.at \in [DOMAIN fs.at -> DOMAIN fs.node] /\ IsFiniteSet(DOMAIN fs.at)
  /\ fs.node = [i \in DOMAIN fs.node |-> fs.node[i]]
  /\ fs.next \in Int /\ \A i \in DOMAIN fs.node : i \in Int /\ i < fs.next
  /\ \A i \in DOMAIN fs.node : LET n == fs.node[i] IN n = [type |-> n.type, data |-> n.data, mode |-> n.mode]
  /\ DOMAIN fs.at \subseteq Path /\ None \notin DOMAIN fs.at /\ TypeAt(fs, <<>>) = "dir"
  /\ \A p \in DOMAIN fs.at : /\ p # <<>> => TypeAt(fs, Front(p)) = "dir"
                             /\ TypeAt(fs, p) = "link" => Node(fs, p).data \in Path
                             /\ TypeAt(fs, p) # "none"
IsJob(j) == IsTree(j.fs) /\ j.files \in Seq(Path)
Operands(j) == {f \in Range(j.files) : ~Refused(f)}
\* rm -f: no operand but leads straight to its file, or to none.
Straight(j) == j.f => \A f \in Operands(j) : Entry(j.fs, f) \in {None, f}
\* mkdir: there is a name in every operand of -p. With -p and -m there is one operand, and
\* nothing was made just now.
Nameable(j) == j.p => <<>> \notin Range(j.files)
Modest(j) == j.m /\ j.p => Len(j.files) = 1 /\ \A k \in DOMAIN j.fs.node : j.fs.node[k].mode # "umask"
\* mv and ln: one operand, with a name in it, and a target.
Single(j) == Len(j.files) = 1 /\ <<>> \notin Range(j.files) /\ j.to \in Path
\* ln: what an operand leads to is its own entry, or none that the link may replace.
Aside(j) ==
  j.s \/ \A f \in Range(j.files) :
           \/ Follow(j.fs, f) = Entry(j.fs, f)
           \/ Follow(j.fs, f) \notin {Entry(j.fs, j.to), Entry(j.fs, Append(j.to, Last(f)))}
\* mv: what a file has are blocks. The two places of the operand are not one file.
Blocks(j) == \A i \in DOMAIN j.fs.node : j.fs.node[i].type = "file" => j.fs.node[i].data \in Seq(STRING)
Distinct(j) ==
  LET f == Head(j.files)
      s == Entry(j.fs, f)
      e == Entry(j.fs, IF Stat(j.fs, j.to) = "dir" /\ ~(j.h /\ Lstat(j.fs, j.to) = "link") THEN Append(j.to, Last(f)) ELSE j.to)
  IN  s \in DOMAIN j.fs.at /\ e \in DOMAIN j.fs.at => j.fs.at[s] # j.fs.at[e]
=============================================================================

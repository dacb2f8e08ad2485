----------------------------- MODULE CopyTools -----------------------------
(***************************************************************************)
(* cp and install, one action for each system call that changes a file.    *)
(* cp: mem.walk are the visits fts(3) has still to make, mem.root the      *)
(* inode of the target directory and whether cp made it. install: job.S    *)
(* -S, job.b -b, job.C -C, job.s -s, job.l the kind of link or "".         *)
(***************************************************************************)
EXTENDS FileTools

CpStart ==
  /\ Running("cp")
  /\ LET to == Stat(job.fs, job.to)
         first == IF job.R /\ job.follow \in {"L", "H"} THEN Stat(job.fs, Head(inp)) ELSE Lstat(job.fs, Head(inp))
         type == IF to = "dir" THEN "into" ELSE IF to = "none" /\ first = "dir" /\ job.R THEN "new" ELSE "file"
     IN  /\ Start([fs |-> job.fs, others |-> job.others, at |-> "next", rval |-> 0, type |-> type, walk |-> <<>>, top |-> <<>>, recurse |-> None, made |-> FALSE,
                   root |-> IF type = "new" THEN -1 ELSE InoOf(job.fs, Follow(job.fs, job.to)),
                   entry |-> <<>>, from |-> -1, dest |-> -1, pos |-> 0])
         /\ IF to # "dir" /\ Len(inp) > 1 THEN Exit(1) ELSE UNCHANGED status
  /\ UNCHANGED <<job, inp, out>>

\* fts(3): what it says of an entry, links followed or not
Logical == (job.R /\ job.follow = "L") \/ (~job.R /\ job.follow # "P")
FollowsTop == Logical \/ (job.R /\ job.follow = "H")
FtsEntry(fs, p, follows, above) ==
  LET q == IF follows /\ Stat(fs, p) # "none" THEN Follow(fs, p) ELSE Entry(fs, p)
      ino == InoOf(fs, q)
  IN  [p |-> p, visit |-> "pre", type |-> IF TypeAt(fs, q) = "dir" /\ ino \in above THEN "cycle" ELSE TypeAt(fs, q),
       ino |-> ino, above |-> above, changes |-> FALSE]
CpOperand ==
  /\ At("cp", "next")
  /\ inp # <<>> /\ mem.walk = <<>>
  /\ mem' = [mem EXCEPT !.walk = <<FtsEntry(mem.fs, Head(inp), FollowsTop, {})>>, !.top = Head(inp)]
  /\ inp' = Tail(inp)
  /\ UNCHANGED <<job, out, status>>

CpEntry == Head(mem.walk)
\* to.p_path
CpTo(p) == CASE mem.type = "file" -> job.to
             [] mem.type = "new" -> job.to \o SubSeq(p, Len(mem.top) + 1, Len(p))
             [] mem.type = "into" -> job.to \o SubSeq(p, Len(mem.top), Len(p))
NextEntry(m) == [m EXCEPT !.walk = Tail(@), !.at = "next"]
\* The visit of the children and the one after them
Enters(m, changes) ==
  [m EXCEPT !.walk = <<[CpEntry EXCEPT !.visit = "children"], [CpEntry EXCEPT !.visit = "post", !.changes = changes]>> \o Tail(@)]
CpChildren ==
  /\ At("cp", "next")
  /\ mem.walk # <<>> /\ CpEntry.visit = "children"
  /\ LET names == SetToSeq({Last(c) : c \in Children(mem.fs, Follow(mem.fs, CpEntry.p))})
         found == [i \in DOMAIN names |-> FtsEntry(mem.fs, Append(CpEntry.p, names[i]), Logical, CpEntry.above \cup {CpEntry.ino})]
     IN  mem' = [mem EXCEPT !.walk = found \o Tail(@)]
  /\ UNCHANGED <<job, inp, out, status>>
CpAfter ==
  /\ At("cp", "next")
  /\ mem.walk # <<>> /\ CpEntry.visit = "post"
  /\ LET t == Follow(mem.fs, CpTo(CpEntry.p))
     IN  mem' = IF ~CpEntry.changes THEN NextEntry(mem)
                ELSE IF t = None \/ t \notin DOMAIN mem.fs.at THEN NextEntry(Failed(mem))
                ELSE NextEntry([mem EXCEPT !.fs.node[mem.fs.at[t]].mode = mem.fs.node[CpEntry.ino].mode])
  /\ UNCHANGED <<job, inp, out, status>>

\* copy(): the target inside the source, the target that is the source
CpVisit ==
  /\ At("cp", "next")
  /\ mem.walk # <<>> /\ CpEntry.visit = "pre"
  /\ LET e == CpEntry
         to == CpTo(e.p)
         found == mem.type # "file" /\ e.type = "dir" /\ e.ino = mem.root
         m == IF found THEN [mem EXCEPT !.recurse = Append(to, Last(mem.top))] ELSE mem
         t == IF job.R /\ job.follow # "L" THEN Entry(mem.fs, to) ELSE Follow(mem.fs, to)
         dne == TypeAt(mem.fs, t) = "none"
     IN  IF e.type \in {"none", "cycle"} THEN mem' = NextEntry(Failed(mem)) /\ UNCHANGED status
         ELSE IF found /\ mem.recurse # None THEN Exit(134) /\ UNCHANGED mem    \* the assertion
         ELSE IF (found /\ mem.made) \/ (mem.type # "file" /\ m.recurse = to) THEN mem' = NextEntry(m) /\ UNCHANGED status
         ELSE IF (~dne /\ InoOf(mem.fs, t) = e.ino) \/ (e.type # "dir" /\ TypeAt(mem.fs, t) = "dir")
                 \/ (e.type = "dir" /\ ~job.R)
         THEN mem' = NextEntry(Failed(m)) /\ UNCHANGED status
         ELSE IF e.type = "dir" /\ dne
         THEN LET r == Mkdir(mem.fs, to, "forced")
              IN  IF r.err # "" THEN Exit(1) /\ UNCHANGED mem
                  ELSE /\ mem' = [Enters(m, TRUE) EXCEPT !.fs = r.fs, !.root = IF @ = -1 THEN r.ino ELSE @,
                                                         !.made = @ \/ mem.root = -1]
                       /\ UNCHANGED status
         ELSE IF e.type = "dir" THEN IF TypeAt(mem.fs, t) # "dir" THEN Exit(1) /\ UNCHANGED mem
                                     ELSE mem' = Enters(m, job.p) /\ UNCHANGED status
         ELSE /\ mem' = [m EXCEPT !.entry = [to |-> to, exists |-> ~dne],
                                  !.at = IF (e.type = "link" /\ ~Logical /\ ~(FollowsTop /\ e.p = mem.top))
                                            \/ (e.type = "fifo" /\ job.R) THEN "special" ELSE "file"]
              /\ UNCHANGED status
  /\ UNCHANGED <<job, inp, out>>
\* copy_link() and copy_fifo()
CpSpecial ==
  /\ At("cp", "special")
  /\ LET to == mem.entry.to
         u == Unlink(mem.fs, to)
         r == Make(u.fs, to, mem.fs.node[CpEntry.ino])
     IN  IF (mem.entry.exists /\ (job.ask = "n" \/ u.err # "")) \/ Lstat(mem.fs, CpEntry.p) = "none" \/ r.err # ""
         THEN mem' = NextEntry(Failed(mem))
         ELSE mem' = NextEntry([mem EXCEPT !.fs = r.fs])
  /\ UNCHANGED <<job, inp, out, status>>
\* copy_file()
CpOpen ==
  /\ At("cp", "file")
  /\ LET from == InoOf(mem.fs, Follow(mem.fs, CpEntry.p))
         m == [mem EXCEPT !.from = from, !.pos = 0]
     IN  \E yes \in BOOLEAN :
           IF (job.link = "" /\ from = -1)
              \/ (mem.entry.exists /\ (job.ask = "n" \/ (job.ask = "i" /\ ~yes))) THEN mem' = NextEntry(Failed(mem))
           ELSE Goes(IF mem.entry.exists /\ job.ask = "f" THEN [m EXCEPT !.fs = Unlink(@, mem.entry.to).fs] ELSE m,
                     IF job.link = "" THEN "create" ELSE "link")
  /\ UNCHANGED <<job, inp, out, status>>
CpCreate ==
  /\ At("cp", "create")
  /\ LET to == mem.entry.to
         new == ~mem.entry.exists \/ job.ask = "f"
         fresh == Stat(mem.fs, to) = "none"
         o == Open(mem.fs, to, new, FALSE)
         fs == IF fresh THEN [o.fs EXCEPT !.node[o.ino].mode = mem.fs.node[mem.from].mode] ELSE o.fs
     IN  IF o.err = "" THEN Goes([mem EXCEPT !.fs = fs, !.dest = o.ino], "write") ELSE mem' = NextEntry(Failed(mem))
  /\ UNCHANGED <<job, inp, out, status>>
CpWrite ==
  /\ At("cp", "write")
  /\ LET data == mem.fs.node[mem.from].data
     IN  \/ /\ mem.pos < Len(data)
            /\ mem' = [mem EXCEPT !.fs = WriteTo(@, mem.dest, data[mem.pos + 1]), !.pos = @ + 1]
         \/ mem.pos < Len(data) /\ Goes(Failed(mem), "close")
         \/ mem.pos >= Len(data) /\ Goes(mem, "close")
  /\ UNCHANGED <<job, inp, out, status>>
CpClose ==
  /\ At("cp", "close")
  /\ \E failed \in BOOLEAN :
       LET m == IF job.p THEN [mem EXCEPT !.fs.node[mem.dest].mode = mem.fs.node[CpEntry.ino].mode] ELSE mem
       IN  mem' = NextEntry(IF failed THEN Failed(m) ELSE m)
  /\ UNCHANGED <<job, inp, out, status>>
CpLink ==
  /\ At("cp", "link")
  /\ LET r == IF job.link = "l" THEN LinkTo(mem.fs, CpEntry.p, mem.entry.to, FALSE)
              ELSE Symlink(mem.fs, CpEntry.p, mem.entry.to)
     IN  mem' = NextEntry(IF r.err = "" THEN [mem EXCEPT !.fs = r.fs] ELSE Failed(mem))
  /\ UNCHANGED <<job, inp, out, status>>
CpEnd ==
  /\ At("cp", "next")
  /\ inp = <<>> /\ mem.walk = <<>>
  /\ Exit(mem.rval)
  /\ UNCHANGED <<job, inp, mem, out>>
CpStep ==
  /\ job.tool = "cp"
  /\ \/ CpStart \/ CpOperand \/ CpChildren \/ CpAfter \/ CpVisit \/ CpSpecial \/ CpOpen \/ CpCreate \/ CpWrite
     \/ CpClose \/ CpLink \/ CpEnd

-----------------------------------------------------------------------------
(* install                                                                   *)

Dies(m) == mem' = m /\ Exit(1)
Proceeds(m, at) == Goes(m, at) /\ UNCHANGED status
InstallStart ==
  /\ Running("install")
  /\ LET to == Stat(job.fs, job.to)
         from == Follow(job.fs, Head(inp))
         linked == job.l = "s" /\ Lstat(job.fs, job.to) = "link"
     IN  /\ Start([fs |-> job.fs, others |-> job.others, at |-> "next", rval |-> 0, into |-> to = "dir" /\ ~linked, old |-> "none", from |-> -1, fd |-> -1, pos |-> 0, ready |-> <<>>,
                   stripped |-> FALSE, match |-> FALSE, part |-> <<>>])
         /\ IF ~job.d /\ ((Len(inp) > 1 /\ (to # "dir" \/ linked))
               \/ (to \notin {"none", "dir"} /\ job.l = "" /\
                   (from = None \/ to # "file" \/ InoOf(job.fs, from) = InoOf(job.fs, Follow(job.fs, job.to)))))
            THEN Exit(1) ELSE UNCHANGED status
  /\ UNCHANGED <<job, inp, out>>
InTo == IF mem.into THEN Append(job.to, Last(Head(inp))) ELSE job.to
TempName == "INS@XXXXXX"
InTemp == Append(Front(InTo), TempName)
Backup == Append(Front(InTo), "old")
Safe == job.S \/ (job.C /\ job.s)
Tempcopy == Safe /\ mem.old # "none"
\* What the new data is written to
InFile == IF Tempcopy THEN InTemp ELSE InTo
DataOf(fs, ino) == fs.node[ino].data
LinkCount(fs, ino) == Cardinality({p \in DOMAIN fs.at : fs.at[p] = ino})
InstallFile ==
  /\ At("install", "next")
  /\ ~job.d /\ inp # <<>>
  /\ LET old == Lstat(mem.fs, InTo)
         from == Follow(mem.fs, Head(inp))
         m == [mem EXCEPT !.old = old, !.from = InoOf(mem.fs, from), !.pos = 0, !.match = FALSE, !.stripped = FALSE]
         same == job.C /\ ~job.s /\ old = "file" /\ DataOf(mem.fs, m.from) = DataOf(mem.fs, mem.fs.at[Entry(mem.fs, InTo)])
     IN  IF job.l # "" THEN Proceeds(m, IF old # "none" /\ ~Safe THEN "clear" ELSE "link") /\ UNCHANGED inp
         ELSE IF TypeAt(mem.fs, from) # "file" THEN Dies(m) /\ UNCHANGED inp
         ELSE IF old \notin {"none", "file", "link"} THEN DoneWith(m) /\ UNCHANGED status       \* only a warning
         ELSE IF same THEN /\ Proceeds([m EXCEPT !.match = TRUE, !.fd = mem.fs.at[Entry(mem.fs, InTo)]], "mode")
                           /\ UNCHANGED inp
         ELSE /\ Proceeds(m, IF Safe /\ old # "none" THEN "temp" ELSE IF old # "none" THEN "clear" ELSE "new")
              /\ UNCHANGED inp
  /\ UNCHANGED <<job, out>>
\* create_newfile(), and what install() does before makelink()
InstallClear ==
  /\ At("install", "clear")
  /\ LET r == CASE job.l # "" /\ mem.old = "dir" -> Rmdir(mem.fs, InTo)
                [] job.l = "" /\ job.b -> Rename(mem.fs, InTo, Backup)
                [] OTHER -> Unlink(mem.fs, InTo)
     IN  IF r.err # "" /\ (job.b \/ mem.old = "dir") THEN Dies(mem)
         ELSE Proceeds([mem EXCEPT !.fs = r.fs], IF job.l # "" THEN "link" ELSE "new")
  /\ UNCHANGED <<job, inp, out>>
InstallCreate ==
  /\ mem # <<>>
  /\ \E at \in {"temp", "new"} :
       /\ At("install", at)
       /\ LET o == Open(mem.fs, IF at = "temp" THEN InTemp ELSE InTo, TRUE, at = "temp")
          IN  IF o.err # "" THEN Dies(mem)
              ELSE Proceeds([mem EXCEPT !.fs = o.fs, !.fd = o.ino], IF job.s THEN "strip" ELSE "copy")
  /\ UNCHANGED <<job, inp, out>>
\* strip -o to from; the data without its symbols
Strip(data) == SelectSeq(data, LAMBDA b : b # "symbols")
InstallStrip ==
  /\ At("install", "strip")
  /\ \/ Proceeds([mem EXCEPT !.fs.node[mem.fd].data = Strip(DataOf(mem.fs, mem.from)), !.stripped = TRUE], "stripped")
     \/ Proceeds(mem, "copy")
  /\ UNCHANGED <<job, inp, out>>
InstallCopy ==
  /\ At("install", "copy")
  /\ LET data == DataOf(mem.fs, mem.from)
     IN  \/ /\ mem.pos < Len(data)
            /\ Proceeds([mem EXCEPT !.fs = WriteTo(@, mem.fd, data[mem.pos + 1]), !.pos = @ + 1], "copy")
         \/ mem.pos = Len(data) /\ Proceeds(mem, IF job.s THEN "instrip" ELSE "stripped")
         \/ Dies([mem EXCEPT !.fs = Unlink(@, InFile).fs])       \* a short write, or fsync(2) failing
  /\ UNCHANGED <<job, inp, out>>
InstallStripIn ==
  /\ At("install", "instrip")
  /\ \/ Proceeds([mem EXCEPT !.fs.node[mem.fd].data = Strip(@)], "stripped")
     \/ Dies([mem EXCEPT !.fs = Unlink(@, InFile).fs])
  /\ UNCHANGED <<job, inp, out>>
\* The stripped file compared with the target
InstallCompare ==
  /\ At("install", "stripped")
  /\ LET t == Follow(mem.fs, InTo)
         same == t # None /\ TypeAt(mem.fs, t) = "file" /\ DataOf(mem.fs, mem.fd) = DataOf(mem.fs, mem.fs.at[t])
         then == IF Tempcopy THEN IF job.b THEN "unlink backup" ELSE "rename" ELSE "mode"
     IN  IF ~(job.C /\ job.s /\ mem.old = "file") THEN Proceeds(mem, then)
         ELSE IF TypeAt(mem.fs, t) = "none" THEN Dies(mem)
         ELSE IF same /\ LinkCount(mem.fs, mem.fs.at[t]) = 1
         THEN Proceeds([mem EXCEPT !.fs = Unlink(@, InTemp).fs, !.fd = mem.fs.at[t], !.match = TRUE], "mode")
         ELSE Proceeds(mem, then)
  /\ UNCHANGED <<job, inp, out>>
InstallBackup ==
  /\ mem # <<>>
  /\ \E at \in {"unlink backup", "backup"} :
       /\ At("install", at)
       /\ LET r == IF at = "backup" THEN LinkTo(mem.fs, InTo, Backup, TRUE) ELSE Unlink(mem.fs, Backup)
          IN  IF r.err \notin {"", IF at = "backup" THEN "" ELSE "ENOENT"} THEN Dies([mem EXCEPT !.fs = Unlink(@, InTemp).fs])
              ELSE Proceeds([mem EXCEPT !.fs = r.fs], IF at = "backup" THEN "rename" ELSE "backup")
  /\ UNCHANGED <<job, inp, out>>
InstallRename ==
  /\ At("install", "rename")
  /\ LET r == Rename(mem.fs, InTemp, InTo)
     IN  IF r.err # "" THEN Dies([mem EXCEPT !.fs = Unlink(@, InTemp).fs])
         ELSE Proceeds([mem EXCEPT !.fs = r.fs], "mode")
  /\ UNCHANGED <<job, inp, out>>
InstallMode ==
  /\ At("install", "mode")
  /\ LET unchanged == mem.fs.node[mem.fd].mode = "asked"
     IN  \/ DoneWith([mem EXCEPT !.fs.node[mem.fd].mode = "asked"]) /\ UNCHANGED status
         \/ ~unchanged /\ Dies([mem EXCEPT !.fs = Unlink(@, InTo).fs]) /\ UNCHANGED inp
  /\ UNCHANGED <<job, out>>

\* makelink(), do_link() and do_symlink()
Linked(fs, p, symbolic) == IF symbolic THEN Symlink(fs, Head(inp), p) ELSE LinkTo(fs, Head(inp), p, FALSE)
InstallLink ==
  /\ At("install", "link")
  /\ LET at == IF Safe /\ mem.old # "none" THEN InTemp ELSE InTo
         hard == Linked(mem.fs, at, FALSE)
         r == IF job.l = "s" \/ (job.l = "m" /\ hard.err = "EXDEV") THEN Linked(mem.fs, at, TRUE) ELSE hard
     IN  IF r.err # "" THEN Dies(mem) /\ UNCHANGED inp
         ELSE IF at = InTo THEN DoneWith([mem EXCEPT !.fs = r.fs]) /\ UNCHANGED status
         ELSE Proceeds([mem EXCEPT !.fs = r.fs], IF mem.old = "dir" THEN "rmdir" ELSE "swap") /\ UNCHANGED inp
  /\ UNCHANGED <<job, out>>
InstallRmdir ==
  /\ At("install", "rmdir")
  /\ LET r == Rmdir(mem.fs, InTo)
     IN  IF r.err # "" THEN Dies([mem EXCEPT !.fs = Unlink(@, InTemp).fs])
         ELSE Proceeds([mem EXCEPT !.fs = r.fs], "swap")
  /\ UNCHANGED <<job, inp, out>>
InstallSwap ==
  /\ At("install", "swap")
  /\ LET r == Rename(mem.fs, InTemp, InTo)
     IN  IF r.err # "" THEN Dies([mem EXCEPT !.fs = Unlink(@, InTemp).fs]) /\ UNCHANGED inp
         ELSE Proceeds([mem EXCEPT !.fs = r.fs], "tidy") /\ UNCHANGED inp
  /\ UNCHANGED <<job, out>>
InstallTidy ==
  /\ At("install", "tidy")
  /\ DoneWith([mem EXCEPT !.fs = Unlink(@, InTemp).fs])
  /\ UNCHANGED <<job, out, status>>

\* install_dir(): mem.part is the part of the path in hand
InstallDir ==
  /\ At("install", "next")
  /\ job.d /\ inp # <<>>
  /\ LET p == SubSeq(Head(inp), 1, Len(mem.part) + 1)
         m == [mem EXCEPT !.part = p]
         t == Follow(mem.fs, p)
     IN  IF mem.part = Head(inp)
         THEN LET ino == InoOf(mem.fs, Follow(mem.fs, Head(inp)))
              IN  DoneWith([mem EXCEPT !.part = <<>>, !.fs.node = IF ino = -1 THEN @ ELSE [@ EXCEPT ![ino].mode = "asked"]])
                  /\ UNCHANGED status
         ELSE /\ UNCHANGED inp
              /\ CASE TypeAt(mem.fs, t) = "dir" -> Proceeds(m, "next")
                   [] TypeAt(mem.fs, t) = "none" -> Proceeds(m, "mkdir")
                   [] OTHER -> Dies(mem)
  /\ UNCHANGED <<job, out>>
InstallMkdir ==
  /\ At("install", "mkdir")
  /\ LET r == Mkdir(mem.fs, mem.part, "umask")
     IN  IF r.err = "EEXIST" /\ Stat(mem.fs, mem.part) = "dir" THEN Proceeds(mem, "next")
         ELSE IF r.err # "" THEN Dies(mem)
         ELSE Proceeds([mem EXCEPT !.fs = r.fs], "next")
  /\ UNCHANGED <<job, inp, out>>
InstallStep ==
  /\ job.tool = "install"
  /\ \/ InstallStart \/ InstallFile \/ InstallClear \/ InstallCreate \/ InstallStrip \/ InstallCopy \/ InstallStripIn
     \/ InstallCompare \/ InstallBackup \/ InstallRename \/ InstallMode \/ InstallLink \/ InstallRmdir
     \/ InstallSwap \/ InstallTidy \/ InstallDir \/ InstallMkdir \/ Finish("install")
CopyToolStep == FileToolStep \/ CpStep \/ InstallStep
=============================================================================

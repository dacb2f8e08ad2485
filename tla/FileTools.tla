----------------------------- MODULE FileTools -----------------------------
(***************************************************************************)
(* mv, ln, rm, rmdir and mkdir, one action for each system call that       *)
(* changes a file. job.fs are the files there are at the start, mem.fs     *)
(* those there are now; inp are the operands that are left. Another        *)
(* process does what job.others says between any two steps, and the        *)
(* command may be killed at any time.                                      *)
(***************************************************************************)
EXTENDS Process

-----------------------------------------------------------------------------
(* The system calls on files that the commands make. A path is a sequence  *)
(* of names from the root, fs.at the file each path names, fs.node what    *)
(* the files are: [type, data, mode], the data being blocks, or the path   *)
(* for a symbolic link. fs.dev are the names in the root that are mounted  *)
(* file systems, fs.fixed the directories in which nothing can be changed. *)

Path == Seq(STRING)
\* No file has the empty name
None == <<"">>
Node(fs, p) == fs.node[fs.at[p]]
TypeAt(fs, p) == IF p \in DOMAIN fs.at THEN Node(fs, p).type ELSE "none"

\* Where a name in a directory leads, leads[x] being where a symbolic link to x does; the
\* path without symbolic links that a path leads to. A link may lead to a link three times,
\* which stands for MAXSYMLINKS. In Entry only the last name may be a symbolic link.
Lookup(fs, d, name, leads) ==
  IF TypeAt(fs, d) # "dir" THEN None
  ELSE LET q == Append(d, name) IN IF TypeAt(fs, q) # "link" THEN q ELSE leads[Node(fs, q).data]
Walked(fs, p, leads) ==
  LET at[i \in 0 .. Len(p)] ==
        IF i = 0 THEN <<>> ELSE CHOOSE q \in {Lookup(fs, d, p[i], leads) : d \in {at[i - 1]}} : TRUE
  IN  at[Len(p)]
Follow(fs, p) == LET leads[n \in 0 .. 4] == [q \in Path |-> IF n = 0 THEN None ELSE Walked(fs, q, leads[n - 1])]
                 IN  leads[4][p]
Entry(fs, p) ==
  IF p = <<>> THEN <<>>
  ELSE CHOOSE e \in {IF TypeAt(fs, d) # "dir" THEN None ELSE Append(d, Last(p)) : d \in {Follow(fs, Front(p))}} : TRUE
Lstat(fs, p) == TypeAt(fs, Entry(fs, p))
Stat(fs, p) == TypeAt(fs, Follow(fs, p))
InoOf(fs, p) == IF p \in DOMAIN fs.at THEN fs.at[p] ELSE -1
Below(fs, p) == {q \in DOMAIN fs.at : Len(q) > Len(p) /\ SubSeq(q, 1, Len(p)) = p}
Children(fs, p) == {q \in Below(fs, p) : Len(q) = Len(p) + 1}
Device(fs, p) == IF p # <<>> /\ p[1] \in fs.dev THEN p[1] ELSE ""

Ok(fs) == [err |-> "", fs |-> fs, ino |-> -1]
Err(fs, e) == [err |-> e, fs |-> fs, ino |-> -1]
Without(fs, paths) == [fs EXCEPT !.at = [q \in DOMAIN @ \ paths |-> @[q]]]
Over(f, g) == [x \in DOMAIN f \cup DOMAIN g |-> IF x \in DOMAIN f THEN f[x] ELSE g[x]]
Named(fs, p, ino) == [fs EXCEPT !.at = Over([q \in {p} |-> ino], @)]
Added(fs, p, node) == [Named(fs, p, fs.next) EXCEPT !.node = Over([i \in {fs.next} |-> node], @), !.next = @ + 1]
Fixed(fs, p) == Front(p) \in fs.fixed

Unlink(fs, p) ==
  LET e == Entry(fs, p)
  IN  IF TypeAt(fs, e) = "none" THEN Err(fs, "ENOENT")
      ELSE IF TypeAt(fs, e) = "dir" THEN Err(fs, "EPERM")
      ELSE IF Fixed(fs, e) THEN Err(fs, "EACCES")
      ELSE Ok(Without(fs, {e}))
Rmdir(fs, p) ==
  LET e == Entry(fs, p)
  IN  IF TypeAt(fs, e) = "none" THEN Err(fs, "ENOENT")
      ELSE IF TypeAt(fs, e) # "dir" THEN Err(fs, "ENOTDIR")
      ELSE IF e = <<>> THEN Err(fs, "EBUSY")
      ELSE IF Below(fs, e) # {} THEN Err(fs, "ENOTEMPTY")
      ELSE IF Fixed(fs, e) THEN Err(fs, "EACCES")
      ELSE Ok(Without(fs, {e}))
\* What makes a new name
Make(fs, p, node) ==
  LET e == Entry(fs, p)
  IN  IF e = None THEN Err(fs, "ENOENT")
      ELSE IF TypeAt(fs, e) # "none" THEN Err(fs, "EEXIST")
      ELSE IF Fixed(fs, e) THEN Err(fs, "EACCES")
      ELSE [Ok(Added(fs, e, node)) EXCEPT !.ino = fs.next]
Mkdir(fs, p, mode) == Make(fs, p, [type |-> "dir", data |-> <<>>, mode |-> mode])
Symlink(fs, target, p) == Make(fs, p, [type |-> "link", data |-> target, mode |-> ""])
\* open(2) to write, with O_TRUNC; `creates' and `excl' are O_CREAT and O_EXCL
Open(fs, p, creates, excl) ==
  LET t == Follow(fs, p)
  IN  IF excl /\ Lstat(fs, p) # "none" THEN Err(fs, "EEXIST")
      ELSE IF TypeAt(fs, t) = "dir" THEN Err(fs, "EISDIR")
      ELSE IF TypeAt(fs, t) = "none" /\ ~creates THEN Err(fs, "ENOENT")
      ELSE IF TypeAt(fs, t) = "none" THEN Make(fs, IF t = None THEN p ELSE t, [type |-> "file", data |-> <<>>, mode |-> "new"])
      ELSE [Ok([fs EXCEPT !.node[fs.at[t]].data = <<>>]) EXCEPT !.ino = fs.at[t]]
WriteTo(fs, ino, block) == [fs EXCEPT !.node[ino].data = Append(@, block)]
LinkTo(fs, p, q, follow) ==
  LET s == IF follow THEN Follow(fs, p) ELSE Entry(fs, p)
      e == Entry(fs, q)
  IN  IF TypeAt(fs, s) = "none" \/ e = None THEN Err(fs, "ENOENT")
      ELSE IF TypeAt(fs, s) = "dir" THEN Err(fs, "EPERM")
      ELSE IF TypeAt(fs, e) # "none" THEN Err(fs, "EEXIST")
      ELSE IF Device(fs, s) # Device(fs, e) THEN Err(fs, "EXDEV")
      ELSE IF Fixed(fs, e) THEN Err(fs, "EACCES")
      ELSE Ok(Named(fs, e, fs.at[s]))
Moved(fs, p, q) ==
  LET tree == {p} \cup Below(fs, p)
      new(x) == q \o SubSeq(x, Len(p) + 1, Len(x))
      kept == Without(fs, tree \cup {q})
  IN  [kept EXCEPT !.at = Over([y \in {new(x) : x \in tree} |-> fs.at[p \o SubSeq(y, Len(q) + 1, Len(y))]], @)]
Rename(fs, p, q) ==
  LET s == Entry(fs, p)
      e == Entry(fs, q)
  IN  IF TypeAt(fs, s) = "none" \/ e = None THEN Err(fs, "ENOENT")
      ELSE IF TypeAt(fs, e) = "dir" /\ TypeAt(fs, s) # "dir" THEN Err(fs, "EISDIR")
      ELSE IF TypeAt(fs, s) = "dir" /\ TypeAt(fs, e) \notin {"dir", "none"} THEN Err(fs, "ENOTDIR")
      ELSE IF Device(fs, s) # Device(fs, e) THEN Err(fs, "EXDEV")
      ELSE IF TypeAt(fs, s) = "dir" /\ IsPrefix(s, e) THEN Err(fs, "EINVAL")
      ELSE IF TypeAt(fs, e) = "dir" /\ Below(fs, e) # {} THEN Err(fs, "ENOTEMPTY")
      ELSE IF Fixed(fs, s) \/ Fixed(fs, e) THEN Err(fs, "EACCES")
      ELSE IF TypeAt(fs, e) # "none" /\ fs.at[s] = fs.at[e] THEN Ok(fs)
      ELSE Ok(Moved(fs, s, e))

\* Another process: [op, p]
Disturbed(fs, o) ==
  CASE o.op = "unlink" -> Unlink(fs, o.p).fs
    [] o.op = "rmdir" -> Rmdir(fs, o.p).fs
    [] o.op = "mkdir" -> Mkdir(fs, o.p, "other").fs
    [] o.op = "create" -> Make(fs, o.p, [type |-> "file", data |-> <<"other">>, mode |-> "other"]).fs

-----------------------------------------------------------------------------

FileTool == {"mv", "ln", "rm", "rmdir", "mkdir", "cp", "install"}
OtherProcess ==
  /\ job.tool \in FileTool /\ status = -1
  /\ mem # <<>> /\ mem.others # <<>>
  /\ mem' = [mem EXCEPT !.fs = Disturbed(@, Head(mem.others)), !.others = Tail(@)]
  /\ UNCHANGED <<job, inp, out, status>>
Killed ==
  /\ job.tool \in FileTool /\ status = -1
  /\ mem # <<>>
  /\ Exit(9)
  /\ UNCHANGED <<job, inp, mem, out>>

Start(m) == mem = <<>> /\ mem' = m
At(tool, at) == Running(tool) /\ mem # <<>> /\ mem.at = at
Goes(m, at) == mem' = [m EXCEPT !.at = at]
\* Two slips: the failure of an operand is forgotten, and an operand is done again.
Unnoticed(m) == m
Retried(m) == mem' = [m EXCEPT !.at = "next"] /\ inp' = inp

Failed(m) == [m EXCEPT !.rval = 1]
\* The operand is done with
DoneWith(m) == mem' = [m EXCEPT !.at = "next"] /\ inp' = Tail(inp)
Finish(tool) ==
  /\ At(tool, "next")
  /\ inp = <<>>
  /\ Exit(mem.rval)
  /\ UNCHANGED <<job, inp, mem, out>>

-----------------------------------------------------------------------------
(* mv                                                                        *)

MvStart ==
  /\ Running("mv")
  /\ LET todir == Stat(job.fs, job.to) = "dir" /\ ~(job.h /\ Lstat(job.fs, job.to) = "link")
     IN  /\ Start([fs |-> job.fs, others |-> job.others, at |-> "next", rval |-> 0, todir |-> todir, from |-> -1, dest |-> -1, pos |-> 0])
         /\ IF ~todir /\ Len(inp) > 1 THEN Exit(1) ELSE UNCHANGED status
  /\ UNCHANGED <<job, inp, out>>
MvFrom == Head(inp)
MvTo == IF mem.todir THEN Append(job.to, Last(MvFrom)) ELSE job.to

\* do_move(): -n, -i and the terminal's answer
MvAsk ==
  /\ At("mv", "next")
  /\ inp # <<>>
  /\ \E yes \in BOOLEAN :
       IF job.ask = "f" \/ Stat(mem.fs, MvTo) = "none" THEN Goes(mem, "rename") /\ UNCHANGED inp
       ELSE IF Lstat(mem.fs, MvFrom) = "none" THEN DoneWith(Failed(mem))
       ELSE IF job.ask = "n" \/ (job.ask = "i" /\ ~yes) THEN DoneWith(mem)
       ELSE Goes(mem, "rename") /\ UNCHANGED inp
  /\ UNCHANGED <<job, out, status>>
MvRename ==
  /\ At("mv", "rename")
  /\ LET r == Rename(mem.fs, MvFrom, MvTo)
     IN  CASE r.err = "" -> DoneWith([mem EXCEPT !.fs = r.fs])
           [] r.err = "EXDEV" -> /\ Goes(mem, IF Lstat(mem.fs, MvFrom) = "file" THEN "open" ELSE "replace")
                                 /\ UNCHANGED inp
           [] OTHER -> DoneWith(Failed(mem))
  /\ UNCHANGED <<job, out, status>>

\* fastcopy()
MvOpen ==
  /\ At("mv", "open")
  /\ IF Stat(mem.fs, MvFrom) = "none" THEN DoneWith(Failed(mem))
     ELSE Goes([mem EXCEPT !.from = InoOf(mem.fs, Follow(mem.fs, MvFrom)), !.pos = 0], "create") /\ UNCHANGED inp
  /\ UNCHANGED <<job, out, status>>
MvCreate ==
  /\ At("mv", "create")
  /\ LET o == Open(mem.fs, MvTo, TRUE, TRUE)
         u == Unlink(mem.fs, MvTo)
     IN  IF o.err = "" THEN Goes([mem EXCEPT !.fs = o.fs, !.dest = o.ino], "write") /\ UNCHANGED inp
         ELSE IF o.err = "EEXIST" /\ u.err = "" THEN Goes([mem EXCEPT !.fs = u.fs], "create") /\ UNCHANGED inp
         ELSE DoneWith(Failed(mem))
  /\ UNCHANGED <<job, out, status>>
MvData == mem.fs.node[mem.from].data
MvWrite ==
  /\ At("mv", "write")
  /\ \/ /\ mem.pos < Len(MvData)
        /\ \/ Goes([mem EXCEPT !.fs = WriteTo(@, mem.dest, MvData[mem.pos + 1]), !.pos = @ + 1], "write")
           \/ Goes(mem, "failed")
     \/ mem.pos = Len(MvData) /\ Goes(mem, "close")
  /\ UNCHANGED <<job, inp, out, status>>
MvUndo ==
  /\ At("mv", "failed")
  /\ DoneWith(Failed([mem EXCEPT !.fs = Unlink(@, MvTo).fs]))
  /\ UNCHANGED <<job, out, status>>
MvClose ==
  /\ At("mv", "close")
  /\ \/ DoneWith(Failed(mem))
     \/ Goes(mem, "remove") /\ UNCHANGED inp
  /\ UNCHANGED <<job, out, status>>
MvRemove ==
  /\ At("mv", "remove")
  /\ LET u == Unlink(mem.fs, MvFrom)
     IN  DoneWith(IF u.err = "" THEN [mem EXCEPT !.fs = u.fs] ELSE Failed(mem))
  /\ UNCHANGED <<job, out, status>>

\* copy(): what is in the way is removed, then cp -PRp and rm -rf are run
MvReplace ==
  /\ At("mv", "replace")
  /\ LET r == CASE Lstat(mem.fs, MvTo) = "none" -> Ok(mem.fs)
                [] Lstat(mem.fs, MvTo) = "dir" -> Rmdir(mem.fs, MvTo)
                [] OTHER -> Unlink(mem.fs, MvTo)
     IN  IF r.err = "" THEN Goes([mem EXCEPT !.fs = r.fs], "cp") /\ UNCHANGED inp ELSE DoneWith(Failed(mem))
  /\ UNCHANGED <<job, out, status>>
Tree(fs, p) == {p} \cup Below(fs, p)
\* Some of what is at p and below copied to q, each path as a file of its own
TreeCopied(fs, p, q, paths) ==
  LET new(x) == q \o SubSeq(x, Len(p) + 1, Len(x))
      old(y) == p \o SubSeq(y, Len(q) + 1, Len(y))
      ino == CHOOSE f \in [paths -> fs.next .. fs.next + Cardinality(paths) - 1] : IsInjective(f)
  IN  [fs EXCEPT !.at = Over([y \in {new(x) : x \in paths} |-> ino[old(y)]], @),
                 !.node = Over([i \in Range(ino) |-> Node(fs, CHOOSE x \in paths : ino[x] = i)], @),
                 !.next = @ + Cardinality(paths)]
MvCp ==
  /\ At("mv", "cp")
  /\ LET s == Entry(mem.fs, MvFrom)
         e == Entry(mem.fs, MvTo)
         copied(paths) == [mem EXCEPT !.fs = TreeCopied(@, s, e, paths)]
     IN  \/ /\ s \in DOMAIN mem.fs.at /\ e # None /\ ~Fixed(mem.fs, e)
            /\ \/ Goes(copied(Tree(mem.fs, s)), "rm") /\ UNCHANGED inp
               \/ \E some \in SUBSET Below(mem.fs, s) :
                    /\ \A x \in some : Front(x) \in some \cup {s}
                    /\ DoneWith(Failed(copied(some \cup {s})))
         \/ DoneWith(Failed(mem))
  /\ UNCHANGED <<job, out, status>>
MvRm ==
  /\ At("mv", "rm")
  /\ LET tree == Tree(mem.fs, Entry(mem.fs, MvFrom)) \cap DOMAIN mem.fs.at
     IN  \E gone \in SUBSET tree :
           /\ \A x \in gone : ~Fixed(mem.fs, x) /\ Below(mem.fs, x) \subseteq gone
           /\ LET m == [mem EXCEPT !.fs = Without(@, gone)]
              IN  DoneWith(IF gone = tree THEN m ELSE Failed(m))
  /\ UNCHANGED <<job, out, status>>

MvStep ==
  /\ job.tool = "mv"
  /\ \/ MvStart \/ MvAsk \/ MvRename \/ MvOpen \/ MvCreate \/ MvWrite \/ MvUndo \/ MvClose \/ MvRemove
     \/ MvReplace \/ MvCp \/ MvRm \/ Finish("mv")

-----------------------------------------------------------------------------
(* ln: job.s -s, job.P -P, job.h -h, job.F -F, job.ask "f", "i" or "".       *)

LnStart ==
  /\ Running("ln")
  /\ Start([fs |-> job.fs, others |-> job.others, at |-> "next", rval |-> 0, target |-> <<>>])
  /\ IF Len(inp) > 1 /\ ((job.h /\ Lstat(job.fs, job.to) = "link") \/ Stat(job.fs, job.to) # "dir")
     THEN Exit(1) ELSE UNCHANGED status
  /\ UNCHANGED <<job, inp, out>>
Fflag == job.F /\ job.s
LnInto == \/ Len(job.files) > 1
          \/ Lstat(mem.fs, job.to) = "dir"
          \/ ~job.h /\ Stat(mem.fs, job.to) = "dir"
LnTarget == IF ~Fflag /\ LnInto THEN Append(job.to, Last(Head(inp))) ELSE job.to
\* A slip: one directory under two names.
SamePath(fs, p, q) == p = q

\* samedirent(): the same name in the same directory
SameEntry(fs, p, q) == \/ p = q
                       \/ /\ Last(p) = Last(q)
                          /\ Follow(fs, Front(p)) = Follow(fs, Front(q))
                          /\ Follow(fs, Front(p)) # None
LnForce == job.ask = "f" \/ (Fflag /\ job.ask # "i")
LnCheck ==
  /\ At("ln", "next")
  /\ inp # <<>>
  /\ LET source == IF job.P THEN Lstat(mem.fs, Head(inp)) ELSE Stat(mem.fs, Head(inp))
         exists == Lstat(mem.fs, LnTarget) # "none"
     IN  \E yes \in BOOLEAN :
           IF (~job.s /\ source \in {"none", "dir"}) \/ (~job.s /\ exists /\ SameEntry(mem.fs, Head(inp), LnTarget))
              \/ (~LnForce /\ job.ask = "i" /\ exists /\ ~yes)
           THEN DoneWith(Failed(mem))
           ELSE /\ Goes([mem EXCEPT !.target = LnTarget], IF exists /\ (LnForce \/ job.ask = "i") THEN "remove" ELSE "link")
                /\ UNCHANGED inp
  /\ UNCHANGED <<job, out, status>>
LnRemove ==
  /\ At("ln", "remove")
  /\ LET r == IF Fflag /\ Lstat(mem.fs, mem.target) = "dir" THEN Rmdir(mem.fs, mem.target) ELSE Unlink(mem.fs, mem.target)
     IN  IF r.err = "" THEN Goes([mem EXCEPT !.fs = r.fs], "link") /\ UNCHANGED inp ELSE DoneWith(Failed(mem))
  /\ UNCHANGED <<job, out, status>>
LnLink ==
  /\ At("ln", "link")
  /\ LET r == IF job.s THEN Symlink(mem.fs, Head(inp), mem.target) ELSE LinkTo(mem.fs, Head(inp), mem.target, ~job.P)
     IN  DoneWith(IF r.err = "" THEN [mem EXCEPT !.fs = r.fs] ELSE Failed(mem))
  /\ UNCHANGED <<job, out, status>>
LnStep ==
  /\ job.tool = "ln"
  /\ \/ LnStart \/ LnCheck \/ LnRemove \/ LnLink \/ Finish("ln")

-----------------------------------------------------------------------------
(* rm: mem.walk are the visits fts(3) has still to make: [p, post].          *)

Dots == {".", ".."}
Refused(p) == p = <<>> \/ Last(p) \in Dots
\* checkdot() and checkslash()
Checked(files) ==
  LET kept[i \in 0 .. Len(files)] ==
        IF i = 0 THEN <<>> ELSE IF Refused(files[i]) THEN kept[i - 1] ELSE Append(kept[i - 1], files[i])
  IN  kept[Len(files)]
RmStart ==
  /\ Running("rm")
  /\ Start([fs |-> job.fs, others |-> job.others, at |-> "next", rval |-> 0, walk |-> <<>>])
  /\ LET allowed == Checked(inp)
         dirs == {i \in DOMAIN allowed : Lstat(job.fs, allowed[i]) = "dir"}
         there == {i \in DOMAIN allowed : Lstat(job.fs, allowed[i]) # "none"}
         asks == job.I /\ ((dirs # {} /\ job.r) \/ Cardinality(there) > 3)
     IN  \E yes \in BOOLEAN :
           /\ inp' = allowed
           /\ IF asks /\ ~yes /\ allowed # <<>> THEN Exit(1) ELSE UNCHANGED status
  /\ UNCHANGED <<job, out>>
RmRefused == Len(Checked(job.files)) # Len(job.files)
\* check(): -i, or an answer about a file that cannot be written
Asked(p) == job.i \/ (job.tty /\ ~job.f /\ Entry(mem.fs, p) \in mem.fs.unwritable)
Gone(r, m) == IF r.err = "" \/ (job.f /\ r.err = "ENOENT") THEN [m EXCEPT !.fs = r.fs] ELSE Failed(m)
RemovedEntry(p) == IF Lstat(mem.fs, p) = "dir" THEN Rmdir(mem.fs, p) ELSE Unlink(mem.fs, p)
RmFile ==
  /\ At("rm", "next")
  /\ ~job.r
  /\ inp # <<>>
  /\ LET p == Head(inp)
     IN  \E yes \in BOOLEAN :
           CASE Lstat(mem.fs, p) = "none" -> DoneWith(IF job.f THEN mem ELSE Failed(mem))
             [] Lstat(mem.fs, p) = "dir" /\ ~job.d -> DoneWith(Failed(mem))
             [] OTHER -> IF Asked(p) /\ ~yes THEN DoneWith(mem)
                         ELSE Goes(mem, "remove") /\ UNCHANGED inp
  /\ UNCHANGED <<job, out, status>>
RmRemove ==
  /\ At("rm", "remove")
  /\ DoneWith(Gone(RemovedEntry(Head(inp)), mem))
  /\ UNCHANGED <<job, out, status>>

\* rm_tree(): directories before and after what is in them. The visit in hand, what is left
\* after it, and with the visits of what is in a directory
RmVisit == IF mem.walk = <<>> THEN [p |-> Head(inp), post |-> FALSE] ELSE Head(mem.walk)
RmRest == [mem EXCEPT !.walk = IF mem.walk = <<>> THEN <<>> ELSE Tail(@)]
RmInto(p) ==
  LET inside == SetToSeq(Children(mem.fs, Entry(mem.fs, p)))
  IN  [RmRest EXCEPT !.walk = [i \in DOMAIN inside |-> [p |-> inside[i], post |-> FALSE]] \o <<[p |-> p, post |-> TRUE]>> \o @]
RmWalk ==
  /\ At("rm", "next")
  /\ job.r
  /\ inp # <<>> \/ mem.walk # <<>>
  /\ inp' = IF mem.walk = <<>> THEN Tail(inp) ELSE inp
  /\ LET p == RmVisit.p
         type == Lstat(mem.fs, p)
     IN  \E yes \in BOOLEAN :
           CASE RmVisit.post -> mem' = Gone(Rmdir(mem.fs, p), RmRest)
             [] ~RmVisit.post /\ type = "none" -> mem' = IF job.f THEN RmRest ELSE Failed(RmRest)
             [] ~RmVisit.post /\ type = "dir" -> mem' = IF Asked(p) /\ ~yes THEN RmRest ELSE RmInto(p)
             [] OTHER -> mem' = IF Asked(p) /\ ~yes THEN RmRest ELSE Gone(Unlink(mem.fs, p), RmRest)
  /\ UNCHANGED <<job, out, status>>
RmEnd ==
  /\ At("rm", "next")
  /\ inp = <<>> /\ mem.walk = <<>>
  /\ Exit(IF RmRefused THEN 1 ELSE mem.rval)
  /\ UNCHANGED <<job, inp, mem, out>>
RmStep ==
  /\ job.tool = "rm"
  /\ \/ RmStart \/ RmFile \/ RmRemove \/ RmWalk \/ RmEnd

-----------------------------------------------------------------------------
(* rmdir and mkdir, with -p; mem.part is the part of the path in hand.       *)

RmdirStart ==
  /\ Running("rmdir")
  /\ Start([fs |-> job.fs, others |-> job.others, at |-> "next", rval |-> 0, part |-> <<>>])
  /\ UNCHANGED <<job, inp, out, status>>
RmdirDo ==
  /\ At("rmdir", "next")
  /\ inp # <<>>
  /\ LET p == IF mem.part = <<>> THEN Head(inp) ELSE mem.part
         r == Rmdir(mem.fs, p)
         m == IF r.err = "" THEN [mem EXCEPT !.fs = r.fs] ELSE Failed(mem)
     IN  IF r.err = "" /\ job.p /\ Len(p) > 1 THEN mem' = [m EXCEPT !.part = Front(p)] /\ UNCHANGED inp
         ELSE DoneWith([m EXCEPT !.part = <<>>])
  /\ UNCHANGED <<job, out, status>>
RmdirStep == RmdirStart \/ RmdirDo \/ Finish("rmdir")

MkdirStart ==
  /\ Running("mkdir")
  /\ Start([fs |-> job.fs, others |-> job.others, at |-> "next", rval |-> 0, part |-> <<>>])
  /\ UNCHANGED <<job, inp, out, status>>
\* build(): a name more each time; the last one gets the mode
MkdirDo ==
  /\ At("mkdir", "next")
  /\ inp # <<>>
  /\ LET whole == Head(inp)
         p == IF job.p THEN SubSeq(whole, 1, Len(mem.part) + 1) ELSE whole
         r == Mkdir(mem.fs, p, "umask")
         m == [mem EXCEPT !.fs = r.fs, !.part = p]
     IN  IF r.err = "EEXIST" /\ job.p THEN Goes(m, "exists") /\ UNCHANGED inp
         ELSE IF r.err # "" THEN DoneWith([Failed(m) EXCEPT !.part = <<>>])
         ELSE IF p # whole THEN mem' = m /\ UNCHANGED inp
         ELSE Goes(m, "chmod") /\ UNCHANGED inp
  /\ UNCHANGED <<job, out, status>>
MkdirExists ==
  /\ At("mkdir", "exists")
  /\ IF Stat(mem.fs, mem.part) # "dir" THEN DoneWith([Failed(mem) EXCEPT !.part = <<>>])
     ELSE IF mem.part = Head(inp) THEN DoneWith([mem EXCEPT !.part = <<>>])
     ELSE Goes(mem, "next") /\ UNCHANGED inp
  /\ UNCHANGED <<job, out, status>>
MkdirMode ==
  /\ At("mkdir", "chmod")
  /\ LET t == Follow(mem.fs, mem.part)
         m == [mem EXCEPT !.part = <<>>]
     IN  DoneWith(IF ~job.m THEN m
                  ELSE IF t \notin DOMAIN mem.fs.at THEN Failed(m)
                  ELSE [m EXCEPT !.fs.node[mem.fs.at[t]].mode = "asked"])
  /\ UNCHANGED <<job, out, status>>
MkdirStep == MkdirStart \/ MkdirDo \/ MkdirExists \/ MkdirMode \/ Finish("mkdir")

FileToolStep == OtherProcess \/ Killed \/ MvStep \/ LnStep \/ RmStep \/ RmdirStep \/ MkdirStep
=============================================================================

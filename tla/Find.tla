-------------------------------- MODULE Find --------------------------------
(***************************************************************************)
(* find: the plan that main.c, find.c, operator.c and option.c make of the *)
(* arguments, the functions of function.c, and the walk. job: args (words, *)
(* see W and N), flags, files (the paths to start from), fs (what each     *)
(* path is), names (the collating order), fails, answers and limits.       *)
(***************************************************************************)
EXTENDS Process

-----------------------------------------------------------------------------
(* option.c, and the c_ functions: a word is [w, sign, n, unit]              *)

Of(names, c, f) == [o \in names |-> <<c, f>>]
Options ==
  Of({"-a", "-and"}, "and", "") @@ Of({"("}, "simple", "(") @@ Of({")"}, "simple", ")") @@ Of({"-not", "!"}, "simple", "not")
  @@ Of({"-o", "-or"}, "simple", "or") @@ Of({"-true", "-noleaf"}, "simple", "true") @@ Of({"-false"}, "simple", "false")
  @@ Of({"-prune"}, "simple", "prune") @@ Of({"-quit"}, "simple", "quit") @@ Of({"-print", "-print0"}, "print", "print")
  @@ Of({"-ls"}, "ls", "print") @@ Of({"-delete"}, "delete", "delete") @@ Of({"-d", "-depth"}, "depth", "depth")
  @@ Of({"-exec", "-execdir", "-ok", "-okdir"}, "exec", "exec") @@ Of({"-empty"}, "stat", "empty") @@ Of({"-follow"}, "follow", "true")
  @@ Of({"-maxdepth", "-mindepth"}, "mXXdepth", "true") @@ Of({"-mmin", "-amin", "-cmin"}, "Xmin", "min")
  @@ Of({"-mtime", "-atime", "-ctime"}, "Xtime", "time") @@ Of({"-newer", "-anewer", "-cnewer"}, "newer", "newer")
  @@ Of({"-inum"}, "num", "ino") @@ Of({"-links"}, "num", "links") @@ Of({"-user", "-uid"}, "user", "uid") @@ Of({"-group", "-gid"}, "group", "gid") @@ Of({"-size"}, "size", "size")
  @@ Of({"-samefile"}, "samefile", "ino") @@ Of({"-name", "-path", "-lname"}, "name", "name") @@ Of({"-perm"}, "perm", "perm")
  @@ Of({"-type"}, "type", "type") @@ Of({"-xdev", "-mount"}, "xdev", "true")
  @@ Of({"-ignore_readdir_race", "-noignore_readdir_race"}, "race", "true")
Operands == {"mXXdepth", "Xmin", "Xtime", "newer", "num", "user", "group", "size", "samefile", "name", "perm", "type"}  \* nextarg()
Stamp(o) == CASE o \in {"-amin", "-atime"} -> "a" [] o \in {"-cmin", "-ctime", "-cnewer"} -> "c" [] OTHER -> "m"  \* f_newer() leaves out atime

Lstat(p) == job.fs[p]
Exists(p) == p \in DOMAIN job.fs
RECURSIVE Real(_)
Real(p) == IF Exists(p) /\ job.fs[p].type = "l" /\ Exists(job.fs[p].to) THEN Real(job.fs[p].to) ELSE p
\* find_parsenum(), find_parsetime(), TIME_CORRECT()
Parsed(node, w) == node @@ [sign |-> w.sign, v |-> w.n]
Corrected(node) == [node EXCEPT !.v = @ + (IF node.sign = "-" THEN 1 ELSE 0)]
Seconds == "s" :> 1 @@ "m" :> 60 @@ "h" :> 3600 @@ "d" :> 86400 @@ "w" :> 604800
BadTime(w) == \E i \in DOMAIN w.times : w.times[i][2] \notin DOMAIN Seconds
ParsedTime(node, w) ==
  IF w.times = <<>> THEN Parsed(node, w) @@ [exact |-> FALSE]
  ELSE node @@ [exact |-> TRUE, sign |-> w.sign, v |-> FoldSeq(LAMBDA t, x : x + t[1] * Seconds[t[2]], 0, w.times)]
Scale == "c" :> 1 @@ "k" :> 1024 @@ "M" :> 1048576
\* Where the words of -exec end: the place of `;', or of a `+' after `{}'; 0 for none
ExecEnd(args) ==
  LET ends == {i \in 2 .. Len(args) : args[i].w = ";" \/ (args[i].w = "+" /\ i > 2 /\ args[i - 1].w = "{}")}
  IN  IF ends = {} THEN 0 ELSE Min(ends)
\* st: plan, args, err and the global variables; a c_ function takes its words and adds its node
New(st) == [f |-> Options[st.args[1].w][2], o |-> st.args[1].w]
Add(st, node, n) == [st EXCEPT !.plan = Append(@, node), !.args = SubSeq(@, n + 1, Len(@))]
NextArg(st) == st.args[2]
Stat(st) == [st EXCEPT !.nostat = FALSE]
Bad(st) == [st EXCEPT !.err = TRUE, !.args = <<>>]
COutput(st) == Add([st EXCEPT !.isoutput = TRUE], New(st), 1)
CDelete(st) == COutput([Stat(st) EXCEPT !.isdepth = TRUE])
CDepth(st) == IF Len(st.args) > 1 /\ NextArg(st).w = "" THEN Add(st, Parsed([New(st) EXCEPT !.f = "level"], NextArg(st)), 2)
              ELSE Add([st EXCEPT !.isdepth = TRUE], [f |-> "true"], 1)
CExec(st) ==
  LET o == st.args[1].w
      end == ExecEnd(st.args)
      plus == st.args[end].w = "+"
      id == Len(st.batch) + 1
      node == New(st) @@ [id |-> id, words |-> SubSeq(st.args, 2, end - (IF plus THEN 2 ELSE 1)), plus |-> plus,
                          dir |-> o \in {"-execdir", "-okdir"}, ok |-> o \in {"-ok", "-okdir"}]
  IN  IF end = 0 \/ end = 2 THEN Bad(st)
      ELSE Add([st EXCEPT !.isoutput = TRUE, !.batch = Append(@, <<>>), !.plus = IF plus THEN <<id>> \o @ ELSE @], node, end)
CFollow(st) == Add([st EXCEPT !.physical = FALSE, !.logical = TRUE], New(st), 1)
CXdev(st) == Add([st EXCEPT !.xdev = TRUE], New(st), 1)
CRace(st) == Add([st EXCEPT !.race = st.args[1].w = "-ignore_readdir_race"], New(st), 1)
CMaxDepth(st) == IF NextArg(st).sign = "-" THEN Bad(st)
                 ELSE Add(IF st.args[1].w = "-maxdepth" THEN [st EXCEPT !.maxdepth = NextArg(st).n] ELSE [st EXCEPT !.mindepth = NextArg(st).n], New(st), 2)
CXmin(st) == Add(Stat(st), Corrected(Parsed(New(st), NextArg(st))), 2)
CXtime(st) == IF BadTime(NextArg(st)) THEN Bad(st)
              ELSE With(ParsedTime(New(st), NextArg(st)), LAMBDA n : Add(Stat(st), IF n.exact THEN n ELSE Corrected(n), 2))
CNum(st) == Add(Stat(st), Parsed(New(st), NextArg(st)), 2)
CSize(st) ==
  LET w == NextArg(st)
  IN  IF w.unit = "" THEN CNum(st)
      ELSE Add([Stat(st) EXCEPT !.divsize = FALSE], [Parsed(New(st), w) EXCEPT !.v = @ * Scale[w.unit]], 2)
\* c_user(), c_group(): a name that is known, else a number
Named(st, known) ==
  LET w == NextArg(st)
  IN  IF w.w = "" THEN CNum(st) ELSE IF w.w \in DOMAIN known THEN Add(Stat(st), New(st) @@ [sign |-> "", v |-> known[w.w]], 2) ELSE Bad(st)
CUser(st) == Named(st, job.users)
CGroup(st) == Named(st, job.groups)
\* c_newer(), c_samefile(): stat(2) or lstat(2) of the file named
Reference(st, field) ==
  LET p == NextArg(st).path
      ref == IF st.physical THEN p ELSE Real(p)
  IN  IF ~Exists(ref) THEN Bad(st) ELSE Add(Stat(st), New(st) @@ [sign |-> "", v |-> Lstat(ref)[field]], 2)
CNewer(st) == Reference(st, "m")
CSamefile(st) == Reference(st, "ino")
CName(st) == Add(st, New(st) @@ [arg |-> NextArg(st)], 2)
CPerm(st) == Add(Stat(st), New(st) @@ [sign |-> NextArg(st).sign, bits |-> NextArg(st).bits], 2)
CType(st) == IF NextArg(st).w \notin {"d", "f", "l"} THEN Bad(st)
             ELSE Add(IF NextArg(st).w = "d" THEN st ELSE Stat(st), New(st) @@ [type |-> NextArg(st).w], 2)
Create(st) ==
  LET o == st.args[1].w
      c == Options[o][1]
  IN  IF o \notin DOMAIN Options \/ (o \in DOMAIN Options /\ Len(st.args) = 1 /\ c \in Operands) THEN Bad(st)
      ELSE CASE c = "and" -> [st EXCEPT !.args = Tail(@)]
             [] c = "simple" -> Add(st, New(st), 1)
             [] c = "print" -> COutput(st)
             [] c = "ls" -> COutput(Stat(st))
             [] c = "stat" -> Add(Stat(st), New(st), 1)
             [] c = "delete" -> CDelete(st)
             [] c = "depth" -> CDepth(st)
             [] c = "follow" -> CFollow(st)
             [] c = "xdev" -> CXdev(st)
             [] c = "race" -> CRace(st)
             [] c = "exec" -> CExec(st)
             [] c = "mXXdepth" -> CMaxDepth(st)
             [] c = "Xmin" -> CXmin(st)
             [] c = "Xtime" -> CXtime(st)
             [] c = "num" -> CNum(st)
             [] c = "user" -> CUser(st)
             [] c = "group" -> CGroup(st)
             [] c = "size" -> CSize(st)
             [] c = "newer" -> CNewer(st)
             [] c = "samefile" -> CSamefile(st)
             [] c = "name" -> CName(st)
             [] c = "perm" -> CPerm(st)
             [] c = "type" -> CType(st)
RECURSIVE Planned(_)
Planned(st) == IF st.args = <<>> THEN st ELSE With(Create(st), LAMBDA x : Planned(x))
Simple(o) == [f |-> Options[o][2], o |-> o]
Bracketed(st) == IF st.isoutput THEN st.plan
                 ELSE IF st.plan = <<>> THEN <<Simple("-print")>>
                 ELSE <<Simple("(")>> \o st.plan \o <<Simple(")"), Simple("-print")>>

-----------------------------------------------------------------------------
(* operator.c: [p, err]                                                      *)

Good(p) == [p |-> p, err |-> FALSE]
Wrong == [p |-> <<>>, err |-> TRUE]
\* yankexpr(): [p (the expression), rest, err]
RECURSIVE YankExpr(_), Slurped(_, _)
YankExpr(plan) == IF plan[1].f = "(" THEN Slurped(Tail(plan), <<>>) ELSE [p |-> plan[1], rest |-> Tail(plan), err |-> FALSE]
Slurped(plan, sub) ==
  IF plan = <<>> THEN [p |-> <<>>, rest |-> <<>>, err |-> TRUE]
  ELSE With(YankExpr(plan), LAMBDA y :
         IF y.err THEN y
         ELSE IF y.p.f # ")" THEN Slurped(y.rest, Append(sub, y.p))
         ELSE [p |-> [f |-> "expr", kids |-> <<sub>>], rest |-> y.rest, err |-> sub = <<>>])
RECURSIVE ParenSquish(_, _)
ParenSquish(plan, result) ==
  IF plan = <<>> THEN Good(result)
  ELSE With(YankExpr(plan), LAMBDA y : IF y.err THEN Wrong ELSE IF y.p.f = ")" THEN Wrong
                                       ELSE ParenSquish(y.rest, Append(result, y.p)))
RECURSIVE NotSquish(_, _)
Inside(node, squish(_, _)) == With(squish(node.kids[1], <<>>), LAMBDA s : [p |-> [node EXCEPT !.kids[1] = s.p], err |-> s.err])
NotSquish(plan, result) ==
  LET other == {i \in DOMAIN plan : plan[i].f # "not"}
      k == Min(other)
      into(node) == IF node.f = "expr" THEN Inside(node, NotSquish) ELSE Good(node)
  IN  IF plan = <<>> THEN Good(result)
      ELSE IF other = {} THEN Wrong
      ELSE IF k > 1 /\ plan[k].f = "or" THEN Wrong
      ELSE With(into(plan[k]), LAMBDA n :
             IF n.err THEN Wrong
             ELSE NotSquish(SubSeq(plan, k + 1, Len(plan)),
                            Append(result, IF k % 2 = 0 THEN [f |-> "not", kids |-> <<<<n.p>>>>] ELSE n.p)))
RECURSIVE OrSquish(_, _)
OrSquish(plan, result) ==
  IF plan = <<>> THEN Good(result)
  ELSE IF plan[1].f = "or"
  THEN With(OrSquish(Tail(plan), <<>>), LAMBDA s :
         IF result = <<>> \/ s.err \/ s.p = <<>> THEN Wrong ELSE Good(<<[f |-> "or", kids |-> <<result, s.p>>]>>))
  ELSE With(IF plan[1].f \in {"expr", "not"} THEN Inside(plan[1], OrSquish) ELSE Good(plan[1]), LAMBDA n :
         IF n.err THEN Wrong ELSE OrSquish(Tail(plan), Append(result, n.p)))
FormPlan(st) ==
  With(ParenSquish(Bracketed(st), <<>>), LAMBDA a : IF a.err THEN a
  ELSE With(NotSquish(a.p, <<>>), LAMBDA b : IF b.err THEN b ELSE OrSquish(b.p, <<>>)))

-----------------------------------------------------------------------------
(* The f_ functions. e: an entry of fts(3), [path, real, level, info]        *)

Statp(e) == job.fs[e.real]
Compare(n, x) == CASE n.sign = "" -> x = n.v [] n.sign = "-" -> x < n.v [] n.sign = "+" -> x > n.v
Periods(age, n) == (age + n - 1) \div n
Age(n, e) == LET s == Statp(e) IN CASE Stamp(n.o) = "a" -> s.a [] Stamp(n.o) = "c" -> s.c [] Stamp(n.o) = "m" -> s.m
FXmin(n, e) == Compare(n, Periods(Age(n, e), 60))
FXtime(n, e) == Compare(n, IF n.exact THEN Age(n, e) ELSE Periods(Age(n, e), 86400))
FNewer(n, e) == Age(n, e) < n.v
FSize(m, n, e) == Compare(n, IF m.divsize THEN Periods(Statp(e).size, 512) ELSE Statp(e).size)
Childless(m, p) == \A q \in m.left : ~IsStrictPrefix(p, q)
FEmpty(m, e) == LET s == Statp(e) IN (s.type = "f" /\ s.size = 0) \/ (s.type = "d" /\ ~s.closed /\ Childless(m, e.real))
FPerm(n, e) ==
  LET p == Statp(e).perm IN CASE n.sign = "-" -> n.bits \subseteq p [] n.sign = "+" -> n.bits \cap p # {} [] n.sign = "" -> n.bits = p
FType(n, e) == IF n.type = "d" THEN e.info \in {"D", "DP", "DC", "DNR"} ELSE Statp(e).type = n.type
FName(n, e) == CASE n.o = "-name" -> Last(e.path) = n.arg.w
                 [] n.o = "-path" -> e.path = n.arg.path
                 [] n.o = "-lname" -> e.info \in {"SL", "SLNONE"} /\ Statp(e).to = n.arg.path
Test(m, n, e) ==
  CASE n.f = "min" -> FXmin(n, e)
    [] n.f = "time" -> FXtime(n, e)
    [] n.f = "newer" -> FNewer(n, e)
    [] n.f = "level" -> Compare(n, e.level)
    [] n.f \in {"ino", "links", "uid", "gid"} -> Compare(n, Statp(e)[n.f])
    [] n.f = "size" -> FSize(m, n, e)
    [] n.f = "empty" -> FEmpty(m, e)
    [] n.f = "perm" -> FPerm(n, e)
    [] n.f = "type" -> FType(n, e)
    [] n.f = "name" -> FName(n, e)

Say(m, x) == [m EXCEPT !.said = Append(@, x)]
Ran(id, words) == [k |-> "run", id |-> id, words |-> words]
File(n, e) == IF n.dir THEN <<Last(e.path)>> ELSE e.path
\* brace_subst() in each of the words
Braced(n, file) == [i \in DOMAIN n.words |-> [k \in DOMAIN n.words[i].parts |-> IF n.words[i].parts[k] = "{}" THEN file ELSE <<n.words[i].parts[k]>>]]
\* f_exec(), from doexec on: queryuser(), fork(2) and waitpid(2)
DoExec(m, n, words, files) ==
  LET asked == [m EXCEPT !.asked = @ + (IF n.ok THEN 1 ELSE 0)]
      yes == ~n.ok \/ (asked.asked <= Len(job.answers) /\ job.answers[asked.asked])
      ran == Say([asked EXCEPT !.batch[n.id] = <<>>], Ran(n.id, words))
      failed == files \cap job.fails # {}
  IN  IF ~yes THEN [asked EXCEPT !.r = FALSE]
      ELSE [ran EXCEPT !.r = n.plus \/ ~failed, !.exitstatus = IF n.plus /\ failed THEN 1 ELSE @]
Plus(m, n) == DoExec(m, n, m.batch[n.id], Range(m.batch[n.id]))
Exec(m, n, e) ==
  LET full == [m EXCEPT !.batch[n.id] = Append(@, File(n, e)), !.r = TRUE]
      psize == FoldSeq(LAMBDA f, x : x + Len(f), Len(n.words), full.batch[n.id])
  IN  IF ~n.plus THEN DoExec(m, n, Braced(n, File(n, e)), {e.path})
      ELSE IF Len(n.words) + Len(full.batch[n.id]) < (IF n.dir THEN 1 ELSE job.nummax) /\ psize < job.sizemax THEN full
      ELSE Plus(full, n)
\* finish_execplus(), the last one made first
RECURSIVE NodesOf(_)
NodesOf(list) == UNION {IF list[i].f \in {"expr", "not", "or"} THEN UNION {NodesOf(list[i].kids[k]) : k \in DOMAIN list[i].kids} ELSE {list[i]} : i \in DOMAIN list}
\* A slip: what is gathered for a `+' utility is not run at the end.
Unfinished(m) == m

Finished(m) == Scan(LAMBDA x, id : IF x.batch[id] = <<>> THEN x
                                   ELSE Plus(x, CHOOSE n \in {y \in NodesOf(m.plan) : y.f = "exec"} : n.id = id), m, m.plus)
Delete(m, e) ==
  IF e.path = <<".">> THEN [m EXCEPT !.r = TRUE]
  ELSE IF ~m.isdepth \/ m.nostat \/ ~m.physical \/ m.logical THEN [m EXCEPT !.exited = 1, !.r = FALSE]
  ELSE [m EXCEPT !.r = TRUE, !.left = IF Statp(e).type = "d" /\ ~Childless(m, e.real) THEN @ ELSE @ \ {e.real}]
RECURSIVE Execute(_, _, _), EvalList(_, _, _)
EvalList(m, list, e) == IF list = <<>> THEN m
                        ELSE With(Execute(m, list[1], e), LAMBDA x : IF x.r /\ x.exited = -1 THEN EvalList(x, Tail(list), e) ELSE x)
Execute(m, n, e) ==
  CASE n.f = "true" -> [m EXCEPT !.r = TRUE]
    [] n.f = "false" -> [m EXCEPT !.r = FALSE]
    [] n.f = "prune" -> [m EXCEPT !.r = TRUE, !.skip = TRUE]
    [] n.f = "quit" -> With(Finished(m), LAMBDA x : [x EXCEPT !.exited = x.exitstatus, !.r = FALSE])
    [] n.f = "print" -> [Say(m, [k |-> "print", path |-> e.path]) EXCEPT !.r = TRUE]
    [] n.f = "delete" -> Delete(m, e)
    [] n.f = "exec" -> Exec(m, n, e)
    [] n.f = "expr" -> EvalList(m, n.kids[1], e)
    [] n.f = "not" -> With(EvalList(m, n.kids[1], e), LAMBDA x : [x EXCEPT !.r = ~@])
    [] n.f = "or" -> With(EvalList(m, n.kids[1], e), LAMBDA x : IF x.r \/ x.exited # -1 THEN x ELSE EvalList(x, n.kids[2], e))
    [] OTHER -> With(Test(m, n, e), LAMBDA b : [m EXCEPT !.r = b])

-----------------------------------------------------------------------------
(* fts(3), and find_execute(): one step for each entry                       *)

\* The entry for a path; `lost' are those removed after their names were read
Entry(m, path, real, level, lost) ==
  LET follows == m.logical \/ (level = 0 /\ "H" \in job.flags)
      r == IF follows THEN Real(real) ELSE real
      t == IF Exists(r) THEN job.fs[r].type ELSE ""
      info == CASE real \in lost \/ ~Exists(real) -> "NS"
                [] t = "l" -> IF follows THEN "SLNONE" ELSE "SL"
                [] t = "d" -> IF \E up \in m.above : up[1] = r /\ IsStrictPrefix(up[2], path) THEN "DC" ELSE "D"
                [] OTHER -> "F"
  IN  [path |-> path, real |-> r, level |-> level, info |-> info]
Place(p) == CHOOSE i \in DOMAIN job.names : job.names[i] = Last(p)
Children(m, e, lost, sorted) ==
  LET kids == {p \in m.left : Len(p) = Len(e.real) + 1 /\ IsPrefix(e.real, p)}
      ranks == {Place(p) : p \in kids}
      at(i) == Append(e.real, job.names[i])
      up == InOrder(ranks)
      order == IF sorted THEN up ELSE Reverse(up)
  IN  [i \in DOMAIN order |-> Entry(m, Append(e.path, job.names[order[i]]), at(order[i]), e.level + 1, lost)]
Globals == [plan |-> <<>>, args |-> <<>>, err |-> FALSE, nostat |-> TRUE, physical |-> "L" \notin job.flags, logical |-> "L" \in job.flags,
            xdev |-> "x" \in job.flags, isdepth |-> "d" \in job.flags, isoutput |-> FALSE, maxdepth |-> -1, mindepth |-> -1,
            race |-> FALSE, divsize |-> TRUE, batch |-> <<>>, plus |-> <<>>]
FindStart ==
  /\ Running("find") /\ mem = <<>>
  /\ \E st \in {Planned([Globals EXCEPT !.args = job.args])} : \E p \in {IF st.err THEN Wrong ELSE FormPlan(st)} :
       IF job.files = <<>> \/ p.err THEN Exit(1) /\ UNCHANGED mem
       ELSE /\ \E m \in {[st EXCEPT !.plan = p.p] @@ [todo |-> <<>>, left |-> DOMAIN job.fs, above |-> {}, said |-> <<>>, asked |-> 0,
                          exitstatus |-> 0, exited |-> -1, skip |-> FALSE, r |-> TRUE, seen |-> <<>>]} :
                 mem' = [m EXCEPT !.todo = [i \in DOMAIN job.files |-> Entry(m, job.files[i], job.files[i], 0, {})]]
            /\ UNCHANGED status
  /\ UNCHANGED <<job, inp, out>>
\* What an entry comes to: the message, the tests, the plan
Visited(m0, e) ==
  LET m == [m0 EXCEPT !.skip = m0.maxdepth # -1 /\ e.level >= m0.maxdepth, !.exited = -1]
      warned == [m EXCEPT !.exitstatus = 1]
  IN  CASE e.info = "D" /\ m.isdepth -> m
        [] e.info = "DP" /\ ~m.isdepth -> m
        [] e.info \in {"DNR", "NS"} -> IF m.race /\ e.gone /\ e.level > 0 THEN m ELSE warned
        [] "X" \in job.flags /\ Range(e.path) \cap job.bad # {} /\ e.info \notin {"DNR", "NS"} -> warned
        [] m.mindepth # -1 /\ e.level < m.mindepth -> m
        [] OTHER -> EvalList([m EXCEPT !.seen = Append(@, e)], m.plan, e)
Descends(m, e) == e.info = "D" /\ ~m.skip /\ ~(m.xdev /\ Statp(e).dev # job.fs[Real(<<e.path[1]>>)].dev)
FindVisit ==
  /\ Running("find") /\ mem # <<>> /\ mem.todo # <<>>
  /\ \E e \in {Head(mem.todo)} : \E lost \in SUBSET job.gone : \E sorted \in {TRUE, "s" \in job.flags} :
     \E m \in {Visited(mem, e @@ [gone |-> e.info = "NS"])} :
       LET after == [e EXCEPT !.info = IF Descends(m, e) /\ Statp(e).closed THEN "DNR" ELSE "DP"]
           below == [m EXCEPT !.above = @ \cup {<<e.real, e.path>>}]
           kids == IF Descends(m, e) /\ ~Statp(e).closed THEN Children(below, e, lost, sorted) ELSE <<>>
       IN  IF m.exited # -1 THEN Exit(m.exited) /\ mem' = m
           ELSE /\ mem' = [below EXCEPT !.todo = kids \o (IF e.info = "D" THEN <<after>> ELSE <<>>) \o Tail(@)]
                /\ UNCHANGED status
  /\ UNCHANGED <<job, inp, out>>
FindEnd ==
  /\ Running("find") /\ mem # <<>> /\ mem.todo = <<>>
  /\ \E m \in {Finished(mem)} : mem' = m /\ Exit(m.exitstatus)
  /\ UNCHANGED <<job, inp, out>>
FindStep == FindStart \/ FindVisit \/ FindEnd
=============================================================================

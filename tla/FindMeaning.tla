---------------------------- MODULE FindMeaning ----------------------------
(***************************************************************************)
(* What find promises, from the grammar of its expressions: an or of ands  *)
(* of negations of primaries and parentheses, each evaluated no further    *)
(* than its value needs.                                                   *)
(***************************************************************************)
EXTENDS Find

IsExec(o) == o \in {"-exec", "-execdir", "-ok", "-okdir"}
Outputs == {"-print", "-print0", "-ls", "-delete", "-exec", "-execdir", "-ok", "-okdir"}
Alone == {"-true", "-noleaf", "-false", "-prune", "-quit", "-print", "-print0", "-ls", "-delete", "-d", "-empty", "-follow",
          "-xdev", "-mount", "-ignore_readdir_race", "-noignore_readdir_race"}
\* How many words the primary at i takes, and the index of the words that begin one
Takes(i) ==
  LET o == job.args[i].w
      ends == {j \in i + 2 .. Len(job.args) : job.args[j].w = ";" \/ (job.args[j].w = "+" /\ j > i + 2 /\ job.args[j - 1].w = "{}")}
  IN  IF IsExec(o) THEN Min(ends) - i + 1
      ELSE IF o = "-depth" THEN (IF i < Len(job.args) /\ job.args[i + 1].w = "" THEN 2 ELSE 1)
      ELSE IF o \in Alone THEN 1 ELSE 2
\* The tree of the words from i on: [t, i]; the operators bind as the manual says
Not(a) == [k |-> "not", a |-> a]
Both(a, b) == [k |-> "and", a |-> a, b |-> b]
Either(a, b) == [k |-> "or", a |-> a, b |-> b]
Word(i) == IF i > Len(job.args) THEN ")" ELSE job.args[i].w
RECURSIVE OrTerm(_), AndTerm(_), AndRest(_, _), Factor(_)
Factor(i) == CASE Word(i) \in {"!", "-not"} -> With(Factor(i + 1), LAMBDA x : [x EXCEPT !.t = Not(@)])
               [] Word(i) = "(" -> With(OrTerm(i + 1), LAMBDA x : [x EXCEPT !.i = @ + 1])
               [] OTHER -> [t |-> [k |-> "prim", i |-> i], i |-> i + Takes(i)]
AndRest(a, i) == CASE Word(i) \in {")", "-o", "-or"} -> [t |-> a, i |-> i]
                   [] Word(i) \in {"-a", "-and"} -> AndRest(a, i + 1)
                   [] OTHER -> With(Factor(i), LAMBDA x : AndRest(Both(a, x.t), x.i))
AndTerm(i) == With(Factor(i), LAMBDA x : AndRest(x.t, x.i))
OrTerm(i) == With(AndTerm(i), LAMBDA x : IF Word(x.i) \in {"-o", "-or"}
                                         THEN With(OrTerm(x.i + 1), LAMBDA y : [y EXCEPT !.t = Either(x.t, @)]) ELSE x)
Printed == [k |-> "print"]
Meant == IF job.args = <<>> THEN Printed
         ELSE With(OrTerm(1), LAMBDA x : IF \E i \in DOMAIN job.args : job.args[i].w \in Outputs THEN x.t ELSE Both(x.t, Printed))

\* A primary that has no effect, in the words of the manual
Amount(w, x) == CASE w.sign = "" -> x = w.n [] w.sign = "-" -> x < w.n [] w.sign = "+" -> x > w.n
Within(w, age, unit) == CASE w.sign = "" -> age > (w.n - 1) * unit /\ age <= w.n * unit
                          [] w.sign = "-" -> age <= w.n * unit
                          [] w.sign = "+" -> age > w.n * unit
Holds(o, w, e) ==
  LET s == job.fs[e.real]
      age == CASE o \in {"-amin", "-atime"} -> s.a [] o \in {"-cmin", "-ctime", "-cnewer"} -> s.c [] OTHER -> s.m
  IN  CASE o \in {"-mmin", "-amin", "-cmin"} -> Within(w, age, 60)
        [] o \in {"-mtime", "-atime", "-ctime"} -> IF w.times = <<>> THEN Within(w, age, 86400)
                                                 ELSE Amount([w EXCEPT !.n = FoldLeft(LAMBDA x, u : x + u[1] * Seconds[u[2]], 0, w.times)], age)
        [] o \in {"-newer", "-anewer", "-cnewer"} -> age < job.fs[IF "L" \in job.flags THEN Real(w.path) ELSE w.path].m
        [] o = "-size" -> (CASE w.unit = "" -> Within([w EXCEPT !.n = @ - (IF w.sign = "-" THEN 1 ELSE 0)], s.size, 512)
                            [] OTHER -> Amount([w EXCEPT !.n = @ * Scale[w.unit]], s.size))
        [] o = "-depth" -> w.w # "" \/ Amount(w, Len(e.path) - 1)
        [] o = "-inum" -> Amount(w, s.ino)
        [] o = "-links" -> Amount(w, s.links)
        [] o \in {"-user", "-uid"} -> IF w.w = "" THEN Amount(w, s.uid) ELSE s.uid = job.users[w.w]
        [] o \in {"-group", "-gid"} -> IF w.w = "" THEN Amount(w, s.gid) ELSE s.gid = job.groups[w.w]
        [] o = "-samefile" -> s.ino = job.fs[w.path].ino
        [] o = "-name" -> Last(e.path) = w.w
        [] o = "-path" -> e.path = w.path
        [] o = "-lname" -> s.type = "l" /\ s.to = w.path
        [] o = "-perm" -> (CASE w.sign = "-" -> w.bits \subseteq s.perm [] w.sign = "+" -> w.bits \cap s.perm # {} [] OTHER -> w.bits = s.perm)
        [] o = "-type" -> s.type = w.w
        [] o = "-empty" -> (s.type = "f" /\ s.size = 0)
                           \/ (s.type = "d" /\ ~s.closed /\ \A p \in DOMAIN job.fs : ~IsStrictPrefix(e.real, p))
        [] o \in {"-false"} -> FALSE
        [] OTHER -> TRUE

\* The value of a tree for an entry, and what is done on the way: [v, fx]
IsPlus(i) == job.args[i + Takes(i) - 1].w = "+"
Primary(i, e) ==
  LET o == job.args[i].w
      file == IF o \in {"-execdir", "-okdir"} THEN <<Last(e.path)>> ELSE e.path
      arg == job.args[IF i < Len(job.args) THEN i + 1 ELSE i]
  IN  CASE o \in {"-print", "-print0", "-ls"} -> [v |-> TRUE, fx |-> <<[k |-> "print", path |-> e.path]>>]
        [] o \in {"-delete", "-prune", "-quit"} -> [v |-> TRUE, fx |-> <<[k |-> o]>>]
        [] IsExec(o) -> [v |-> IsPlus(i) \/ e.path \notin job.fails, fx |-> <<[k |-> IF IsPlus(i) THEN "plus" ELSE "exec", i |-> i, file |-> file]>>]
        [] OTHER -> [v |-> Holds(o, arg, e), fx |-> <<>>]
Over(r) == r.fx # <<>> /\ Last(r.fx).k = "-quit"
RECURSIVE Value(_, _)
Value(t, e) ==
  CASE t.k = "prim" -> Primary(t.i, e)
    [] t.k = "print" -> [v |-> TRUE, fx |-> <<[k |-> "print", path |-> e.path]>>]
    [] t.k = "not" -> With(Value(t.a, e), LAMBDA r : [r EXCEPT !.v = ~@])
    [] t.k \in {"and", "or"} ->
         With(Value(t.a, e), LAMBDA r :
           IF Over(r) \/ r.v = (t.k = "or") THEN r
           ELSE With(Value(t.b, e), LAMBDA x : [x EXCEPT !.fx = r.fx \o @]))

-----------------------------------------------------------------------------
Effects == [i \in DOMAIN mem.seen |-> Value(Meant, mem.seen[i]).fx]
Has(fx, k) == \E j \in DOMAIN fx : fx[j].k = k
Asks == \E i \in DOMAIN job.args : job.args[i].w \in {"-ok", "-okdir"}
PlusAt == {i \in DOMAIN job.args : IsExec(job.args[i].w) /\ IsPlus(i)}
IdOf(i) == Cardinality({j \in 1 .. i : IsExec(job.args[j].w)})
Plain(s) == SelectSeq(s, LAMBDA x : x.k = "print" \/ (x.k = "run" /\ \A i \in PlusAt : IdOf(i) # x.id))
Shown(fx) == LET done == SelectSeq(fx, LAMBDA x : x.k \in {"print", "exec"})
             IN  [j \in DOMAIN done |->
                    IF done[j].k = "print" THEN done[j]
                    ELSE LET i == done[j].i
                         IN  Ran(IdOf(i), [n \in 1 .. Takes(i) - 2 |->
                               LET w == job.args[i + n] IN [x \in DOMAIN w.parts |-> IF w.parts[x] = "{}" THEN done[j].file ELSE <<w.parts[x]>>]])]
\* Every entry that is met is dealt with as the expression says, and in that order
AsTheExpressionSays(effects) == Plain(mem.said) = FlattenSeq([i \in DOMAIN effects |-> Shown(effects[i])])
\* Each file goes to a `+' utility once, in the order it was found, and not too many at a time
Gathered(effects) ==
  \A i \in PlusAt :
    LET runs == SelectSeq(mem.said, LAMBDA x : x.k = "run" /\ x.id = IdOf(i))
        found == SelectSeq(FlattenSeq(effects), LAMBDA x : x.k = "plus" /\ x.i = i)
    IN  /\ FlattenSeq([k \in DOMAIN runs |-> runs[k].words]) = [k \in DOMAIN found |-> found[k].file]
        /\ \A k \in DOMAIN runs : Len(runs[k].words) + Takes(i) - 3 <= IF job.args[i].w = "-execdir" THEN Takes(i) - 2 ELSE job.nummax
\* Every path is met once, those below a directory before it with -d and after it
\* otherwise, and none is missed but for a reason
Depth == "d" \in job.flags \/ \E i \in DOMAIN job.args : job.args[i].w \in {"-d", "-delete"}
                             \/ (job.args[i].w = "-depth" /\ Takes(i) = 1)
Bound(o, none) == LET at == {i \in DOMAIN job.args : job.args[i].w = o} IN IF at = {} THEN none ELSE job.args[Max(at) + 1].n
Met == {mem.seen[i].path : i \in DOMAIN mem.seen}
Barred(effects, p) == \E i \in DOMAIN effects : mem.seen[i].path = p /\ Has(effects[i], "-prune")
Reachable(effects, p) ==
  /\ Len(p) - 1 \in Bound("-mindepth", 0) .. Bound("-maxdepth", 99)
  /\ Range(p) \cap (IF "X" \in job.flags THEN job.bad ELSE {}) = {}
  /\ \A n \in 1 .. Len(p) - 1 : LET up == SubSeq(p, 1, n)
                                IN  /\ ~job.fs[up].closed
                                    /\ ("x" \in job.flags => job.fs[up].dev = job.fs[<<p[1]>>].dev)
                                    /\ Depth \/ ~Barred(effects, up)
  /\ ~(job.fs[p].closed /\ Depth)      \* the directory itself is then reported
Whole == mem.physical /\ job.files = <<<<"t">>>>
AllMet(effects) ==
  /\ \A i, j \in DOMAIN mem.seen : i < j => mem.seen[i].path # mem.seen[j].path
                                  /\ ~IsStrictPrefix(IF Depth THEN mem.seen[i].path ELSE mem.seen[j].path,
                                                     IF Depth THEN mem.seen[j].path ELSE mem.seen[i].path)
  /\ (Whole /\ mem.exited = -1) =>
        {p \in DOMAIN job.fs : p[1] = job.files[1][1] /\ Reachable(effects, p)} \ Met \subseteq
           {p \in DOMAIN job.fs : \E g \in job.gone : IsPrefix(g, p)}
  /\ Whole => \A p \in Met : Reachable(effects, p)
\* What was to be deleted is gone, but for directories that are not empty
Deleted(effects) ==
  LET asked == {mem.seen[i].real : i \in {k \in DOMAIN effects : Has(effects[k], "-delete")}}
  IN  mem.left = {p \in DOMAIN job.fs : p \notin asked \/ p = <<".">> \/ (job.fs[p].type = "d" /\ \E q \in DOMAIN job.fs : IsStrictPrefix(p, q) /\ q \notin asked)}
\* find does to every file it is to find what the expression says, once and in the
\* order of the walk, however the plan was made of it.
Found ==
  (job.tool = "find" /\ status \in {0, 1} /\ mem # <<>> /\ ~Asks) =>
    \E effects \in {Effects} :
      /\ mem.exited # 1 => AsTheExpressionSays(effects) /\ Gathered(effects) /\ Deleted(effects)
      /\ AllMet(effects)
=============================================================================

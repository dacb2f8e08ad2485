----------------------------- MODULE SedScript -----------------------------
(***************************************************************************)
(* sed: compile.c. A script is a sequence of lines of characters. What the *)
(* compiler makes of it is prog: cmd[i] the commands, next[i] and inner[i] *)
(* the two links of each, 0 for none, with next[0] the first command.      *)
(***************************************************************************)
EXTENDS Process

\* Regular expressions, as regcomp(3) takes them: a sequence of [set, star],
\* the anchors, and the items within \( and \). A set is of characters, empty for `.'.
Failure == [err |-> TRUE]
RECURSIVE Bracketed(_, _)
Bracketed(p, i) == IF p[i] = "]" THEN i ELSE Bracketed(p, i + 1)
RECURSIVE Items(_, _)
Items(rest, made) == With(<<rest, made>>, LAMBDA args :
  LET p == args[1]
      re == args[2]
      star(q) == q # <<>> /\ q[1] = "*"
      with(set, q) == IF star(q) THEN Items(Tail(q), [re EXCEPT !.items = Append(@, [set |-> set, star |-> TRUE])])
                      ELSE Items(q, [re EXCEPT !.items = Append(@, [set |-> set, star |-> FALSE])])
      first == re.items = <<>>
      here == Len(re.items) + 1
  IN  IF p = <<>> THEN re
      ELSE CASE p[1] = "^" /\ first -> Items(Tail(p), [re EXCEPT !.bol = TRUE])
             [] p[1] = "$" /\ Len(p) = 1 -> [re EXCEPT !.eol = TRUE]
             [] p[1] = "\\" /\ p[2] = "(" -> Items(SubSeq(p, 3, Len(p)), [re EXCEPT !.nsub = 1, !.open = here])
             [] p[1] = "\\" /\ p[2] = ")" -> Items(SubSeq(p, 3, Len(p)), [re EXCEPT !.shut = here])
             [] p[1] = "\\" /\ p[2] \notin {"(", ")"} -> with({p[2]}, SubSeq(p, 3, Len(p)))
             [] p[1] = "[" -> LET n == Bracketed(p, 3)
                              IN  with({p[i] : i \in 2 .. n - 1}, SubSeq(p, n + 1, Len(p)))
             [] p[1] = "." -> with({}, Tail(p))
             [] OTHER -> with({p[1]}, Tail(p)))
CompileRe(p) == Items(p, [items |-> <<>>, bol |-> FALSE, eol |-> FALSE, nsub |-> 0, open |-> 1, shut |-> 1])

-----------------------------------------------------------------------------
Now(p) == IF p = <<>> THEN "" ELSE p[1]
Past(p, n) == SubSeq(p, n + 1, Len(p))
EatSpace(p) == Dropped(p, LAMBDA c : c \in {" ", "\t", NL})
Escapes == "n" :> NL @@ "r" :> "\r" @@ "t" :> "\t"
Digit == [c \in {"0", "1", "2", "3", "4"} |-> CHOOSE i \in 0 .. 4 : <<"0", "1", "2", "3", "4">>[i + 1] = c]

\* compile_ccl(): a bracket expression, copied; <<copy, what follows>>
RECURSIVE CompileCcl(_, _)
CompileCcl(rest, copied) == With(<<rest, copied>>, LAMBDA args :
  LET p == args[1]
      t == args[2]
  IN
  IF p = <<>> THEN <<t, <<"unbalanced">>>>
  ELSE IF p[1] = "]" /\ Len(t) > 1 /\ t # <<"[", "^">> THEN <<Append(t, "]"), Tail(p)>>
  ELSE IF p[1] = "\\" /\ Len(p) > 1 /\ p[2] \in DOMAIN Escapes THEN CompileCcl(Past(p, 2), Append(t, Escapes[p[2]]))
  ELSE CompileCcl(Tail(p), Append(t, p[1])))

\* compile_delimited(): [d, rest], or Failure when the delimiter c is not found
RECURSIVE Delimited(_, _, _, _)
Delimited(rest, c, tr, copied) == With(<<rest, copied>>, LAMBDA args :
  LET p == args[1]
      d == args[2]
      second == IF Len(p) > 1 THEN p[2] ELSE ""
      escaped == Now(p) = "\\"
  IN  IF p = <<>> THEN Failure
      ELSE CASE p[1] = "[" /\ c # "[" /\ ~tr -> LET b == CompileCcl(Tail(p), <<"[">>)
                                                IN  IF b[2] = <<"unbalanced">> THEN Failure ELSE Delimited(b[2], c, tr, d \o b[1])
             [] escaped /\ second \in {"[", "\\"} /\ second # c ->
                  Delimited(Past(p, 2), c, tr, d \o (IF tr THEN <<second>> ELSE <<"\\", second>>))
             [] escaped /\ second = c -> Delimited(Past(p, 2), c, tr, Append(d, c))
             [] escaped /\ second \in DOMAIN Escapes /\ second # c -> Delimited(Past(p, 2), c, tr, Append(d, Escapes[second]))
             [] p[1] = c -> [err |-> FALSE, d |-> d, rest |-> Tail(p)]
             [] OTHER -> Delimited(Tail(p), c, tr, Append(d, p[1])))
CompileDelimited(p, tr) == IF p = <<>> \/ Now(p) \in {"\\", NL} THEN Failure ELSE Delimited(Tail(p), p[1], tr, <<>>)

\* compile_subst(): [new, rest, lines]; an escaped newline goes on in the next line
RECURSIVE SubstText(_, _, _, _, _)
SubstText(rest, c, nsub, copied, others) == With(<<rest, copied, others>>, LAMBDA args :
  LET p == args[1]
      new == args[2]
      lines == args[3]
  IN
  IF p = <<>>
  THEN IF lines = <<>> THEN Failure ELSE SubstText(Head(lines), c, nsub, new, Tail(lines))
  ELSE IF p[1] = "\\" /\ Len(p) > 1
  THEN LET e == p[2]
           more(x) == SubstText(Past(p, 2), c, nsub, new \o x, lines)
       IN  CASE e \in DOMAIN Digit \ {"0"} -> IF nsub # -1 /\ Digit[e] > nsub THEN Failure ELSE more(<<"\\", e>>)
             [] e \in {"&", "\\"} -> more(<<"\\", e>>)
             [] e \in DOMAIN Escapes -> more(<<Escapes[e]>>)
             [] OTHER -> more(<<e>>)
  ELSE IF p[1] = c THEN [err |-> FALSE, new |-> new, rest |-> Tail(p), lines |-> lines]
  ELSE IF p[1] = NL THEN Failure
  ELSE SubstText(Tail(p), c, nsub, Append(new, p[1]), lines))

\* compile_flags(): [n, p, w, rest]
RECURSIVE Flags(_, _)
Flags(q, flags) == With(<<EatSpace(q), flags>>, LAMBDA args :
  LET p == args[1]
      f == args[2]
  IN  CASE Now(p) \in {"", ";"} -> [f EXCEPT !.rest = p]
        [] Now(p) \in {"g"} \cup (DOMAIN Digit \ {"0"}) ->
             IF f.gn THEN Failure
             ELSE Flags(Tail(p), [f EXCEPT !.gn = TRUE, !.n = IF p[1] = "g" THEN 0 ELSE Digit[p[1]]])
        [] Now(p) = "p" -> Flags(Tail(p), [f EXCEPT !.p = TRUE])
        [] Now(p) = "w" -> IF EatSpace(Tail(p)) = <<>> THEN Failure ELSE [f EXCEPT !.w = TRUE, !.rest = <<>>]
        [] OTHER -> Failure)
NoFlags == [err |-> FALSE, gn |-> FALSE, n |-> 1, p |-> FALSE, w |-> FALSE, rest |-> <<>>]

\* compile_addr(): [a, rest]
RECURSIVE Number(_, _)
Number(p, n) == IF Now(p) \in DOMAIN Digit THEN Number(Tail(p), 10 * n + Digit[p[1]]) ELSE <<n, p>>
None == [type |-> "none"]
Addr(a, rest) == [err |-> FALSE, a |-> a, rest |-> rest]
CompileAddr(p) ==
  CASE Now(p) \in {"/", "\\"} ->
         LET d == CompileDelimited(IF p[1] = "/" THEN p ELSE Tail(p), FALSE)
         IN  IF d.err THEN Failure ELSE Addr([type |-> "re", re |-> d.d], d.rest)
    [] Now(p) = "$" -> Addr([type |-> "last"], Tail(p))
    [] Now(p) = "+" -> LET n == Number(Tail(p), 0) IN Addr([type |-> "rel", l |-> n[1]], n[2])
    [] Now(p) \in DOMAIN Digit -> LET n == Number(p, 0) IN Addr([type |-> "line", l |-> n[1]], n[2])
    [] OTHER -> Failure
Addresses(p) ==
  IF Now(p) \notin {"/", "\\", "$"} \cup DOMAIN Digit THEN [err |-> FALSE, a1 |-> None, a2 |-> None, n |-> 0, rest |-> p]
  ELSE LET first == CompileAddr(p)
           q == EatSpace(first.rest)
           second == CompileAddr(EatSpace(Tail(q)))
       IN  IF first.err THEN Failure
           ELSE IF Now(q) # "," THEN [err |-> FALSE, a1 |-> first.a, a2 |-> None, n |-> 1, rest |-> q]
           ELSE IF second.err THEN Failure
           ELSE [err |-> FALSE, a1 |-> first.a, a2 |-> second.a, n |-> 2, rest |-> EatSpace(second.rest)]

\* compile_text(): lines up to the first whose newline is not escaped; <<text, the other lines>>
Unescaped(l) == Scan(LAMBDA st, c : IF ~st.esc /\ c = "\\" THEN [st EXCEPT !.esc = TRUE]
                                    ELSE [t |-> Append(st.t, c), esc |-> FALSE, nl |-> st.nl \/ (st.esc /\ c = NL)],
                     [t |-> <<>>, esc |-> FALSE, nl |-> FALSE], l)
RECURSIVE CompileText(_, _)
CompileText(text, lines) ==
  IF lines = <<>> THEN <<text, lines>>
  ELSE LET u == Unescaped(Head(lines))
       IN  IF u.nl THEN CompileText(text \o u.t, Tail(lines)) ELSE <<text \o u.t, Tail(lines)>>

-----------------------------------------------------------------------------
\* cmd_fmts: the number of addresses, and what follows
Naddr == [c \in {"}", ":"} |-> 0] @@ [c \in {"a", "i", "q", "r", "="} |-> 1]
         @@ [c \in {"{", "b", "c", "d", "D", "g", "G", "h", "H", "l", "n", "N", "p", "P", "s", "t", "w", "x", "y"} |-> 2]
\* compile_stream(): st = [cmd, next, inner, stack, link, err]; link is where the next command is hung
Hung(st, c) ==
  LET i == Len(st.cmd) + 1
  IN  [st EXCEPT !.cmd = Append(@, c), !.next = [(i :> 0) @@ @ EXCEPT ![IF st.link[1] = "next" THEN st.link[2] ELSE 0] =
                                                   IF st.link[1] = "next" THEN i ELSE @],
                 !.inner = [(i :> 0) @@ @ EXCEPT ![st.link[2]] = IF st.link[1] = "inner" THEN i ELSE @],
                 !.link = <<"next", i>>]
RECURSIVE Stream(_, _, _)
OneCommand(lines, st, ads, negated, r) ==
  LET code == Now(r)
      arg == EatSpace(Tail(r))
      base == [code |-> code, a1 |-> ads.a1, a2 |-> ads.a2, nonsel |-> negated, t |-> <<>>]
      i == Len(st.cmd) + 1
      then(x, c) == Stream(IF Now(x) = ";" THEN Tail(x) ELSE <<>>, lines, Hung(st, c))
      bad == [st EXCEPT !.err = TRUE]
      toEol(c) == IF arg = <<>> THEN bad ELSE Stream(<<>>, lines, Hung(st, [c EXCEPT !.t = Chomp(arg)]))
  IN  CASE code \notin DOMAIN Naddr -> bad
        [] code \in DOMAIN Naddr /\ ads.n > Naddr[code] -> bad
        [] code = "{" -> Stream(arg, lines, [Hung(st, base) EXCEPT !.stack = <<i>> \o @, !.link = <<"inner", i>>])
        [] code = "}" -> IF st.stack = <<>> \/ Now(arg) \notin {"", ";"} THEN bad
                         ELSE Stream(arg, lines, [Hung(st, [base EXCEPT !.nonsel = TRUE])
                                                    EXCEPT !.stack = Tail(@), !.next[Head(st.stack)] = i])
        [] code \in {"a", "c", "i"} ->
             IF Now(arg) # "\\" \/ EatSpace(Tail(arg)) # <<>> THEN bad
             ELSE With(CompileText(<<>>, lines), LAMBDA x : Stream(<<>>, x[2], Hung(st, [base EXCEPT !.t = x[1]])))
        [] code \in {"w", "r", ":"} -> toEol(base)
        [] code \in {"b", "t"} -> Stream(<<>>, lines, Hung(st, [base EXCEPT !.t = Chomp(arg)]))
        [] code = "s" ->
             With(CompileDelimited(Tail(r), FALSE), LAMBDA re :
             IF re.err THEN bad ELSE
             With(SubstText(re.rest, r[2], IF re.d = <<>> THEN -1 ELSE CompileRe(re.d).nsub, <<>>, lines), LAMBDA sub :
             IF sub.err THEN bad ELSE
             With(Flags(sub.rest, NoFlags), LAMBDA fl :
             IF fl.err THEN bad
             ELSE Stream(IF Now(fl.rest) = ";" THEN Tail(fl.rest) ELSE <<>>, sub.lines,
                         Hung(st, base @@ [re |-> re.d, new |-> sub.new, n |-> fl.n, p |-> fl.p, w |-> fl.w])))))
        [] code = "y" ->
             With(CompileDelimited(Tail(r), TRUE), LAMBDA old :
             IF old.err THEN bad ELSE
             With(CompileDelimited(<<r[2]>> \o old.rest, TRUE), LAMBDA new :
             IF new.err THEN bad
             ELSE IF Len(old.d) # Len(new.d) \/ Now(EatSpace(new.rest)) \notin {"", ";"} THEN bad
             ELSE then(EatSpace(new.rest), base @@ [from |-> old.d, to |-> new.d])))
        [] OTHER -> IF Now(arg) \in {"", ";"} THEN then(arg, base) ELSE bad
Stream(q, others, made) == With(<<EatSpace(q), others, made>>, LAMBDA args :
  LET p == args[1]
      lines == args[2]
      st == args[3]
  IN  IF p = <<>> \/ Now(p) = "#"
      THEN IF lines = <<>> THEN [st EXCEPT !.err = @ \/ st.stack # <<>>] ELSE Stream(Head(lines), Tail(lines), st)
      ELSE IF Now(p) = ";" THEN Stream(Tail(p), lines, st)
      ELSE With(Addresses(p), LAMBDA ads :
           IF ads.err THEN [st EXCEPT !.err = TRUE]
           ELSE LET negated == Now(ads.rest) = "!"
                IN  With(EatSpace(IF negated THEN Tail(ads.rest) ELSE ads.rest), LAMBDA r :
                      OneCommand(lines, st, ads, negated, r))))

\* compile(): with the labels, which must be there once
Labels(st, l) == {i \in DOMAIN st.cmd : st.cmd[i].code = ":" /\ st.cmd[i].t = l}
NoScript == [cmd |-> <<>>, next |-> 0 :> 0, inner |-> 0 :> 0, stack |-> <<>>, link |-> <<"next", 0>>, err |-> FALSE]
Compile(script) == With(Stream(<<>>, script, NoScript), LAMBDA st :
  LET jumps == {i \in DOMAIN st.cmd : st.cmd[i].code \in {"b", "t"} /\ st.cmd[i].t # <<>>}
      ok == /\ ~st.err
            /\ \A i \in DOMAIN st.cmd : st.cmd[i].code = ":" => Cardinality(Labels(st, st.cmd[i].t)) = 1
            /\ \A i \in jumps : Labels(st, st.cmd[i].t) # {}
  IN  IF ~ok THEN Failure
      ELSE [err |-> FALSE, cmd |-> st.cmd, next |-> st.next,
            inner |-> [i \in DOMAIN st.inner |-> IF i \in jumps THEN CHOOSE k \in Labels(st, st.cmd[i].t) : TRUE ELSE st.inner[i]]])
=============================================================================

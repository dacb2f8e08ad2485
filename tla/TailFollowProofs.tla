----------------------------- MODULE TailFollowProofs -----------------------------
(***************************************************************************)
(* Proofs about TailFollow for any number of files and inodes, any command *)
(* lines and anything the writers may do: the types, that what tail prints *)
(* is right (LinesRight), and that a reposition jumps over nothing that    *)
(* was there when it looked (SkipsOnlyNew).                                *)
(***************************************************************************)
EXTENDS TailFollow, TLAPS

(***************************************************************************)
(* The inductive invariant.  LinesRight alone is not inductive: why a      *)
(* descriptor that is closed has nothing left to print depends on where    *)
(* the loops over the files are, on whose inode is whose, and on what the  *)
(* writers can have left in an inode.                                      *)
(***************************************************************************)
Following == {"events", "watch", "check", "compare", "show", "wait", "reposition"}
Line == [file : Files, ino : Inodes, line : Nat, under : Files \cup {None}]

Types ==
  /\ opt \in Options
  /\ dir \in [Files -> Inodes \cup {None}]
  /\ content \in [Inodes -> Seq(Nat)] /\ written \in [Inodes -> Nat]
  /\ unlinked \subseteq Inodes /\ bad \subseteq Inodes
  /\ fresh \in 1 .. NumInodes + 1 /\ left \in Scenario
  /\ pc \in {"open", "forward", "exit", "killed"} \cup Following
  /\ idx \in Files
  /\ fp \in [Files -> Descriptor] /\ size \in [Files -> Nat]
  /\ \A f \in Files : fp[f].ino = None => fp[f] = NoFile
  /\ tmp \in Inodes \cup {None} /\ evChange \in BOOLEAN
  /\ ev \in [Files -> [wd : Inodes \cup {None}, armed : BOOLEAN]]
  /\ action \in {"USE_SLEEP", "USE_INOTIFY"}
  /\ watches \subseteq Inodes
  /\ queue \in Seq([ino : watches, kind : {"modify", "move"}])
  /\ last \in Files /\ header \in Files \cup {None}
  /\ out \in Seq(Line) /\ skipped \subseteq Files \X Inodes \X Nat
  /\ from \in [Files -> [Inodes -> Nat \cup {Never}]]
  /\ moved \in [Inodes -> Nat \cup {Never}]
  /\ cut \subseteq Inodes /\ early \subseteq Inodes /\ absent \subseteq Files

\* What the writers leave in an inode: lines in the order they were
\* written, all of them as long as nobody truncates it.
ContentRight ==
  \A ino \in Inodes :
    LET lines == content[ino]
    IN /\ \A k \in 1 .. Len(lines) : lines[k] \in 1 .. written[ino]
       /\ \A j, k \in 1 .. Len(lines) : j < k => lines[j] < lines[k]
       /\ ino \notin cut =>
            Len(lines) = written[ino] /\ \A k \in 1 .. Len(lines) : lines[k] = k
       /\ moved[ino] <= written[ino]

\* An inode belongs to one name for good, and is never made anew.
Holds(f, ino) ==
  \/ dir[f] = ino
  \/ fp[f].ino = ino
  \/ pc = "compare" /\ idx = f /\ tmp = ino
  \/ from[f][ino] # Never
Owned ==
  \A f \in Files, ino \in Inodes :
    Holds(f, ino) => ino < fresh /\ \A g \in Files : Holds(g, ino) => g = f

\* Where each file is between main() and follow().
Started ==
  /\ pc = "open" =>
       /\ \A f \in Files, ino \in Inodes : from[f][ino] = Never
       /\ \A f \in Files : f < idx /\ fp[f].ino = None => f \in absent
  /\ pc = "forward" =>
       /\ \A f \in Files, ino \in Inodes : f >= idx => from[f][ino] = Never
       /\ \A f \in Files : f < idx /\ fp[f].ino # None => from[f][fp[f].ino] # Never
       /\ \A f \in Files : fp[f].ino = None => f \in absent
  /\ pc \in {"open", "forward"} =>
       \A f \in Files : fp[f].ino \notin cut \cup {None} => size[f] <= written[fp[f].ino]
  /\ pc \in Following =>
       \A f \in Files : fp[f].ino # None => from[f][fp[f].ino] # Never
  /\ pc = "events" => idx = 1

\* An inode that tail has left has lost its name for good, unless it is
\* one that cannot be read.
Left ==
  \A f \in Files, ino \in Inodes :
    from[f][ino] # Never /\ fp[f].ino # ino /\ ino \notin bad => dir[f] # ino
Compared ==
  pc = "compare" =>
    /\ tmp # None /\ fp[idx].ino # None
    /\ tmp # fp[idx].ino =>
         dir[idx] # fp[idx].ino /\ (tmp \notin bad => from[idx][tmp] = Never)

\* Where the descriptors are.
Positions ==
  \A f \in Files :
    fp[f].ino \notin cut \cup {None} =>
      /\ fp[f].pos <= written[fp[f].ino]
      /\ fp[f].eof /\ fp[f].ino \notin early => fp[f].pos = written[fp[f].ino]

\* What is printed of an inode was in it, after tail had opened it, and
\* comes before what is still to be read.
Sound ==
  \A k \in 1 .. Len(out) :
    /\ from[out[k].file][out[k].ino] # Never
    /\ out[k].line <= written[out[k].ino]
Ahead ==
  \A f \in Files, k \in 1 .. Len(out) :
    LET ino == fp[f].ino
    IN out[k].file = f /\ out[k].ino = ino /\ ino \notin bad \cup unlinked =>
         \A p \in fp[f].pos + 1 .. Len(content[ino]) : out[k].line < content[ino][p]

\* The header printed last is that of the file printed last.
Headed ==
  NumFiles > 1 =>
    /\ pc \in {"open", "forward"} => last = NumFiles
    /\ pc \in Following => last = header \/ (last = NumFiles /\ NumFiles \in absent)

\* A watch that is armed has a descriptor, unless it is about to be set anew.
Armed(f) == ev[f].armed => fp[f].ino # None
Watching ==
  /\ pc = "watch" => \A f \in Files : f < idx => Armed(f)
  /\ action = "USE_INOTIFY" /\ (\/ pc \in {"wait", "reposition"}
                                \/ pc \in {"check", "compare", "show"} /\ ~evChange)
     => \A f \in Files : Armed(f)
  /\ pc = "reposition" =>
       /\ action = "USE_INOTIFY" /\ fp[idx].ino # None
       /\ fp[idx].ino \notin cut => size[idx] <= fp[idx].pos

IInv ==
  /\ Types /\ ContentRight /\ Owned /\ Started /\ Left /\ Compared
  /\ Positions /\ Sound /\ Ahead /\ Headed /\ Watching
  /\ NoGap /\ InOrderOnce /\ RotationComplete /\ HeaderRight

-----------------------------------------------------------------------------
(* Lemmas about the operators of the model                                 *)

LEMMA FilesFacts ==
  /\ NumFiles \in Nat \ {0} /\ NumInodes \in Nat /\ NumFiles <= NumInodes
  /\ Files \subseteq Nat /\ Inodes \subseteq Nat
  /\ None \notin Files /\ None \notin Inodes /\ 1 \in Files /\ NumFiles \in Files
  /\ \A f \in Files : f >= 1 /\ f <= NumFiles /\ f \in Inodes
BY FollowAssumption DEF Files, Inodes, None

\* Rest() is the lines from a position on.
LEMMA RestFacts ==
  ASSUME content \in [Inodes -> Seq(Nat)], NEW ino \in Inodes, NEW pos \in Nat
  PROVE  /\ Rest(ino, pos) \in Seq(Nat)
         /\ Len(Rest(ino, pos)) =
              (IF pos < Len(content[ino]) THEN Len(content[ino]) - pos ELSE 0)
         /\ \A k \in 1 .. Len(Rest(ino, pos)) : Rest(ino, pos)[k] = content[ino][pos + k]
<1> DEFINE lines == content[ino]
           rest == SubSeq(lines, pos + 1, Len(lines))
<1>1. lines \in Seq(Nat) /\ Rest(ino, pos) = rest
  BY DEF Rest
<1> HIDE DEF lines
<1>2. CASE pos < Len(lines)
  <2>1. Len(lines) \in Nat /\ pos + 1 \in 1 .. Len(lines)
    BY <1>1, <1>2
  <2>2. rest \in Seq(Nat) /\ Len(rest) = Len(lines) - pos
    BY <1>1, <1>2, <2>1
  <2>3. \A k \in 1 .. Len(rest) : rest[k] = lines[pos + k]
    BY <1>1, <1>2, <2>1, <2>2
  <2> QED BY <1>1, <1>2, <2>2, <2>3 DEF lines
<1>3. CASE ~(pos < Len(lines))
  <2>1. rest \in Seq(Nat) /\ Len(rest) = 0
    BY <1>1, <1>3
  <2> QED BY <1>1, <1>3, <2>1 DEF lines
<1> QED BY <1>2, <1>3

LEMMA SeqMonotonic ==
  ASSUME NEW S, NEW T, S \subseteq T, NEW s \in Seq(S)
  PROVE  s \in Seq(T)
<1>1. Len(s) \in Nat /\ s \in [1 .. Len(s) -> S]
  OBVIOUS
<1>2. s \in [1 .. Len(s) -> T]
  BY <1>1
<1> DEFINE n == Len(s)
<1> HIDE DEF n
<1>3. n \in Nat /\ s \in [1 .. n -> T]
  BY <1>1, <1>2 DEF n
<1> QED BY <1>3

\* What a step prints comes after what was printed.
LEMMA PrintedFacts ==
  ASSUME out \in Seq(Line), NEW f \in Files, NEW ino \in Inodes,
         NEW lines \in Seq(Nat), NEW under \in Files \cup {None},
         out' = out \o Printed(f, ino, lines, under)
  PROVE  /\ out' \in Seq(Line) /\ Len(out') = Len(out) + Len(lines)
         /\ \A k \in 1 .. Len(out) : out'[k] = out[k]
         /\ \A k \in 1 .. Len(lines) :
              out'[Len(out) + k] = [file |-> f, ino |-> ino, line |-> lines[k], under |-> under]
<1> DEFINE p == Printed(f, ino, lines, under)
<1>1. p \in [1 .. Len(lines) -> Line]
  BY DEF Printed, Line
<1>2. \A k \in 1 .. Len(lines) :
        p[k] = [file |-> f, ino |-> ino, line |-> lines[k], under |-> under]
  BY DEF Printed
<1>3. out' = out \o p
  OBVIOUS
<1> HIDE DEF p
<1>4. p \in Seq(Line) /\ Len(p) = Len(lines)
  <2> DEFINE n == Len(lines)
  <2>1. n \in Nat /\ p \in [1 .. n -> Line]
    BY <1>1
  <2> HIDE DEF n
  <2>2. p \in Seq(Line) /\ Len(p) = n
    BY <2>1
  <2> QED BY <2>2 DEF n
<1>5. out' \in Seq(Line) /\ Len(out') = Len(out) + Len(lines)
  <2>1. \A s, t \in Seq(Line) : s \o t \in Seq(Line) /\ Len(s \o t) = Len(s) + Len(t)
    OBVIOUS
  <2> QED BY <1>3, <1>4, <2>1
<1>6. \A k \in 1 .. Len(out) : out'[k] = out[k]
  BY <1>3, <1>4
<1>7. \A k \in 1 .. Len(lines) : out'[Len(out) + k] = p[k]
  BY <1>3, <1>4
<1> QED BY <1>2, <1>5, <1>6, <1>7

\* FirstRead() records the position of the first opening of an inode only.
LEMMA FirstReadFacts ==
  ASSUME from \in [Files -> [Inodes -> Nat \cup {Never}]],
         NEW f \in Files, NEW ino \in Inodes, NEW pos \in Nat, FirstRead(f, ino, pos)
  PROVE  /\ from' \in [Files -> [Inodes -> Nat \cup {Never}]]
         /\ from'[f][ino] = (IF from[f][ino] = Never THEN pos ELSE from[f][ino])
         /\ from'[f][ino] \in Nat
         /\ \A g \in Files, i \in Inodes : g # f \/ i # ino => from'[g][i] = from[g][i]
BY DEF FirstRead, Never

\* The loops: the next file, or what comes after the last.
LEMMA NextFileFacts ==
  ASSUME idx \in Files, NEW place \in {"open", "forward", "watch", "check", "show"},
         NextFile(place)
  PROVE  /\ idx' \in Files
         /\ \/ idx < NumFiles /\ idx' = idx + 1 /\ pc' = place
            \/ idx = NumFiles /\ idx' = 1 /\ pc' = After(place)
BY FilesFacts DEF NextFile, IsLast, Files

LEMMA AfterFacts ==
  /\ After("open") = "forward"
  /\ After("forward") \in {"events", "exit"}
  /\ After("watch") = (IF evChange THEN "wait" ELSE LoopHead)
  /\ After("check") = "show"
  /\ After("show") = (IF evChange' THEN "events" ELSE "wait")
  /\ LoopHead \in {"check", "show"}
BY DEF After, LoopHead

-----------------------------------------------------------------------------
(* What a step leaves alone                                                *)

\* The parts of the invariant that say nothing of the loops hold after a
\* step of tail that prints nothing and moves no descriptor.
LEMMA QuietStep ==
  ASSUME IInv, UNCHANGED outside, UNCHANGED <<fp, from, out, skipped, early, absent>>
  PROVE  /\ ContentRight' /\ Left' /\ Positions' /\ Sound' /\ Ahead'
         /\ NoGap' /\ InOrderOnce' /\ RotationComplete' /\ HeaderRight'
<1> USE DEF IInv, outside, inodes, names
<1>1. ContentRight'
  BY DEF ContentRight
<1>2. Left'
  BY DEF Left
<1>3. Positions'
  BY DEF Positions
<1>4. Sound'
  BY DEF Sound
<1>5. Ahead'
  BY DEF Ahead
<1>6. NoGap'
  BY DEF NoGap, Accounted, IsPrinted
<1>7. InOrderOnce'
  BY DEF InOrderOnce
<1>8. RotationComplete'
  BY DEF RotationComplete, Accounted, IsPrinted
<1>9. HeaderRight'
  BY DEF HeaderRight
<1> QED BY <1>1, <1>2, <1>3, <1>4, <1>5, <1>6, <1>7, <1>8, <1>9

\* Nobody comes to hold an inode in such a step.
LEMMA QuietOwned ==
  ASSUME IInv, UNCHANGED outside, UNCHANGED <<fp, from>>, pc' # "compare"
  PROVE  Owned' /\ Compared'
<1>1. \A f \in Files, ino \in Inodes : Holds(f, ino)' => Holds(f, ino)
  BY DEF Holds, outside, names
<1>2. Owned'
  BY <1>1 DEF Owned, IInv, outside, names
<1> QED BY <1>2 DEF Compared

\* The types after a step of tail that leaves the files and the output alone.
LEMMA QuietTypes ==
  ASSUME IInv, UNCHANGED outside, UNCHANGED <<fp, from, out, skipped, early, absent, last, header>>,
         pc' \in {"open", "forward", "exit", "killed"} \cup Following, idx' \in Files,
         size' \in [Files -> Nat], tmp' \in Inodes \cup {None}, evChange' \in BOOLEAN,
         ev' \in [Files -> [wd : Inodes \cup {None}, armed : BOOLEAN]],
         action' \in {"USE_SLEEP", "USE_INOTIFY"}, watches' \subseteq Inodes,
         queue' \in Seq([ino : watches', kind : {"modify", "move"}])
  PROVE  Types'
BY DEF IInv, Types, outside, inodes, names

-----------------------------------------------------------------------------
(* The steps of tail that print nothing                                    *)

\* A file that is not open.
LEMMA PassOverStep ==
  ASSUME IInv, UNCHANGED outside, NEW f \in Files, PassOver(f)
  PROVE  IInv'
<1>1. /\ UNCHANGED <<files, notify, printed, behind>> /\ NextFile(pc) /\ idx = f
      /\ pc \in {"forward", "show", "check"} /\ fp[f] = NoFile
  BY DEF PassOver, At
<1>2. /\ idx' \in Files
      /\ \/ idx < NumFiles /\ idx' = idx + 1 /\ pc' = pc
         \/ idx = NumFiles /\ idx' = 1 /\ pc' = After(pc)
  BY <1>1, NextFileFacts DEF IInv, Types
<1>3. UNCHANGED <<fp, from, out, skipped, early, absent, last, header, size, tmp, evChange, ev,
                  action, watches, queue>>
  BY <1>1 DEF files, notify, printed, behind
<1>4. /\ pc = "forward" => pc' \in {"forward", "events", "exit"}
      /\ pc = "check" => pc' \in {"check", "show"}
      /\ pc = "show" => pc' = "show" \/ pc' = (IF evChange' THEN "events" ELSE "wait")
      /\ pc' # pc => idx' = 1
      /\ pc' = pc => idx' = idx + 1
      /\ pc' \in {"events", "wait"} => idx = NumFiles
  BY <1>1, <1>2, AfterFacts
<1>5. Types'
  BY <1>1, <1>2, <1>3, <1>4, QuietTypes DEF IInv, Types, Following
<1>6. Started'
  <2>1. pc' \in {"open", "forward"} =>
          \A i \in Files : fp[i].ino \notin cut \cup {None} => size[i] <= written[fp[i].ino]
    BY <1>1, <1>4 DEF IInv, Started
  <2>2. pc' = "forward" =>
          /\ \A i \in Files, ino \in Inodes : i >= idx' => from[i][ino] = Never
          /\ \A i \in Files : i < idx' /\ fp[i].ino # None => from[i][fp[i].ino] # Never
          /\ \A i \in Files : fp[i].ino = None => i \in absent
    BY <1>1, <1>2, <1>4, FilesFacts DEF IInv, Started, NoFile
  <2>3. pc' \in Following => \A i \in Files : fp[i].ino # None => from[i][fp[i].ino] # Never
    BY <1>1, <1>2, <1>4, FilesFacts DEF IInv, Started, Following, NoFile
  <2>4. pc' # "open"
    BY <1>1, <1>4
  <2> QED BY <1>1, <1>3, <1>4, <2>1, <2>2, <2>3, <2>4 DEF Started, outside, inodes
<1>7. Headed'
  <2>1. pc = "forward" /\ pc' \in Following => NumFiles \in absent
    BY <1>1, <1>2, <1>4 DEF IInv, Started, NoFile, Following
  <2> QED BY <1>1, <1>3, <1>4, <2>1 DEF IInv, Headed, Following
<1>8. Watching'
  BY <1>1, <1>3, <1>4 DEF IInv, Watching, Armed, Following
<1> QED BY <1>1, <1>3, <1>4, <1>5, <1>6, <1>7, <1>8, QuietStep, QuietOwned DEF IInv

\* The watch of a file that is open, or none.
LEMMA WatchStep ==
  ASSUME IInv, UNCHANGED outside, NEW f \in Files, Watch(f)
  PROVE  IInv'
<1>1. /\ pc = "watch" /\ idx = f /\ NextFile("watch")
      /\ UNCHANGED <<fp, from, out, skipped, early, absent, last, header, size, tmp, evChange,
                     action, queue>>
  BY DEF Watch, At, files, printed, behind
<1>2. /\ idx' \in Files
      /\ \/ idx < NumFiles /\ idx' = idx + 1 /\ pc' = "watch"
         \/ idx = NumFiles /\ idx' = 1 /\ pc' \in {"wait", "check", "show"}
  BY <1>1, NextFileFacts, AfterFacts DEF IInv, Types
<1>3. /\ ev' \in [Files -> [wd : Inodes \cup {None}, armed : BOOLEAN]]
      /\ ev'[f].armed => fp[f] # NoFile
      /\ \A g \in Files : g # f => ev'[g] = ev[g]
      /\ watches \subseteq watches' /\ watches' \subseteq Inodes
  <2>1. CASE fp[f] = NoFile /\ ev' = [ev EXCEPT ![f].armed = FALSE] /\ UNCHANGED watches
    BY <2>1 DEF IInv, Types
  <2>2. CASE /\ fp[f] # NoFile /\ dir[f] # None
             /\ ev' = [ev EXCEPT ![f] = [wd |-> dir[f], armed |-> TRUE]]
             /\ watches' = watches \cup {dir[f]}
    <3>1. dir[f] \in Inodes /\ ev \in [Files -> [wd : Inodes \cup {None}, armed : BOOLEAN]]
          /\ watches \subseteq Inodes
      BY <2>2 DEF IInv, Types
    <3> QED BY <2>2, <3>1
  <2> QED BY <2>1, <2>2 DEF Watch
<1>4. queue' \in Seq([ino : watches', kind : {"modify", "move"}])
  <2>1. queue \in Seq([ino : watches, kind : {"modify", "move"}])
    BY DEF IInv, Types
  <2>2. [ino : watches, kind : {"modify", "move"}] \subseteq [ino : watches', kind : {"modify", "move"}]
    BY <1>3
  <2> QED BY <1>1, <2>1, <2>2, SeqMonotonic
<1>5. Types'
  <2>1. tmp' \in Inodes \cup {None} /\ evChange' \in BOOLEAN /\ size' \in [Files -> Nat]
        /\ action' \in {"USE_SLEEP", "USE_INOTIFY"}
    BY <1>1 DEF IInv, Types
  <2>2. pc' \in {"open", "forward", "exit", "killed"} \cup Following
    BY <1>2 DEF Following
  <2> QED BY <1>1, <1>2, <1>3, <1>4, <2>1, <2>2, QuietTypes
<1>6. Started'
  <2>1. \A i \in Files : fp[i].ino # None => from[i][fp[i].ino] # Never
    BY <1>1 DEF IInv, Started, Following
  <2> QED BY <1>1, <1>2, <2>1 DEF Started, outside, inodes
<1>7. Headed'
  BY <1>1, <1>2 DEF IInv, Headed, Following
<1>8. Watching'
  <2>1. \A g \in Files : g < idx /\ ev[g].armed => fp[g].ino # None
    BY <1>1 DEF IInv, Watching, Armed
  <2>2. ev'[f].armed => fp[f].ino # None
    BY <1>3 DEF IInv, Types
  <2>3. \A g \in Files : g =< idx /\ ev'[g].armed => fp[g].ino # None
    BY <1>1, <1>3, <2>1, <2>2, FilesFacts
  <2> QED BY <1>1, <1>2, <2>3, FilesFacts DEF Watching, Armed
<1> QED BY <1>1, <1>2, <1>5, <1>6, <1>7, <1>8, QuietStep, QuietOwned DEF IInv

\* set_events() before its second loop.
LEMMA SetEventsStep ==
  ASSUME IInv, UNCHANGED outside, SetEvents
  PROVE  IInv'
<1>1. /\ pc = "events" /\ idx' = idx
      /\ UNCHANGED <<fp, from, out, skipped, early, absent, last, header, size, tmp, evChange,
                     ev, watches, queue>>
      /\ action' \in {"USE_SLEEP", "USE_INOTIFY"}
      /\ \/ pc' = "watch"
         \/ pc' \in {"wait", "check", "show"} /\ action' = "USE_SLEEP"
  BY AfterFacts DEF SetEvents, files, printed, behind
<1>2. Types'
  <2>1. /\ tmp' \in Inodes \cup {None} /\ evChange' \in BOOLEAN /\ size' \in [Files -> Nat]
        /\ idx' \in Files /\ watches' \subseteq Inodes
        /\ ev' \in [Files -> [wd : Inodes \cup {None}, armed : BOOLEAN]]
        /\ queue' \in Seq([ino : watches', kind : {"modify", "move"}])
    BY <1>1 DEF IInv, Types
  <2>2. pc' \in {"open", "forward", "exit", "killed"} \cup Following
    BY <1>1 DEF Following
  <2> QED BY <1>1, <2>1, <2>2, QuietTypes
<1>3. Started'
  <2>1. \A i \in Files : fp[i].ino # None => from[i][fp[i].ino] # Never
    BY <1>1 DEF IInv, Started, Following
  <2> QED BY <1>1, <2>1 DEF Started, outside, inodes
<1>4. Headed'
  BY <1>1 DEF IInv, Headed, Following
<1>5. Watching'
  <2>1. idx = 1
    BY <1>1 DEF IInv, Started
  <2>2. pc' = "watch" => \A f \in Files : ~(f < idx')
    BY <1>1, <2>1, FilesFacts
  <2>3. action' = "USE_INOTIFY" => pc' = "watch"
    BY <1>1
  <2>4. pc' # "reposition"
    BY <1>1
  <2> QED BY <2>2, <2>3, <2>4 DEF Watching
<1> QED BY <1>1, <1>2, <1>3, <1>4, <1>5, QuietStep, QuietOwned DEF IInv

\* The wait goes by: usleep(), or poll() with its timeout.
LEMMA TurnStep ==
  ASSUME IInv, UNCHANGED outside, pc = "wait", Turn,
         UNCHANGED <<fp, from, out, skipped, early, absent, last, header, tmp, ev, action, watches>>,
         size' \in [Files -> Nat], queue' \in Seq([ino : watches, kind : {"modify", "move"}])
  PROVE  IInv'
<1>1. idx' = 1 /\ pc' \in {"check", "show"} /\ evChange' = FALSE
  BY AfterFacts DEF Turn
<1>2. Types'
  <2>1. /\ tmp' \in Inodes \cup {None} /\ evChange' \in BOOLEAN
        /\ idx' \in Files /\ watches' \subseteq Inodes
        /\ action' \in {"USE_SLEEP", "USE_INOTIFY"}
        /\ ev' \in [Files -> [wd : Inodes \cup {None}, armed : BOOLEAN]]
        /\ queue' \in Seq([ino : watches', kind : {"modify", "move"}])
    BY <1>1, FilesFacts DEF IInv, Types
  <2>2. pc' \in {"open", "forward", "exit", "killed"} \cup Following
    BY <1>1 DEF Following
  <2> QED BY <1>1, <2>1, <2>2, QuietTypes
<1>3. Started'
  <2>1. \A i \in Files : fp[i].ino # None => from[i][fp[i].ino] # Never
    BY DEF IInv, Started, Following
  <2> QED BY <1>1, <2>1 DEF Started, outside, inodes
<1>4. Headed'
  BY <1>1 DEF IInv, Headed, Following
<1>5. Watching'
  BY <1>1 DEF IInv, Watching, Armed
<1> QED BY <1>1, <1>2, <1>3, <1>4, <1>5, QuietStep, QuietOwned DEF IInv

LEMMA PauseStep ==
  ASSUME IInv, UNCHANGED outside, Pause
  PROVE  IInv'
<1>1. /\ pc = "wait" /\ Turn
      /\ UNCHANGED <<fp, from, out, skipped, early, absent, last, header, tmp, ev, action, watches,
                     size, queue>>
  BY DEF Pause, notify, printed, behind
<1>2. size' \in [Files -> Nat] /\ queue' \in Seq([ino : watches, kind : {"modify", "move"}])
  BY <1>1 DEF IInv, Types
<1> QED BY <1>1, <1>2, TurnStep

\* The event that is taken off the queue.
LEMMA TakeEventFacts ==
  ASSUME IInv, TakeEvent
  PROVE  /\ pc = "wait" /\ action = "USE_INOTIFY"
         /\ UNCHANGED <<fp, from, out, skipped, early, absent, last, header, tmp, ev, action, watches>>
         /\ queue' \in Seq([ino : watches, kind : {"modify", "move"}])
<1>1. queue \in Seq([ino : watches, kind : {"modify", "move"}]) /\ queue # <<>>
  BY DEF TakeEvent, IInv, Types
<1>2. Tail(queue) \in Seq([ino : watches, kind : {"modify", "move"}])
  BY <1>1
<1> QED BY <1>2 DEF TakeEvent, printed, behind

LEMMA IgnoreEventStep ==
  ASSUME IInv, UNCHANGED outside, IgnoreEvent
  PROVE  IInv'
<1>1. TakeEvent /\ Turn /\ UNCHANGED size
  BY DEF IgnoreEvent
<1>2. size' \in [Files -> Nat]
  BY <1>1 DEF IInv, Types
<1> QED BY <1>1, <1>2, TakeEventFacts, TurnStep

\* fstat(): nothing to do, or to the lseek().
LEMMA StatSourceStep ==
  ASSUME IInv, UNCHANGED outside, StatSource
  PROVE  IInv'
<1>1. TakeEvent
  BY DEF StatSource
<1>2. PICK f \in Files :
        /\ ev[f].armed
        /\ size' = [size EXCEPT ![f] = Len(content[fp[f].ino])]
        /\ IF AllIsOk(f) THEN Turn
           ELSE pc' = "reposition" /\ idx' = f /\ UNCHANGED evChange
  <2>1. PICK f \in SourcesOf(Head(queue).ino) :
          /\ size' = [size EXCEPT ![f] = Len(content[fp[f].ino])]
          /\ IF AllIsOk(f) THEN Turn
             ELSE pc' = "reposition" /\ idx' = f /\ UNCHANGED evChange
    BY DEF StatSource
  <2>2. f \in Files /\ ev[f] = [wd |-> Head(queue).ino, armed |-> TRUE]
    BY DEF SourcesOf
  <2>3. ev[f].armed
    BY <2>2
  <2> QED BY <2>1, <2>2, <2>3
<1>3. \A g \in Files : Armed(g)
  BY <1>1, TakeEventFacts DEF IInv, Watching
<1>4. fp[f].ino \in Inodes
  BY <1>2, <1>3 DEF Armed, IInv, Types, Descriptor
<1>5. content[fp[f].ino] \in Seq(Nat)
  BY <1>4 DEF IInv, Types
<1>6. size' \in [Files -> Nat] /\ size'[f] = Len(content[fp[f].ino])
  BY <1>2, <1>5 DEF IInv, Types
<1>7. CASE AllIsOk(f)
  BY <1>1, <1>2, <1>6, <1>7, TakeEventFacts, TurnStep
<1>8. CASE ~AllIsOk(f)
  <2>1. pc' = "reposition" /\ idx' = f /\ UNCHANGED evChange
    BY <1>2, <1>8
  <2>2. size'[f] <= fp[f].pos
    BY <1>4, <1>5, <1>6, <1>8 DEF AllIsOk, IInv, Types, Descriptor
  <2>3. Types'
    <3>1. /\ tmp' \in Inodes \cup {None} /\ evChange' \in BOOLEAN
          /\ idx' \in Files /\ watches' \subseteq Inodes
          /\ action' \in {"USE_SLEEP", "USE_INOTIFY"}
          /\ ev' \in [Files -> [wd : Inodes \cup {None}, armed : BOOLEAN]]
          /\ queue' \in Seq([ino : watches', kind : {"modify", "move"}])
      BY <1>1, <2>1, TakeEventFacts DEF IInv, Types
    <3>2. pc' \in {"open", "forward", "exit", "killed"} \cup Following
      BY <2>1 DEF Following
    <3> QED BY <1>1, <1>6, <3>1, <3>2, TakeEventFacts, QuietTypes
  <2>4. Started'
    <3>1. \A i \in Files : fp[i].ino # None => from[i][fp[i].ino] # Never
      BY <1>1, TakeEventFacts DEF IInv, Started, Following
    <3> QED BY <1>1, <2>1, <3>1, TakeEventFacts DEF Started, outside, inodes
  <2>5. Headed'
    BY <1>1, <2>1, TakeEventFacts DEF IInv, Headed, Following
  <2>6. Watching'
    BY <1>1, <1>3, <1>4, <2>1, <2>2, TakeEventFacts, FilesFacts DEF Watching, Armed
  <2> QED BY <1>1, <2>1, <2>3, <2>4, <2>5, <2>6, TakeEventFacts, QuietStep, QuietOwned DEF IInv
<1> QED BY <1>7, <1>8

\* A name that is still there is opened again, to be compared.
LEMMA OpenNameStep ==
  ASSUME IInv, UNCHANGED outside, NEW f \in Files, OpenName(f)
  PROVE  IInv'
<1>1. /\ pc = "check" /\ idx = f /\ fp[f] # NoFile /\ dir[f] # None
      /\ tmp' = dir[f] /\ pc' = "compare" /\ idx' = idx
      /\ UNCHANGED <<fp, from, out, skipped, early, absent, last, header, size, evChange, ev,
                     action, watches, queue>>
  BY DEF OpenName, At, notify, printed, behind
<1>2. dir[f] \in Inodes /\ fp[f].ino \in Inodes
  BY <1>1 DEF IInv, Types, Descriptor
<1>3. Types'
  <2>1. /\ tmp' \in Inodes \cup {None} /\ evChange' \in BOOLEAN
        /\ idx' \in Files /\ watches' \subseteq Inodes /\ size' \in [Files -> Nat]
        /\ action' \in {"USE_SLEEP", "USE_INOTIFY"}
        /\ ev' \in [Files -> [wd : Inodes \cup {None}, armed : BOOLEAN]]
        /\ queue' \in Seq([ino : watches', kind : {"modify", "move"}])
    BY <1>1, <1>2 DEF IInv, Types
  <2>2. pc' \in {"open", "forward", "exit", "killed"} \cup Following
    BY <1>1 DEF Following
  <2> QED BY <1>1, <2>1, <2>2, QuietTypes
<1>4. Owned'
  <2>1. \A g \in Files, ino \in Inodes : Holds(g, ino)' => Holds(g, ino)
    BY <1>1 DEF Holds, outside, names
  <2> QED BY <2>1 DEF Owned, IInv, outside, names
<1>5. Compared'
  <2>1. tmp' # fp[f].ino /\ tmp' \notin bad => from[f][tmp'] = Never
    BY <1>1, <1>2 DEF IInv, Left
  <2> QED BY <1>1, <1>2, <2>1, FilesFacts DEF Compared, outside, inodes, names
<1>6. Started'
  <2>1. \A i \in Files : fp[i].ino # None => from[i][fp[i].ino] # Never
    BY <1>1 DEF IInv, Started, Following
  <2> QED BY <1>1, <2>1 DEF Started, outside, inodes
<1>7. Headed'
  BY <1>1 DEF IInv, Headed, Following
<1>8. Watching'
  BY <1>1 DEF IInv, Watching, Armed
<1> QED BY <1>1, <1>3, <1>4, <1>5, <1>6, <1>7, <1>8, QuietStep DEF IInv

\* The end.
LEMMA DieStep ==
  ASSUME IInv, UNCHANGED outside, NEW f \in Files, Die(f)
  PROVE  IInv'
<1>1. /\ pc' \in {"killed", "exit"} /\ idx' = idx
      /\ UNCHANGED <<fp, from, out, skipped, early, absent, last, header, size, tmp, evChange, ev,
                     action, watches, queue>>
  BY DEF Die, files, notify, printed, behind
<1>2. Types'
  <2>1. /\ tmp' \in Inodes \cup {None} /\ evChange' \in BOOLEAN /\ size' \in [Files -> Nat]
        /\ idx' \in Files /\ watches' \subseteq Inodes
        /\ action' \in {"USE_SLEEP", "USE_INOTIFY"}
        /\ ev' \in [Files -> [wd : Inodes \cup {None}, armed : BOOLEAN]]
        /\ queue' \in Seq([ino : watches', kind : {"modify", "move"}])
    BY <1>1 DEF IInv, Types
  <2> QED BY <1>1, <2>1, QuietTypes
<1>3. Started' /\ Headed' /\ Watching'
  BY <1>1 DEF Started, Headed, Watching, Following
<1> QED BY <1>1, <1>2, <1>3, QuietStep, QuietOwned DEF IInv

\* main() opens the files.
LEMMA OpenFileStep ==
  ASSUME IInv, UNCHANGED outside, NEW f \in Files, OpenFile(f)
  PROVE  IInv'
<1>1. /\ pc = "open" /\ idx = f /\ NextFile("open")
      /\ fp' = [fp EXCEPT ![f] = IF dir[f] = None THEN NoFile ELSE Opened(dir[f])]
      /\ size' = [size EXCEPT ![f] = IF dir[f] = None THEN 0 ELSE Len(content[dir[f]])]
      /\ absent' = (IF dir[f] = None THEN absent \cup {f} ELSE absent)
      /\ UNCHANGED <<from, out, skipped, early, last, header, tmp, evChange, ev,
                     action, watches, queue>>
  BY DEF OpenFile, At, notify, printed
<1>2. /\ idx' \in Files
      /\ \/ idx < NumFiles /\ idx' = idx + 1 /\ pc' = "open"
         \/ idx = NumFiles /\ idx' = 1 /\ pc' = "forward"
  BY <1>1, NextFileFacts, AfterFacts DEF IInv, Types
<1>3. /\ fp \in [Files -> Descriptor] /\ size \in [Files -> Nat]
      /\ dir \in [Files -> Inodes \cup {None}] /\ absent \subseteq Files
      /\ \A ino \in Inodes : content[ino] \in Seq(Nat)
  BY DEF IInv, Types
<1>4. fp' \in [Files -> Descriptor] /\ size' \in [Files -> Nat] /\ absent' \subseteq Files
  BY <1>1, <1>3 DEF Descriptor, NoFile, Opened
<1>5. /\ fp'[f] = (IF dir[f] = None THEN NoFile ELSE Opened(dir[f]))
      /\ fp'[f].ino = dir[f] /\ fp'[f].pos = 0 /\ ~fp'[f].eof
      /\ dir[f] = None => fp'[f] = NoFile /\ f \in absent'
      /\ size'[f] = (IF dir[f] = None THEN 0 ELSE Len(content[dir[f]]))
      /\ \A g \in Files : g # f => fp'[g] = fp[g] /\ size'[g] = size[g]
      /\ absent \subseteq absent'
  BY <1>1, <1>3 DEF NoFile, Opened
<1>6. \A g \in Files, ino \in Inodes : from[g][ino] = Never
  BY <1>1 DEF IInv, Started
<1>7. Len(out) = 0
  <2>1. out \in Seq(Line)
    BY DEF IInv, Types
  <2>2. \A k \in 1 .. Len(out) : out[k].file \in Files /\ out[k].ino \in Inodes
    <3>1. \A k \in 1 .. Len(out) : out[k] \in Line
      BY <2>1
    <3> QED BY <3>1 DEF Line
  <2> QED BY <1>6, <2>1, <2>2 DEF IInv, Sound
<1>8. Types'
  <2>1. \A g \in Files : fp'[g].ino = None => fp'[g] = NoFile
    BY <1>5 DEF IInv, Types
  <2>2. pc' \in {"open", "forward"}
    BY <1>2
  <2> QED BY <1>1, <1>2, <1>4, <2>1, <2>2 DEF IInv, Types, outside, inodes, names
<1>9. ContentRight' /\ Sound' /\ InOrderOnce'
  BY <1>1 DEF IInv, ContentRight, Sound, InOrderOnce, outside, inodes, names
<1>10. Owned'
  <2>1. \A g \in Files, ino \in Inodes : Holds(g, ino)' => Holds(g, ino)
    BY <1>1, <1>2, <1>5 DEF Holds, outside, names
  <2> QED BY <2>1 DEF Owned, IInv, outside, names
<1>11. Started'
  <2>1. \A g \in Files : g < idx' /\ fp'[g].ino = None => g \in absent'
    BY <1>1, <1>2, <1>3, <1>5, FilesFacts DEF IInv, Started
  <2>2. pc' = "forward" => \A g \in Files : fp'[g].ino = None => g \in absent'
    BY <1>1, <1>2, <1>3, <1>5, FilesFacts DEF IInv, Started
  <2>3. \A g \in Files : fp'[g].ino \notin cut \cup {None} => size'[g] <= written[fp'[g].ino]
    <3>1. dir[f] \notin cut \cup {None} => Len(content[dir[f]]) = written[dir[f]]
                                            /\ written[dir[f]] \in Nat
      BY <1>3 DEF IInv, ContentRight, Types
    <3> QED BY <1>1, <1>5, <3>1 DEF IInv, Started
  <2>4. \A g \in Files : pc' = "forward" => ~(g < idx')
    BY <1>2, FilesFacts
  <2> QED BY <1>1, <1>2, <1>6, <2>1, <2>2, <2>3, <2>4 DEF Started, outside, inodes, Following
<1>12. Left' /\ Compared' /\ NoGap' /\ RotationComplete'
  <2>1. Left' /\ Compared'
    BY <1>1, <1>2, <1>6 DEF Left, Compared
  <2>2. NoGap'
    BY <1>1, <1>4, <1>6 DEF NoGap, Descriptor
  <2>3. RotationComplete'
    BY <1>1, <1>6 DEF RotationComplete
  <2> QED BY <2>1, <2>2, <2>3
<1>13. Positions'
  <2>1. dir[f] # None => written[dir[f]] \in Nat
    BY <1>3 DEF IInv, Types
  <2> QED BY <1>1, <1>5, <2>1 DEF Positions, IInv, outside, inodes
<1>14. Ahead' /\ HeaderRight'
  BY <1>1, <1>7 DEF Ahead, HeaderRight, IInv, Types
<1>15. Headed' /\ Watching'
  BY <1>1, <1>2, <1>5 DEF IInv, Headed, Watching, Following
<1> QED BY <1>8, <1>9, <1>10, <1>11, <1>12, <1>13, <1>14, <1>15 DEF IInv

\* lseek(SEEK_END): what is jumped over is noted.
LEMMA RepositionStep ==
  ASSUME IInv, UNCHANGED outside, NEW f \in Files, Reposition(f)
  PROVE  /\ IInv'
         /\ \A e \in skipped' \ skipped : e[2] \in cut \/ e[3] > size[e[1]]
<1> DEFINE ino == fp[f].ino
           start == IF fp[f].pos <= Len(content[ino]) THEN fp[f].pos ELSE 0
           over == Rest(ino, start)
<1>1. /\ pc = "reposition" /\ idx = f
      /\ fp' = [fp EXCEPT ![f].pos = Len(content[ino])]
      /\ skipped' = skipped \cup {<<f, ino, over[k]>> : k \in 1 .. Len(over)}
      /\ idx' = 1 /\ pc' \in {"check", "show"} /\ evChange' = FALSE
      /\ UNCHANGED <<from, out, early, absent, last, header, size, tmp, ev, action, watches, queue>>
  BY AfterFacts DEF Reposition, At, Turn, notify, printed
<1>2. /\ fp \in [Files -> Descriptor] /\ size \in [Files -> Nat]
      /\ content \in [Inodes -> Seq(Nat)] /\ written \in [Inodes -> Nat]
      /\ skipped \subseteq Files \X Inodes \X Nat
  BY DEF IInv, Types
<1>3. /\ ino \in Inodes /\ (ino \notin cut => size[f] <= fp[f].pos)
      /\ action = "USE_INOTIFY" /\ \A g \in Files : Armed(g)
  BY <1>1, <1>2 DEF IInv, Watching, Descriptor
<1>4. content[ino] \in Seq(Nat) /\ Len(content[ino]) \in Nat /\ fp[f].pos \in Nat /\ start \in Nat
  BY <1>2, <1>3 DEF Descriptor
<1>5. /\ fp' \in [Files -> Descriptor]
      /\ fp'[f].ino = ino /\ fp'[f].pos = Len(content[ino]) /\ fp'[f].eof = fp[f].eof
      /\ \A g \in Files : g # f => fp'[g] = fp[g]
      /\ \A g \in Files : fp'[g].ino = fp[g].ino
  BY <1>1, <1>2, <1>4 DEF Descriptor
<1>6. /\ over \in Seq(Nat)
      /\ Len(over) = (IF start < Len(content[ino]) THEN Len(content[ino]) - start ELSE 0)
      /\ \A k \in 1 .. Len(over) : over[k] = content[ino][start + k]
  BY <1>2, <1>3, <1>4, RestFacts
<1>7. ino \notin cut => /\ Len(content[ino]) = written[ino]
                        /\ start = fp[f].pos
                        /\ \A k \in 1 .. Len(over) : over[k] = start + k
  <2> SUFFICES ASSUME ino \notin cut
               PROVE  /\ Len(content[ino]) = written[ino]
                      /\ start = fp[f].pos
                      /\ \A k \in 1 .. Len(over) : over[k] = start + k
    OBVIOUS
  <2>1. /\ Len(content[ino]) = written[ino]
        /\ \A k \in 1 .. Len(content[ino]) : content[ino][k] = k
    BY <1>3 DEF IInv, ContentRight
  <2>2. fp[f].pos <= written[ino]
    BY <1>3, FilesFacts DEF IInv, Positions
  <2>3. start = fp[f].pos
    BY <2>1, <2>2
  <2> HIDE DEF over, start
  <2>4. \A k \in 1 .. Len(over) : start + k \in 1 .. Len(content[ino])
    BY <1>4, <1>6
  <2> QED BY <1>6, <2>1, <2>3, <2>4
<1> HIDE DEF over, start
<1>8. ASSUME NEW e \in skipped' \ skipped PROVE e[2] \in cut \/ e[3] > size[e[1]]
  <2>1. PICK k \in 1 .. Len(over) : e = <<f, ino, over[k]>>
    BY <1>1
  <2>2. e[1] = f /\ e[2] = ino /\ e[3] = over[k]
    BY <2>1
  <2>3. size[f] \in Nat /\ k \in Nat /\ k >= 1
    BY <1>2, <1>6
  <2> QED BY <1>3, <1>4, <1>7, <2>2, <2>3
<1>9. Types'
  <2>1. skipped' \subseteq Files \X Inodes \X Nat
    BY <1>1, <1>2, <1>3, <1>6
  <2>2. \A g \in Files : fp'[g].ino = None => fp'[g] = NoFile
    <3>1. \A g \in Files : fp[g].ino = None => fp[g] = NoFile
      BY DEF IInv, Types
    <3> QED BY <1>3, <1>5, <3>1, FilesFacts
  <2>3. pc' \in Following /\ idx' \in Files /\ evChange' \in BOOLEAN
    BY <1>1, FilesFacts DEF Following
  <2> QED BY <1>1, <1>5, <2>1, <2>2, <2>3 DEF IInv, Types, outside, inodes, names
<1>10. ContentRight' /\ Sound' /\ InOrderOnce' /\ HeaderRight'
  BY <1>1 DEF IInv, ContentRight, Sound, InOrderOnce, HeaderRight, outside, inodes, names
<1>11. Owned' /\ Left' /\ Compared'
  <2>1. \A g \in Files, i \in Inodes : Holds(g, i)' => Holds(g, i)
    BY <1>1, <1>5 DEF Holds, outside, names
  <2>2. Left'
    BY <1>1, <1>5 DEF Left, IInv, outside, inodes, names
  <2> QED BY <1>1, <2>1, <2>2 DEF Owned, Compared, IInv, outside, names
<1>12. Started'
  <2>1. \A i \in Files : fp'[i].ino # None => from[i][fp'[i].ino] # Never
    BY <1>1, <1>5 DEF IInv, Started, Following
  <2> QED BY <1>1, <2>1 DEF Started, outside, inodes
<1>13. Positions'
  <2>1. ino \notin cut => fp'[f].pos = written[ino]
    BY <1>5, <1>7
  <2>2. \A g \in Files : fp[g].ino # None => written[fp[g].ino] \in Nat
    BY <1>2 DEF Descriptor
  <2> QED BY <1>1, <1>5, <2>1, <2>2 DEF Positions, IInv, outside, inodes
<1>14. Ahead'
  <2>1. \A p \in fp'[f].pos + 1 .. Len(content[ino]) : FALSE
    BY <1>4, <1>5
  <2> QED BY SMTT(30), <1>1, <1>5, <2>1 DEF Ahead, IInv, outside, inodes
<1>15. \A g \in Files, i \in Inodes, l \in Nat : Accounted(g, i, l) => Accounted(g, i, l)'
  BY <1>1 DEF Accounted, IsPrinted
<1>16. NoGap'
  <2> SUFFICES ASSUME NEW g \in Files, NEW i \in Inodes, fp[g].ino = i, i \notin cut,
                      from[g][i] # Never, NEW l \in from[g][i] + 1 .. fp'[g].pos
               PROVE  Accounted(g, i, l)'
    <3>1. \A g \in Files : fp[g].ino \in Inodes \cup {None}
      BY <1>2 DEF Descriptor
    <3> QED BY <1>1, <1>5, <3>1 DEF NoGap, outside
  <2>1. from[g][i] \in Nat /\ l \in Nat /\ l >= from[g][i] + 1 /\ l <= fp'[g].pos
    <3>1. from[g][i] \in Nat
      BY DEF IInv, Types, Never
    <3>2. fp'[g].pos \in Nat
      BY <1>5 DEF Descriptor
    <3> QED BY <3>1, <3>2
  <2>2. l <= fp[g].pos => Accounted(g, i, l)
    <3>1. fp[g].pos \in Nat /\ i # None
      BY <1>2, FilesFacts DEF Descriptor
    <3> QED BY <2>1, <3>1 DEF NoGap, IInv
  <2>3. CASE g # f \/ l <= fp[f].pos
    BY <1>5, <1>15, <2>1, <2>2, <2>3
  <2>4. CASE g = f /\ l > fp[f].pos
    <3>1. i = ino /\ start = fp[f].pos /\ l <= Len(content[ino])
      BY <1>5, <1>7, <2>1, <2>4
    <3>2. l - start \in 1 .. Len(over)
      <4>1. start \in Nat /\ Len(content[ino]) \in Nat /\ l > start
        BY <1>4, <2>4, <3>1
      <4>2. Len(over) = Len(content[ino]) - start
        BY <1>6, <2>1, <3>1, <4>1
      <4> HIDE DEF ino
      <4> QED BY <2>1, <3>1, <4>1, <4>2
    <3>3. over[l - start] = l
      BY SMTT(30), <1>4, <1>7, <2>1, <3>1, <3>2
    <3>4. <<f, ino, l>> \in skipped'
      BY <1>1, <3>2, <3>3
    <3> QED BY <2>4, <3>1, <3>4 DEF Accounted
  <2> QED BY <1>4, <2>1, <2>3, <2>4
<1>17. RotationComplete'
  <2> SUFFICES ASSUME NEW g \in Files, NEW i \in Inodes, from[g][i] # Never, fp[g].ino # i,
                      i \notin cut \cup bad \cup early,
                      NEW l \in from[g][i] + 1 .. moved[i]
               PROVE  Accounted(g, i, l)'
    BY <1>1, <1>5 DEF RotationComplete, outside, inodes, names
  <2>1. l \in Nat
    BY DEF IInv, Types, Never
  <2> QED BY <1>15, <2>1 DEF RotationComplete, IInv
<1>18. Headed'
  BY <1>1 DEF IInv, Headed, Following
<1>19. Watching'
  BY <1>1, <1>3, <1>5 DEF Watching, Armed
<1> QED
  BY <1>8, <1>9, <1>10, <1>11, <1>12, <1>13, <1>14, <1>16, <1>17, <1>18, <1>19 DEF IInv

-----------------------------------------------------------------------------
(* The steps of tail that print                                            *)

\* Nothing new is printed of any inode but ino, under any name but f.
PrintsOnly(f, ino) ==
  \A k \in 1 .. Len(out') :
    out'[k].file # f \/ out'[k].ino # ino => k \in 1 .. Len(out) /\ out'[k] = out[k]

\* What any of them does to the output: lines of an inode, from a position on.
LEMMA PrintStep ==
  ASSUME IInv, UNCHANGED outside,
         NEW f \in Files, NEW ino \in Inodes, NEW pos \in Nat,
         NEW lines \in {<<>>, Rest(ino, pos)}, NEW under \in Files \cup {None},
         out' = out \o Printed(f, ino, lines, under),
         lines # <<>> /\ ino \notin unlinked =>
           \A k \in 1 .. Len(out) :
             out[k].file = f /\ out[k].ino = ino =>
               \A p \in pos + 1 .. Len(content[ino]) : out[k].line < content[ino][p],
         lines # <<>> /\ NumFiles > 1 /\ under # f => f = NumFiles /\ NumFiles \in absent,
         from'[f][ino] # Never,
         \A g \in Files, i \in Inodes : from[g][i] # Never => from'[g][i] # Never,
         UNCHANGED <<absent, skipped>>
  PROVE  /\ out' \in Seq(Line) /\ Len(out) <= Len(out')
         /\ \A k \in 1 .. Len(out) : out'[k] = out[k]
         /\ PrintsOnly(f, ino)
         /\ \A g \in Files, i \in Inodes, l \in Nat : Accounted(g, i, l) => Accounted(g, i, l)'
         /\ lines # <<>> =>
              \A p \in pos + 1 .. Len(content[ino]) : IsPrinted(f, ino, content[ino][p])'
         /\ Sound' /\ InOrderOnce' /\ HeaderRight'
<1>1. /\ content \in [Inodes -> Seq(Nat)] /\ written \in [Inodes -> Nat] /\ out \in Seq(Line)
  BY DEF IInv, Types
<1>2. content[ino] \in Seq(Nat) /\ Len(content[ino]) \in Nat /\ Len(out) \in Nat
  BY <1>1
<1>3. /\ lines \in Seq(Nat)
      /\ \A k \in 1 .. Len(lines) :
           pos + k \in pos + 1 .. Len(content[ino]) /\ lines[k] = content[ino][pos + k]
      /\ lines # <<>> => \A p \in pos + 1 .. Len(content[ino]) : p - pos \in 1 .. Len(lines)
  <2>1. CASE lines = <<>>
    BY <2>1
  <2>2. CASE lines = Rest(ino, pos)
    <3>1. /\ lines \in Seq(Nat)
          /\ Len(lines) = (IF pos < Len(content[ino]) THEN Len(content[ino]) - pos ELSE 0)
          /\ \A k \in 1 .. Len(lines) : lines[k] = content[ino][pos + k]
      BY <1>1, <2>2, RestFacts
    <3>2. \A k \in 1 .. Len(lines) : pos + k \in pos + 1 .. Len(content[ino])
      BY <1>2, <3>1
    <3>3. \A p \in pos + 1 .. Len(content[ino]) : p - pos \in 1 .. Len(lines)
      BY <1>2, <3>1
    <3> QED BY <3>1, <3>2, <3>3
  <2> QED BY <2>1, <2>2
<1>4. /\ out' \in Seq(Line) /\ Len(out') = Len(out) + Len(lines)
      /\ \A k \in 1 .. Len(out) : out'[k] = out[k]
      /\ \A k \in 1 .. Len(lines) :
           out'[Len(out) + k] = [file |-> f, ino |-> ino, line |-> lines[k], under |-> under]
  BY <1>1, <1>3, PrintedFacts
<1>5. Len(lines) \in Nat /\ Len(out') \in Nat
  BY <1>3, <1>4
<1>6. \A k \in Len(out) + 1 .. Len(out') :
        /\ out'[k].file = f /\ out'[k].ino = ino /\ out'[k].under = under
        /\ k - Len(out) \in 1 .. Len(lines) /\ lines # <<>>
        /\ pos + (k - Len(out)) \in pos + 1 .. Len(content[ino])
        /\ out'[k].line = content[ino][pos + (k - Len(out))]
  <2> SUFFICES ASSUME NEW k \in Len(out) + 1 .. Len(out')
               PROVE  /\ out'[k].file = f /\ out'[k].ino = ino /\ out'[k].under = under
                      /\ k - Len(out) \in 1 .. Len(lines) /\ lines # <<>>
                      /\ pos + (k - Len(out)) \in pos + 1 .. Len(content[ino])
                      /\ out'[k].line = content[ino][pos + (k - Len(out))]
    OBVIOUS
  <2>1. k - Len(out) \in 1 .. Len(lines) /\ Len(out) + (k - Len(out)) = k
    BY <1>2, <1>4, <1>5
  <2>2. lines # <<>>
    BY <2>1
  <2>3. out'[k] = [file |-> f, ino |-> ino, line |-> lines[k - Len(out)], under |-> under]
    BY <1>4, <2>1
  <2> QED BY <1>3, <2>1, <2>2, <2>3
<1>7. \A k \in 1 .. Len(out') : k \in 1 .. Len(out) \/ k \in Len(out) + 1 .. Len(out')
  BY <1>2, <1>5
<1>8. \A g \in Files, i \in Inodes, l \in Nat : Accounted(g, i, l) => Accounted(g, i, l)'
  <2>1. \A k \in DOMAIN out : k \in DOMAIN out' /\ out'[k] = out[k]
    BY <1>1, <1>4, <1>5
  <2> QED BY <2>1 DEF Accounted, IsPrinted
<1>9. lines # <<>> => \A p \in pos + 1 .. Len(content[ino]) : IsPrinted(f, ino, content[ino][p])'
  <2> SUFFICES ASSUME lines # <<>>, NEW p \in pos + 1 .. Len(content[ino])
               PROVE  \E k \in DOMAIN out' : /\ out'[k].file = f /\ out'[k].ino = ino
                                             /\ out'[k].line = content[ino][p]
    BY DEF IsPrinted, outside, inodes
  <2> DEFINE k == Len(out) + (p - pos)
  <2>1. p - pos \in 1 .. Len(lines) /\ pos + (p - pos) = p
    BY <1>2, <1>3
  <2>2. k \in DOMAIN out'
    BY <1>2, <1>4, <1>5, <2>1
  <2>3. out'[k] = [file |-> f, ino |-> ino, line |-> lines[p - pos], under |-> under]
    BY <1>4, <2>1
  <2>4. lines[p - pos] = content[ino][p]
    BY <1>3, <2>1
  <2>5. out'[k].file = f /\ out'[k].ino = ino /\ out'[k].line = content[ino][p]
    BY <2>3, <2>4
  <2> HIDE DEF k
  <2> QED BY <2>2, <2>5
<1>10. \A k \in 1 .. Len(out) : out[k].file \in Files /\ out[k].ino \in Inodes /\ out[k].line \in Nat
  <2>1. \A k \in 1 .. Len(out) : out[k] \in Line
    BY <1>1
  <2> QED BY <2>1 DEF Line
<1>11. Sound'
  <2> SUFFICES ASSUME NEW k \in 1 .. Len(out')
               PROVE  /\ from'[out'[k].file][out'[k].ino] # Never
                      /\ out'[k].line <= written[out'[k].ino]
    BY DEF Sound, outside, inodes
  <2>1. CASE k \in 1 .. Len(out)
    BY <1>4, <1>10, <2>1 DEF IInv, Sound
  <2>2. CASE k \in Len(out) + 1 .. Len(out')
    <3>1. PICK p \in pos + 1 .. Len(content[ino]) : out'[k].line = content[ino][p]
      BY <1>6, <2>2
    <3>2. p \in 1 .. Len(content[ino])
      BY <1>2
    <3>3. content[ino][p] \in 1 .. written[ino]
      BY <3>2 DEF IInv, ContentRight
    <3> QED BY SMTT(30), <1>1, <1>6, <2>2, <3>1, <3>3
  <2> QED BY <1>7, <2>1, <2>2
<1>12. InOrderOnce'
  <2> SUFFICES ASSUME NEW j \in 1 .. Len(out'), NEW k \in 1 .. Len(out'), j < k,
                      out'[j].file = out'[k].file, out'[j].ino = out'[k].ino,
                      out'[j].ino \notin unlinked
               PROVE  out'[j].line < out'[k].line
    <3>1. DOMAIN out' = 1 .. Len(out')
      BY <1>4
    <3> QED BY <3>1 DEF InOrderOnce, outside, inodes
  <2>1. CASE j \in 1 .. Len(out) /\ k \in 1 .. Len(out)
    <3>1. DOMAIN out = 1 .. Len(out)
      BY <1>1
    <3> QED BY <1>4, <2>1, <3>1 DEF IInv, InOrderOnce
  <2>2. CASE j \in 1 .. Len(out) /\ k \in Len(out) + 1 .. Len(out')
    <3>1. out[j].file = f /\ out[j].ino = ino /\ ino \notin unlinked
      BY <1>4, <1>6, <2>2
    <3> QED BY <1>4, <1>6, <2>2, <3>1
  <2>3. CASE j \in Len(out) + 1 .. Len(out') /\ k \in Len(out) + 1 .. Len(out')
    <3> DEFINE p == pos + (j - Len(out))
               q == pos + (k - Len(out))
    <3>1. out'[j].line = content[ino][p] /\ out'[k].line = content[ino][q]
      BY <1>6, <2>3
    <3>2. p \in 1 .. Len(content[ino]) /\ q \in 1 .. Len(content[ino]) /\ p < q
      <4>1. p \in pos + 1 .. Len(content[ino]) /\ q \in pos + 1 .. Len(content[ino])
        BY <1>6, <2>3
      <4>2. j - Len(out) < k - Len(out) /\ j - Len(out) \in Int /\ k - Len(out) \in Int
        BY <1>2, <1>5
      <4>3. p < q
        BY <4>2
      <4> HIDE DEF p, q
      <4> QED BY <1>2, <4>1, <4>3
    <3> HIDE DEF p, q
    <3>3. content[ino][p] < content[ino][q]
      BY <3>2 DEF IInv, ContentRight
    <3> QED BY <3>1, <3>3
  <2>4. CASE j \in Len(out) + 1 .. Len(out') /\ k \in 1 .. Len(out)
    BY <1>2, <1>5, <2>4
  <2> QED BY <1>7, <2>1, <2>2, <2>3, <2>4
<1>13. HeaderRight'
  <2> SUFFICES ASSUME NEW k \in 1 .. Len(out'), NumFiles > 1, out'[k].under # out'[k].file
               PROVE  out'[k].file = NumFiles /\ NumFiles \in absent
    <3>1. DOMAIN out' = 1 .. Len(out')
      BY <1>4
    <3> QED BY <3>1 DEF HeaderRight
  <2>1. CASE k \in 1 .. Len(out)
    <3>1. DOMAIN out = 1 .. Len(out)
      BY <1>1
    <3> QED BY <1>4, <2>1, <3>1 DEF IInv, HeaderRight
  <2>2. CASE k \in Len(out) + 1 .. Len(out')
    BY <1>6, <2>2
  <2> QED BY <1>7, <2>1, <2>2
<1>14. PrintsOnly(f, ino)
  BY <1>4, <1>6, <1>7 DEF PrintsOnly
<1>15. Len(out) <= Len(out')
  BY <1>2, <1>3, <1>4, <1>5
<1> QED BY <1>4, <1>8, <1>9, <1>11, <1>12, <1>13, <1>14, <1>15, Zenon

\* What show() does to the file with inode ino; pos is where it comes to.
Shows(f, ino, pos) ==
  /\ ino \in Inodes /\ pos \in Nat /\ pos >= fp[f].pos
  /\ Sound' /\ InOrderOnce' /\ HeaderRight'
  /\ out' \in Seq(Line) /\ last' \in Files /\ header' \in Files \cup {None}
  /\ early' \subseteq early /\ early \subseteq early' \cup {ino}
  /\ fp[f].eof => early' = early
  /\ \A g \in Files, i \in Inodes, l \in Nat : Accounted(g, i, l) => Accounted(g, i, l)'
  /\ PrintsOnly(f, ino)
  /\ ino \notin cut => /\ pos <= written[ino]
                       /\ \A l \in from[f][ino] + 1 .. pos : Accounted(f, ino, l)'
                       /\ ino \notin early' \cup bad => pos = written[ino]
  /\ ino \notin bad \cup unlinked =>
       \A k \in 1 .. Len(out') : out'[k].file = f /\ out'[k].ino = ino =>
         \A p \in pos + 1 .. Len(content[ino]) : out'[k].line < content[ino][p]
  /\ NumFiles > 1 => last' = header' \/ (last' = NumFiles /\ NumFiles \in absent)

\* show() prints the rest of its file, unless it has met the end of the file
\* before or cannot read it; afterwards nothing of it is ahead.
LEMMA ShowOne ==
  ASSUME IInv, UNCHANGED outside, pc \in Following, NEW f \in Files, fp[f] # NoFile, Show(f),
         \A g \in Files, i \in Inodes : from[g][i] # Never => from'[g][i] # Never,
         UNCHANGED <<absent, skipped>>
  PROVE  Shows(f, fp[f].ino, fp[f].pos + Len(Lines(f)))
<1>0. PICK ino, pos : ino = fp[f].ino /\ pos = fp[f].pos + Len(Lines(f))
  OBVIOUS
<1> DEFINE lines == Lines(f)
           old == fp[f].pos
<1>1. /\ content \in [Inodes -> Seq(Nat)] /\ written \in [Inodes -> Nat] /\ out \in Seq(Line)
      /\ fp \in [Files -> Descriptor] /\ from \in [Files -> [Inodes -> Nat \cup {Never}]]
      /\ last \in Files /\ header \in Files \cup {None}
      /\ fp[f].ino = None => fp[f] = NoFile
  BY DEF IInv, Types
<1>2. ino \in Inodes /\ ino # None /\ old \in Nat /\ fp[f].eof \in BOOLEAN
  BY <1>0, <1>1, FilesFacts DEF Descriptor
<1>3. content[ino] \in Seq(Nat) /\ Len(content[ino]) \in Nat /\ written[ino] \in Nat
  BY <1>1, <1>2
<1>4. /\ lines = (IF fp[f].eof \/ ino \in bad THEN <<>> ELSE Rest(ino, old))
      /\ out' = out \o Printed(f, ino, lines, header')
      /\ header' = (IF lines # <<>> /\ last # f /\ NumFiles > 1 THEN f ELSE header)
      /\ last' = (IF lines # <<>> /\ last # f /\ NumFiles > 1 THEN f ELSE last)
      /\ early' = (IF fp[f].eof THEN early ELSE early \ {ino})
      /\ pos = old + Len(lines) /\ old = fp[f].pos
  BY <1>0 DEF Show, Lines, HeaderDue, LastShown
<1> HIDE DEF lines, old
<1>5. /\ Len(Rest(ino, old)) = (IF old < Len(content[ino]) THEN Len(content[ino]) - old ELSE 0)
      /\ Rest(ino, old) \in Seq(Nat)
  BY <1>1, <1>2, RestFacts
<1>6. /\ Len(lines) \in Nat /\ pos \in Nat /\ pos >= old
      /\ lines = <<>> => pos = old
      /\ lines # <<>> => old < Len(content[ino]) /\ pos = Len(content[ino])
  <2>1. CASE lines = <<>>
    BY <1>2, <1>4, <2>1
  <2>2. CASE lines = Rest(ino, old) /\ lines # <<>>
    <3>1. Len(lines) \in Nat /\ Len(lines) # 0
      BY <1>5, <2>2
    <3>2. old < Len(content[ino]) /\ Len(lines) = Len(content[ino]) - old
      BY <1>5, <2>2, <3>1
    <3>3. pos = Len(content[ino])
      <4>1. pos = old + Len(lines) /\ old \in Nat
        BY <1>2, <1>4
      <4> QED BY <1>3, <3>2, <4>1
    <3> QED BY <1>2, <1>3, <2>2, <3>1, <3>2, <3>3
  <2> QED BY <1>4, <2>1, <2>2
<1>7. last' \in Files /\ header' \in Files \cup {None}
  BY <1>1, <1>4
<1>8. NumFiles > 1 => last = header \/ (last = NumFiles /\ NumFiles \in absent)
  BY DEF IInv, Headed
<1>9. NumFiles > 1 => last' = header' \/ (last' = NumFiles /\ NumFiles \in absent)
  BY <1>4, <1>8
<1>10. lines # <<>> /\ NumFiles > 1 /\ header' # f => f = NumFiles /\ NumFiles \in absent
  BY <1>4, <1>8
<1>11. from[f][ino] # Never
  BY <1>0, <1>2 DEF IInv, Started
<1>12. lines # <<>> /\ ino \notin unlinked =>
         \A k \in 1 .. Len(out) :
           out[k].file = f /\ out[k].ino = ino =>
             \A p \in old + 1 .. Len(content[ino]) : out[k].line < content[ino][p]
  <2> SUFFICES ASSUME lines # <<>>, ino \notin unlinked,
                      NEW k \in 1 .. Len(out), out[k].file = f, out[k].ino = ino,
                      NEW p \in old + 1 .. Len(content[ino])
               PROVE  out[k].line < content[ino][p]
    OBVIOUS
  <2>1. ino \notin bad
    BY <1>4
  <2> QED BY <1>0, <1>4, <2>1 DEF IInv, Ahead
<1>13. /\ out' \in Seq(Line) /\ Len(out) <= Len(out')
       /\ \A k \in 1 .. Len(out) : out'[k] = out[k]
       /\ PrintsOnly(f, ino)
       /\ \A g \in Files, i \in Inodes, l \in Nat : Accounted(g, i, l) => Accounted(g, i, l)'
       /\ lines # <<>> =>
            \A p \in old + 1 .. Len(content[ino]) : IsPrinted(f, ino, content[ino][p])'
       /\ Sound' /\ InOrderOnce' /\ HeaderRight'
  <2>1. lines \in {<<>>, Rest(ino, old)} /\ from'[f][ino] # Never
    BY <1>2, <1>4, <1>11
  <2>2. out' = out \o Printed(f, ino, lines, header') /\ old \in Nat /\ ino \in Inodes
    BY <1>2, <1>4
  <2>4. from'[f][ino] # Never
    BY <2>1
  <2>5. UNCHANGED <<absent, skipped>>
    OBVIOUS
  <2>6. header' \in Files \cup {None}
    BY <1>7
  <2>7. lines \in {<<>>, Rest(ino, old)}
    BY <2>1
  <2> QED BY <1>10, <1>12, <2>2, <2>4, <2>5, <2>6, <2>7, PrintStep, ZenonT(40)
<1>14. Len(out) \in Nat /\ Len(out') \in Nat
  BY <1>1, <1>13
<1>15. ino \notin cut =>
         /\ Len(content[ino]) = written[ino] /\ old <= written[ino] /\ pos <= written[ino]
         /\ \A k \in 1 .. Len(content[ino]) : content[ino][k] = k
         /\ fp[f].eof /\ ino \notin early => old = written[ino]
  <2> SUFFICES ASSUME ino \notin cut
               PROVE  /\ Len(content[ino]) = written[ino] /\ old <= written[ino] /\ pos <= written[ino]
                      /\ \A k \in 1 .. Len(content[ino]) : content[ino][k] = k
                      /\ fp[f].eof /\ ino \notin early => old = written[ino]
    OBVIOUS
  <2>1. /\ Len(content[ino]) = written[ino]
        /\ \A k \in 1 .. Len(content[ino]) : content[ino][k] = k
    BY <1>2 DEF IInv, ContentRight
  <2>2. old <= written[ino] /\ (fp[f].eof /\ ino \notin early => old = written[ino])
    BY <1>0, <1>2, <1>4 DEF IInv, Positions
  <2>3. pos <= written[ino]
    BY <1>6, <2>1, <2>2
  <2> QED BY <2>1, <2>2, <2>3
<1>16. ino \notin cut => \A l \in from[f][ino] + 1 .. pos : Accounted(f, ino, l)'
  <2> SUFFICES ASSUME ino \notin cut, NEW l \in from[f][ino] + 1 .. pos
               PROVE  Accounted(f, ino, l)'
    OBVIOUS
  <2>1. from[f][ino] \in Nat /\ l \in Nat /\ l > from[f][ino] /\ l <= pos
    BY <1>1, <1>2, <1>6, <1>11 DEF Never
  <2>2. CASE l <= old
    <3>1. l \in from[f][ino] + 1 .. fp[f].pos
      BY <1>2, <1>4, <2>1, <2>2
    <3>2. Accounted(f, ino, l)
      BY <1>0, <1>2, <1>11, <3>1 DEF IInv, NoGap
    <3> QED BY <1>2, <1>13, <2>1, <3>2
  <2>3. CASE l > old
    <3>1. lines # <<>> /\ l \in old + 1 .. Len(content[ino]) /\ content[ino][l] = l
      <4>1. pos # old
        BY <1>2, <1>6, <2>1, <2>3
      <4>2. lines # <<>> /\ pos = Len(content[ino])
        BY <1>6, <4>1
      <4>3. l \in old + 1 .. Len(content[ino]) /\ l \in 1 .. Len(content[ino])
        BY <1>2, <1>3, <2>1, <2>3, <4>2
      <4> QED BY <1>15, <4>2, <4>3
    <3>2. IsPrinted(f, ino, l)'
      BY <1>13, <3>1 DEF outside, inodes
    <3> QED BY <3>2 DEF Accounted
  <2> QED BY <1>2, <2>1, <2>2, <2>3
<1>17. ino \notin cut /\ ino \notin early' \cup bad => pos = written[ino]
  <2> SUFFICES ASSUME ino \notin cut, ino \notin early', ino \notin bad PROVE pos = written[ino]
    OBVIOUS
  <2>1. CASE fp[f].eof
    BY <1>2, <1>3, <1>4, <1>6, <1>15, <2>1
  <2>2. CASE ~fp[f].eof
    <3>1. lines = Rest(ino, old) /\ pos = old + Len(Rest(ino, old))
      BY <1>4, <2>2
    <3> QED BY <1>2, <1>3, <1>5, <1>15, <3>1
  <2> QED BY <2>1, <2>2
<1>18. ASSUME ino \notin bad \cup unlinked, NEW k \in 1 .. Len(out'),
              out'[k].file = f, out'[k].ino = ino, NEW p \in pos + 1 .. Len(content[ino])
       PROVE  out'[k].line < content[ino][p]
  <2>1. lines = <<>> /\ pos = old
    BY <1>3, <1>6
  <2>2. k \in 1 .. Len(out)
    <3>1. CASE k \in Len(out) + 1 .. Len(out')
      <4>1. out' = out \o Printed(f, ino, <<>>, header')
        BY <1>4, <2>1
      <4>2. Len(out') = Len(out) + Len(<<>>)
        <5>1. <<>> \in Seq(Nat)
          OBVIOUS
        <5> QED BY <1>1, <1>2, <1>7, <4>1, <5>1, PrintedFacts
      <4> QED BY <1>14, <3>1, <4>2
    <3> QED BY <1>14, <3>1
  <2>3. out'[k] = out[k] /\ fp[f].pos = pos
    BY <1>4, <1>13, <2>1, <2>2
  <2>4. out[k].file = f /\ out[k].ino = fp[f].ino /\ p \in fp[f].pos + 1 .. Len(content[fp[f].ino])
    BY <1>0, <1>18, <2>3
  <2>5. out[k].line < content[fp[f].ino][p]
    BY <1>0, <1>18, <2>2, <2>4 DEF IInv, Ahead
  <2> QED BY <1>0, <2>3, <2>5
<1>19. /\ early' \subseteq early /\ early \subseteq early' \cup {ino}
       /\ fp[f].eof => early' = early
  BY <1>4
<1>20. /\ pos >= fp[f].pos
       /\ ino \notin bad \cup unlinked =>
            \A k \in 1 .. Len(out') : out'[k].file = f /\ out'[k].ino = ino =>
              \A p \in pos + 1 .. Len(content[ino]) : out'[k].line < content[ino][p]
  BY <1>4, <1>6, <1>18
<1>21. ino \notin cut => pos <= written[ino]
  BY <1>15
<1>22. Shows(f, ino, pos)
  BY <1>2, <1>6, <1>7, <1>9, <1>13, <1>16, <1>17, <1>19, <1>20, <1>21, Zenon DEF Shows
<1> QED BY <1>0, <1>22

\* The same, for the inode and the position it comes to.
LEMMA ShowFacts ==
  ASSUME IInv, UNCHANGED outside, pc \in Following, NEW f \in Files, fp[f] # NoFile, Show(f),
         \A g \in Files, i \in Inodes : from[g][i] # Never => from'[g][i] # Never,
         UNCHANGED <<absent, skipped>>,
         NEW ino, ino = fp[f].ino, NEW pos, pos = fp[f].pos + Len(Lines(f))
  PROVE  Shows(f, ino, pos)
BY ShowOne

\* The other files, and the inodes that tail has left, after a show().
LEMMA ShowOthers ==
  ASSUME IInv, UNCHANGED outside, pc \in Following, NEW f \in Files, fp[f] # NoFile, Show(f),
         \A g \in Files, i \in Inodes : from[g][i] # Never => from'[g][i] # Never,
         UNCHANGED <<absent, skipped>>
  PROVE  /\ \A g \in Files, i \in Inodes :
              from[g][i] # Never /\ (fp[g].ino # i \/ g = f) /\ i \notin cut \cup bad \cup early' =>
                \A l \in from[g][i] + 1 .. moved[i] : Accounted(g, i, l)'
         /\ \A g \in Files : g # f /\ fp[g].ino \notin cut \cup {None} =>
              /\ fp[g].pos <= written[fp[g].ino]
              /\ fp[g].eof /\ fp[g].ino \notin early' => fp[g].pos = written[fp[g].ino]
         /\ \A g \in Files, i \in Inodes :
              g # f /\ fp[g].ino = i /\ i \notin cut /\ from[g][i] # Never =>
                \A l \in from[g][i] + 1 .. fp[g].pos : Accounted(g, i, l)'
<1>a. PICK ino, pos : ino = fp[f].ino /\ pos = fp[f].pos + Len(Lines(f))
  OBVIOUS
<1>1. /\ fp \in [Files -> Descriptor] /\ from \in [Files -> [Inodes -> Nat \cup {Never}]]
      /\ moved \in [Inodes -> Nat \cup {Never}]
      /\ written \in [Inodes -> Nat]
  BY DEF IInv, Types
<1>2. /\ ino \in Inodes /\ pos \in Nat
      /\ early \subseteq early' \cup {ino}
      /\ \A g \in Files, i \in Inodes, l \in Nat : Accounted(g, i, l) => Accounted(g, i, l)'
      /\ ino \notin cut => /\ \A l \in from[f][ino] + 1 .. pos : Accounted(f, ino, l)'
                           /\ ino \notin early' \cup bad => pos = written[ino]
  <2>1. Shows(f, ino, pos)
    BY <1>a, ShowFacts, Zenon
  <2> QED BY <2>1 DEF Shows
<1>3. \A g \in Files : g # f => fp[g].ino # ino /\ from[g][ino] = Never
  <2>1. Holds(f, ino)
    BY <1>a DEF Holds
  <2>2. \A g \in Files : Holds(g, ino) => g = f
    BY <1>2, <2>1 DEF IInv, Owned
  <2> QED BY <2>2 DEF Holds
<1>4. ASSUME NEW g \in Files, NEW i \in Inodes, from[g][i] # Never, fp[g].ino # i \/ g = f,
             i \notin cut \cup bad \cup early', NEW l \in from[g][i] + 1 .. moved[i]
      PROVE  Accounted(g, i, l)'
  <2>1. from[g][i] \in Nat /\ moved[i] \in Nat \cup {Never} /\ l \in Nat /\ l <= moved[i]
    <3>1. from[g][i] \in Nat /\ moved[i] \in Nat \cup {Never}
      BY <1>1, <1>4 DEF Never
    <3> QED BY <3>1 DEF Never
  <2>2. CASE g = f /\ i = ino
    <3>1. pos = written[i] /\ moved[i] <= written[i]
      BY <1>2, <1>4, <2>2 DEF IInv, ContentRight
    <3>2. l \in from[g][i] + 1 .. pos
      BY <1>1, <1>2, <2>1, <3>1 DEF Never
    <3>3. ino \notin cut
      BY <1>4, <2>2
    <3>4. \A m \in from[f][ino] + 1 .. pos : Accounted(f, ino, m)'
      BY <1>2, <3>3
    <3> QED BY <2>2, <3>2, <3>4
  <2>3. CASE ~(g = f /\ i = ino)
    <3>1. fp[g].ino # i /\ i # ino
      BY <1>a, <1>3, <1>4, <2>3
    <3>2. i \notin early
      BY <1>2, <1>4, <3>1
    <3>3. Accounted(g, i, l)
      BY <1>4, <3>1, <3>2 DEF IInv, RotationComplete
    <3> QED BY <1>2, <2>1, <3>3
  <2> QED BY <2>2, <2>3
<1>5. ASSUME NEW g \in Files, g # f, fp[g].ino \notin cut \cup {None}
      PROVE  /\ fp[g].pos <= written[fp[g].ino]
             /\ fp[g].eof /\ fp[g].ino \notin early' => fp[g].pos = written[fp[g].ino]
  <2>1. fp[g].ino \notin early' => fp[g].ino \notin early
    BY <1>2, <1>3, <1>5
  <2> QED BY <1>5, <2>1 DEF IInv, Positions
<1>6. ASSUME NEW g \in Files, NEW i \in Inodes, g # f, fp[g].ino = i, i \notin cut, from[g][i] # Never,
             NEW l \in from[g][i] + 1 .. fp[g].pos
      PROVE  Accounted(g, i, l)'
  <2>1. l \in Nat
    <3>1. from[g][i] \in Nat /\ fp[g].pos \in Nat
      BY <1>1, <1>6 DEF Never, Descriptor
    <3> QED BY <3>1
  <2>2. Accounted(g, i, l)
    BY <1>6, FilesFacts DEF IInv, NoGap
  <2> QED BY <1>2, <2>1, <2>2
<1> QED BY <1>4, <1>5, <1>6

\* After show() the descriptor of the file stays, is closed, or is one of
\* the file that has taken the name.
LEMMA ShownStep ==
  ASSUME IInv, UNCHANGED outside, pc \in Following, NEW f \in Files, fp[f] # NoFile, Show(f),
         UNCHANGED <<absent, skipped>>,
         NEW d \in Descriptor, fp' = [fp EXCEPT ![f] = d], ~d.eof,
         d.pos = 0 \/ (d.ino = fp[f].ino /\ d.pos = fp[f].pos + Len(Lines(f))),
         d.ino = fp[f].ino /\ d.pos # fp[f].pos + Len(Lines(f)) => d.ino \in unlinked,
         d.ino # fp[f].ino => dir[f] # fp[f].ino \/ fp[f].ino \in bad,
         d.ino \notin {fp[f].ino, None} \cup bad => from[f][d.ino] = Never,
         \A g \in Files, i \in Inodes :
           from'[g][i] = from[g][i] \/ (g = f /\ i = d.ino /\ from[g][i] = Never /\ from'[g][i] = 0)
  PROVE  /\ ContentRight' /\ Left' /\ Positions' /\ Sound' /\ Ahead'
         /\ NoGap' /\ InOrderOnce' /\ RotationComplete' /\ HeaderRight'
<1>a. PICK ino, pos : ino = fp[f].ino /\ pos = fp[f].pos + Len(Lines(f))
  OBVIOUS
<1>1. /\ fp \in [Files -> Descriptor] /\ from \in [Files -> [Inodes -> Nat \cup {Never}]]
      /\ written \in [Inodes -> Nat] /\ out \in Seq(Line)
  BY DEF IInv, Types
<1>2. \A g \in Files, i \in Inodes : from[g][i] # Never => from'[g][i] # Never
  BY DEF Never
<1>3. /\ ino \in Inodes /\ pos \in Nat
      /\ Sound' /\ InOrderOnce' /\ HeaderRight' /\ out' \in Seq(Line)
      /\ PrintsOnly(f, ino)
      /\ ino \notin cut => /\ pos <= written[ino]
                           /\ \A l \in from[f][ino] + 1 .. pos : Accounted(f, ino, l)'
      /\ ino \notin bad \cup unlinked =>
           \A k \in 1 .. Len(out') : out'[k].file = f /\ out'[k].ino = ino =>
             \A p \in pos + 1 .. Len(content[ino]) : out'[k].line < content[ino][p]
  <2>1. Shows(f, ino, pos)
    BY <1>a, <1>2, ShowFacts, Zenon
  <2> QED BY <2>1 DEF Shows
<1>4. /\ \A g \in Files, i \in Inodes :
           from[g][i] # Never /\ (fp[g].ino # i \/ g = f) /\ i \notin cut \cup bad \cup early' =>
             \A l \in from[g][i] + 1 .. moved[i] : Accounted(g, i, l)'
      /\ \A g \in Files : g # f /\ fp[g].ino \notin cut \cup {None} =>
           /\ fp[g].pos <= written[fp[g].ino]
           /\ fp[g].eof /\ fp[g].ino \notin early' => fp[g].pos = written[fp[g].ino]
      /\ \A g \in Files, i \in Inodes :
           g # f /\ fp[g].ino = i /\ i \notin cut /\ from[g][i] # Never =>
             \A l \in from[g][i] + 1 .. fp[g].pos : Accounted(g, i, l)'
  BY <1>2, ShowOthers
<1>5. /\ fp'[f] = d /\ \A g \in Files : g # f => fp'[g] = fp[g]
      /\ d.ino \in Inodes \cup {None} /\ d.pos \in Nat
      /\ \A g \in Files : fp'[g] \in Descriptor
  BY <1>1 DEF Descriptor
<1>6. ContentRight'
  BY DEF ContentRight, IInv, outside, inodes, names
<1>7. Left'
  <2> SUFFICES ASSUME NEW g \in Files, NEW i \in Inodes, from'[g][i] # Never, fp'[g].ino # i,
                      i \notin bad
               PROVE  dir[g] # i
    BY DEF Left, outside, inodes, names
  <2>1. from[g][i] # Never
    BY <1>5 DEF Never
  <2>2. CASE fp[g].ino # i
    BY <2>1, <2>2 DEF IInv, Left
  <2>3. CASE fp[g].ino = i
    BY <1>5, <2>3
  <2> QED BY <2>2, <2>3
<1>8. Positions'
  <2>1. d.ino \notin cut \cup {None} => d.pos <= written[d.ino]
    <3>1. d.ino # None => written[d.ino] \in Nat
      BY <1>1, <1>5
    <3> QED BY <1>a, <1>3, <1>5, <3>1
  <2> QED BY <1>4, <1>5, <2>1 DEF Positions, outside, inodes
<1>9. Ahead'
  <2> SUFFICES ASSUME NEW g \in Files, NEW k \in 1 .. Len(out'),
                      out'[k].file = g, out'[k].ino = fp'[g].ino, fp'[g].ino \notin bad \cup unlinked,
                      NEW p \in fp'[g].pos + 1 .. Len(content[fp'[g].ino])
               PROVE  out'[k].line < content[fp'[g].ino][p]
    BY DEF Ahead, outside, inodes
  <2>1. CASE g = f /\ d.ino = ino
    BY <1>a, <1>3, <1>5, <2>1
  <2>2. CASE g = f /\ d.ino # ino
    <3>1. k \in 1 .. Len(out) /\ out'[k] = out[k]
      BY <1>3, <1>5, <2>2 DEF PrintsOnly
    <3>2. from[f][d.ino] # Never
      BY <1>5, <2>2, <3>1 DEF IInv, Sound
    <3>3. out[k].ino \in Inodes
      <4>1. out[k] \in Line
        BY <1>1, <3>1
      <4> QED BY <4>1 DEF Line
    <3> QED BY <1>a, <1>5, <2>2, <3>1, <3>2, <3>3, FilesFacts
  <2>3. CASE g # f
    <3>1. k \in 1 .. Len(out) /\ out'[k] = out[k]
      BY <1>3, <2>3 DEF PrintsOnly
    <3> QED BY <1>5, <2>3, <3>1 DEF IInv, Ahead
  <2> QED BY <2>1, <2>2, <2>3
<1>10. NoGap'
  <2> SUFFICES ASSUME NEW g \in Files, NEW i \in Inodes, fp'[g].ino = i, i \notin cut,
                      from'[g][i] # Never, NEW l \in from'[g][i] + 1 .. fp'[g].pos
               PROVE  Accounted(g, i, l)'
    <3>1. \A g \in Files : fp'[g].ino \in Inodes \cup {None}
      BY <1>5 DEF Descriptor
    <3> QED BY <3>1 DEF NoGap, outside
  <2>1. CASE g # f
    <3>1. from'[g][i] = from[g][i] /\ fp'[g] = fp[g]
      BY <1>5, <2>1
    <3> QED BY <1>4, <2>1, <3>1
  <2>2. CASE g = f /\ d.pos = 0
    <3>1. from'[g][i] \in Nat
      BY <1>1 DEF Never
    <3> QED BY <1>5, <2>2, <3>1
  <2>3. CASE g = f /\ d.ino = ino /\ d.pos = pos
    <3>1. from[f][ino] # Never
      <4>1. fp[f].ino # None
        BY <1>a, <1>3, FilesFacts
      <4> QED BY <1>a, <4>1 DEF IInv, Started
    <3>2. from'[g][i] = from[f][ino] /\ i = ino
      BY <1>5, <2>3, <3>1
    <3> QED BY <1>3, <1>5, <2>3, <3>2
  <2> QED BY <1>a, <2>1, <2>2, <2>3
<1>11. RotationComplete'
  <2> SUFFICES ASSUME NEW g \in Files, NEW i \in Inodes, from'[g][i] # Never, fp'[g].ino # i,
                      i \notin cut \cup bad \cup early',
                      NEW l \in from'[g][i] + 1 .. moved[i]
               PROVE  Accounted(g, i, l)'
    BY DEF RotationComplete, outside, inodes, names
  <2>1. from'[g][i] = from[g][i]
    BY <1>5
  <2>2. fp[g].ino # i \/ g = f
    BY <1>5
  <2> QED BY <1>4, <2>1, <2>2
<1> QED BY <1>3, <1>6, <1>7, <1>8, <1>9, <1>10, <1>11

\* show() in the loop over the files.
LEMMA ShowFileStep ==
  ASSUME IInv, UNCHANGED outside, NEW f \in Files, ShowFile(f)
  PROVE  IInv'
<1>a. PICK ino, pos, d :
        /\ ino = fp[f].ino /\ pos = fp[f].pos + Len(Lines(f))
        /\ d = (IF ino \in bad THEN NoFile ELSE [ino |-> ino, pos |-> pos, eof |-> FALSE])
  OBVIOUS
<1>1. /\ pc = "show" /\ idx = f /\ fp[f] # NoFile /\ Show(f) /\ NextFile("show")
      /\ evChange' = (evChange \/ ino \in bad)
      /\ UNCHANGED <<size, tmp, ev, action, watches, queue, skipped, from, absent>>
  BY <1>a DEF ShowFile, At, notify, behind
<1>2. /\ idx' \in Files
      /\ \/ idx < NumFiles /\ idx' = idx + 1 /\ pc' = "show"
         \/ /\ idx = NumFiles /\ idx' = 1
            /\ pc' = (IF evChange' THEN "events" ELSE "wait")
  BY <1>1, NextFileFacts, AfterFacts DEF IInv, Types
<1>3. fp \in [Files -> Descriptor] /\ evChange \in BOOLEAN /\ evChange' \in BOOLEAN
  BY <1>1 DEF IInv, Types
<1>4. Shows(f, ino, pos)
  BY <1>a, <1>1, ShowFacts DEF Following
<1>5. ino \in Inodes /\ pos \in Nat /\ d \in Descriptor /\ ~d.eof
      /\ d.ino = (IF ino \in bad THEN None ELSE ino) /\ d.pos = (IF ino \in bad THEN 0 ELSE pos)
  BY <1>a, <1>4 DEF Shows, Descriptor, NoFile
<1>6. fp' = [fp EXCEPT ![f] = d]
  <2>1. fp[f] \in Descriptor
    BY <1>3
  <2>2. Shown(f) = [ino |-> ino, pos |-> pos, eof |-> FALSE]
    <3>1. PICK old \in Nat, eof \in BOOLEAN : fp[f] = [ino |-> ino, pos |-> old, eof |-> eof]
      BY <1>a, <2>1 DEF Descriptor
    <3>2. pos = old + Len(Lines(f))
      BY <1>a, <3>1
    <3>3. Shown(f) = [fp[f] EXCEPT !.pos = pos, !.eof = FALSE]
      BY <3>1, <3>2 DEF Shown
    <3>4. Shown(f) = [[ino |-> ino, pos |-> old, eof |-> eof] EXCEPT !.pos = pos, !.eof = FALSE]
      BY <3>1, <3>3
    <3> QED BY <3>4
  <2> QED BY <1>a, <2>2 DEF ShowFile
<1>7. /\ ContentRight' /\ Left' /\ Positions' /\ Sound' /\ Ahead'
      /\ NoGap' /\ InOrderOnce' /\ RotationComplete' /\ HeaderRight'
  <2>1. pc \in Following
    BY <1>1 DEF Following
  <2>2. d.ino # ino => ino \in bad /\ d.ino = None
    BY <1>5
  <2>3. d.pos = 0 \/ (d.ino = ino /\ d.pos = pos)
    BY <1>5
  <2>4. d.ino = ino => d.pos = pos
    BY <1>5, FilesFacts
  <2> HIDE <1>a
  <2>5. ino = fp[f].ino /\ pos = fp[f].pos + Len(Lines(f))
    BY <1>a
  <2>6. \A g \in Files, i \in Inodes : from'[g][i] = from[g][i]
    BY <1>1
  <2> QED BY <1>1, <1>5, <1>6, <2>1, <2>2, <2>3, <2>4, <2>5, <2>6, ShownStep
<1>8. /\ fp'[f] = d /\ \A g \in Files : g # f => fp'[g] = fp[g]
      /\ fp' \in [Files -> Descriptor]
      /\ \A g \in Files : fp'[g].ino = fp[g].ino \/ fp'[g].ino = None
      /\ \A g \in Files : fp'[g].ino = None => fp'[g] = NoFile
  <2>1. \A g \in Files : fp[g].ino = None => fp[g] = NoFile
    BY DEF IInv, Types
  <2>2. d.ino = None => d = NoFile
    BY <1>a, <1>5, FilesFacts
  <2>3. fp'[f] = d /\ \A g \in Files : g # f => fp'[g] = fp[g]
    BY <1>3, <1>6
  <2>4. fp' \in [Files -> Descriptor]
    BY <1>3, <1>5, <1>6
  <2>5. d.ino = fp[f].ino \/ d.ino = None
    BY <1>a, <1>5
  <2> QED BY <2>1, <2>2, <2>3, <2>4, <2>5
<1>9. Types'
  <2>1. early' \subseteq Inodes
    BY <1>4 DEF Shows, IInv, Types
  <2>2. pc' \in Following
    BY <1>2 DEF Following
  <2>3. out' \in Seq(Line) /\ last' \in Files /\ header' \in Files \cup {None}
    BY <1>4 DEF Shows
  <2> QED BY <1>1, <1>2, <1>3, <1>8, <2>1, <2>2, <2>3 DEF IInv, Types, outside, inodes, names
<1>10. Owned' /\ Compared'
  <2>1. \A g \in Files, i \in Inodes : Holds(g, i)' => Holds(g, i)
    BY <1>1, <1>2, <1>8, FilesFacts DEF Holds, outside, names
  <2>2. Owned'
    BY <2>1 DEF Owned, IInv, outside, names
  <2> QED BY <1>2, <2>2 DEF Compared
<1>11. Started'
  <2>1. \A g \in Files : fp[g].ino # None => from[g][fp[g].ino] # Never
    BY <1>1 DEF IInv, Started, Following
  <2>2. \A g \in Files : fp'[g].ino # None => from'[g][fp'[g].ino] # Never
    BY <1>1, <1>8, <2>1
  <2> QED BY <1>2, <2>2 DEF Started
<1>12. Headed'
  BY <1>1, <1>2, <1>4 DEF Shows, Headed
<1>13. Watching'
  <2>1. ~evChange' => \A g \in Files : fp'[g].ino = fp[g].ino
    BY <1>a, <1>1, <1>5, <1>8
  <2> QED BY <1>1, <1>2, <1>3, <2>1 DEF IInv, Watching, Armed
<1> QED BY <1>7, <1>9, <1>10, <1>11, <1>12, <1>13 DEF IInv

\* A descriptor is closed because its name is gone.
LEMMA CloseNameStep ==
  ASSUME IInv, UNCHANGED outside, NEW f \in Files, CheckName(f), fp[f] # NoFile
  PROVE  IInv'
<1>a. PICK ino, pos : ino = fp[f].ino /\ pos = fp[f].pos + Len(Lines(f))
  OBVIOUS
<1>1. /\ pc = "check" /\ idx = f /\ dir[f] = None /\ Show(f) /\ NextFile("check")
      /\ fp' = [fp EXCEPT ![f] = NoFile] /\ evChange' = TRUE
      /\ UNCHANGED <<size, tmp, ev, action, watches, queue, skipped, from, absent>>
  BY DEF CheckName, LastLook, At, notify
<1>2. /\ idx' \in Files
      /\ \/ idx < NumFiles /\ idx' = idx + 1 /\ pc' = "check"
         \/ idx = NumFiles /\ idx' = 1 /\ pc' = "show"
  BY <1>1, NextFileFacts, AfterFacts DEF IInv, Types
<1>3. Shows(f, ino, pos)
  BY <1>a, <1>1, ShowFacts DEF Following
<1>4. fp \in [Files -> Descriptor] /\ NoFile \in Descriptor
  BY DEF IInv, Types, Descriptor, NoFile
<1>5. /\ ContentRight' /\ Left' /\ Positions' /\ Sound' /\ Ahead'
      /\ NoGap' /\ InOrderOnce' /\ RotationComplete' /\ HeaderRight'
  <2>1. PICK d : d = NoFile
    OBVIOUS
  <2>2. d \in Descriptor /\ ~d.eof /\ d.pos = 0 /\ d.ino = None
    BY <1>4, <2>1 DEF NoFile
  <2>3. ino \in Inodes /\ ino # None
    BY <1>3, FilesFacts DEF Shows
  <2>4. pc \in Following
    BY <1>1 DEF Following
  <2>5. fp' = [fp EXCEPT ![f] = d]
    BY <1>1, <2>1
  <2>6. \A g \in Files, i \in Inodes : from'[g][i] = from[g][i]
    BY <1>1
  <2> QED BY <1>a, <1>1, <2>2, <2>3, <2>4, <2>5, <2>6, ShownStep
<1>6. /\ fp'[f] = NoFile /\ fp'[f].ino = None
      /\ \A g \in Files : g # f => fp'[g] = fp[g]
      /\ fp' \in [Files -> Descriptor]
      /\ \A g \in Files : fp'[g].ino = fp[g].ino \/ fp'[g].ino = None
  BY <1>1, <1>4 DEF NoFile
<1>7. Types'
  <2>1. early' \subseteq Inodes
    BY <1>3 DEF Shows, IInv, Types
  <2>2. pc' \in Following /\ evChange' \in BOOLEAN
    BY <1>1, <1>2 DEF Following
  <2>3. out' \in Seq(Line) /\ last' \in Files /\ header' \in Files \cup {None}
    BY <1>3 DEF Shows
  <2>4. \A g \in Files : fp'[g].ino = None => fp'[g] = NoFile
    BY <1>6 DEF IInv, Types
  <2> QED BY <1>1, <1>2, <1>6, <2>1, <2>2, <2>3, <2>4 DEF IInv, Types, outside, inodes, names
<1>8. Owned' /\ Compared'
  <2>1. \A g \in Files, i \in Inodes : Holds(g, i)' => Holds(g, i)
    BY <1>1, <1>2, <1>6, FilesFacts DEF Holds, outside, names
  <2>2. Owned'
    BY <2>1 DEF Owned, IInv, outside, names
  <2> QED BY <1>2, <2>2 DEF Compared
<1>9. Started'
  <2>1. \A g \in Files : fp[g].ino # None => from[g][fp[g].ino] # Never
    BY <1>1 DEF IInv, Started, Following
  <2>2. \A g \in Files : fp'[g].ino # None => from'[g][fp'[g].ino] # Never
    BY <1>1, <1>6, <2>1
  <2> QED BY <1>2, <2>2 DEF Started
<1>10. Headed'
  BY <1>1, <1>2, <1>3 DEF Shows, Headed
<1>11. Watching'
  BY <1>1, <1>2 DEF Watching
<1> QED BY <1>5, <1>7, <1>8, <1>9, <1>10, <1>11 DEF IInv

\* A name that has appeared is opened.
LEMMA FirstOpenStep ==
  ASSUME IInv, UNCHANGED outside, NEW f \in Files, CheckName(f), fp[f] = NoFile
  PROVE  IInv'
<1>a. PICK ino : ino = dir[f]
  OBVIOUS
<1>1. /\ pc = "check" /\ idx = f /\ ino # None /\ NextFile("check")
      /\ fp' = [fp EXCEPT ![f] = Opened(ino)] /\ FirstRead(f, ino, 0) /\ evChange' = TRUE
      /\ UNCHANGED <<size, tmp, ev, action, watches, queue, out, last, header, early, skipped, absent>>
  BY <1>a DEF CheckName, At, notify, printed
<1>2. /\ idx' \in Files
      /\ \/ idx < NumFiles /\ idx' = idx + 1 /\ pc' = "check"
         \/ idx = NumFiles /\ idx' = 1 /\ pc' = "show"
  BY <1>1, NextFileFacts, AfterFacts DEF IInv, Types
<1>3. /\ fp \in [Files -> Descriptor] /\ from \in [Files -> [Inodes -> Nat \cup {Never}]]
      /\ ino \in Inodes /\ written \in [Inodes -> Nat] /\ out \in Seq(Line)
      /\ moved \in [Inodes -> Nat \cup {Never}]
  BY <1>a, <1>1 DEF IInv, Types
<1>4. /\ fp' \in [Files -> Descriptor]
      /\ fp'[f].ino = ino /\ fp'[f].pos = 0 /\ ~fp'[f].eof /\ fp[f].ino = None
      /\ \A g \in Files : g # f => fp'[g] = fp[g]
  BY <1>1, <1>3 DEF Descriptor, Opened, NoFile
<1>5. /\ from' \in [Files -> [Inodes -> Nat \cup {Never}]]
      /\ from'[f][ino] = (IF from[f][ino] = Never THEN 0 ELSE from[f][ino])
      /\ from'[f][ino] # Never /\ from'[f][ino] \in Nat
      /\ \A g \in Files, i \in Inodes : g # f \/ i # ino => from'[g][i] = from[g][i]
  BY <1>1, <1>3, FirstReadFacts DEF Never
<1>6. ino \notin bad => from[f][ino] = Never
  BY <1>a, <1>3, <1>4, FilesFacts DEF IInv, Left
<1>7. Types'
  <2>1. pc' \in Following /\ evChange' \in BOOLEAN
    BY <1>1, <1>2 DEF Following
  <2>2. \A g \in Files : fp'[g].ino = None => fp'[g] = NoFile
    BY <1>1, <1>4 DEF IInv, Types
  <2> QED BY <1>1, <1>2, <1>4, <1>5, <2>1, <2>2 DEF IInv, Types, outside, inodes, names
<1>8. ContentRight' /\ InOrderOnce' /\ HeaderRight'
  BY <1>1 DEF IInv, ContentRight, InOrderOnce, HeaderRight, outside, inodes, names
<1>9. Owned' /\ Compared'
  <2>1. \A g \in Files, i \in Inodes : Holds(g, i)' => Holds(g, i)
    BY <1>a, <1>1, <1>2, <1>4, <1>5 DEF Holds, outside, names
  <2>2. Owned'
    BY <2>1 DEF Owned, IInv, outside, names
  <2> QED BY <1>2, <2>2 DEF Compared
<1>10. Started'
  <2>1. \A g \in Files : fp[g].ino # None => from[g][fp[g].ino] # Never
    BY <1>1 DEF IInv, Started, Following
  <2>2. \A g \in Files : fp'[g].ino # None => from'[g][fp'[g].ino] # Never
    <3>1. \A g \in Files : fp[g].ino \in Inodes \cup {None}
      BY <1>3 DEF Descriptor
    <3>2. from'[f][fp'[f].ino] # Never
      BY <1>4, <1>5
    <3>3. ASSUME NEW g \in Files, g # f, fp'[g].ino # None PROVE from'[g][fp'[g].ino] # Never
      <4>1. fp'[g].ino = fp[g].ino /\ fp[g].ino \in Inodes
        BY <1>4, <3>1, <3>3
      <4>2. from'[g][fp[g].ino] = from[g][fp[g].ino]
        BY <1>5, <3>3, <4>1
      <4> QED BY <2>1, <3>3, <4>1, <4>2
    <3> QED BY <3>2, <3>3
  <2> QED BY <1>2, <2>2 DEF Started
<1>11. Left'
  <2> SUFFICES ASSUME NEW g \in Files, NEW i \in Inodes, from'[g][i] # Never, fp'[g].ino # i,
                      i \notin bad
               PROVE  dir[g] # i
    BY DEF Left, outside, inodes, names
  <2>1. from'[g][i] = from[g][i] /\ fp[g].ino # i
    BY <1>4, <1>5, FilesFacts
  <2> QED BY <2>1 DEF IInv, Left
<1>12. Positions'
  <2>1. written[ino] \in Nat
    BY <1>3
  <2> QED BY <1>1, <1>4, <2>1 DEF IInv, Positions, outside, inodes
<1>13. \A k \in 1 .. Len(out) : out[k].file \in Files /\ out[k].ino \in Inodes
  <2>1. \A k \in 1 .. Len(out) : out[k] \in Line
    BY <1>3
  <2> QED BY <2>1 DEF Line
<1>14. Sound'
  <2>1. \A k \in 1 .. Len(out) : from'[out[k].file][out[k].ino] # Never
    BY <1>5, <1>13 DEF IInv, Sound
  <2> QED BY <1>1, <2>1 DEF IInv, Sound, outside, inodes
<1>15. Ahead'
  <2> SUFFICES ASSUME NEW g \in Files, NEW k \in 1 .. Len(out),
                      out[k].file = g, out[k].ino = fp'[g].ino, fp'[g].ino \notin bad \cup unlinked,
                      NEW p \in fp'[g].pos + 1 .. Len(content[fp'[g].ino])
               PROVE  out[k].line < content[fp'[g].ino][p]
    BY <1>1 DEF Ahead, outside, inodes
  <2>1. CASE g = f
    BY <1>4, <1>6, <2>1 DEF IInv, Sound
  <2>2. CASE g # f
    BY <1>4, <2>2 DEF IInv, Ahead
  <2> QED BY <2>1, <2>2
<1>16. \A g \in Files, i \in Inodes, l \in Nat : Accounted(g, i, l) => Accounted(g, i, l)'
  BY <1>1 DEF Accounted, IsPrinted
<1>17. NoGap'
  <2> SUFFICES ASSUME NEW g \in Files, NEW i \in Inodes, fp'[g].ino = i, i \notin cut,
                      from'[g][i] # Never, NEW l \in from'[g][i] + 1 .. fp'[g].pos
               PROVE  Accounted(g, i, l)'
    <3>1. \A g \in Files : fp'[g].ino \in Inodes \cup {None}
      BY <1>4 DEF Descriptor
    <3> QED BY <3>1 DEF NoGap, outside
  <2>1. CASE g # f
    <3>1. from'[g][i] = from[g][i] /\ fp'[g] = fp[g]
      BY <1>4, <1>5, <2>1
    <3>2. l \in Nat
      <4>1. from[g][i] \in Nat /\ fp[g].pos \in Nat
        BY <1>3, <3>1 DEF Never, Descriptor
      <4> QED BY <3>1, <4>1
    <3>3. Accounted(g, i, l)
      BY <3>1, FilesFacts DEF IInv, NoGap
    <3> QED BY <1>16, <3>2, <3>3
  <2>2. CASE g = f
    BY <1>4, <1>5, <2>2
  <2> QED BY <2>1, <2>2
<1>18. RotationComplete'
  <2> SUFFICES ASSUME NEW g \in Files, NEW i \in Inodes, from'[g][i] # Never, fp'[g].ino # i,
                      i \notin cut \cup bad \cup early, NEW l \in from'[g][i] + 1 .. moved[i]
               PROVE  Accounted(g, i, l)'
    BY <1>1 DEF RotationComplete, outside, inodes, names
  <2>1. from'[g][i] = from[g][i] /\ fp[g].ino # i
    BY <1>4, <1>5, FilesFacts
  <2>2. l \in Nat
    <3>1. from[g][i] \in Nat /\ moved[i] \in Int
      BY <1>3, <2>1 DEF Never
    <3> QED BY <2>1, <3>1
  <2>3. Accounted(g, i, l)
    BY <2>1 DEF IInv, RotationComplete
  <2> QED BY <1>16, <2>2, <2>3
<1>19. Headed' /\ Watching'
  BY <1>1, <1>2 DEF IInv, Headed, Watching, Following
<1> QED
  BY <1>7, <1>8, <1>9, <1>10, <1>11, <1>12, <1>14, <1>15, <1>17, <1>18, <1>19 DEF IInv

\* The name still stands for the file.
LEMMA SameNameStep ==
  ASSUME IInv, UNCHANGED outside, NEW f \in Files, CompareName(f), ~Replaced(f)
  PROVE  IInv'
<1>1. /\ pc = "compare" /\ idx = f /\ NextFile("check") /\ tmp' = None
      /\ UNCHANGED <<fp, from, out, last, header, early, evChange, size, ev, action, watches, queue,
                     skipped, absent>>
  BY DEF CompareName, At, notify, printed
<1>2. /\ idx' \in Files
      /\ \/ idx < NumFiles /\ idx' = idx + 1 /\ pc' = "check"
         \/ idx = NumFiles /\ idx' = 1 /\ pc' = "show"
  BY <1>1, NextFileFacts, AfterFacts DEF IInv, Types
<1>3. Types'
  <2>1. /\ tmp' \in Inodes \cup {None} /\ evChange' \in BOOLEAN
        /\ size' \in [Files -> Nat] /\ watches' \subseteq Inodes
        /\ action' \in {"USE_SLEEP", "USE_INOTIFY"}
        /\ ev' \in [Files -> [wd : Inodes \cup {None}, armed : BOOLEAN]]
        /\ queue' \in Seq([ino : watches', kind : {"modify", "move"}])
    BY <1>1 DEF IInv, Types
  <2>2. pc' \in {"open", "forward", "exit", "killed"} \cup Following
    BY <1>2 DEF Following
  <2> QED BY <1>1, <1>2, <2>1, <2>2, QuietTypes
<1>4. Started'
  <2>1. \A i \in Files : fp[i].ino # None => from[i][fp[i].ino] # Never
    BY <1>1 DEF IInv, Started, Following
  <2> QED BY <1>1, <1>2, <2>1 DEF Started
<1>5. Headed'
  BY <1>1, <1>2 DEF IInv, Headed, Following
<1>6. Watching'
  BY <1>1, <1>2 DEF IInv, Watching, Armed
<1> QED BY <1>1, <1>2, <1>3, <1>4, <1>5, <1>6, QuietStep, QuietOwned DEF IInv

\* Another file has taken the name: the old one is printed to its end.
LEMMA ReplacedStep ==
  ASSUME IInv, UNCHANGED outside, NEW f \in Files, CompareName(f), Replaced(f)
  PROVE  IInv'
<1>a. PICK ino, new, pos, d :
        /\ ino = fp[f].ino /\ new = tmp /\ pos = fp[f].pos + Len(Lines(f)) /\ d = Opened(new)
  OBVIOUS
<1>1. /\ pc = "compare" /\ idx = f /\ Show(f) /\ NextFile("check")
      /\ fp' = [fp EXCEPT ![f] = d] /\ FirstRead(f, new, 0) /\ evChange' = TRUE /\ tmp' = None
      /\ UNCHANGED <<size, ev, action, watches, queue, skipped, absent>>
  BY <1>a DEF CompareName, LastLook, At, notify
<1>2. /\ idx' \in Files
      /\ \/ idx < NumFiles /\ idx' = idx + 1 /\ pc' = "check"
         \/ idx = NumFiles /\ idx' = 1 /\ pc' = "show"
  BY <1>1, NextFileFacts, AfterFacts DEF IInv, Types
<1>3. /\ fp \in [Files -> Descriptor] /\ from \in [Files -> [Inodes -> Nat \cup {Never}]]
  BY DEF IInv, Types
<1>4. /\ new \in Inodes /\ fp[f] # NoFile
      /\ new # ino => dir[f] # ino /\ (new \notin bad => from[f][new] = Never)
      /\ new = ino => new \in unlinked
  BY <1>a, <1>1 DEF IInv, Types, Compared, Replaced, NoFile
<1>5. d \in Descriptor /\ d.ino = new /\ d.pos = 0 /\ ~d.eof /\ d.ino # None
  BY <1>a, <1>4, FilesFacts DEF Opened, Descriptor
<1>6. /\ from' \in [Files -> [Inodes -> Nat \cup {Never}]]
      /\ from'[f][new] = (IF from[f][new] = Never THEN 0 ELSE from[f][new])
      /\ from'[f][new] # Never
      /\ \A g \in Files, i \in Inodes : g # f \/ i # new => from'[g][i] = from[g][i]
  BY <1>1, <1>3, <1>4, FirstReadFacts DEF Never
<1>7. \A g \in Files, i \in Inodes :
        from'[g][i] = from[g][i] \/ (g = f /\ i = new /\ from[g][i] = Never /\ from'[g][i] = 0)
  BY <1>6
<1>8. Shows(f, ino, pos)
  <2>1. \A g \in Files, i \in Inodes : from[g][i] # Never => from'[g][i] # Never
    BY <1>7 DEF Never
  <2> QED BY <1>a, <1>1, <1>4, <2>1, ShowFacts DEF Following
<1>9. /\ ContentRight' /\ Left' /\ Positions' /\ Sound' /\ Ahead'
      /\ NoGap' /\ InOrderOnce' /\ RotationComplete' /\ HeaderRight'
  <2>1. pc \in Following
    BY <1>1 DEF Following
  <2>2. \A g \in Files, i \in Inodes :
          from'[g][i] = from[g][i] \/ (g = f /\ i = d.ino /\ from[g][i] = Never /\ from'[g][i] = 0)
    BY <1>5, <1>7
  <2>3. d.ino = ino => d.ino \in unlinked
    BY <1>4, <1>5
  <2>4. d.ino # ino => dir[f] # ino
    BY <1>4, <1>5
  <2>5. d.ino \notin {ino, None} \cup bad => from[f][d.ino] = Never
    BY <1>4, <1>5
  <2> QED BY <1>a, <1>1, <1>4, <1>5, <2>1, <2>2, <2>3, <2>4, <2>5, ShownStep
<1>10. /\ fp' \in [Files -> Descriptor] /\ fp'[f] = d
       /\ \A g \in Files : g # f => fp'[g] = fp[g]
  BY <1>1, <1>3, <1>5
<1>11. Types'
  <2>1. early' \subseteq Inodes
    BY <1>8 DEF Shows, IInv, Types
  <2>2. pc' \in Following /\ evChange' \in BOOLEAN
    BY <1>1, <1>2 DEF Following
  <2>3. out' \in Seq(Line) /\ last' \in Files /\ header' \in Files \cup {None}
    BY <1>8 DEF Shows
  <2>4. \A g \in Files : fp'[g].ino = None => fp'[g] = NoFile
    BY <1>5, <1>10 DEF IInv, Types
  <2>5. tmp' \in Inodes \cup {None}
    BY <1>1
  <2> QED
    BY <1>1, <1>2, <1>6, <1>10, <2>1, <2>2, <2>3, <2>4, <2>5 DEF IInv, Types, outside, inodes, names
<1>12. Owned' /\ Compared'
  <2>1. \A g \in Files, i \in Inodes : Holds(g, i)' => Holds(g, i)
    BY <1>a, <1>1, <1>2, <1>5, <1>6, <1>10 DEF Holds, outside, names
  <2>2. Owned'
    BY <2>1 DEF Owned, IInv, outside, names
  <2> QED BY <1>2, <2>2 DEF Compared
<1>13. Started'
  <2>1. \A g \in Files : fp[g].ino # None => from[g][fp[g].ino] # Never
    BY <1>1 DEF IInv, Started, Following
  <2>2. \A g \in Files : fp'[g].ino # None => from'[g][fp'[g].ino] # Never
    <3>1. from'[f][fp'[f].ino] # Never
      BY <1>5, <1>6, <1>10
    <3>2. ASSUME NEW g \in Files, g # f, fp'[g].ino # None PROVE from'[g][fp'[g].ino] # Never
      <4>1. fp'[g].ino = fp[g].ino /\ fp[g].ino \in Inodes
        BY <1>3, <1>10, <3>2 DEF Descriptor
      <4>2. from'[g][fp[g].ino] = from[g][fp[g].ino]
        BY <1>6, <3>2, <4>1
      <4> QED BY <2>1, <3>2, <4>1, <4>2
    <3> QED BY <3>1, <3>2
  <2> QED BY <1>2, <2>2 DEF Started
<1>14. Headed'
  BY <1>1, <1>2, <1>8 DEF Shows, Headed
<1>15. Watching'
  BY <1>1, <1>2 DEF Watching
<1> QED BY <1>9, <1>11, <1>12, <1>13, <1>14, <1>15 DEF IInv

\* Where forward() starts is in the file, unless somebody truncates it.
LEMMA StartFacts ==
  ASSUME IInv, pc = "forward", NEW f \in Files, NEW ino \in Inodes, fp[f].ino = ino,
         NEW start, start = IF SeekFails(f) THEN 0 ELSE StartAt(f)
  PROVE  start \in Nat /\ (ino \notin cut => start <= written[ino])
<1>1. /\ opt.off \in Nat /\ opt.style \in {"FBYTES", "RBYTES", "FLINES", "RLINES"}
      /\ size[f] \in Nat /\ written[ino] \in Nat
  BY FollowAssumption DEF IInv, Types, Option
<1>2. PICK now : now = Len(content[ino])
  OBVIOUS
<1>3. content[ino] \in Seq(Nat) /\ now \in Nat
  BY <1>2 DEF IInv, Types
<1>4. ino \notin cut => now = written[ino] /\ size[f] <= written[ino]
  BY <1>2, FilesFacts DEF IInv, ContentRight, Started
<1>5. CASE opt.style = "FBYTES"
  BY <1>1, <1>3, <1>4, <1>5 DEF StartAt, SeekFails, Least
<1>6. CASE opt.style = "FLINES"
  BY <1>1, <1>2, <1>3, <1>4, <1>6 DEF StartAt, SeekFails, Least
<1>7. CASE opt.style = "RBYTES"
  BY <1>1, <1>2, <1>3, <1>4, <1>7 DEF StartAt, SeekFails
<1>8. CASE opt.style = "RLINES"
  BY <1>1, <1>2, <1>3, <1>4, <1>8 DEF StartAt, SeekFails, Least
<1> QED BY <1>1, <1>5, <1>6, <1>7, <1>8

\* forward() prints the end of a file.
LEMMA ForwardStep ==
  ASSUME IInv, UNCHANGED outside, NEW f \in Files, Forward(f)
  PROVE  IInv'
<1>a. PICK ino, start, reads :
        /\ ino = fp[f].ino /\ start = (IF SeekFails(f) THEN 0 ELSE StartAt(f))
        /\ reads = (~SeekFails(f) /\ ino \notin bad)
  OBVIOUS
<1>b. PICK lines, pos : lines = (IF reads THEN Rest(ino, start) ELSE <<>>) /\ pos = start + Len(lines)
  OBVIOUS
<1>c. reads \in BOOLEAN
  BY <1>a
<1>1. /\ pc = "forward" /\ idx = f /\ fp[f] # NoFile /\ NextFile("forward")
      /\ header' = (IF NumFiles > 1 THEN f ELSE header)
      /\ out' = out \o Printed(f, ino, lines, header')
      /\ fp' = [fp EXCEPT ![f] = [ino |-> ino, pos |-> pos, eof |-> reads]]
      /\ FirstRead(f, ino, start)
      /\ UNCHANGED <<size, tmp, evChange, ev, action, watches, queue, last, early, skipped, absent>>
  BY <1>a, <1>b DEF Forward, At, notify
<1>2. /\ fp \in [Files -> Descriptor] /\ from \in [Files -> [Inodes -> Nat \cup {Never}]]
      /\ content \in [Inodes -> Seq(Nat)] /\ written \in [Inodes -> Nat] /\ out \in Seq(Line)
      /\ moved \in [Inodes -> Nat \cup {Never}] /\ header \in Files \cup {None}
      /\ idx \in Files /\ \A g \in Files : fp[g].ino = None => fp[g] = NoFile
  BY DEF IInv, Types
<1>3. ino \in Inodes /\ ino # None
  BY <1>a, <1>1, <1>2 DEF Descriptor
<1>4. start \in Nat /\ (ino \notin cut => start <= written[ino])
  BY <1>a, <1>1, <1>3, StartFacts
<1>5. content[ino] \in Seq(Nat) /\ Len(content[ino]) \in Nat
  BY <1>2, <1>3
<1>6. /\ lines \in Seq(Nat) /\ lines \in {<<>>, Rest(ino, start)}
      /\ lines = <<>> => Len(lines) = 0
      /\ reads => Len(lines) =
                    (IF start < Len(content[ino]) THEN Len(content[ino]) - start ELSE 0)
      /\ ~reads => lines = <<>>
  BY <1>b, <1>c, <1>2, <1>3, <1>4, RestFacts
<1>7. Len(lines) \in Nat /\ pos \in Nat
  BY <1>b, <1>4, <1>6
<1>8. reads => pos >= Len(content[ino]) /\ (start < Len(content[ino]) => pos = Len(content[ino]))
  BY <1>b, <1>4, <1>5, <1>6
<1>9. lines = <<>> => pos = start
  BY <1>b, <1>4, <1>6
<1>10. ino \notin cut => /\ Len(content[ino]) = written[ino]
                         /\ \A k \in 1 .. Len(content[ino]) : content[ino][k] = k
  BY <1>3 DEF IInv, ContentRight
<1>11. \A i \in Inodes : from[f][i] = Never
  BY <1>1, FilesFacts DEF IInv, Started
<1>12. \A k \in 1 .. Len(out) : out[k].file \in Files /\ out[k].ino \in Inodes /\ out[k].file # f
  <2>1. \A k \in 1 .. Len(out) : out[k] \in Line
    BY <1>2
  <2>2. \A k \in 1 .. Len(out) : out[k].file \in Files /\ out[k].ino \in Inodes
    BY <2>1 DEF Line
  <2> QED BY <1>11, <2>2 DEF IInv, Sound
<1>13. /\ from' \in [Files -> [Inodes -> Nat \cup {Never}]]
       /\ from'[f][ino] = start /\ from'[f][ino] # Never
       /\ \A g \in Files, i \in Inodes : g # f \/ i # ino => from'[g][i] = from[g][i]
  BY <1>1, <1>2, <1>3, <1>4, <1>11, FirstReadFacts DEF Never
<1>14. /\ fp' \in [Files -> Descriptor]
       /\ fp'[f].ino = ino /\ fp'[f].pos = pos /\ fp'[f].eof = reads
       /\ \A g \in Files : g # f => fp'[g] = fp[g]
       /\ \A g \in Files : fp'[g].ino = fp[g].ino
  BY <1>a, <1>c, <1>1, <1>2, <1>3, <1>7 DEF Descriptor
<1>15. header' \in Files \cup {None} /\ (NumFiles > 1 => header' = f)
  BY <1>1, <1>2
<1>16. /\ out' \in Seq(Line) /\ PrintsOnly(f, ino)
       /\ \A g \in Files, i \in Inodes, l \in Nat : Accounted(g, i, l) => Accounted(g, i, l)'
       /\ lines # <<>> =>
            \A p \in start + 1 .. Len(content[ino]) : IsPrinted(f, ino, content[ino][p])'
       /\ Sound' /\ InOrderOnce' /\ HeaderRight'
  <2>1. \A g \in Files, i \in Inodes : from[g][i] # Never => from'[g][i] # Never
    BY <1>11, <1>13
  <2>2. lines # <<>> /\ ino \notin unlinked =>
          \A k \in 1 .. Len(out) : out[k].file = f /\ out[k].ino = ino =>
            \A p \in start + 1 .. Len(content[ino]) : out[k].line < content[ino][p]
    BY <1>12
  <2>3. lines # <<>> /\ NumFiles > 1 /\ header' # f => f = NumFiles /\ NumFiles \in absent
    BY <1>15
  <2>4. UNCHANGED <<absent, skipped>>
    BY <1>1
  <2>5. out' = out \o Printed(f, ino, lines, header')
    BY <1>1
  <2>6. /\ ino \in Inodes /\ start \in Nat /\ lines \in {<<>>, Rest(ino, start)}
        /\ header' \in Files \cup {None}
    BY <1>3, <1>4, <1>6, <1>15
  <2>7. from'[f][ino] # Never
    BY <1>13
  <2> QED BY <2>1, <2>2, <2>3, <2>4, <2>5, <2>6, <2>7, PrintStep, Zenon
<1>17. /\ idx' \in Files
       /\ \/ idx < NumFiles /\ idx' = idx + 1 /\ pc' = "forward"
          \/ idx = NumFiles /\ idx' = 1 /\ pc' \in {"events", "exit"}
  BY <1>1, <1>2, NextFileFacts, AfterFacts
<1>18. Types'
  <2>1. pc' \in {"open", "forward", "exit", "killed"} \cup Following
    BY <1>17 DEF Following
  <2>2. \A g \in Files : fp'[g].ino = None => fp'[g] = NoFile
    BY <1>2, <1>3, <1>14
  <2> QED BY <1>1, <1>13, <1>14, <1>15, <1>16, <1>17, <2>1, <2>2 DEF IInv, Types, outside, inodes, names
<1>19. ContentRight'
  BY DEF IInv, ContentRight, outside, inodes, names
<1>20. Owned' /\ Compared'
  <2>1. \A g \in Files, i \in Inodes : Holds(g, i)' => Holds(g, i)
    BY <1>a, <1>13, <1>14, <1>17 DEF Holds, outside, names
  <2>2. Owned'
    BY <2>1 DEF Owned, IInv, outside, names
  <2> QED BY <1>17, <2>2 DEF Compared
<1>21. Started'
  <2>1. \A g \in Files, i \in Inodes : g > f => from'[g][i] = Never
    <3> SUFFICES ASSUME NEW g \in Files, NEW i \in Inodes, g > f PROVE from'[g][i] = Never
      OBVIOUS
    <3>1. g >= idx /\ g # f
      BY <1>1, FilesFacts
    <3>2. from[g][i] = Never
      BY <1>1, <3>1 DEF IInv, Started
    <3> QED BY <1>13, <3>1, <3>2
  <2>2. \A g \in Files : g <= f /\ fp'[g].ino # None => from'[g][fp'[g].ino] # Never
    <3>1. ASSUME NEW g \in Files, g <= f, g # f, fp'[g].ino # None
          PROVE  from'[g][fp'[g].ino] # Never
      <4>1. fp'[g].ino = fp[g].ino /\ fp[g].ino \in Inodes
        BY <1>2, <1>14, <3>1 DEF Descriptor
      <4>2. from[g][fp[g].ino] # Never
        BY <1>1, <3>1, <4>1, FilesFacts DEF IInv, Started
      <4> QED BY <1>13, <3>1, <4>1, <4>2
    <3> QED BY <1>13, <1>14, <3>1
  <2>3. \A g \in Files : fp'[g].ino = None => g \in absent
    BY <1>1, <1>14 DEF IInv, Started
  <2>4. \A g \in Files : fp'[g].ino \notin cut \cup {None} => size[g] <= written[fp'[g].ino]
    BY <1>1, <1>14 DEF IInv, Started
  <2>5. CASE idx < NumFiles /\ idx' = idx + 1 /\ pc' = "forward"
    <3>1. \A g \in Files : (g >= idx' => g > f) /\ (g < idx' => g <= f)
      BY <1>1, <2>5, FilesFacts
    <3> QED BY <1>1, <2>1, <2>2, <2>3, <2>4, <2>5, <3>1 DEF Started, Following, outside, inodes
  <2>6. CASE idx = NumFiles /\ idx' = 1 /\ pc' \in {"events", "exit"}
    <3>1. \A g \in Files : g <= f
      BY <1>1, <2>6, FilesFacts
    <3> QED BY <2>2, <2>6, <3>1 DEF Started, Following
  <2> QED BY <1>17, <2>5, <2>6
<1>22. Left'
  <2> SUFFICES ASSUME NEW g \in Files, NEW i \in Inodes, from'[g][i] # Never, fp'[g].ino # i,
                      i \notin bad
               PROVE  dir[g] # i
    BY DEF Left, outside, inodes, names
  <2>1. from'[g][i] = from[g][i] /\ fp[g].ino # i
    BY <1>13, <1>14
  <2> QED BY <2>1 DEF IInv, Left
<1>23. Positions'
  <2>1. ino \notin cut => pos <= written[ino] /\ (reads => pos = written[ino])
    <3> SUFFICES ASSUME ino \notin cut PROVE pos <= written[ino] /\ (reads => pos = written[ino])
      OBVIOUS
    <3>1. written[ino] \in Nat
      BY <1>2, <1>3
    <3>2. CASE reads
      BY <1>b, <1>4, <1>5, <1>6, <1>10, <3>1, <3>2
    <3>3. CASE ~reads
      BY <1>4, <1>6, <1>9, <3>3
    <3> QED BY <3>2, <3>3
  <2> QED BY <1>1, <1>14, <2>1 DEF IInv, Positions, outside, inodes
<1>24. Ahead'
  <2> SUFFICES ASSUME NEW g \in Files, NEW k \in 1 .. Len(out'),
                      out'[k].file = g, out'[k].ino = fp'[g].ino, fp'[g].ino \notin bad \cup unlinked,
                      NEW p \in fp'[g].pos + 1 .. Len(content[fp'[g].ino])
               PROVE  out'[k].line < content[fp'[g].ino][p]
    BY DEF Ahead, outside, inodes
  <2>1. CASE g = f /\ reads
    BY <1>5, <1>7, <1>8, <1>14, <2>1
  <2>2. CASE g = f /\ ~reads
    <3>1. out' = out \o Printed(f, ino, <<>>, header') /\ <<>> \in Seq(Nat)
      BY <1>1, <1>6, <2>2
    <3>2. Len(out') = Len(out) + Len(<<>>) /\ \A j \in 1 .. Len(out) : out'[j] = out[j]
      BY <1>2, <1>3, <1>15, <3>1, PrintedFacts
    <3>3. k \in 1 .. Len(out) /\ out'[k] = out[k]
      BY <1>2, <3>2
    <3> QED BY <1>12, <2>2, <3>3
  <2>3. CASE g # f
    <3>1. k \in 1 .. Len(out) /\ out'[k] = out[k]
      BY <1>16, <2>3 DEF PrintsOnly
    <3> QED BY <1>14, <2>3, <3>1 DEF IInv, Ahead
  <2> QED BY <2>1, <2>2, <2>3
<1>25. NoGap'
  <2> SUFFICES ASSUME NEW g \in Files, NEW i \in Inodes, fp'[g].ino = i, i \notin cut,
                      from'[g][i] # Never, NEW l \in from'[g][i] + 1 .. fp'[g].pos
               PROVE  Accounted(g, i, l)'
    <3>1. \A g \in Files : fp'[g].ino \in Inodes \cup {None}
      BY <1>14 DEF Descriptor
    <3> QED BY <3>1 DEF NoGap, outside
  <2>1. l \in Nat
    <3>1. from'[g][i] \in Nat /\ fp'[g].pos \in Nat
      BY <1>13, <1>14 DEF Never, Descriptor
    <3> QED BY <3>1
  <2>2. CASE g # f
    <3>1. from'[g][i] = from[g][i] /\ fp'[g] = fp[g]
      BY <1>13, <1>14, <2>2
    <3>2. Accounted(g, i, l)
      BY <3>1, FilesFacts DEF IInv, NoGap
    <3> QED BY <1>16, <2>1, <3>2
  <2>3. CASE g = f
    <3>1. i = ino /\ l > start /\ l <= pos
      BY <1>4, <1>7, <1>13, <1>14, <2>1, <2>3
    <3>2. lines # <<>> /\ reads
      BY <1>4, <1>6, <1>9, <2>1, <3>1
    <3>3. pos = Len(content[ino])
      <4>1. Len(lines) # 0
        BY <1>6, <3>2
      <4> QED BY <1>6, <1>8, <3>2, <4>1
    <3>4. l \in start + 1 .. Len(content[ino]) /\ content[ino][l] = l
      BY <1>4, <1>5, <1>10, <2>1, <3>1, <3>3
    <3>5. IsPrinted(f, ino, l)'
      BY <1>16, <3>2, <3>4 DEF outside, inodes
    <3> QED BY <2>3, <3>1, <3>5 DEF Accounted
  <2> QED BY <2>2, <2>3
<1>26. RotationComplete'
  <2> SUFFICES ASSUME NEW g \in Files, NEW i \in Inodes, from'[g][i] # Never, fp'[g].ino # i,
                      i \notin cut \cup bad \cup early, NEW l \in from'[g][i] + 1 .. moved[i]
               PROVE  Accounted(g, i, l)'
    BY <1>1 DEF RotationComplete, outside, inodes, names
  <2>1. from'[g][i] = from[g][i] /\ fp[g].ino # i
    BY <1>13, <1>14
  <2>2. l \in Nat
    <3>1. from[g][i] \in Nat /\ moved[i] \in Int
      BY <1>2, <2>1 DEF Never
    <3> QED BY <2>1, <3>1
  <2>3. Accounted(g, i, l)
    BY <2>1 DEF IInv, RotationComplete
  <2> QED BY <1>16, <2>2, <2>3
<1>27. Headed'
  <2>1. NumFiles > 1 => last = NumFiles /\ last' = NumFiles /\ header' = f
    BY <1>1, <1>15 DEF IInv, Headed
  <2> QED BY <1>1, <1>17, <2>1 DEF Headed, Following
<1>28. Watching'
  BY <1>17 DEF Watching
<1> QED
  BY <1>16, <1>18, <1>19, <1>20, <1>21, <1>22, <1>23, <1>24, <1>25, <1>26, <1>27, <1>28 DEF IInv

-----------------------------------------------------------------------------
(* The steps of the other processes                                        *)

\* What any of them leaves right.
LEMMA OutsideStep ==
  ASSUME IInv, UNCHANGED <<opt, program>>, cut \subseteq cut', unlinked \subseteq unlinked'
  PROVE  /\ UNCHANGED <<opt, pc, idx, fp, size, tmp, evChange, ev, action, watches, last, header, out,
                        skipped, from, absent>>
         /\ NoGap' /\ InOrderOnce' /\ HeaderRight' /\ Headed' /\ Watching'
         /\ \A g \in Files, i \in Inodes, l \in Nat : Accounted(g, i, l) => Accounted(g, i, l)'
<1>1. UNCHANGED <<opt, pc, idx, fp, size, tmp, evChange, ev, action, watches, last, header, out,
                  skipped, from, absent>>
  BY DEF program, loop, files, behind
<1>2. NoGap'
  BY <1>1 DEF IInv, NoGap, Accounted, IsPrinted
<1>3. InOrderOnce' /\ HeaderRight'
  BY <1>1 DEF IInv, InOrderOnce, HeaderRight
<1>4. Headed' /\ Watching'
  BY <1>1 DEF IInv, Headed, Watching, Armed
<1>5. \A g \in Files, i \in Inodes, l \in Nat : Accounted(g, i, l) => Accounted(g, i, l)'
  BY <1>1 DEF Accounted, IsPrinted
<1> QED BY <1>1, <1>2, <1>3, <1>4, <1>5

\* RotationComplete holds as long as no name is lost.
LEMMA OutsideRotation ==
  ASSUME IInv, UNCHANGED <<opt, program>>, UNCHANGED moved,
         cut \subseteq cut', bad \subseteq bad', early \subseteq early'
  PROVE  RotationComplete'
<1>1. UNCHANGED <<fp, from, out, skipped>>
  BY DEF program, files, behind
<1> QED BY <1>1 DEF IInv, RotationComplete, Accounted, IsPrinted

\* The names stay what they are.
LEMMA SameNames ==
  ASSUME IInv, UNCHANGED <<opt, program>>, UNCHANGED <<dir, fresh>>, bad \subseteq bad'
  PROVE  Owned' /\ Left' /\ Compared'
<1>1. UNCHANGED <<pc, idx, fp, tmp, from>>
  BY DEF program, loop, files, behind
<1>2. Owned'
  BY <1>1 DEF IInv, Owned, Holds
<1>3. Left' /\ Compared'
  BY <1>1 DEF IInv, Left, Compared
<1> QED BY <1>2, <1>3

\* The kernel's queue keeps its type.
LEMMA QueuedFacts ==
  ASSUME IInv, NEW ino \in Inodes, NEW kind \in {"modify", "move"}
  PROVE  Queued(ino, kind) \in Seq([ino : watches, kind : {"modify", "move"}])
<1> DEFINE E == [ino : watches, kind : {"modify", "move"}]
<1>1. queue \in Seq(E)
  BY DEF IInv, Types
<1>2. CASE Queued(ino, kind) = queue
  BY <1>1, <1>2
<1>3. CASE Queued(ino, kind) = Append(queue, Event(ino, kind)) /\ ino \in watches
  <2>1. Event(ino, kind) \in E
    BY <1>3 DEF Event
  <2> HIDE DEF E
  <2>2. Append(queue, Event(ino, kind)) \in Seq(E)
    BY <1>1, <2>1
  <2> QED BY <1>3, <2>2 DEF E
<1> QED BY <1>2, <1>3 DEF Queued

LEMMA SpendFacts ==
  ASSUME IInv, NEW kind \in {"append", "truncate", "move", "unlink", "create", "fail"}, Spend(kind)
  PROVE  left' \in Scenario
<1>1. left \in Scenario
  BY DEF IInv, Types
<1>2. left[kind] \in Nat
  BY <1>1 DEF Scenario
<1>3. left[kind] > 0 /\ left' = [left EXCEPT ![kind] = left[kind] - 1]
  BY DEF Spend
<1>4. left[kind] - 1 \in Nat
  BY <1>2, <1>3
<1> QED BY <1>1, <1>3, <1>4 DEF Scenario

LEMMA AppendLineStep ==
  ASSUME IInv, UNCHANGED <<opt, program>>, NEW ino \in Inodes, AppendLine(ino)
  PROVE  IInv'
<1>1. /\ written' = [written EXCEPT ![ino] = written[ino] + 1]
      /\ content' = [content EXCEPT ![ino] = Append(content[ino], written[ino] + 1)]
      /\ queue' = Queued(ino, "modify") /\ Spend("append")
      /\ early' = (IF \E f \in Files : fp[f].ino = ino /\ fp[f].eof
                   THEN early \cup {ino} ELSE early)
      /\ UNCHANGED <<unlinked, bad, dir, fresh, moved, cut>>
  BY DEF AppendLine, names
<1>2. /\ content \in [Inodes -> Seq(Nat)] /\ written \in [Inodes -> Nat]
      /\ fp \in [Files -> Descriptor] /\ out \in Seq(Line)
  BY DEF IInv, Types
<1>3. PICK old, n : old = content[ino] /\ n = written[ino] /\ old \in Seq(Nat) /\ n \in Nat
  BY <1>2
<1>4. PICK new : new = Append(old, n + 1)
  OBVIOUS
<1>5. /\ new \in Seq(Nat) /\ Len(new) = Len(old) + 1 /\ new[Len(old) + 1] = n + 1
      /\ \A k \in 1 .. Len(old) : new[k] = old[k]
  <2>1. old \in Seq(Nat) /\ n + 1 \in Nat
    BY <1>3
  <2> QED BY <1>4, <2>1
<1>6. /\ content' \in [Inodes -> Seq(Nat)] /\ written' \in [Inodes -> Nat]
      /\ content'[ino] = new /\ written'[ino] = n + 1
      /\ \A i \in Inodes : i # ino => content'[i] = content[i] /\ written'[i] = written[i]
      /\ \A i \in Inodes : written'[i] >= written[i]
  <2>1. content' = [content EXCEPT ![ino] = new]
    BY <1>1, <1>3, <1>4
  <2>2. written' = [written EXCEPT ![ino] = n + 1]
    BY <1>1, <1>3
  <2> QED BY <1>2, <1>3, <1>5, <2>1, <2>2
<1>7. /\ UNCHANGED <<opt, pc, idx, fp, size, tmp, evChange, ev, action, watches, last, header, out,
                     skipped, from, absent>>
      /\ NoGap' /\ InOrderOnce' /\ HeaderRight' /\ Headed' /\ Watching'
  BY <1>1, OutsideStep
<1>8. Types'
  <2>1. early' \subseteq Inodes
    BY <1>1 DEF IInv, Types
  <2>2. left' \in Scenario
    BY <1>1, SpendFacts
  <2>3. queue' \in Seq([ino : watches, kind : {"modify", "move"}])
    BY <1>1, QueuedFacts
  <2> QED BY <1>1, <1>6, <1>7, <2>1, <2>2, <2>3 DEF IInv, Types
<1>9. ContentRight'
  <2> SUFFICES ASSUME NEW i \in Inodes
               PROVE  /\ \A k \in 1 .. Len(content'[i]) : content'[i][k] \in 1 .. written'[i]
                      /\ \A j, k \in 1 .. Len(content'[i]) : j < k => content'[i][j] < content'[i][k]
                      /\ i \notin cut => /\ Len(content'[i]) = written'[i]
                                         /\ \A k \in 1 .. Len(content'[i]) : content'[i][k] = k
                      /\ moved[i] <= written'[i]
    BY <1>1 DEF ContentRight
  <2>1. /\ \A k \in 1 .. Len(content[i]) : content[i][k] \in 1 .. written[i]
        /\ \A j, k \in 1 .. Len(content[i]) : j < k => content[i][j] < content[i][k]
        /\ i \notin cut => /\ Len(content[i]) = written[i]
                           /\ \A k \in 1 .. Len(content[i]) : content[i][k] = k
        /\ moved[i] <= written[i]
    BY DEF IInv, ContentRight
  <2>2. CASE i # ino
    BY <1>6, <2>1, <2>2
  <2>3. CASE i = ino
    <3>1. Len(old) \in Nat /\ \A k \in 1 .. Len(new) : k \in 1 .. Len(old) \/ k = Len(old) + 1
      BY <1>3, <1>5
    <3>2. \A k \in 1 .. Len(new) : new[k] \in 1 .. n + 1
      <4>1. \A k \in 1 .. Len(old) : old[k] \in 1 .. n
        BY <1>3, <2>1, <2>3
      <4>2. \A k \in 1 .. Len(old) : new[k] \in 1 .. n + 1
        <5>1. \A m \in 1 .. n : m \in 1 .. n + 1
          BY <1>3
        <5> QED BY <1>5, <4>1, <5>1
      <4>3. new[Len(old) + 1] \in 1 .. n + 1
        BY <1>3, <1>5
      <4> QED BY <3>1, <4>2, <4>3
    <3>3. ASSUME NEW j \in 1 .. Len(new), NEW k \in 1 .. Len(new), j < k PROVE new[j] < new[k]
      <4>1. j \in 1 .. Len(old)
        BY <1>5, <3>1, <3>3
      <4>2. new[j] = old[j] /\ old[j] \in 1 .. n
        BY <1>3, <1>5, <2>1, <2>3, <4>1
      <4>3. CASE k \in 1 .. Len(old)
        BY <1>3, <1>5, <2>1, <2>3, <3>3, <4>1, <4>3
      <4>4. CASE k = Len(old) + 1
        <5>1. new[k] = n + 1 /\ new[j] \in 1 .. n
          BY <1>5, <4>2, <4>4
        <5> QED BY <1>3, <5>1
      <4> QED BY <3>1, <4>3, <4>4
    <3>4. i \notin cut => Len(new) = n + 1 /\ \A k \in 1 .. Len(new) : new[k] = k
      BY ZenonT(30), <1>3, <1>5, <2>1, <2>3, <3>1
    <3>5. moved[i] <= n + 1
      <4>1. moved[i] \in Int /\ moved[i] <= n
        BY <1>3, <2>1, <2>3 DEF IInv, Types, Never
      <4> QED BY <1>3, <4>1
    <3> QED BY <1>6, <2>3, <3>2, <3>3, <3>4, <3>5
  <2> QED BY <2>2, <2>3
<1>10. Owned' /\ Left' /\ Compared' /\ RotationComplete'
  BY <1>1, SameNames, OutsideRotation
<1>11. Started'
  <2>1. \A f \in Files : fp[f].ino \notin cut \cup {None} /\ size[f] <= written[fp[f].ino] =>
          size[f] <= written'[fp[f].ino]
    BY SMTT(30), <1>2, <1>6 DEF IInv, Types, Descriptor
  <2> QED BY <1>1, <1>7, <2>1 DEF IInv, Started
<1>12. Positions'
  <2> SUFFICES ASSUME NEW f \in Files, fp[f].ino \notin cut \cup {None}
               PROVE  /\ fp[f].pos <= written'[fp[f].ino]
                      /\ fp[f].eof /\ fp[f].ino \notin early' => fp[f].pos = written'[fp[f].ino]
    BY <1>1, <1>7 DEF Positions
  <2>1. /\ fp[f].pos <= written[fp[f].ino] /\ fp[f].ino \in Inodes /\ fp[f].pos \in Nat
        /\ fp[f].eof /\ fp[f].ino \notin early => fp[f].pos = written[fp[f].ino]
    BY <1>2 DEF IInv, Positions, Descriptor
  <2>2. CASE fp[f].ino # ino
    BY <1>1, <1>6, <2>1, <2>2
  <2>3. CASE fp[f].ino = ino
    <3>1. fp[f].eof => ino \in early'
      BY <1>1, <2>3
    <3> QED BY <1>3, <1>6, <2>1, <2>3, <3>1
  <2> QED BY <2>2, <2>3
<1>13. \A k \in 1 .. Len(out) : out[k].ino \in Inodes /\ out[k].line \in Nat
  <2>1. \A k \in 1 .. Len(out) : out[k] \in Line
    BY <1>2
  <2> QED BY <2>1 DEF Line
<1>14. Sound'
  <2>1. \A k \in 1 .. Len(out) : out[k].line <= written'[out[k].ino]
    BY <1>2, <1>6, <1>13 DEF IInv, Sound
  <2> QED BY <1>7, <2>1 DEF IInv, Sound
<1>15. Ahead'
  <2> SUFFICES ASSUME NEW f \in Files, NEW k \in 1 .. Len(out), out[k].file = f,
                      out[k].ino = fp[f].ino, fp[f].ino \notin bad \cup unlinked,
                      NEW p \in fp[f].pos + 1 .. Len(content'[fp[f].ino])
               PROVE  out[k].line < content'[fp[f].ino][p]
    BY <1>1, <1>7 DEF Ahead
  <2>1. fp[f].ino \in Inodes /\ fp[f].pos \in Nat
    BY <1>2, <1>13 DEF Descriptor
  <2>2. CASE fp[f].ino # ino \/ p <= Len(old)
    <3>1. CASE fp[f].ino # ino
      <4>1. content'[fp[f].ino] = content[fp[f].ino]
        BY <1>6, <2>1, <3>1
      <4> QED BY <4>1 DEF IInv, Ahead
    <3>2. CASE fp[f].ino = ino /\ p <= Len(old)
      <4>1. Len(old) \in Nat /\ p \in fp[f].pos + 1 .. Len(old) /\ p \in 1 .. Len(old)
        BY <1>3, <2>1, <3>2
      <4>2. content'[fp[f].ino][p] = content[fp[f].ino][p] /\ content[fp[f].ino] = old
        BY <1>3, <1>5, <1>6, <3>2, <4>1
      <4> QED BY <4>1, <4>2 DEF IInv, Ahead
    <3> QED BY <2>2, <3>1, <3>2
  <2>3. CASE fp[f].ino = ino /\ ~(p <= Len(old))
    <3>1. p = Len(old) + 1 /\ content'[ino][p] = n + 1
      <4>1. content'[ino] = new /\ p \in fp[f].pos + 1 .. Len(old) + 1 /\ Len(old) \in Nat
        <5>1. content'[fp[f].ino] = new /\ Len(new) = Len(old) + 1
          BY <1>5, <1>6, <2>3
        <5>2. p \in fp[f].pos + 1 .. Len(old) + 1
          BY <5>1
        <5> QED BY <1>3, <1>6, <5>2
      <4>2. p = Len(old) + 1
        BY <2>1, <2>3, <4>1
      <4> QED BY <1>5, <4>1, <4>2
    <3>2. out[k].line <= n
      <4>1. out[k].line <= written[out[k].ino]
        BY DEF IInv, Sound
      <4> QED BY <1>3, <2>3, <4>1
    <3> QED BY <1>3, <1>13, <2>3, <3>1, <3>2
  <2> QED BY <2>2, <2>3
<1> QED BY <1>7, <1>8, <1>9, <1>10, <1>11, <1>12, <1>14, <1>15 DEF IInv
LEMMA TruncateStep ==
  ASSUME IInv, UNCHANGED <<opt, program>>, NEW ino \in Inodes, Truncate(ino)
  PROVE  IInv'
<1>1. /\ content' = [content EXCEPT ![ino] = <<>>] /\ cut' = cut \cup {ino}
      /\ queue' = Queued(ino, "modify") /\ Spend("truncate")
      /\ UNCHANGED <<written, unlinked, bad, dir, fresh, moved, early>>
  BY DEF Truncate, names
<1>2. /\ content \in [Inodes -> Seq(Nat)] /\ written \in [Inodes -> Nat]
      /\ fp \in [Files -> Descriptor]
  BY DEF IInv, Types
<1>3. /\ content' \in [Inodes -> Seq(Nat)] /\ content'[ino] = <<>>
      /\ \A i \in Inodes : i # ino => content'[i] = content[i]
  BY <1>1, <1>2
<1>4. /\ UNCHANGED <<opt, pc, idx, fp, size, tmp, evChange, ev, action, watches, last, header, out,
                     skipped, from, absent>>
      /\ NoGap' /\ InOrderOnce' /\ HeaderRight' /\ Headed' /\ Watching'
  BY <1>1, OutsideStep
<1>5. Types'
  <2>1. cut' \subseteq Inodes
    BY <1>1 DEF IInv, Types
  <2>2. left' \in Scenario
    BY <1>1, SpendFacts
  <2>3. queue' \in Seq([ino : watches, kind : {"modify", "move"}])
    BY <1>1, QueuedFacts
  <2> QED BY <1>1, <1>3, <1>4, <2>1, <2>2, <2>3 DEF IInv, Types
<1>6. ContentRight'
  <2> SUFFICES ASSUME NEW i \in Inodes
               PROVE  /\ \A k \in 1 .. Len(content'[i]) : content'[i][k] \in 1 .. written[i]
                      /\ \A j, k \in 1 .. Len(content'[i]) : j < k => content'[i][j] < content'[i][k]
                      /\ i \notin cut' => /\ Len(content'[i]) = written[i]
                                          /\ \A k \in 1 .. Len(content'[i]) : content'[i][k] = k
                      /\ moved[i] <= written[i]
    BY <1>1 DEF ContentRight
  <2>1. CASE i # ino
    <3>1. content'[i] = content[i] /\ (i \notin cut' => i \notin cut)
      BY <1>1, <1>3, <2>1
    <3> QED BY <3>1 DEF IInv, ContentRight
  <2>2. CASE i = ino
    <3>1. i \in cut' /\ content'[i] = <<>>
      BY <1>1, <1>3, <2>2
    <3>2. moved[i] <= written[i]
      BY DEF IInv, ContentRight
    <3> QED BY <3>1, <3>2
  <2> QED BY <2>1, <2>2
<1>7. Owned' /\ Left' /\ Compared' /\ RotationComplete'
  BY <1>1, SameNames, OutsideRotation
<1>8. Started'
  BY <1>1, <1>4 DEF IInv, Started
<1>9. Positions'
  BY <1>1, <1>4 DEF IInv, Positions
<1>10. Sound'
  BY <1>1, <1>4 DEF IInv, Sound
<1>11. Ahead'
  <2> SUFFICES ASSUME NEW f \in Files, NEW k \in 1 .. Len(out), out[k].file = f,
                      out[k].ino = fp[f].ino, fp[f].ino \notin bad \cup unlinked,
                      NEW p \in fp[f].pos + 1 .. Len(content'[fp[f].ino])
               PROVE  out[k].line < content'[fp[f].ino][p]
    BY <1>1, <1>4 DEF Ahead
  <2>1. fp[f].ino # ino
    BY <1>2, <1>3 DEF Descriptor
  <2>2. fp[f].ino \in Inodes
    <3>1. out[k] \in Line
      BY DEF IInv, Types
    <3> QED BY <3>1 DEF Line
  <2>3. content'[fp[f].ino] = content[fp[f].ino]
    BY <1>3, <2>1, <2>2
  <2> QED BY <2>3 DEF IInv, Ahead
<1> QED BY <1>4, <1>5, <1>6, <1>7, <1>8, <1>9, <1>10, <1>11 DEF IInv

\* A name is lost: what is in the inode then is what has to come out of it.
LEMMA LoseNameStep ==
  ASSUME IInv, UNCHANGED <<opt, program>>, NEW f \in Files, LoseName(f), left' \in Scenario,
         unlinked \subseteq unlinked', unlinked' \subseteq Inodes,
         queue' \in Seq([ino : watches, kind : {"modify", "move"}])
  PROVE  IInv'
<1>1. PICK ino : ino = dir[f]
  OBVIOUS
<1>2. /\ dir' = [dir EXCEPT ![f] = None] /\ ino # None
      /\ moved' = [moved EXCEPT ![ino] = written[ino]]
      /\ UNCHANGED <<content, written, bad, fresh, cut, early>>
  BY <1>1 DEF LoseName
<1>3. /\ dir \in [Files -> Inodes \cup {None}] /\ ino \in Inodes /\ written \in [Inodes -> Nat]
      /\ moved \in [Inodes -> Nat \cup {Never}] /\ fp \in [Files -> Descriptor]
  BY <1>1, <1>2 DEF IInv, Types
<1>4. /\ dir' \in [Files -> Inodes \cup {None}] /\ dir'[f] = None
      /\ \A g \in Files : g # f => dir'[g] = dir[g]
      /\ moved' \in [Inodes -> Nat \cup {Never}] /\ moved'[ino] = written[ino]
      /\ \A i \in Inodes : i # ino => moved'[i] = moved[i]
  BY <1>2, <1>3
<1>5. /\ UNCHANGED <<opt, pc, idx, fp, size, tmp, evChange, ev, action, watches, last, header, out,
                     skipped, from, absent>>
      /\ NoGap' /\ InOrderOnce' /\ HeaderRight' /\ Headed' /\ Watching'
      /\ \A g \in Files, i \in Inodes, l \in Nat : Accounted(g, i, l) => Accounted(g, i, l)'
  BY <1>2, OutsideStep
<1>6. Types'
  BY <1>2, <1>4, <1>5 DEF IInv, Types
<1>7. ContentRight'
  <2>1. \A i \in Inodes : moved'[i] <= written[i]
    BY <1>3, <1>4 DEF IInv, ContentRight
  <2> QED BY <1>2, <2>1 DEF IInv, ContentRight
<1>8. Owned'
  <2>1. \A g \in Files, i \in Inodes : Holds(g, i)' => Holds(g, i)
    BY <1>4, <1>5, FilesFacts DEF Holds
  <2> QED BY <1>2, <2>1 DEF IInv, Owned
<1>9. Started'
  BY <1>2, <1>5 DEF IInv, Started
<1>10. \A g \in Files, i \in Inodes : dir'[g] = i => dir[g] = i
  BY <1>4, FilesFacts
<1>11. Left'
  BY <1>2, <1>5, <1>10 DEF IInv, Left
<1>12. Compared'
  <2>1. pc = "compare" => idx \in Files /\ fp[idx].ino \in Inodes
    BY <1>3 DEF IInv, Types, Compared, Descriptor
  <2> QED BY <1>2, <1>5, <1>10, <2>1 DEF IInv, Compared
<1>13. Positions' /\ Sound'
  BY <1>2, <1>5 DEF IInv, Positions, Sound
<1>14. Ahead'
  BY <1>2, <1>5 DEF IInv, Ahead
<1>15. RotationComplete'
  <2> SUFFICES ASSUME NEW g \in Files, NEW i \in Inodes, from[g][i] # Never, fp[g].ino # i,
                      i \notin cut \cup bad \cup early, NEW l \in from[g][i] + 1 .. moved'[i]
               PROVE  Accounted(g, i, l)'
    BY <1>2, <1>5 DEF RotationComplete
  <2>1. i # ino
    <3>1. dir[g] # i
      BY DEF IInv, Left
    <3>2. i = ino => g = f
      BY <1>1, <1>3 DEF IInv, Owned, Holds
    <3> QED BY <1>1, <3>1, <3>2
  <2>2. moved'[i] = moved[i]
    BY <1>4, <2>1
  <2>3. Accounted(g, i, l)
    BY <2>2 DEF IInv, RotationComplete
  <2>4. l \in Nat
    <3>1. from[g][i] \in Nat /\ moved[i] \in Int
      BY SMTT(30), <1>3 DEF IInv, Types, Never
    <3> QED BY <2>2, <3>1
  <2> QED BY <1>5, <2>3, <2>4
<1> QED BY <1>5, <1>6, <1>7, <1>8, <1>9, <1>11, <1>12, <1>13, <1>14, <1>15 DEF IInv

LEMMA RenameStep ==
  ASSUME IInv, UNCHANGED <<opt, program>>, NEW f \in Files, Rename(f)
  PROVE  IInv'
<1>1. LoseName(f) /\ left' \in Scenario /\ unlinked' = unlinked /\ unlinked \subseteq Inodes
  BY SpendFacts DEF Rename, IInv, Types
<1>2. dir[f] \in Inodes
  BY <1>1 DEF LoseName, IInv, Types
<1>3. queue' \in Seq([ino : watches, kind : {"modify", "move"}])
  BY <1>2, QueuedFacts DEF Rename, IInv, Types
<1> QED BY <1>1, <1>3, LoseNameStep

LEMMA UnlinkStep ==
  ASSUME IInv, UNCHANGED <<opt, program>>, NEW f \in Files, Unlink(f)
  PROVE  IInv'
<1>1. /\ LoseName(f) /\ left' \in Scenario
      /\ unlinked' = unlinked \cup {dir[f]} /\ queue' = queue
  BY SpendFacts DEF Unlink
<1>2. dir[f] \in Inodes
  BY <1>1 DEF LoseName, IInv, Types
<1>3. unlinked' \subseteq Inodes /\ queue' \in Seq([ino : watches, kind : {"modify", "move"}])
  BY <1>1, <1>2 DEF IInv, Types
<1> QED BY <1>1, <1>3, LoseNameStep
LEMMA CreateStep ==
  ASSUME IInv, UNCHANGED <<opt, program>>, NEW f \in Files, Create(f)
  PROVE  IInv'
<1>1. /\ dir[f] = None /\ fresh \in Inodes /\ dir' = [dir EXCEPT ![f] = fresh]
      /\ fresh' = fresh + 1 /\ Spend("create")
      /\ UNCHANGED <<content, written, unlinked, bad, moved, cut, queue, early>>
  BY DEF Create, inodes
<1>2. /\ dir \in [Files -> Inodes \cup {None}] /\ fresh \in Nat /\ fp \in [Files -> Descriptor]
      /\ Inodes \subseteq Nat
  BY <1>1, FilesFacts DEF IInv, Types
<1>3. /\ dir' \in [Files -> Inodes \cup {None}] /\ dir'[f] = fresh
      /\ \A g \in Files : g # f => dir'[g] = dir[g]
  BY <1>1, <1>2
<1>4. /\ UNCHANGED <<opt, pc, idx, fp, size, tmp, evChange, ev, action, watches, last, header, out,
                     skipped, from, absent>>
      /\ NoGap' /\ InOrderOnce' /\ HeaderRight' /\ Headed' /\ Watching'
  BY <1>1, OutsideStep
<1>5. Types'
  <2>1. left' \in Scenario
    BY <1>1, SpendFacts
  <2>2. fresh' \in 1 .. NumInodes + 1
    BY <1>1, FilesFacts DEF Inodes
  <2> QED BY <1>1, <1>3, <1>4, <2>1, <2>2 DEF IInv, Types
<1>6. \A g \in Files, i \in Inodes : Holds(g, i) => i < fresh /\ i # fresh
  BY <1>2 DEF IInv, Owned
<1>7. \A g \in Files, i \in Inodes : Holds(g, i)' => Holds(g, i) \/ (g = f /\ i = fresh)
  BY <1>3, <1>4 DEF Holds
<1>8. Owned'
  <2> SUFFICES ASSUME NEW g \in Files, NEW i \in Inodes, Holds(g, i)'
               PROVE  i < fresh' /\ \A h \in Files : Holds(h, i)' => h = g
    BY DEF Owned
  <2>1. CASE Holds(g, i)
    <3>1. i < fresh /\ i # fresh
      BY <1>6, <2>1
    <3>2. \A h \in Files : Holds(h, i)' => h = g
      BY <1>7, <2>1, <3>1 DEF IInv, Owned
    <3> QED BY <1>1, <1>2, <3>1, <3>2
  <2>2. CASE g = f /\ i = fresh
    <3>1. \A h \in Files : Holds(h, i)' => h = g
      BY <1>6, <1>7, <2>2
    <3> QED BY <1>1, <1>2, <2>2, <3>1
  <2> QED BY <1>7, <2>1, <2>2
<1>9. Left'
  <2> SUFFICES ASSUME NEW g \in Files, NEW i \in Inodes, from[g][i] # Never, fp[g].ino # i, i \notin bad
               PROVE  dir'[g] # i
    BY <1>1, <1>4 DEF Left
  <2>1. dir[g] # i
    BY DEF IInv, Left
  <2>2. i # fresh
    BY <1>6 DEF Holds
  <2> QED BY <1>3, <2>1, <2>2
<1>10. Compared'
  <2> SUFFICES ASSUME pc = "compare", tmp # fp[idx].ino
               PROVE  dir'[idx] # fp[idx].ino
    BY <1>1, <1>4 DEF IInv, Compared
  <2>1. idx \in Files /\ fp[idx].ino \in Inodes /\ dir[idx] # fp[idx].ino
    BY <1>2 DEF IInv, Types, Compared, Descriptor
  <2>2. fp[idx].ino # fresh
    BY <1>6, <2>1 DEF Holds
  <2> QED BY <1>3, <2>1, <2>2
<1>11. ContentRight' /\ Started' /\ Positions' /\ Sound'
  BY <1>1, <1>4 DEF IInv, ContentRight, Started, Positions, Sound
<1>12. Ahead'
  BY <1>1, <1>4 DEF IInv, Ahead
<1>13. RotationComplete'
  BY <1>1, OutsideRotation
<1> QED BY <1>4, <1>5, <1>8, <1>9, <1>10, <1>11, <1>12, <1>13 DEF IInv

LEMMA FailStep ==
  ASSUME IInv, UNCHANGED <<opt, program>>, NEW ino \in Inodes, Fail(ino)
  PROVE  IInv'
<1>1. /\ bad' = bad \cup {ino} /\ Spend("fail")
      /\ UNCHANGED <<content, written, unlinked, dir, fresh, moved, cut, queue, early>>
  BY DEF Fail, names
<1>2. /\ UNCHANGED <<opt, pc, idx, fp, size, tmp, evChange, ev, action, watches, last, header, out,
                     skipped, from, absent>>
      /\ NoGap' /\ InOrderOnce' /\ HeaderRight' /\ Headed' /\ Watching'
  BY <1>1, OutsideStep
<1>3. Types'
  <2>1. left' \in Scenario
    BY <1>1, SpendFacts
  <2>2. bad' \subseteq Inodes
    BY <1>1 DEF IInv, Types
  <2> QED BY <1>1, <1>2, <2>1, <2>2 DEF IInv, Types
<1>4. Owned' /\ Left' /\ Compared' /\ RotationComplete'
  BY <1>1, SameNames, OutsideRotation
<1>5. ContentRight' /\ Started' /\ Positions' /\ Sound'
  BY <1>1, <1>2 DEF IInv, ContentRight, Started, Positions, Sound
<1>6. Ahead'
  BY <1>1, <1>2 DEF IInv, Ahead
<1> QED BY <1>2, <1>3, <1>4, <1>5, <1>6 DEF IInv

-----------------------------------------------------------------------------
(* The invariant and the theorems                                          *)

LEMMA InitStep == Init => IInv
<1> SUFFICES ASSUME Init PROVE IInv
  OBVIOUS
<1>1. /\ opt \in Options /\ left \in Scenarios /\ Scenarios \subseteq Scenario
      /\ written = [ino \in Inodes |-> 0] /\ content = [ino \in Inodes |-> <<>>]
      /\ unlinked = {} /\ bad = {} /\ fresh = NumFiles + 1 /\ pc = "open" /\ idx = 1
      /\ fp = [f \in Files |-> NoFile] /\ size = [f \in Files |-> 0]
      /\ tmp = None /\ evChange = FALSE
      /\ ev = [f \in Files |-> [wd |-> None, armed |-> FALSE]]
      /\ action = "USE_SLEEP" /\ watches = {} /\ queue = <<>>
      /\ last = NumFiles /\ header = None /\ out = <<>> /\ skipped = {}
      /\ from = [f \in Files |-> [ino \in Inodes |-> Never]]
      /\ moved = [ino \in Inodes |-> Never]
      /\ cut = {} /\ early = {} /\ absent = {}
  BY FollowAssumption DEF Init
<1>2. \A f \in Files : dir[f] = f \/ dir[f] = None
  BY DEF Init
<1>3. dir \in [Files -> Inodes \cup {None}]
  BY FilesFacts DEF Init
<1>4. Types
  <2>1. fp \in [Files -> Descriptor] /\ \A f \in Files : fp[f].ino = None => fp[f] = NoFile
    BY <1>1 DEF Descriptor, NoFile
  <2>2. fresh \in 1 .. NumInodes + 1
    BY <1>1, FilesFacts
  <2>3. queue \in Seq([ino : watches, kind : {"modify", "move"}]) /\ out \in Seq(Line)
    BY <1>1
  <2>4. content \in [Inodes -> Seq(Nat)] /\ written \in [Inodes -> Nat] /\ size \in [Files -> Nat]
    BY <1>1
  <2>5. ev \in [Files -> [wd : Inodes \cup {None}, armed : BOOLEAN]]
    BY <1>1
  <2>6. from \in [Files -> [Inodes -> Nat \cup {Never}]] /\ moved \in [Inodes -> Nat \cup {Never}]
    BY <1>1
  <2>7. idx \in Files /\ last \in Files
    BY <1>1, FilesFacts
  <2> QED BY <1>1, <1>3, <2>1, <2>2, <2>3, <2>4, <2>5, <2>6, <2>7 DEF Types
<1>5. ContentRight
  BY <1>1 DEF ContentRight, Never
<1>6. \A f \in Files : fp[f].ino = None /\ \A ino \in Inodes : from[f][ino] = Never
  BY <1>1 DEF NoFile
<1>7. Owned
  <2>1. \A f \in Files, ino \in Inodes : Holds(f, ino) => f = ino
    BY <1>1, <1>2, <1>6, FilesFacts DEF Holds
  <2>2. \A f \in Files : f < fresh
    BY <1>1, FilesFacts
  <2> QED BY <2>1, <2>2 DEF Owned
<1>8. Started
  BY <1>1, <1>6, FilesFacts DEF Started, Following
<1>9. Left /\ Compared /\ Positions
  BY <1>1, <1>6 DEF Left, Compared, Positions
<1>10. Sound /\ Ahead
  BY <1>1 DEF Sound, Ahead
<1>11. Headed /\ Watching
  BY <1>1 DEF Headed, Watching, Following
<1>12. NoGap /\ RotationComplete
  BY <1>6 DEF NoGap, RotationComplete
<1>13. InOrderOnce /\ HeaderRight
  BY <1>1 DEF InOrderOnce, HeaderRight
<1> QED
  BY <1>4, <1>5, <1>7, <1>8, <1>9, <1>10, <1>11, <1>12, <1>13 DEF IInv

LEMMA StutterStep ==
  ASSUME IInv, UNCHANGED vars
  PROVE  IInv'
<1>1. UNCHANGED outside /\ UNCHANGED <<loop, files, notify, printed, behind>>
  BY DEF vars
<1>2. UNCHANGED <<opt, dir, content, written, unlinked, bad, fresh, left, pc, idx, fp, size, tmp,
                  evChange, ev, action, watches, queue, last, header, out, early, skipped, from,
                  moved, cut, absent>>
  BY <1>1 DEF outside, inodes, names, loop, files, notify, printed, behind
<1>3. Types'
  BY <1>2 DEF IInv, Types
<1>4. ContentRight' /\ Owned' /\ Started' /\ Left' /\ Compared'
  BY <1>2 DEF IInv, ContentRight, Owned, Holds, Started, Left, Compared
<1>5. Positions' /\ Sound' /\ Ahead' /\ Headed' /\ Watching'
  BY <1>2 DEF IInv, Positions, Sound, Ahead, Headed, Watching, Armed
<1>6. NoGap' /\ InOrderOnce' /\ RotationComplete' /\ HeaderRight'
  BY <1>2 DEF IInv, NoGap, InOrderOnce, RotationComplete, HeaderRight, Accounted, IsPrinted
<1> QED BY <1>3, <1>4, <1>5, <1>6 DEF IInv

LEMMA ProgramStep ==
  ASSUME IInv, Program
  PROVE  IInv'
<1>1. UNCHANGED outside
  BY DEF Program
<1>2. CASE \E f \in Files :
          \/ PassOver(f) \/ OpenFile(f) \/ Forward(f) \/ Watch(f)
          \/ CheckName(f) \/ OpenName(f) \/ CompareName(f) \/ ShowFile(f)
          \/ Reposition(f) \/ Die(f)
  <2>1. PICK f \in Files :
          \/ PassOver(f) \/ OpenFile(f) \/ Forward(f) \/ Watch(f)
          \/ CheckName(f) \/ OpenName(f) \/ CompareName(f) \/ ShowFile(f)
          \/ Reposition(f) \/ Die(f)
    BY <1>2
  <2>2. CASE PassOver(f)
    BY <1>1, <2>2, PassOverStep
  <2>3. CASE OpenFile(f)
    BY <1>1, <2>3, OpenFileStep
  <2>4. CASE Forward(f)
    BY <1>1, <2>4, ForwardStep
  <2>5. CASE Watch(f)
    BY <1>1, <2>5, WatchStep
  <2>6. CASE CheckName(f)
    BY <1>1, <2>6, FirstOpenStep, CloseNameStep
  <2>7. CASE OpenName(f)
    BY <1>1, <2>7, OpenNameStep
  <2>8. CASE CompareName(f)
    BY <1>1, <2>8, SameNameStep, ReplacedStep
  <2>9. CASE ShowFile(f)
    BY <1>1, <2>9, ShowFileStep
  <2>10. CASE Reposition(f)
    BY <1>1, <2>10, RepositionStep
  <2>11. CASE Die(f)
    BY <1>1, <2>11, DieStep
  <2> QED
    BY <2>1, <2>2, <2>3, <2>4, <2>5, <2>6, <2>7, <2>8, <2>9, <2>10, <2>11
<1>3. CASE SetEvents
  BY <1>1, <1>3, SetEventsStep
<1>4. CASE Pause
  BY <1>1, <1>4, PauseStep
<1>5. CASE IgnoreEvent
  BY <1>1, <1>5, IgnoreEventStep
<1>6. CASE StatSource
  BY <1>1, <1>6, StatSourceStep
<1> QED BY <1>2, <1>3, <1>4, <1>5, <1>6 DEF Program

LEMMA EnvironmentStep ==
  ASSUME IInv, Environment
  PROVE  IInv'
<1>1. UNCHANGED <<opt, program>>
  BY DEF Environment
<1>2. ASSUME NEW ino \in Inodes, AppendLine(ino) \/ Truncate(ino) \/ Fail(ino)
      PROVE  IInv'
  BY <1>1, <1>2, AppendLineStep, TruncateStep, FailStep
<1>3. ASSUME NEW f \in Files, Rename(f) \/ Unlink(f) \/ Create(f)
      PROVE  IInv'
  BY <1>1, <1>3, RenameStep, UnlinkStep, CreateStep
<1> QED BY <1>2, <1>3 DEF Environment

THEOREM Invariance == Spec => []IInv
<1>1. IInv /\ [Next]_vars => IInv'
  <2> SUFFICES ASSUME IInv, [Next]_vars PROVE IInv'
    OBVIOUS
  <2>1. CASE Program
    BY <2>1, ProgramStep
  <2>2. CASE Environment
    BY <2>2, EnvironmentStep
  <2>3. CASE UNCHANGED vars
    BY <2>3, StutterStep
  <2> QED BY <2>1, <2>2, <2>3 DEF Next, Stopped
<1> QED BY InitStep, <1>1, PTL DEF Spec

\* Every variable of the model keeps its type: no loop leaves the files of
\* the command line, no event is queued without a watch (forward.c:250-277),
\* and every line in a file was written there.
THEOREM TypeCorrect == Spec => []TypeOK
<1>1. IInv => TypeOK
  <2> SUFFICES ASSUME IInv PROVE TypeOK
    OBVIOUS
  <2>1. \A ino \in Inodes : \A k \in DOMAIN content[ino] : content[ino][k] \in 1 .. written[ino]
    <3>1. \A ino \in Inodes : DOMAIN content[ino] = 1 .. Len(content[ino])
      BY DEF IInv, Types
    <3> QED BY <3>1 DEF IInv, ContentRight
  <2>2. \A k \in DOMAIN queue : queue[k].ino \in watches
    <3> DEFINE E == [ino : watches, kind : {"modify", "move"}]
    <3>1. queue \in Seq(E)
      BY DEF IInv, Types
    <3> HIDE DEF E
    <3>2. \A k \in DOMAIN queue : queue[k] \in E
      BY <3>1
    <3> QED BY <3>2 DEF E
  <2> QED BY <2>1, <2>2 DEF IInv, Types, TypeOK, Following
<1> QED BY <1>1, Invariance, PTL

\* tail prints what the files hold, whatever the writers do between any two
\* of its system calls and however often files are truncated, renamed,
\* removed and made anew: no gap but by a reposition, no line twice (unless
\* its file was unlinked), nothing of a file it has left behind missing, and
\* every line under its header (forward() and follow(), forward.c).
THEOREM PrintsTheLines == Spec => []LinesRight
<1>1. IInv => LinesRight
  BY DEF IInv, LinesRight
<1> QED BY <1>1, Invariance, PTL

\* The reposition of follow() (forward.c:520-537) jumps over a line of a file
\* that was never truncated only if it was appended after the fstat() that
\* found the file not longer than what had been read.
THEOREM NothingOldIsSkipped == Spec => SkipsOnlyNew
<1>1. IInv /\ [Next]_vars
        => [\A e \in skipped' \ skipped : e[2] \in cut \/ e[3] > size[e[1]]]_vars
  <2> SUFFICES ASSUME IInv, Next
               PROVE  \A e \in skipped' \ skipped : e[2] \in cut \/ e[3] > size[e[1]]
    OBVIOUS
  <2>1. CASE skipped' = skipped
    BY <2>1
  <2>2. CASE skipped' # skipped
    <3>1. Program
      BY <2>2 DEF Next, Environment, Stopped, vars, program, behind
    <3>2. UNCHANGED outside /\ \E f \in Files : Reposition(f)
      BY <2>2, <3>1 DEF Program, PassOver, OpenFile, Forward, Watch, CheckName, OpenName, CompareName,
            ShowFile, Die, SetEvents, Pause, IgnoreEvent, StatSource, TakeEvent, behind
    <3> QED BY <3>2, RepositionStep
  <2> QED BY <2>1, <2>2
<1> QED BY <1>1, Invariance, PTL DEF Spec, SkipsOnlyNew

=============================================================================
